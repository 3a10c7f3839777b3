----------------------- MODULE VerificationLinksProofs -----------------------
(***************************************************************************)
(* Proofs about VerificationLinks, for any number of links, verifications, *)
(* journeys and addresses, and for any lifetimes that the service accepts. *)
(***************************************************************************)
EXTENDS VerificationLinks, FiniteSetTheorems, TLAPS

-----------------------------------------------------------------------------
(* Types                                                                   *)

LEMMA TypeInit == Init => TypeOK
BY ClockAssumption DEF Init, TypeOK, Verdicts

\* What the steps of the records make is a record.
LEMMA NewRecordType ==
    ASSUME NEW a \in Ask
    PROVE  NewRecord(a) \in Record
BY DEF Ask, NewRecord, Record, Status

LEMMA WithStatusType ==
    ASSUME NEW d \in Record, NEW s \in Status
    PROVE  [d EXCEPT !.status = s] \in Record
BY DEF Record

LEMMA VerifiedType ==
    ASSUME NEW d \in Record, NEW time \in Nat
    PROVE  [d EXCEPT !.status = "verified", !.verifiedAt = time] \in Record
BY DEF Record, Status

\* An activation that holds its locks makes records of records.
LEMMA ActivatedType ==
    ASSUME LinksInv, NEW l \in Link, Commit(l)
    PROVE  rec' \in [Link -> Record \cup {None}]
<1>1. TypeOK /\ LocksKept(l) /\ pc[l] = "written"
  BY DEF LinksInv, LinkInv, Commit
<1>2. HasStatus(rec[l], "sending") /\ \A m \in locked[l] \ {l} : HasStatus(rec[m], "pending")
  BY <1>1 DEF LocksKept
<1>3. \A m \in locked[l] \cup {l} : rec[m] # None
  BY <1>2 DEF HasStatus
<1>4. \A m \in Link : Activated(l)[m] \in Record \cup {None}
  <2> SUFFICES ASSUME NEW m \in Link PROVE Activated(l)[m] \in Record \cup {None}
    OBVIOUS
  <2>1. rec[m] \in Record \cup {None}
    BY <1>1 DEF TypeOK
  <2>2. CASE m \in locked[l] \cup {l}
    <3>1. rec[m] \in Record
      BY <1>3, <2>1, <2>2
    <3> QED BY <2>2, <3>1, WithStatusType DEF Activated, Status
  <2>3. CASE m \notin locked[l] \cup {l}
    BY <2>1, <2>3 DEF Activated
  <2> QED BY <2>2, <2>3
<1> QED BY <1>4 DEF Commit, Activated

LEMMA TypeStep == LinksInv /\ [Next]_vars => TypeOK'
<1> SUFFICES ASSUME LinksInv, [Next]_vars PROVE TypeOK'
  OBVIOUS
<1>t. TypeOK
  BY DEF LinksInv
<1> USE DEF requesting, verifying
<1>1. CASE UNCHANGED vars
  BY <1>t, <1>1 DEF TypeOK, vars
<1>2. CASE Tick
  BY <1>t, <1>2, ClockAssumption DEF TypeOK, Tick
<1>3. ASSUME NEW l \in Link, NEW j \in Journey, NEW e \in Email, Request(l, j, e)
      PROVE  TypeOK'
  BY <1>t, <1>3, ClockAssumption DEF TypeOK, Request, Ask
<1>4. ASSUME NEW l \in Link,
             \/ Refuse(l) \/ Deliver(l) \/ NotifyAnswers(l) \/ SendFails(l)
             \/ FreeCooldown(l) \/ UndoEnds(l)
      PROVE  TypeOK'
  BY <1>t, <1>4 DEF TypeOK, Refuse, Deliver, NotifyAnswers, SendFails, FreeCooldown, UndoEnds
<1>5. ASSUME NEW l \in Link, Grant(l)
      PROVE  TypeOK'
  BY <1>t, <1>5 DEF TypeOK, Grant
<1>6. ASSUME NEW l \in Link, Insert(l)
      PROVE  TypeOK'
  <2>1. asked[l] \in Ask
    BY <1>6 DEF LinksInv, LinkInv, RequestKnown, Insert
  <2>2. NewRecord(asked[l]) \in Record
    BY <2>1, NewRecordType
  <2> QED BY <1>t, <1>6, <2>2 DEF TypeOK, Insert
<1>7. ASSUME NEW l \in Link, DropRecord(l) \/ Purge(l)
      PROVE  TypeOK'
  BY <1>t, <1>7 DEF TypeOK, DropRecord, Purge
<1>8. ASSUME NEW l \in Link, Mark(l) \/ WriteRecords(l) \/ Abort(l)
      PROVE  TypeOK'
  <2>1. Touched(l) \in SUBSET Link
    BY DEF Touched, Superseded
  <2>2. CASE Mark(l)
    BY <1>t, <2>2 DEF TypeOK, Mark
  <2>3. CASE WriteRecords(l)
    BY <1>t, <2>1, <2>3 DEF TypeOK, WriteRecords
  <2>4. CASE Abort(l)
    BY <1>t, <2>4 DEF TypeOK, Abort, NoSnapshot
  <2> QED BY <1>8, <2>2, <2>3, <2>4
<1>9. ASSUME NEW l \in Link, Commit(l)
      PROVE  TypeOK'
  BY <1>t, <1>9, ActivatedType DEF TypeOK, Commit, NoSnapshot
<1>10. ASSUME NEW v \in Verifier, NEW l \in Link, Open(v, l)
       PROVE  TypeOK'
  BY <1>t, <1>10, ClockAssumption DEF TypeOK, Open
<1>11. ASSUME NEW v \in Verifier, MarkVerified(v)
       PROVE  TypeOK'
  <2> DEFINE l == vlink[v]
  <2>1. l \in Link /\ vtime[v] \in Nat
    <3>1. l \in delivered
      BY <1>11 DEF LinksInv, VerifierKnown, MarkVerified
    <3> QED BY <1>t, <3>1 DEF TypeOK
  <2>2. CASE Verifiable(rec[l], vtime[v])
    <3>1. rec[l] \in Record
      BY <1>t, <2>1, <2>2 DEF TypeOK, Verifiable, HasStatus
    <3>2. [rec[l] EXCEPT !.status = "verified", !.verifiedAt = vtime[v]] \in Record
      BY <2>1, <3>1, VerifiedType
    <3>3. /\ rec' = [rec EXCEPT ![l] = [rec[l] EXCEPT !.status = "verified",
                                                    !.verifiedAt = vtime[v]]]
          /\ vpc' = [vpc EXCEPT ![v] = "done"]
          /\ verdict' = [verdict EXCEPT ![v] = "verified"]
          /\ wins' = [wins EXCEPT ![l] = @ + 1]
          /\ proof' = [proof EXCEPT ![l] = vtime[v]]
          /\ UNCHANGED <<clock, replica, requesting, vlink, vtime>>
      BY <1>t, <1>11, <2>1, <2>2 DEF TypeOK, MarkVerified
    <3> QED BY <1>t, <2>1, <3>2, <3>3 DEF TypeOK, Verdicts
  <2>3. CASE ~Verifiable(rec[l], vtime[v])
    BY <1>t, <1>11, <2>3 DEF TypeOK, MarkVerified
  <2> QED BY <2>2, <2>3
<1>12. ASSUME NEW v \in Verifier, ReadReason(v) \/ Answer(v)
       PROVE  TypeOK'
  <2>1. Rejection(replica[vlink[v]], vtime[v]) \in Verdicts
    BY DEF Rejection, Verdicts
  <2>2. "none" \in Verdicts
    BY DEF Verdicts
  <2>3. CASE ReadReason(v)
    BY <1>t, <2>1, <2>3 DEF TypeOK, ReadReason
  <2>4. CASE Answer(v)
    BY <1>t, <2>2, <2>4 DEF TypeOK, Answer
  <2> QED BY <1>12, <2>3, <2>4
<1>13. CASE Replicate
  BY <1>t, <1>13 DEF TypeOK, Replicate
<1> QED BY <1>1, <1>2, <1>3, <1>4, <1>5, <1>6, <1>7, <1>8, <1>9, <1>10, <1>11, <1>12, <1>13
        DEF Next

-----------------------------------------------------------------------------
(* Steps that leave the records alone                                      *)

\* A request may move on, short of its activation.
Moves(from, to) ==
    \/ from = to
    \/ from = "asking" /\ to = "inserting"
    \/ from \in {"asking", "inserting", "sending", "undoing"}
       /\ to \in {"activating", "undoing", "failed"}

\* A request moves on, an email arrives, time passes or the secondary catches up.
LEMMA QuietStep ==
    ASSUME LinksInv, TypeOK',
           UNCHANGED <<rec, snapshot, locked, asked, wins, proof>>,
           clock' >= clock, replica' \in {replica, rec}, delivered \subseteq delivered',
           \A l \in delivered' \ delivered : pc[l] = "sending" /\ pc'[l] = pc[l],
           \A l \in Link : Moves(pc[l], pc'[l]),
           \A v \in Verifier : VerifierKnown(v)'
    PROVE  LinksInv'
<1>1. TypeOK /\ \A l \in Link : LinkInv(l)
  BY DEF LinksInv
<1>2. \A l \in Link : LinkInv(l)'
  <2> SUFFICES ASSUME NEW l \in Link PROVE LinkInv(l)'
    OBVIOUS
  <2>1. LinkInv(l) /\ Moves(pc[l], pc'[l])
    BY <1>1
  <2>3. CopiesTrue(l)'
    <3>1. VersionOf(l, rec[l]) /\ VersionOf(l, replica[l]) /\ \A m \in Link : VersionOf(l, snapshot[m][l])
      BY <2>1 DEF LinkInv, CopiesTrue
    <3>2. VersionOf(l, rec[l])' /\ \A m \in Link : VersionOf(l, snapshot[m][l])'
      BY <2>1, <3>1 DEF VersionOf, Moves
    <3>3. VersionOf(l, replica[l])'
      BY <2>1, <3>1 DEF VersionOf, Moves
    <3> QED BY <3>2, <3>3 DEF CopiesTrue
  <2>4. RequestKnown(l)'
    <3>1. clock \in Nat /\ clock' \in Nat /\ (asked[l] \in Ask => asked[l].at \in Nat)
      BY <1>1, ClockAssumption DEF TypeOK, Ask
    <3> QED BY <2>1, <3>1 DEF LinkInv, RequestKnown, Moves
  <2>5. ProofKept(l)'
    <3>1. clock \in Nat /\ clock' \in Nat /\ asked[l].at \in Nat
      BY <1>1, ClockAssumption DEF TypeOK, Ask, NoAsk
    <3>2. ProofKept(l)
      BY <2>1 DEF LinkInv
    <3> QED BY <3>1, <3>2, RetentionAssumption DEF ProofKept, HasStatus
  <2>6. MarkerKept(l)'
    BY <1>1, <2>1 DEF LinkInv, MarkerKept, Activating, HasStatus, Moves
  <2>7. LocksKept(l)'
    BY <2>1 DEF LinkInv, LocksKept, Touched, Superseded, HasStatus, Moves
  <2> QED BY <2>3, <2>4, <2>5, <2>6, <2>7 DEF LinkInv
<1>3. OnlyLive'
  BY DEF LinksInv, OnlyLive, HasStatus
<1>4. NeverWithoutLink'
  <2>1. \A m \in Link : asked[m].at \in Nat
    BY <1>1 DEF TypeOK, Ask, NoAsk
  <2>2. clock \in Nat /\ clock' \in Nat
    BY <1>1, ClockAssumption DEF TypeOK
  <2>3. \A m \in Link : /\ pc'[m] = "sent" => pc[m] = "sent"
                        /\ pc[m] \in {"sent", "failed"} => pc'[m] = pc[m]
    BY DEF Moves
  <2> QED BY <2>1, <2>2, <2>3, RetentionAssumption DEF LinksInv, NeverWithoutLink, HasStatus
<1> QED BY <1>2, <1>3, <1>4 DEF LinksInv

\* The facts about types that the steps below keep needing.
LEMMA Known ==
    ASSUME LinksInv
    PROVE  /\ clock \in Nat
           /\ \A l \in Link : asked[l].at \in Nat
           /\ \A l \in Link : rec[l] # None => rec[l] \in Record
           /\ \A l \in Link : LinkInv(l)
<1>1. TypeOK
  BY DEF LinksInv
<1>2. clock \in Nat
  BY <1>1, ClockAssumption DEF TypeOK
<1>3. \A l \in Link : asked[l].at \in Nat
  BY <1>1 DEF TypeOK, Ask, NoAsk
<1>4. \A l \in Link : rec[l] # None => rec[l] \in Record
  BY <1>1 DEF TypeOK
<1> QED BY <1>2, <1>3, <1>4 DEF LinksInv

-----------------------------------------------------------------------------
(* Steps that change a record                                              *)

LEMMA InsertStep ==
    ASSUME LinksInv, TypeOK', NEW l \in Link, Insert(l)
    PROVE  LinksInv'
<1> USE DEF requesting, verifying
<1>1. TypeOK /\ \A k \in Link : LinkInv(k)
  BY DEF LinksInv
<1>2. /\ pc[l] = "inserting" /\ pc' = [pc EXCEPT ![l] = "sending"]
      /\ rec' = [rec EXCEPT ![l] = NewRecord(asked[l])]
      /\ UNCHANGED <<clock, replica, granted, asked, delivered, snapshot, locked, vpc, vlink,
                     vtime, verdict, wins, proof>>
  BY DEF Insert
<1>3. rec[l] = None /\ rec'[l] = NewRecord(asked[l])
  BY <1>1, <1>2 DEF LinkInv, CopiesTrue, VersionOf, TypeOK
<1>4. \A k \in Link \ {l} : rec'[k] = rec[k] /\ pc'[k] = pc[k]
  BY <1>1, <1>2 DEF TypeOK
<1>5. pc'[l] = "sending" /\ HasStatus(rec'[l], "sending")
  <2>1. asked[l] \in Ask
    BY <1>1, <1>2 DEF LinkInv, RequestKnown
  <2>2. NewRecord(asked[l]) # None
    BY <2>1, NewRecordType, NoRecordAssumption
  <2> QED BY <1>1, <1>2, <1>3, <2>2 DEF TypeOK, HasStatus, NewRecord
<1>6. \A k \in Link : LinkInv(k)'
  <2> SUFFICES ASSUME NEW k \in Link PROVE LinkInv(k)'
    OBVIOUS
  <2>1. LinkInv(k)
    BY <1>1
  <2>2. CopiesTrue(k)'
    <3>1. VersionOf(k, rec[k])'
      BY <1>2, <1>3, <1>4, <1>5, <2>1 DEF LinkInv, CopiesTrue, VersionOf, NewRecord
    <3>2. VersionOf(k, replica[k])' /\ \A m \in Link : VersionOf(k, snapshot[m][k])'
      BY <1>2, <1>4, <1>5, <2>1 DEF LinkInv, CopiesTrue, VersionOf
    <3> QED BY <3>1, <3>2 DEF CopiesTrue
  <2>3. RequestKnown(k)'
    BY <1>2, <1>4, <1>5, <2>1 DEF LinkInv, RequestKnown, HasStatus
  <2>4. ProofKept(k)'
    BY <1>2, <1>3, <1>4, <2>1 DEF LinkInv, ProofKept, HasStatus, RequestKnown
  <2>5. MarkerKept(k)'
    BY <1>2, <1>4, <1>5, <2>1 DEF LinkInv, MarkerKept, Activating, HasStatus
  <2>6. LocksKept(k)'
    <3>1. k # l \/ pc'[k] = "sending"
      BY <1>5
    <3>2. pc[k] = "written" => k # l /\ l \notin locked[k]
      BY <1>2, <1>3, <2>1 DEF LinkInv, LocksKept, HasStatus
    <3> QED BY <1>2, <1>4, <1>5, <2>1, <3>2 DEF LinkInv, LocksKept, Touched, Superseded, HasStatus
  <2> QED BY <2>2, <2>3, <2>4, <2>5, <2>6 DEF LinkInv
<1>7. OnlyLive'
  BY <1>2, <1>4, <1>5 DEF LinksInv, OnlyLive, HasStatus
<1>8. NeverWithoutLink'
  BY <1>2, <1>3, <1>4, <1>5 DEF LinksInv, NeverWithoutLink, HasStatus
<1>9. \A v \in Verifier : VerifierKnown(v)'
  BY <1>2 DEF LinksInv, VerifierKnown
<1> QED BY <1>6, <1>7, <1>8, <1>9 DEF LinksInv

\* A record that nobody has locked is dropped before it went live, or purged.
LEMMA RemoveStep ==
    ASSUME LinksInv, TypeOK', NEW l \in Link, rec[l] # None,
           \/ pc[l] = "undoing" /\ rec[l].status = "sending"
           \/ ~Locked(l) /\ PurgeAt(rec[l]) <= clock,
           rec' = [rec EXCEPT ![l] = None],
           UNCHANGED <<clock, replica, requesting, verifying>>
    PROVE  LinksInv'
<1> USE DEF requesting, verifying
<1>1. TypeOK /\ \A k \in Link : LinkInv(k)
  BY DEF LinksInv
<1>2. rec'[l] = None /\ \A k \in Link \ {l} : rec'[k] = rec[k]
  BY <1>1 DEF TypeOK
<1>3. \A k \in Link : l \notin locked[k]
  BY <1>1 DEF Locked, LinkInv, LocksKept, HasStatus, Touched, Superseded
<1>4. rec[l].status = "sending" \/ asked[l].at + Retention <= clock
  BY <1>1 DEF PurgeAt, LinkInv, CopiesTrue, VersionOf
<1>5. \A k \in Link : LinkInv(k)'
  <2> SUFFICES ASSUME NEW k \in Link PROVE LinkInv(k)'
    OBVIOUS
  <2>1. LinkInv(k)
    BY <1>1
  <2>2. CopiesTrue(k)'
    BY <1>2, <2>1 DEF LinkInv, CopiesTrue, VersionOf
  <2>3. RequestKnown(k)'
    BY <1>2, <2>1 DEF LinkInv, RequestKnown
  <2>4. ProofKept(k)'
    BY <1>2, <1>4, <2>1 DEF LinkInv, ProofKept, HasStatus
  <2>5. MarkerKept(k)'
    BY <1>2, <2>1 DEF LinkInv, MarkerKept, HasStatus
  <2>6. LocksKept(k)'
    <3>1. pc[k] = "written" => l # k
      BY <1>3, <2>1 DEF LinkInv, LocksKept, Touched
    <3> QED BY <1>2, <1>3, <2>1, <3>1 DEF LinkInv, LocksKept, Touched, Superseded, HasStatus
  <2> QED BY <2>2, <2>3, <2>4, <2>5, <2>6 DEF LinkInv
<1>6. OnlyLive'
  BY <1>2 DEF LinksInv, OnlyLive, HasStatus
<1>7. NeverWithoutLink'
  <2> SUFFICES ASSUME NEW k \in Link, pc[k] = "sent"
               PROVE  \E m \in Link :
                        /\ asked[m].journey = asked[k].journey
                        /\ \/ HasStatus(rec'[m], "pending") \/ HasStatus(rec'[m], "verified")
                           \/ pc[m] \in {"sent", "failed"} /\ asked[m].at + Retention <= clock
    BY DEF NeverWithoutLink, HasStatus
  <2>1. PICK m \in Link :
          /\ asked[m].journey = asked[k].journey
          /\ \/ HasStatus(rec[m], "pending") \/ HasStatus(rec[m], "verified")
             \/ pc[m] \in {"sent", "failed"} /\ asked[m].at + Retention <= clock
    BY DEF LinksInv, NeverWithoutLink
  <2>2. HasStatus(rec[m], "pending") \/ HasStatus(rec[m], "verified") => pc[m] \in {"sent", "failed"}
    BY <1>1 DEF LinkInv, RequestKnown, HasStatus
  <2> QED BY <1>2, <1>4, <2>1, <2>2 DEF HasStatus
<1>8. \A v \in Verifier : VerifierKnown(v)'
  BY DEF LinksInv, VerifierKnown
<1> QED BY <1>5, <1>6, <1>7, <1>8 DEF LinksInv

\* A verification succeeds: the record of the link was live and is nobody's.
LEMMA VerifiedStep ==
    ASSUME LinksInv, TypeOK', NEW v \in Verifier, NEW l \in Link, l = vlink[v],
           vpc[v] = "marking", ~Locked(l), Verifiable(rec[l], vtime[v]), MarkVerified(v)
    PROVE  LinksInv'
<1> USE DEF requesting
<1>1. TypeOK /\ \A k \in Link : LinkInv(k)
  BY DEF LinksInv
<1> DEFINE d == [rec[l] EXCEPT !.status = "verified", !.verifiedAt = vtime[v]]
<1>2. /\ rec' = [rec EXCEPT ![l] = d]
      /\ vpc' = [vpc EXCEPT ![v] = "done"]
      /\ wins' = [wins EXCEPT ![l] = @ + 1]
      /\ proof' = [proof EXCEPT ![l] = vtime[v]]
      /\ UNCHANGED <<clock, replica, requesting, vlink, vtime>>
  BY <1>1 DEF MarkVerified, TypeOK
<1>3. /\ rec[l] \in Record /\ rec[l] # None /\ rec[l].status = "pending"
      /\ vtime[v] \in Nat /\ vtime[v] # None /\ vtime[v] < rec[l].createdAt + LinkTtl
  <2>1. rec[l] \in Record /\ rec[l] # None /\ rec[l].status = "pending"
    BY <1>1 DEF Verifiable, HasStatus, TypeOK
  <2>2. vtime[v] \in Nat /\ vtime[v] # None
    BY <1>1, NoneAssumption DEF TypeOK
  <2>3. rec[l].createdAt \in Nat /\ rec[l].createdAt + LinkTtl > vtime[v]
    BY <2>1 DEF Verifiable, ExpiresAt, Record
  <2> QED BY <2>1, <2>2, <2>3, RetentionAssumption
<1>4. /\ d # None /\ d.status = "verified" /\ d.verifiedAt = vtime[v]
      /\ d.journey = rec[l].journey /\ d.email = rec[l].email /\ d.createdAt = rec[l].createdAt
  <2>1. d \in Record
    BY <1>3, VerifiedType
  <2> QED BY <1>3, <2>1, NoRecordAssumption DEF Record
<1>5. /\ rec'[l] = d /\ proof'[l] = vtime[v] /\ wins'[l] = wins[l] + 1
      /\ \A k \in Link \ {l} : rec'[k] = rec[k] /\ proof'[k] = proof[k] /\ wins'[k] = wins[k]
  BY <1>1, <1>2 DEF TypeOK
<1>6. proof[l] = None /\ l \in delivered /\ pc[l] \in {"sent", "failed"}
  <2>1. l \in delivered
    BY DEF LinksInv, VerifierKnown
  <2> QED BY <1>1, <1>3, <2>1 DEF LinkInv, ProofKept, RequestKnown, HasStatus
<1>7. \A k \in Link : LinkInv(k)'
  <2> SUFFICES ASSUME NEW k \in Link PROVE LinkInv(k)'
    OBVIOUS
  <2>1. LinkInv(k)
    BY <1>1
  <2>2. CopiesTrue(k)'
    <3>1. VersionOf(k, rec[k])'
      BY <1>2, <1>3, <1>4, <1>5, <2>1 DEF LinkInv, CopiesTrue, VersionOf
    <3>2. VersionOf(k, replica[k])' /\ \A m \in Link : VersionOf(k, snapshot[m][k])'
      BY <1>2, <1>5, <1>6, <2>1 DEF LinkInv, CopiesTrue, VersionOf
    <3> QED BY <3>1, <3>2 DEF CopiesTrue
  <2>3. RequestKnown(k)'
    BY <1>2, <1>5, <1>6, <2>1 DEF LinkInv, RequestKnown
  <2>4. ProofKept(k)'
    <3>1. CASE k = l
      <4>1. wins'[l] = 1 /\ proof'[l] # None
        BY <1>3, <1>5, <1>6, <2>1, <3>1 DEF LinkInv, ProofKept
      <4>2. proof'[l] < asked[l].at + LinkTtl
        BY <1>3, <1>5, <2>1, <3>1 DEF LinkInv, CopiesTrue, VersionOf
      <4>3. HasStatus(rec'[l], "verified")
        BY <1>4, <1>5 DEF HasStatus
      <4> QED BY <1>2, <1>6, <3>1, <4>1, <4>2, <4>3 DEF ProofKept, HasStatus
    <3>2. CASE k # l
      BY <1>2, <1>5, <2>1, <3>2 DEF LinkInv, ProofKept, HasStatus
    <3> QED BY <3>1, <3>2
  <2>5. MarkerKept(k)'
    BY <1>2, <1>4, <1>5, <2>1 DEF LinkInv, MarkerKept, Activating, HasStatus
  <2>6. LocksKept(k)'
    <3>1. l \notin locked[k]
      BY DEF Locked
    <3>2. pc[k] = "written" => k # l
      BY <1>6
    <3> QED BY <1>2, <1>5, <2>1, <3>1, <3>2 DEF LinkInv, LocksKept, Touched, Superseded, HasStatus
  <2> QED BY <2>2, <2>3, <2>4, <2>5, <2>6 DEF LinkInv
<1>8. OnlyLive'
  BY <1>2, <1>4, <1>5 DEF LinksInv, OnlyLive, HasStatus
<1>9. NeverWithoutLink'
  BY <1>2, <1>4, <1>5 DEF LinksInv, NeverWithoutLink, HasStatus
<1>10. \A w \in Verifier : VerifierKnown(w)'
  BY <1>1, <1>2 DEF LinksInv, VerifierKnown, TypeOK
<1> QED BY <1>7, <1>8, <1>9, <1>10 DEF LinksInv

-----------------------------------------------------------------------------
(* The steps of an activation                                              *)

\* The marker is free: no other activation of the journey is open, and the
\* snapshot is the records as they are.
LEMMA MarkStep ==
    ASSUME LinksInv, TypeOK', NEW l \in Link, Mark(l)
    PROVE  LinksInv'
<1> USE DEF verifying
<1>1. TypeOK /\ \A k \in Link : LinkInv(k)
  BY DEF LinksInv
<1>2. /\ pc[l] = "activating" /\ pc' = [pc EXCEPT ![l] = "marked"]
      /\ snapshot' = [snapshot EXCEPT ![l] = rec]
      /\ UNCHANGED <<clock, rec, replica, granted, asked, delivered, locked, verifying>>
  BY DEF Mark
<1>3. /\ pc'[l] = "marked" /\ snapshot'[l] = rec
      /\ \A k \in Link \ {l} : pc'[k] = pc[k] /\ snapshot'[k] = snapshot[k]
  BY <1>1, <1>2 DEF TypeOK
<1>4. \A m \in Link \ {l} : pc[m] \in Activating => asked[m].journey # asked[l].journey
  BY DEF Mark, MarkerHeld, Activating
<1>5. \A k \in Link : LinkInv(k)'
  <2> SUFFICES ASSUME NEW k \in Link PROVE LinkInv(k)'
    OBVIOUS
  <2>1. LinkInv(k)
    BY <1>1
  <2>2. CopiesTrue(k)'
    BY <1>2, <1>3, <2>1 DEF LinkInv, CopiesTrue, VersionOf
  <2>3. RequestKnown(k)'
    BY <1>2, <1>3, <2>1 DEF LinkInv, RequestKnown
  <2>4. ProofKept(k)'
    BY <1>2, <2>1 DEF LinkInv, ProofKept, HasStatus
  <2>5. MarkerKept(k)'
    <3>1. CASE k = l
      BY <1>2, <1>3, <1>4, <3>1 DEF MarkerKept, Activating, HasStatus
    <3>2. CASE k # l
      BY <1>2, <1>3, <1>4, <2>1, <3>2 DEF LinkInv, MarkerKept, Activating, HasStatus
    <3> QED BY <3>1, <3>2
  <2>6. LocksKept(k)'
    BY <1>2, <1>3, <2>1 DEF LinkInv, LocksKept, Touched, Superseded, HasStatus
  <2> QED BY <2>2, <2>3, <2>4, <2>5, <2>6 DEF LinkInv
<1>6. OnlyLive'
  BY <1>2 DEF LinksInv, OnlyLive, HasStatus
<1>7. NeverWithoutLink'
  BY <1>2, <1>3 DEF LinksInv, NeverWithoutLink, HasStatus
<1>8. \A v \in Verifier : VerifierKnown(v)'
  BY <1>2 DEF LinksInv, VerifierKnown
<1> QED BY <1>5, <1>6, <1>7, <1>8 DEF LinksInv

\* Nothing that is written changed since the snapshot, or is locked.
LEMMA WriteStep ==
    ASSUME LinksInv, TypeOK', NEW l \in Link, WriteRecords(l)
    PROVE  LinksInv'
<1> USE DEF verifying
<1>1. TypeOK /\ \A k \in Link : LinkInv(k)
  BY DEF LinksInv
<1>2. /\ pc[l] = "marked" /\ pc' = [pc EXCEPT ![l] = "written"]
      /\ locked' = [locked EXCEPT ![l] = Touched(l)]
      /\ UNCHANGED <<clock, rec, replica, granted, asked, delivered, snapshot, verifying>>
  BY DEF WriteRecords
<1>3. /\ pc'[l] = "written" /\ locked'[l] = Touched(l)
      /\ \A k \in Link \ {l} : pc'[k] = pc[k] /\ locked'[k] = locked[k]
  BY <1>1, <1>2 DEF TypeOK
<1>4. \A m \in Touched(l) : m \in Link /\ rec[m] = snapshot[l][m] /\ \A k \in Link : m \notin locked[k]
  BY DEF WriteRecords, Conflicts, Locked, Touched, Superseded
<1>5. \A k \in Link : LinkInv(k)'
  <2> SUFFICES ASSUME NEW k \in Link PROVE LinkInv(k)'
    OBVIOUS
  <2>1. LinkInv(k)
    BY <1>1
  <2>2. CopiesTrue(k)'
    BY <1>2, <1>3, <2>1 DEF LinkInv, CopiesTrue, VersionOf
  <2>3. RequestKnown(k)'
    BY <1>2, <1>3, <2>1 DEF LinkInv, RequestKnown
  <2>4. ProofKept(k)'
    BY <1>2, <2>1 DEF LinkInv, ProofKept, HasStatus
  <2>5. MarkerKept(k)'
    BY <1>2, <1>3, <2>1 DEF LinkInv, MarkerKept, Activating, HasStatus
  <2>6. LocksKept(k)'
    <3>1. CASE k = l
      <4>1. l \in Touched(l) /\ HasStatus(rec[l], "sending")
        BY <1>4 DEF WriteRecords, Touched
      <4>2. \A m \in Touched(l) \ {l} : HasStatus(rec[m], "pending")
        BY <1>4 DEF Touched, Superseded
      <4>3. Touched(l)' = Touched(l)
        BY <1>2 DEF Touched, Superseded, HasStatus
      <4>4. \A m \in Link \ {l} : locked'[m] \cap locked'[l] = {}
        BY <1>3, <1>4
      <4> QED BY <1>2, <1>3, <3>1, <4>1, <4>2, <4>3, <4>4 DEF LocksKept, HasStatus
    <3>2. CASE k # l
      <4>1. pc[k] # "written" => locked'[k] = {}
        BY <1>3, <2>1, <3>2 DEF LinkInv, LocksKept
      <4>2. locked'[l] \cap locked'[k] = {}
        BY <1>3, <1>4, <3>2
      <4> QED BY <1>2, <1>3, <2>1, <3>2, <4>1, <4>2
              DEF LinkInv, LocksKept, Touched, Superseded, HasStatus
    <3> QED BY <3>1, <3>2
  <2> QED BY <2>2, <2>3, <2>4, <2>5, <2>6 DEF LinkInv
<1>6. OnlyLive'
  BY <1>2 DEF LinksInv, OnlyLive, HasStatus
<1>7. NeverWithoutLink'
  BY <1>2, <1>3 DEF LinksInv, NeverWithoutLink, HasStatus
<1>8. \A v \in Verifier : VerifierKnown(v)'
  BY <1>2 DEF LinksInv, VerifierKnown
<1> QED BY <1>5, <1>6, <1>7, <1>8 DEF LinksInv

LEMMA AbortStep ==
    ASSUME LinksInv, TypeOK', NEW l \in Link, Abort(l)
    PROVE  LinksInv'
<1> USE DEF verifying
<1>1. TypeOK /\ \A k \in Link : LinkInv(k)
  BY DEF LinksInv
<1>2. /\ pc[l] \in Activating
      /\ pc' = [pc EXCEPT ![l] = "activating"] \/ pc' = [pc EXCEPT ![l] = "failed"]
      /\ locked' = [locked EXCEPT ![l] = {}]
      /\ snapshot' = [snapshot EXCEPT ![l] = NoSnapshot]
      /\ UNCHANGED <<clock, rec, replica, granted, asked, delivered, verifying>>
  BY DEF Abort, Activating
<1>3. /\ pc'[l] \in {"activating", "failed"} /\ locked'[l] = {} /\ snapshot'[l] = NoSnapshot
      /\ \A k \in Link \ {l} :
            pc'[k] = pc[k] /\ locked'[k] = locked[k] /\ snapshot'[k] = snapshot[k]
  BY <1>1, <1>2 DEF TypeOK
<1>4. \A k \in Link : LinkInv(k)'
  <2> SUFFICES ASSUME NEW k \in Link PROVE LinkInv(k)'
    OBVIOUS
  <2>1. LinkInv(k)
    BY <1>1
  <2>2. CopiesTrue(k)'
    BY <1>2, <1>3, <2>1 DEF LinkInv, CopiesTrue, VersionOf, NoSnapshot, Activating
  <2>3. RequestKnown(k)'
    BY <1>2, <1>3, <2>1 DEF LinkInv, RequestKnown, Activating
  <2>4. ProofKept(k)'
    BY <1>2, <2>1 DEF LinkInv, ProofKept, HasStatus
  <2>5. MarkerKept(k)'
    BY <1>2, <1>3, <2>1 DEF LinkInv, MarkerKept, Activating, HasStatus
  <2>6. LocksKept(k)'
    BY <1>2, <1>3, <2>1 DEF LinkInv, LocksKept, Touched, Superseded, HasStatus
  <2> QED BY <2>2, <2>3, <2>4, <2>5, <2>6 DEF LinkInv
<1>5. OnlyLive'
  BY <1>2 DEF LinksInv, OnlyLive, HasStatus
<1>6. NeverWithoutLink'
  BY <1>2, <1>3 DEF LinksInv, NeverWithoutLink, HasStatus, Activating
<1>7. \A v \in Verifier : VerifierKnown(v)'
  BY <1>2 DEF LinksInv, VerifierKnown
<1> QED BY <1>4, <1>5, <1>6, <1>7 DEF LinksInv

\* The journey's live links are all among the locked ones, so only the new link
\* is live afterwards.
LEMMA CommitStep ==
    ASSUME LinksInv, TypeOK', NEW l \in Link, Commit(l)
    PROVE  LinksInv'
<1> USE DEF verifying
<1>1. TypeOK /\ \A k \in Link : LinkInv(k)
  BY DEF LinksInv
<1>2. /\ pc[l] = "written"
      /\ pc' = [pc EXCEPT ![l] = "sent"] \/ pc' = [pc EXCEPT ![l] = "failed"]
      /\ rec' = Activated(l)
      /\ locked' = [locked EXCEPT ![l] = {}]
      /\ snapshot' = [snapshot EXCEPT ![l] = NoSnapshot]
      /\ UNCHANGED <<clock, replica, granted, asked, delivered, verifying>>
  BY DEF Commit
<1>3. /\ pc'[l] \in {"sent", "failed"} /\ locked'[l] = {} /\ snapshot'[l] = NoSnapshot
      /\ \A k \in Link \ {l} :
            pc'[k] = pc[k] /\ locked'[k] = locked[k] /\ snapshot'[k] = snapshot[k]
  BY <1>1, <1>2 DEF TypeOK
<1>4. /\ HasStatus(rec[l], "sending")
      /\ \A m \in locked[l] \ {l} : HasStatus(rec[m], "pending")
      /\ locked[l] = Touched(l)
      /\ \A m \in Link \ {l} : locked[m] \cap locked[l] = {}
  BY <1>1, <1>2 DEF LinkInv, LocksKept
<1>5. \A m \in Link : rec[m] # None => rec[m] \in Record
  BY Known
<1>6. rec'[l] = [rec[l] EXCEPT !.status = "pending"] /\ HasStatus(rec'[l], "pending")
  <2>1. rec'[l] = [rec[l] EXCEPT !.status = "pending"]
    BY <1>2 DEF Activated
  <2>2. rec[l] \in Record
    BY <1>4, <1>5 DEF HasStatus
  <2>3. rec'[l] \in Record
    BY <2>1, <2>2, WithStatusType DEF Status
  <2> QED BY <2>1, <2>2, <2>3, NoRecordAssumption DEF HasStatus, Record
<1>7. \A m \in locked[l] \ {l} :
        /\ rec'[m] = [rec[m] EXCEPT !.status = "superseded"] /\ HasStatus(rec'[m], "superseded")
        /\ asked[m].journey = asked[l].journey
  <2> SUFFICES ASSUME NEW m \in locked[l] \ {l}
               PROVE  /\ rec'[m] = [rec[m] EXCEPT !.status = "superseded"]
                      /\ HasStatus(rec'[m], "superseded")
                      /\ asked[m].journey = asked[l].journey
    OBVIOUS
  <2>1. m \in Link /\ HasStatus(snapshot[l][m], "pending") /\ snapshot[l][m].journey = asked[l].journey
    BY <1>4 DEF Touched, Superseded
  <2>2. asked[m].journey = asked[l].journey
    BY <1>1, <2>1 DEF LinkInv, CopiesTrue, VersionOf, HasStatus
  <2>3. rec'[m] = [rec[m] EXCEPT !.status = "superseded"]
    BY <1>2, <2>1 DEF Activated
  <2>4. rec[m] \in Record
    BY <1>4, <1>5, <2>1 DEF HasStatus
  <2>5. rec'[m] \in Record
    BY <2>3, <2>4, WithStatusType DEF Status
  <2> QED BY <2>2, <2>3, <2>4, <2>5, NoRecordAssumption DEF HasStatus, Record
<1>8. \A m \in Link \ {l} : m \notin locked[l] => rec'[m] = rec[m]
  BY <1>2 DEF Activated
<1>9. \A m \in Link \ {l} :
        asked[m].journey = asked[l].journey => ~HasStatus(rec'[m], "pending")
  <2> SUFFICES ASSUME NEW m \in Link \ {l}, asked[m].journey = asked[l].journey,
                      HasStatus(rec'[m], "pending")
               PROVE  FALSE
    OBVIOUS
  <2>1. m \notin locked[l]
    BY <1>7 DEF HasStatus
  <2>2. HasStatus(snapshot[l][m], "pending")
    BY <1>1, <1>2, <1>8, <2>1 DEF LinkInv, MarkerKept, Activating
  <2>3. snapshot[l][m].journey = asked[l].journey
    BY <1>1, <2>2 DEF LinkInv, CopiesTrue, VersionOf, HasStatus
  <2> QED BY <1>4, <2>1, <2>2, <2>3 DEF Touched, Superseded
<1>10. \A k \in Link : LinkInv(k)'
  <2> SUFFICES ASSUME NEW k \in Link PROVE LinkInv(k)'
    OBVIOUS
  <2>1. LinkInv(k)
    BY <1>1
  <2>2. CopiesTrue(k)'
    <3>1. VersionOf(k, rec[k])'
      <4>1. rec'[k] # None =>
              /\ rec[k] # None
              /\ rec'[k].journey = rec[k].journey /\ rec'[k].email = rec[k].email
              /\ rec'[k].createdAt = rec[k].createdAt
              /\ rec'[k].status = "verified" => rec'[k] = rec[k]
        <5>1. CASE k = l
          BY <1>4, <1>5, <1>6, <5>1 DEF HasStatus, Record
        <5>2. CASE k \in locked[l] \ {l}
          BY <1>4, <1>5, <1>7, <5>2 DEF HasStatus, Record
        <5> QED BY <1>8, <5>1, <5>2
      <4> QED BY <1>2, <1>3, <2>1, <4>1 DEF LinkInv, CopiesTrue, VersionOf
    <3>2. VersionOf(k, replica[k])'
      BY <1>2, <1>3, <2>1 DEF LinkInv, CopiesTrue, VersionOf
    <3>3. \A m \in Link : VersionOf(k, snapshot[m][k])'
      BY <1>2, <1>3, <2>1 DEF LinkInv, CopiesTrue, VersionOf, NoSnapshot
    <3> QED BY <3>1, <3>2, <3>3 DEF CopiesTrue
  <2>3. RequestKnown(k)'
    <3>1. pc'[k] \notin {"sent", "failed"} => k # l /\ k \notin locked[l]
      BY <1>3, <1>4, <2>1 DEF LinkInv, RequestKnown, HasStatus
    <3> QED BY <1>2, <1>3, <1>8, <2>1, <3>1 DEF LinkInv, RequestKnown
  <2>4. ProofKept(k)'
    <3>1. proof[k] # None => k # l /\ k \notin locked[l]
      BY <1>4, <2>1 DEF LinkInv, ProofKept, HasStatus
    <3> QED BY <1>2, <1>8, <2>1, <3>1 DEF LinkInv, ProofKept, HasStatus
  <2>5. MarkerKept(k)'
    <3> SUFFICES ASSUME pc'[k] \in Activating, NEW m \in Link \ {k},
                        asked[m].journey = asked[k].journey
                 PROVE  /\ pc'[m] \notin Activating
                        /\ HasStatus(rec'[m], "pending") => HasStatus(snapshot'[k][m], "pending")
      BY <1>2 DEF MarkerKept, HasStatus, Activating
    <3>1. k # l /\ pc[k] \in Activating /\ snapshot'[k] = snapshot[k]
      BY <1>3 DEF Activating
    <3>2. m # l /\ pc'[m] \notin Activating
      BY <1>2, <1>3, <2>1, <3>1 DEF LinkInv, MarkerKept, Activating
    <3>3. HasStatus(rec'[m], "pending") => rec'[m] = rec[m]
      BY <1>7, <1>8, <3>2 DEF HasStatus
    <3> QED BY <2>1, <3>1, <3>2, <3>3 DEF LinkInv, MarkerKept
  <2>6. LocksKept(k)'
    <3>1. CASE k = l
      BY <1>3, <3>1 DEF LocksKept
    <3>2. CASE k # l
      <4>1. \A m \in locked[k] : m # l /\ m \notin locked[l]
        BY <1>4, <3>2 DEF Touched
      <4>2. pc[k] = "written" =>
              /\ k \in locked[k] /\ locked[k] \subseteq Link
              /\ \A m \in locked[k] : rec'[m] = rec[m]
        BY <1>8, <2>1, <3>2, <4>1 DEF LinkInv, LocksKept, Touched, Superseded
      <4>3. Touched(k)' = Touched(k)
        BY <1>2, <1>3, <3>2 DEF Touched, Superseded, HasStatus
      <4> QED BY <1>3, <2>1, <3>2, <4>2, <4>3 DEF LinkInv, LocksKept, HasStatus
    <3> QED BY <3>1, <3>2
  <2> QED BY <2>2, <2>3, <2>4, <2>5, <2>6 DEF LinkInv
<1>11. OnlyLive'
  <2> SUFFICES ASSUME NEW k \in Link, NEW m \in Link, HasStatus(rec'[k], "pending"),
                      HasStatus(rec'[m], "pending"), asked[k].journey = asked[m].journey
               PROVE  k = m
    BY <1>2 DEF OnlyLive, HasStatus
  <2>1. k = l \/ m = l => k = m
    BY <1>9
  <2>2. k # l /\ m # l => rec'[k] = rec[k] /\ rec'[m] = rec[m]
    BY <1>7, <1>8 DEF HasStatus
  <2> QED BY <2>1, <2>2 DEF LinksInv, OnlyLive
<1>12. NeverWithoutLink'
  <2> SUFFICES ASSUME NEW k \in Link, pc'[k] = "sent"
               PROVE  \E m \in Link :
                        /\ asked[m].journey = asked[k].journey
                        /\ \/ HasStatus(rec'[m], "pending") \/ HasStatus(rec'[m], "verified")
                           \/ pc'[m] \in {"sent", "failed"} /\ asked[m].at + Retention <= clock
    BY <1>2 DEF NeverWithoutLink, HasStatus
  <2>1. CASE asked[l].journey = asked[k].journey
    BY <1>6, <2>1
  <2>2. CASE asked[l].journey # asked[k].journey
    <3>1. PICK m \in Link :
            /\ asked[m].journey = asked[k].journey
            /\ \/ HasStatus(rec[m], "pending") \/ HasStatus(rec[m], "verified")
               \/ pc[m] \in {"sent", "failed"} /\ asked[m].at + Retention <= clock
      BY <1>3, <2>2 DEF LinksInv, NeverWithoutLink
    <3>2. m # l /\ rec'[m] = rec[m] /\ pc'[m] = pc[m]
      BY <1>3, <1>7, <1>8, <2>2, <3>1
    <3> QED BY <3>1, <3>2
  <2> QED BY <2>1, <2>2
<1>13. \A v \in Verifier : VerifierKnown(v)'
  BY <1>2 DEF LinksInv, VerifierKnown
<1> QED BY <1>10, <1>11, <1>12, <1>13 DEF LinksInv

-----------------------------------------------------------------------------
(* The invariant                                                           *)

LEMMA RequestStep ==
    ASSUME LinksInv, TypeOK', NEW l \in Link, NEW j \in Journey, NEW e \in Email,
           Request(l, j, e)
    PROVE  LinksInv'
<1> USE DEF verifying
<1>1. TypeOK /\ \A k \in Link : LinkInv(k)
  BY DEF LinksInv
<1>2. /\ pc[l] = "idle" /\ pc' = [pc EXCEPT ![l] = "asking"]
      /\ asked' = [asked EXCEPT ![l] = [journey |-> j, email |-> e, at |-> clock]]
      /\ UNCHANGED <<clock, rec, replica, granted, delivered, snapshot, locked, verifying>>
  BY DEF Request
<1>3. /\ pc'[l] = "asking" /\ asked'[l] = [journey |-> j, email |-> e, at |-> clock]
      /\ \A k \in Link \ {l} : pc'[k] = pc[k] /\ asked'[k] = asked[k]
  BY <1>1, <1>2 DEF TypeOK
<1>4. /\ rec[l] = None /\ replica[l] = None /\ l \notin delivered
      /\ \A m \in Link : snapshot[m][l] = None
  BY <1>1, <1>2 DEF LinkInv, CopiesTrue, VersionOf, RequestKnown
<1>5. clock \in Nat /\ asked'[l] \in Ask
  BY <1>1, <1>3, ClockAssumption DEF TypeOK, Ask
<1>6. \A k \in Link : LinkInv(k)'
  <2> SUFFICES ASSUME NEW k \in Link PROVE LinkInv(k)'
    OBVIOUS
  <2>1. LinkInv(k)
    BY <1>1
  <2>2. CopiesTrue(k)'
    BY <1>2, <1>3, <1>4, <2>1 DEF LinkInv, CopiesTrue, VersionOf
  <2>3. RequestKnown(k)'
    BY <1>2, <1>3, <1>4, <1>5, <2>1 DEF LinkInv, RequestKnown
  <2>4. ProofKept(k)'
    BY <1>2, <1>3, <1>4, <2>1 DEF LinkInv, ProofKept, HasStatus
  <2>5. MarkerKept(k)'
    BY <1>2, <1>3, <1>4, <2>1 DEF LinkInv, MarkerKept, Activating, HasStatus
  <2>6. LocksKept(k)'
    <3>1. CASE pc'[k] = "written"
      <4>1. k # l /\ pc[k] = "written" /\ asked'[k] = asked[k]
        BY <1>3, <3>1
      <4>2. Touched(k)' = Touched(k)
        BY <1>2, <4>1 DEF Touched, Superseded, HasStatus
      <4> QED BY <1>2, <2>1, <4>1, <4>2 DEF LinkInv, LocksKept, HasStatus
    <3>2. CASE pc'[k] # "written"
      BY <1>2, <1>3, <2>1, <3>2 DEF LinkInv, LocksKept
    <3> QED BY <3>1, <3>2
  <2> QED BY <2>2, <2>3, <2>4, <2>5, <2>6 DEF LinkInv
<1>7. OnlyLive'
  BY <1>2, <1>3, <1>4 DEF LinksInv, OnlyLive, HasStatus
<1>8. NeverWithoutLink'
  BY <1>2, <1>3, <1>4 DEF LinksInv, NeverWithoutLink, HasStatus
<1>9. \A v \in Verifier : VerifierKnown(v)'
  BY <1>2 DEF LinksInv, VerifierKnown
<1> QED BY <1>6, <1>7, <1>8, <1>9 DEF LinksInv

LEMMA LinksInvInit == Init => LinksInv
<1> SUFFICES ASSUME Init PROVE LinksInv
  OBVIOUS
<1>1. TypeOK
  BY TypeInit
<1>2. \A l \in Link : LinkInv(l)
  BY DEF Init, LinkInv, CopiesTrue, VersionOf, RequestKnown, ProofKept, MarkerKept,
         Activating, LocksKept
<1>3. OnlyLive /\ NeverWithoutLink /\ \A v \in Verifier : VerifierKnown(v)
  BY DEF Init, OnlyLive, NeverWithoutLink, VerifierKnown, HasStatus
<1> QED BY <1>1, <1>2, <1>3 DEF LinksInv

LEMMA LinksInvStep == LinksInv /\ [Next]_vars => LinksInv'
<1> SUFFICES ASSUME LinksInv, [Next]_vars PROVE LinksInv'
  OBVIOUS
<1>t. TypeOK /\ TypeOK'
  BY TypeStep DEF LinksInv
<1>c. clock \in Nat
  BY Known
<1> USE DEF requesting, verifying
<1>1. CASE UNCHANGED vars
  BY <1>t, <1>c, <1>1, QuietStep DEF vars, Moves, LinksInv, VerifierKnown
<1>2. CASE Tick
  BY <1>t, <1>c, <1>2, QuietStep DEF Tick, Moves, LinksInv, VerifierKnown
<1>3. ASSUME NEW l \in Link, NEW j \in Journey, NEW e \in Email, Request(l, j, e)
      PROVE  LinksInv'
  BY <1>t, <1>3, RequestStep
<1>4. ASSUME NEW l \in Link,
             \/ Grant(l) \/ Refuse(l) \/ NotifyAnswers(l) \/ SendFails(l) \/ UndoEnds(l)
      PROVE  LinksInv'
  <2>1. UNCHANGED <<clock, rec, replica, asked, delivered, snapshot, locked, verifying>>
    BY <1>4 DEF Grant, Refuse, NotifyAnswers, SendFails, UndoEnds
  <2>2. \A k \in Link : Moves(pc[k], pc'[k])
    BY <1>t, <1>4 DEF Grant, Refuse, NotifyAnswers, SendFails, UndoEnds, Moves, TypeOK
  <2> QED BY <1>t, <1>c, <2>1, <2>2, QuietStep DEF LinksInv, VerifierKnown
<1>5. ASSUME NEW l \in Link, Deliver(l) \/ FreeCooldown(l)
      PROVE  LinksInv'
  <2>1. /\ UNCHANGED <<clock, rec, replica, pc, asked, snapshot, locked, verifying>>
        /\ delivered' = delivered \/ (delivered' = delivered \cup {l} /\ pc[l] = "sending")
    BY <1>5 DEF Deliver, FreeCooldown
  <2> QED BY <1>t, <1>c, <2>1, QuietStep DEF LinksInv, VerifierKnown, Moves
<1>6. ASSUME NEW l \in Link, Insert(l)
      PROVE  LinksInv'
  BY <1>t, <1>6, InsertStep
<1>7. ASSUME NEW l \in Link, DropRecord(l) \/ Purge(l)
      PROVE  LinksInv'
  BY <1>t, <1>7, RemoveStep DEF DropRecord, Purge, HasStatus
<1>8. ASSUME NEW l \in Link, Mark(l) \/ WriteRecords(l) \/ Abort(l) \/ Commit(l)
      PROVE  LinksInv'
  BY <1>t, <1>8, MarkStep, WriteStep, AbortStep, CommitStep
<1>9. ASSUME NEW v \in Verifier, NEW l \in Link, Open(v, l)
      PROVE  LinksInv'
  <2>1. UNCHANGED <<clock, rec, replica, pc, asked, delivered, snapshot, locked, wins, proof>>
    BY <1>9 DEF Open
  <2>2. \A w \in Verifier : VerifierKnown(w)'
    BY <1>t, <1>9 DEF Open, LinksInv, VerifierKnown, TypeOK
  <2> QED BY <1>t, <1>c, <2>1, <2>2, QuietStep DEF Moves
<1>10. ASSUME NEW v \in Verifier, MarkVerified(v)
       PROVE  LinksInv'
  <2>1. CASE Verifiable(rec[vlink[v]], vtime[v])
    <3>1. vlink[v] \in Link
      BY <1>t, <1>10 DEF LinksInv, VerifierKnown, MarkVerified, TypeOK
    <3> QED BY <1>t, <1>10, <2>1, <3>1, VerifiedStep DEF MarkVerified
  <2>2. CASE ~Verifiable(rec[vlink[v]], vtime[v])
    <3>1. /\ UNCHANGED <<clock, rec, replica, requesting, wins, proof, vlink>>
          /\ vpc' = [vpc EXCEPT ![v] = "reading"] /\ vpc[v] = "marking"
      BY <1>10, <2>2 DEF MarkVerified
    <3>2. \A w \in Verifier : VerifierKnown(w)'
      BY <1>t, <3>1 DEF LinksInv, VerifierKnown, TypeOK
    <3> QED BY <1>t, <1>c, <3>1, <3>2, QuietStep DEF Moves
  <2> QED BY <2>1, <2>2
<1>11. ASSUME NEW v \in Verifier, ReadReason(v) \/ Answer(v)
       PROVE  LinksInv'
  <2>1. UNCHANGED <<clock, rec, replica, requesting, wins, proof>>
    BY <1>11 DEF ReadReason, Answer
  <2>2. \A w \in Verifier : VerifierKnown(w)'
    BY <1>t, <1>11 DEF ReadReason, Answer, LinksInv, VerifierKnown, TypeOK
  <2> QED BY <1>t, <1>c, <2>1, <2>2, QuietStep DEF Moves
<1>12. CASE Replicate
  BY <1>t, <1>c, <1>12, QuietStep DEF Replicate, Moves, LinksInv, VerifierKnown
<1> QED BY <1>1, <1>2, <1>3, <1>4, <1>5, <1>6, <1>7, <1>8, <1>9, <1>10, <1>11, <1>12 DEF Next

\* Every copy of a record is one it once had, locks and the marker hold while an
\* activation is open, and a used link's record stays with its proof.
THEOREM LinksInvariance == Spec => []LinksInv
<1>1. Init => LinksInv
  BY LinksInvInit
<1>2. LinksInv /\ [Next]_vars => LinksInv'
  BY LinksInvStep
<1> QED BY <1>1, <1>2, PTL DEF Spec

-----------------------------------------------------------------------------
(* Theorems                                                                *)

\* Records, snapshots and verdicts stay well typed, with whatever is lost,
\* undone, retried or purged.
THEOREM LinksTyped == Spec => []TypeOK
<1>1. LinksInv => TypeOK
  BY DEF LinksInv
<1> QED BY <1>1, LinksInvariance, PTL

\* A set whose elements are all the same has one at most.
LEMMA AtMostOne ==
    ASSUME NEW S, \A x, y \in S : x = y
    PROVE  Cardinality(S) <= 1
<1>1. CASE S = {}
  BY <1>1, FS_EmptySet
<1>2. CASE S # {}
  <2>1. PICK x \in S : TRUE
    BY <1>2
  <2>2. S = {x}
    BY <2>1
  <2> QED BY <2>2, FS_Singleton
<1> QED BY <1>1, <1>2

\* However many activations of a journey overlap, fail and are run again, it has
\* at most one live link (verification-records.js:45).
THEOREM AtMostOneLive == Spec => []OneLiveLink
<1>1. LinksInv => OneLiveLink
  <2> SUFFICES ASSUME LinksInv, NEW j \in Journey PROVE Cardinality(Live(j)) <= 1
    BY DEF OneLiveLink
  <2>1. \A l \in Live(j) : l \in Link /\ HasStatus(rec[l], "pending") /\ asked[l].journey = j
    BY DEF Live, LinksInv, LinkInv, CopiesTrue, VersionOf, HasStatus
  <2>2. \A l, m \in Live(j) : l = m
    BY <2>1 DEF LinksInv, OnlyLive
  <2> QED BY <2>2, AtMostOne
<1> QED BY <1>1, LinksInvariance, PTL

\* Whoever was told that a link is on its way has one that is live or was used,
\* until the retention of a record of the journey is over.
THEOREM LinkKept == Spec => []NeverWithoutLink
<1>1. LinksInv => NeverWithoutLink
  BY DEF LinksInv
<1> QED BY <1>1, LinksInvariance, PTL

\* Of any number of verifications of one link, one succeeds.
THEOREM OnceUsed == Spec => []UsedOnce
<1>1. LinksInv => UsedOnce
  BY DEF LinksInv, LinkInv, ProofKept, UsedOnce
<1> QED BY <1>1, LinksInvariance, PTL

\* Retention covers both lifetimes, so no verification that still counts loses
\* its record.
THEOREM ProofKeptLong == Spec => []ProofOutlives
<1>1. LinksInv => ProofOutlives
  <2> SUFFICES ASSUME LinksInv, NEW l \in Link, proof[l] # None,
                      clock < proof[l] + VerifiedTtl
               PROVE  HasStatus(rec[l], "verified") /\ rec[l].verifiedAt = proof[l]
    BY DEF ProofOutlives
  <2>1. LinkInv(l) /\ clock \in Nat /\ asked[l].at \in Nat
    BY Known
  <2>2. proof[l] \in Nat
    BY DEF LinksInv, TypeOK
  <2>3. ~(asked[l].at + Retention <= clock)
    BY <2>1, <2>2, RetentionAssumption DEF LinkInv, ProofKept
  <2> QED BY <2>1, <2>3 DEF LinkInv, ProofKept, CopiesTrue, VersionOf, HasStatus
<1> QED BY <1>1, LinksInvariance, PTL

\* The gate lets nobody through whose link was not emailed, used in time and
\* recently, however old the copy is that it reads (registration-gate.js:24).
THEOREM GateSound == Spec => []GateIsSound
<1>1. LinksInv => GateIsSound
  <2> SUFFICES ASSUME LinksInv, NEW j \in Journey, NEW e \in Email, GateOpen(j, e)
               PROVE  \E l \in delivered :
                        /\ asked[l].journey = j /\ asked[l].email = e
                        /\ proof[l] # None
                        /\ proof[l] < asked[l].at + LinkTtl
                        /\ clock < proof[l] + VerifiedTtl
    BY DEF GateIsSound
  <2>1. PICK l \in Link : RecentlyVerified(replica[l], j, e, clock)
    BY DEF GateOpen
  <2>2. /\ replica[l].journey = j /\ replica[l].email = e
        /\ HasStatus(replica[l], "verified") /\ replica[l].verifiedAt > clock - VerifiedTtl
    BY <2>1 DEF RecentlyVerified
  <2>3. LinkInv(l) /\ clock \in Nat
    BY Known
  <2>4. /\ asked[l].journey = j /\ asked[l].email = e
        /\ proof[l] # None /\ proof[l] = replica[l].verifiedAt
    BY <2>2, <2>3 DEF LinkInv, CopiesTrue, VersionOf, HasStatus
  <2>5. proof[l] \in Nat
    BY <2>4 DEF LinksInv, TypeOK
  <2>6. clock < proof[l] + VerifiedTtl
    BY <2>2, <2>3, <2>4, <2>5, RetentionAssumption
  <2> QED BY <2>3, <2>4, <2>6 DEF LinkInv, ProofKept
<1> QED BY <1>1, LinksInvariance, PTL

\* No activation, undone send or second use brings a used or superseded link
\* back; it stays as it is until its retention is over.
THEOREM UsedUpStays == Spec => UsedUpIsFinal
<1> DEFINE Final ==
      \A l \in Link :
        HasStatus(rec[l], "verified") \/ HasStatus(rec[l], "superseded") =>
            \/ rec'[l] = rec[l]
            \/ rec'[l] = None /\ rec[l].createdAt + Retention <= clock
<1>1. ASSUME LinksInv, [Next]_vars, NEW l \in Link,
             HasStatus(rec[l], "verified") \/ HasStatus(rec[l], "superseded")
      PROVE  \/ rec'[l] = rec[l]
             \/ rec'[l] = None /\ rec[l].createdAt + Retention <= clock
  <2> USE DEF requesting, verifying
  <2>1. TypeOK /\ \A k \in Link : LinkInv(k)
    BY <1>1 DEF LinksInv
  <2>2. ASSUME NEW k \in Link, Insert(k)
        PROVE  rec'[l] = rec[l]
    BY <1>1, <2>1, <2>2 DEF Insert, LinkInv, CopiesTrue, VersionOf, HasStatus, TypeOK
  <2>3. ASSUME NEW k \in Link, DropRecord(k)
        PROVE  rec'[l] = rec[l]
    BY <1>1, <2>1, <2>3 DEF DropRecord, HasStatus, TypeOK
  <2>4. ASSUME NEW k \in Link, Purge(k)
        PROVE  \/ rec'[l] = rec[l]
               \/ rec'[l] = None /\ rec[l].createdAt + Retention <= clock
    BY <2>1, <2>4 DEF Purge, PurgeAt, TypeOK
  <2>5. ASSUME NEW k \in Link, Commit(k)
        PROVE  rec'[l] = rec[l]
    BY <1>1, <2>1, <2>5 DEF Commit, Activated, LinkInv, LocksKept, HasStatus
  <2>6. ASSUME NEW v \in Verifier, MarkVerified(v)
        PROVE  rec'[l] = rec[l]
    BY <1>1, <2>1, <2>6 DEF MarkVerified, Verifiable, HasStatus, TypeOK
  <2>7. \/ rec' = rec
        \/ \E k \in Link : Insert(k) \/ DropRecord(k) \/ Purge(k) \/ Commit(k)
        \/ \E v \in Verifier : MarkVerified(v)
    BY <1>1 DEF Next, vars, Tick, Request, Grant, Refuse, Deliver, NotifyAnswers, SendFails,
                FreeCooldown, UndoEnds, Mark, WriteRecords, Abort, Open, ReadReason, Answer,
                Replicate
  <2> QED BY <2>2, <2>3, <2>4, <2>5, <2>6, <2>7
<1>2. LinksInv /\ [Next]_vars => [Final]_vars
  BY <1>1
<1> QED BY <1>2, LinksInvariance, PTL DEF Spec, UsedUpIsFinal
-----------------------------------------------------------------------------
(* Links keep the promise of JourneyLinks                                  *)

\* A verification began in the past.
Opened == \A v \in Verifier : vpc[v] # "idle" => vtime[v] <= clock

LEMMA OpenedStep == LinksInv /\ Opened /\ [Next]_vars => Opened'
<1> SUFFICES ASSUME LinksInv, Opened, [Next]_vars PROVE Opened'
  OBVIOUS
<1>t. clock \in Nat /\ TypeOK
  BY Known DEF LinksInv
<1> USE DEF requesting, verifying
<1>1. CASE \E v \in Verifier, l \in Link : Open(v, l)
  <2>1. PICK v \in Verifier, l \in Link : Open(v, l)
    BY <1>1
  <2>2. vtime' = [vtime EXCEPT ![v] = clock] /\ vpc' = [vpc EXCEPT ![v] = "marking"]
        /\ clock' = clock
    BY <2>1 DEF Open
  <2> QED BY <1>t, <2>2 DEF Opened, TypeOK
<1>2. CASE \E v \in Verifier : MarkVerified(v) \/ ReadReason(v) \/ Answer(v)
  <2>1. PICK v \in Verifier : MarkVerified(v) \/ ReadReason(v) \/ Answer(v)
    BY <1>2
  <2>2. /\ clock' = clock
        /\ \A w \in Verifier : vpc'[w] # "idle" => vpc[w] # "idle" /\ vtime'[w] = vtime[w]
    BY <1>t, <2>1 DEF MarkVerified, ReadReason, Answer, TypeOK
  <2> QED BY <2>2 DEF Opened
<1>3. CASE UNCHANGED <<vpc, vtime>> /\ clock' \in Nat /\ clock <= clock'
  BY <1>t, <1>3 DEF Opened, TypeOK
<1>4. ASSUME NEW l \in Link,
             \/ \E j \in Journey, e \in Email : Request(l, j, e)
             \/ Grant(l) \/ Refuse(l) \/ Insert(l) \/ Deliver(l) \/ NotifyAnswers(l)
             \/ SendFails(l) \/ DropRecord(l) \/ FreeCooldown(l) \/ UndoEnds(l) \/ Mark(l)
             \/ WriteRecords(l) \/ Abort(l) \/ Commit(l) \/ Purge(l)
      PROVE  UNCHANGED <<vpc, vtime, clock>>
  BY <1>4 DEF Request, Grant, Refuse, Insert, Deliver, NotifyAnswers, SendFails, DropRecord,
              FreeCooldown, UndoEnds, Mark, WriteRecords, Abort, Commit, Purge
<1>5. CASE Tick \/ Replicate \/ UNCHANGED vars
  <2>1. UNCHANGED <<vpc, vtime>> /\ (clock' = clock \/ clock' = clock + 1)
    BY <1>5 DEF Tick, Replicate, vars
  <2> QED BY <1>t, <1>3, <2>1
<1> QED BY <1>t, <1>1, <1>2, <1>3, <1>4, <1>5 DEF Next

Early == {"idle", "asking", "inserting"}

\* What is shown of a link, of which the record and the phase stay.
LEMMA SameShown ==
    ASSUME NEW l \in Link, rec'[l] = rec[l],
           rec[l] = None => (pc'[l] \in Early <=> pc[l] \in Early)
    PROVE  Phases'[l] = Phases[l] /\ Abouts'[l] = Abouts[l] /\ Uses'[l] = Uses[l]
<1>1. Phase(l)' = Phase(l)
  BY DEF Phase, Early
<1>2. About(rec[l])' = About(rec[l])
  BY DEF About
<1>3. UsedAt(rec[l])' = UsedAt(rec[l])
  BY DEF UsedAt, HasStatus
<1> QED BY <1>1, <1>2, <1>3 DEF Phases, Abouts, Uses

\* A step that changes no record, nor moves a request past its insert.
LEMMA NothingShown ==
    ASSUME rec' = rec,
           \A l \in Link : rec[l] = None => (pc'[l] \in Early <=> pc[l] \in Early)
    PROVE  UNCHANGED <<Phases, Abouts, Uses>>
<1>1. \A l \in Link : Phases'[l] = Phases[l] /\ Abouts'[l] = Abouts[l] /\ Uses'[l] = Uses[l]
  BY SameShown
<1> QED BY <1>1 DEF Phases, Abouts, Uses

\* A step about one link.
LEMMA OneShown ==
    ASSUME NEW l \in Link, \A k \in Link \ {l} : rec'[k] = rec[k] /\ pc'[k] = pc[k]
    PROVE  /\ Phases' = [Phases EXCEPT ![l] = Phases'[l]]
           /\ Abouts' = [Abouts EXCEPT ![l] = Abouts'[l]]
           /\ Uses' = [Uses EXCEPT ![l] = Uses'[l]]
<1>1. \A k \in Link \ {l} : Phases'[k] = Phases[k] /\ Abouts'[k] = Abouts[k] /\ Uses'[k] = Uses[k]
  BY SameShown
<1> QED BY <1>1 DEF Phases, Abouts, Uses

\* What is shown of a record, and of none.
LEMMA RecordShown ==
    ASSUME NEW l \in Link, rec[l] # None
    PROVE  /\ Phases[l] = rec[l].status
           /\ Abouts[l] = [journey |-> rec[l].journey, email |-> rec[l].email,
                           at |-> rec[l].createdAt]
           /\ Abouts[l].journey = rec[l].journey /\ Abouts[l].at = rec[l].createdAt
           /\ Uses[l] = IF rec[l].status = "verified" THEN rec[l].verifiedAt ELSE None
BY DEF Phases, Phase, Abouts, About, Uses, UsedAt, HasStatus

LEMMA NoneShown ==
    ASSUME NEW l \in Link, rec[l] = None
    PROVE  /\ Phases[l] = IF pc[l] \in Early THEN "none" ELSE "gone"
           /\ Abouts[l] = None
           /\ Uses[l] = None
BY DEF Phases, Phase, Abouts, About, Uses, UsedAt, HasStatus, Early

LEMMA RecordShownNext ==
    ASSUME NEW l \in Link, rec'[l] # None
    PROVE  /\ Phases'[l] = rec'[l].status
           /\ Abouts'[l] = [journey |-> rec'[l].journey, email |-> rec'[l].email,
                            at |-> rec'[l].createdAt]
           /\ Uses'[l] = IF rec'[l].status = "verified" THEN rec'[l].verifiedAt ELSE None
BY DEF Phases, Phase, Abouts, About, Uses, UsedAt, HasStatus

LEMMA NoneShownNext ==
    ASSUME NEW l \in Link, rec'[l] = None
    PROVE  /\ Phases'[l] = IF pc'[l] \in Early THEN "none" ELSE "gone"
           /\ Abouts'[l] = None
           /\ Uses'[l] = None
BY DEF Phases, Phase, Abouts, About, Uses, UsedAt, HasStatus, Early

\* A request is refused, or fails before the insert.
LEMMA FailsEarly ==
    ASSUME LinksInv, NEW l \in Link, pc[l] \in {"asking", "inserting"},
           pc' = [pc EXCEPT ![l] = "failed"] \/ pc' = [pc EXCEPT ![l] = "undoing"],
           UNCHANGED <<clock, rec>>
    PROVE  Promise!Next
<1>1. TypeOK /\ LinkInv(l)
  BY DEF LinksInv
<1>2. rec[l] = None
  BY <1>1 DEF LinkInv, CopiesTrue, VersionOf
<1>3. pc'[l] \in {"failed", "undoing"} /\ \A k \in Link \ {l} : pc'[k] = pc[k]
  BY <1>1 DEF TypeOK
<1>4. Phases[l] = "none" /\ Abouts[l] = None /\ Uses[l] = None
  BY <1>2, NoneShown DEF Early
<1>5. Phases'[l] = "gone" /\ Abouts'[l] = None /\ Uses'[l] = None
  BY <1>2, <1>3, NoneShownNext DEF Early
<1>6. /\ Phases' = [Phases EXCEPT ![l] = "gone"]
      /\ Abouts' = [Abouts EXCEPT ![l] = None]
      /\ Uses' = [Uses EXCEPT ![l] = None]
  BY <1>3, <1>5, OneShown
<1>7. Abouts' = Abouts /\ Uses' = Uses
  BY <1>4, <1>6 DEF Abouts, Uses
<1> QED BY <1>4, <1>5, <1>6, <1>7 DEF Promise!Next, Promise!Forgo

\* The insert stores what was asked for, at a time before now.
LEMMA InsertAsks ==
    ASSUME LinksInv, NEW l \in Link, Insert(l)
    PROVE  Promise!Next
<1>1. TypeOK /\ LinkInv(l) /\ clock \in Nat
  BY Known DEF LinksInv
<1>2. /\ pc[l] = "inserting" /\ rec'[l] = NewRecord(asked[l]) /\ clock' = clock
      /\ \A k \in Link \ {l} : rec'[k] = rec[k] /\ pc'[k] = pc[k]
  BY <1>1 DEF Insert, TypeOK
<1>3. rec[l] = None
  BY <1>1, <1>2 DEF LinkInv, CopiesTrue, VersionOf
<1>4. asked[l] \in Ask /\ asked[l].at \in 0..clock
  BY <1>1, <1>2 DEF LinkInv, RequestKnown, Ask
<1>5. rec'[l] # None
  BY <1>2, <1>4, NewRecordType, NoRecordAssumption
<1>6. Phases[l] = "none" /\ Uses[l] = None
  BY <1>2, <1>3, NoneShown DEF Early
<1>7. /\ Phases'[l] = "sending" /\ Uses'[l] = None
      /\ Abouts'[l] = [journey |-> asked[l].journey, email |-> asked[l].email, at |-> asked[l].at]
  BY <1>2, <1>5, RecordShownNext DEF NewRecord
<1>8. Abouts'[l] \in Promise!AskedBy(clock)
  BY <1>4, <1>7 DEF Ask, Promise!AskedBy
<1>9. /\ Phases' = [Phases EXCEPT ![l] = "sending"]
      /\ Abouts' = [Abouts EXCEPT ![l] = Abouts'[l]]
      /\ Uses' = [Uses EXCEPT ![l] = None]
  BY <1>2, <1>7, OneShown
<1>10. Uses' = Uses
  BY <1>6, <1>9 DEF Uses
<1> QED BY <1>2, <1>6, <1>7, <1>8, <1>9, <1>10 DEF Promise!Next, Promise!AskFor

\* The undoing drops the record before it went live.
LEMMA DropGivesUp ==
    ASSUME LinksInv, NEW l \in Link, DropRecord(l)
    PROVE  Promise!Next
<1>1. TypeOK
  BY DEF LinksInv
<1>2. /\ pc[l] = "undoing" /\ HasStatus(rec[l], "sending") /\ rec'[l] = None
      /\ \A k \in Link \ {l} : rec'[k] = rec[k]
      /\ UNCHANGED <<clock, pc>>
  BY <1>1 DEF DropRecord, TypeOK, requesting, verifying
<1>3. Phases[l] = "sending" /\ Uses[l] = None
  BY <1>2, RecordShown DEF HasStatus
<1>4. Phases'[l] = "gone" /\ Abouts'[l] = None /\ Uses'[l] = None
  BY <1>2, NoneShownNext DEF Early
<1>5. /\ Phases' = [Phases EXCEPT ![l] = "gone"]
      /\ Abouts' = [Abouts EXCEPT ![l] = None]
      /\ Uses' = [Uses EXCEPT ![l] = None]
  BY <1>2, <1>4, OneShown
<1>6. Uses' = Uses
  BY <1>3, <1>5 DEF Uses
<1> QED BY <1>2, <1>3, <1>4, <1>5, <1>6 DEF Promise!Next, Promise!GiveUp

\* The commit makes the link live and supersedes the journey's former one: with
\* the marker and the locks held since the snapshot, it supersedes what is
\* pending at the commit and nothing else.
LEMMA CommitGoesLive ==
    ASSUME LinksInv, NEW l \in Link, Commit(l)
    PROVE  Promise!Next
<1>1. TypeOK /\ \A k \in Link : LinkInv(k)
  BY DEF LinksInv
<1>2. /\ pc[l] = "written" /\ rec' = Activated(l) /\ clock' = clock
      /\ \A k \in Link \ {l} : pc'[k] = pc[k]
  BY <1>1 DEF Commit, TypeOK, verifying
<1>3. /\ HasStatus(rec[l], "sending")
      /\ \A m \in locked[l] \ {l} : HasStatus(rec[m], "pending")
      /\ locked[l] = Touched(l)
  BY <1>1, <1>2 DEF LinkInv, LocksKept
<1>4. PICK j \in Journey : asked[l].journey = j
  BY <1>1, <1>2, Known DEF LinkInv, RequestKnown, Ask
<1>5. \A m \in Link \ {l} :
        m \in locked[l] <=> HasStatus(rec[m], "pending") /\ asked[m].journey = j
  <2> SUFFICES ASSUME NEW m \in Link \ {l}
               PROVE  m \in locked[l] <=> HasStatus(rec[m], "pending") /\ asked[m].journey = j
    OBVIOUS
  <2>1. HasStatus(snapshot[l][m], "pending") => snapshot[l][m].journey = asked[m].journey
    BY <1>1 DEF LinkInv, CopiesTrue, VersionOf, HasStatus
  <2>2. m \in locked[l] <=> HasStatus(snapshot[l][m], "pending") /\ snapshot[l][m].journey = j
    BY <1>3, <1>4 DEF Touched, Superseded
  <2>3. m \in locked[l] => HasStatus(rec[m], "pending")
    BY <1>3
  <2>4. HasStatus(rec[m], "pending") /\ asked[m].journey = j => HasStatus(snapshot[l][m], "pending")
    BY <1>1, <1>2, <1>4 DEF LinkInv, MarkerKept, Activating
  <2> QED BY <2>1, <2>2, <2>3, <2>4
<1>6. \A m \in Link : rec[m] # None => rec[m] \in Record /\ rec[m].journey = asked[m].journey
  BY <1>1, Known DEF LinkInv, CopiesTrue, VersionOf
<1>7. /\ Phases[l] = "sending" /\ Phases'[l] = "pending"
      /\ Abouts'[l] = Abouts[l] /\ Uses'[l] = Uses[l] /\ Abouts[l].journey = j
  <2>1. rec[l] # None /\ rec[l].status = "sending" /\ rec[l] \in Record /\ rec[l].journey = j
    BY <1>3, <1>4, <1>6 DEF HasStatus
  <2>2. rec'[l] = [rec[l] EXCEPT !.status = "pending"]
    BY <1>2 DEF Activated
  <2>3. rec'[l] # None
    BY <2>1, <2>2, WithStatusType, NoRecordAssumption DEF Status
  <2>4. rec'[l].status = "pending" /\ rec'[l].journey = rec[l].journey
        /\ rec'[l].email = rec[l].email /\ rec'[l].createdAt = rec[l].createdAt
    BY <2>1, <2>2 DEF Record
  <2>5. Phases[l] = "sending" /\ Abouts[l].journey = j /\ Uses[l] = None
    BY <2>1, RecordShown
  <2>6. Phases'[l] = "pending" /\ Uses'[l] = None
    BY <2>3, <2>4, RecordShownNext
  <2>7. Abouts'[l] = Abouts[l]
    BY <2>1, <2>3, <2>4, RecordShown, RecordShownNext
  <2> QED BY <2>5, <2>6, <2>7
<1>8. \A m \in Link \ {l} : m \in locked[l] =>
        Phases'[m] = "superseded" /\ Abouts'[m] = Abouts[m] /\ Uses'[m] = Uses[m]
  <2> SUFFICES ASSUME NEW m \in Link \ {l}, m \in locked[l]
               PROVE  Phases'[m] = "superseded" /\ Abouts'[m] = Abouts[m] /\ Uses'[m] = Uses[m]
    OBVIOUS
  <2>1. rec[m] # None /\ rec[m].status = "pending" /\ rec[m] \in Record
    BY <1>3, <1>6 DEF HasStatus
  <2>2. rec'[m] = [rec[m] EXCEPT !.status = "superseded"]
    BY <1>2 DEF Activated
  <2>3. rec'[m] # None
    BY <2>1, <2>2, WithStatusType, NoRecordAssumption DEF Status
  <2>4. rec'[m].status = "superseded" /\ rec'[m].journey = rec[m].journey
        /\ rec'[m].email = rec[m].email /\ rec'[m].createdAt = rec[m].createdAt
    BY <2>1, <2>2 DEF Record
  <2>5. Phases'[m] = "superseded" /\ Uses'[m] = None
    BY <2>3, <2>4, RecordShownNext
  <2>6. Uses[m] = None
    BY <2>1, RecordShown
  <2>7. Abouts[m] = [journey |-> rec[m].journey, email |-> rec[m].email, at |-> rec[m].createdAt]
    BY <2>1, RecordShown
  <2>8. Abouts'[m] = [journey |-> rec'[m].journey, email |-> rec'[m].email,
                      at |-> rec'[m].createdAt]
    BY <2>3, RecordShownNext
  <2>9. Abouts'[m] = Abouts[m]
    BY <2>4, <2>7, <2>8
  <2> QED BY <2>5, <2>6, <2>9
<1>9. \A m \in Link \ {l} : m \notin locked[l] =>
        Phases'[m] = Phases[m] /\ Abouts'[m] = Abouts[m] /\ Uses'[m] = Uses[m]
  BY <1>2, SameShown DEF Activated
<1>10. \A m \in Link \ {l} :
         m \in locked[l] <=> Phases[m] = "pending" /\ Abouts[m].journey = Abouts[l].journey
  <2> SUFFICES ASSUME NEW m \in Link \ {l}
               PROVE  m \in locked[l] <=>
                        Phases[m] = "pending" /\ Abouts[m].journey = Abouts[l].journey
    OBVIOUS
  <2>1. CASE rec[m] = None
    BY <1>5, <2>1, NoneShown DEF HasStatus
  <2>2. CASE rec[m] # None
    <3>1. Phases[m] = rec[m].status /\ Abouts[m].journey = asked[m].journey
      BY <1>6, <2>2, RecordShown
    <3> QED BY <1>5, <1>7, <2>2, <3>1 DEF HasStatus
  <2> QED BY <2>1, <2>2
<1>11. Phases' = [m \in Link |->
                    IF m = l THEN "pending"
                    ELSE IF Phases[m] = "pending" /\ Abouts[m].journey = Abouts[l].journey
                    THEN "superseded" ELSE Phases[m]]
  BY <1>7, <1>8, <1>9, <1>10 DEF Phases
<1>12. Abouts' = Abouts /\ Uses' = Uses
  BY <1>7, <1>8, <1>9 DEF Abouts, Uses
<1> QED BY <1>2, <1>7, <1>11, <1>12 DEF Promise!Next, Promise!GoLive

\* The one update that finds the link pending and in time verifies it.
LEMMA VerifyUses ==
    ASSUME LinksInv, Opened, NEW v \in Verifier, MarkVerified(v),
           Verifiable(rec[vlink[v]], vtime[v])
    PROVE  Promise!Next
<1>1. TypeOK
  BY DEF LinksInv
<1>2. PICK l \in Link : vlink[v] = l
  BY <1>1 DEF LinksInv, VerifierKnown, MarkVerified, TypeOK
<1>3. PICK time \in Nat : vtime[v] = time
  BY <1>1 DEF TypeOK
<1>4. time \in 0..clock
  <2>1. time <= clock
    BY <1>3 DEF Opened, MarkVerified
  <2> QED BY <2>1, Known
<1>5. rec[l] # None /\ rec[l] \in Record /\ rec[l].status = "pending"
  BY <1>2, Known DEF Verifiable, HasStatus
<1>6. time < rec[l].createdAt + LinkTtl
  <2>1. rec[l].createdAt \in Nat /\ LinkTtl \in Nat
    BY <1>5, RetentionAssumption DEF Record
  <2> QED BY <1>2, <1>3, <2>1 DEF Verifiable, ExpiresAt
<1>7. /\ rec'[l] = [rec[l] EXCEPT !.status = "verified", !.verifiedAt = time]
      /\ \A k \in Link \ {l} : rec'[k] = rec[k]
      /\ UNCHANGED <<clock, pc>>
  BY <1>1, <1>2, <1>3 DEF MarkVerified, TypeOK, requesting
<1>8. rec'[l] # None
  BY <1>5, <1>7, VerifiedType, NoRecordAssumption
<1>9. /\ rec'[l].status = "verified" /\ rec'[l].verifiedAt = time
      /\ rec'[l].journey = rec[l].journey /\ rec'[l].email = rec[l].email
      /\ rec'[l].createdAt = rec[l].createdAt
  BY <1>5, <1>7 DEF Record
<1>10. Phases[l] = "pending" /\ Abouts[l].at = rec[l].createdAt
  BY <1>5, RecordShown
<1>11. Phases'[l] = "verified" /\ Abouts'[l] = Abouts[l] /\ Uses'[l] = time
  BY <1>5, <1>8, <1>9, RecordShown, RecordShownNext
<1>12. /\ Phases' = [Phases EXCEPT ![l] = "verified"]
       /\ Abouts' = [Abouts EXCEPT ![l] = Abouts[l]]
       /\ Uses' = [Uses EXCEPT ![l] = Uses'[l]]
  BY <1>7, <1>11, OneShown
<1>13. Abouts' = Abouts
  BY <1>12 DEF Abouts
<1> QED BY <1>4, <1>6, <1>7, <1>10, <1>11, <1>12, <1>13 DEF Promise!Next, Promise!Use

\* The TTL index forgets a link whose retention is over.
LEMMA PurgeExpires ==
    ASSUME LinksInv, NEW l \in Link, Purge(l)
    PROVE  Promise!Next
<1>1. TypeOK /\ LinkInv(l)
  BY DEF LinksInv
<1>2. /\ rec[l] # None /\ rec'[l] = None /\ rec[l].createdAt + Retention <= clock
      /\ \A k \in Link \ {l} : rec'[k] = rec[k]
      /\ UNCHANGED <<clock, pc>>
  BY <1>1 DEF Purge, PurgeAt, TypeOK, requesting, verifying
<1>3. pc[l] \notin Early
  BY <1>1, <1>2 DEF LinkInv, CopiesTrue, VersionOf, Early
<1>4. Phases[l] \notin {"none", "gone"} /\ Abouts[l].at = rec[l].createdAt
  <2>1. rec[l].status \in Status
    BY <1>2, Known DEF Record
  <2> QED BY <1>2, <2>1, RecordShown DEF Status
<1>5. Phases'[l] = "gone" /\ Abouts'[l] = None /\ Uses'[l] = None
  BY <1>2, <1>3, NoneShownNext
<1>6. /\ Phases' = [Phases EXCEPT ![l] = "gone"]
      /\ Abouts' = [Abouts EXCEPT ![l] = None]
      /\ Uses' = [Uses EXCEPT ![l] = None]
  BY <1>2, <1>5, OneShown
<1> QED BY <1>2, <1>4, <1>5, <1>6 DEF Promise!Next, Promise!Expire

\* Links implement JourneyLinks: whatever overlaps, is retried, is late or is
\* lost for good (request-link.js, verification-records.js, verify-link.js), each
\* step is one of its steps or changes nothing that it shows.
THEOREM LinksKeepPromise == Spec => ImplementsLinks
<1>1. Init => Promise!Init
  <2> SUFFICES ASSUME Init PROVE Promise!Init
    OBVIOUS
  <2>1. \A l \in Link : rec[l] = None /\ pc[l] \in Early
    BY DEF Init, Early
  <2>2. \A l \in Link : Phases[l] = "none" /\ Abouts[l] = None /\ Uses[l] = None
    BY <2>1, NoneShown
  <2>3. Phases \in [Link -> {"none", "pending", "verified"}] /\ Abouts \in [Link -> {None}]
    BY <2>2 DEF Phases, Abouts
  <2>4. Uses = [l \in Link |-> IF Phases[l] = "verified" THEN 0 ELSE None]
    BY <2>2 DEF Uses
  <2> QED BY <2>2, <2>3, <2>4 DEF Init, Promise!Init
<1>2. LinksInv /\ Opened /\ [Next]_vars => [Promise!Next]_(Promise!vars)
  <2> SUFFICES ASSUME LinksInv, Opened, [Next]_vars
               PROVE  Promise!Next \/ UNCHANGED Promise!vars
    OBVIOUS
  <2>t. TypeOK
    BY DEF LinksInv
  <2> USE DEF requesting, verifying
  <2>1. CASE UNCHANGED vars
    BY <2>1, NothingShown DEF vars, Promise!vars
  <2>2. CASE Tick
    <3>1. UNCHANGED <<Phases, Abouts, Uses>>
      BY <2>2, NothingShown DEF Tick
    <3> QED BY <2>2, <3>1 DEF Tick, Promise!Next, Promise!Tick
  <2>3. ASSUME NEW l \in Link, \/ \E j \in Journey, e \in Email : Request(l, j, e)
                               \/ Grant(l) \/ Deliver(l) \/ NotifyAnswers(l) \/ UndoEnds(l)
                               \/ FreeCooldown(l) \/ Mark(l) \/ WriteRecords(l) \/ Abort(l)
        PROVE  UNCHANGED Promise!vars
    <3>1. UNCHANGED <<clock, rec>>
      BY <2>3 DEF Request, Grant, Deliver, NotifyAnswers, UndoEnds, FreeCooldown, Mark,
                  WriteRecords, Abort
    <3>2. \A k \in Link : pc'[k] \in Early <=> pc[k] \in Early
      BY <2>t, <2>3 DEF Request, Grant, Deliver, NotifyAnswers, UndoEnds, FreeCooldown, Mark,
                        WriteRecords, Abort, Early, TypeOK
    <3> QED BY <3>1, <3>2, NothingShown DEF Promise!vars
  <2>4. ASSUME NEW l \in Link, Refuse(l)
        PROVE  Promise!Next
    BY <2>4, FailsEarly DEF Refuse
  <2>5. ASSUME NEW l \in Link, SendFails(l)
        PROVE  Promise!Next \/ UNCHANGED Promise!vars
    <3>1. CASE pc[l] = "inserting"
      BY <2>5, <3>1, FailsEarly DEF SendFails
    <3>2. CASE pc[l] = "sending"
      <4>1. \A k \in Link : pc'[k] \in Early <=> pc[k] \in Early
        BY <2>t, <2>5, <3>2 DEF SendFails, Early, TypeOK
      <4> QED BY <2>5, <4>1, NothingShown DEF SendFails, Promise!vars
    <3> QED BY <2>5, <3>1, <3>2 DEF SendFails
  <2>6. ASSUME NEW l \in Link, Insert(l) \/ DropRecord(l) \/ Commit(l) \/ Purge(l)
        PROVE  Promise!Next
    BY <2>6, InsertAsks, DropGivesUp, CommitGoesLive, PurgeExpires
  <2>7. ASSUME NEW v \in Verifier, MarkVerified(v)
        PROVE  Promise!Next \/ UNCHANGED Promise!vars
    <3>1. CASE Verifiable(rec[vlink[v]], vtime[v])
      BY <2>7, <3>1, VerifyUses
    <3>2. CASE ~Verifiable(rec[vlink[v]], vtime[v])
      <4>1. UNCHANGED <<clock, rec, pc>>
        BY <2>7, <3>2 DEF MarkVerified
      <4> QED BY <4>1, NothingShown DEF Promise!vars
    <3> QED BY <3>1, <3>2
  <2>8. ASSUME NEW v \in Verifier, (\E l \in Link : Open(v, l)) \/ ReadReason(v) \/ Answer(v)
        PROVE  UNCHANGED Promise!vars
    <3>1. UNCHANGED <<clock, rec, pc>>
      BY <2>8 DEF Open, ReadReason, Answer
    <3> QED BY <3>1, NothingShown DEF Promise!vars
  <2>9. CASE Replicate
    <3>1. UNCHANGED <<clock, rec, pc>>
      BY <2>9 DEF Replicate
    <3> QED BY <3>1, NothingShown DEF Promise!vars
  <2> QED BY <2>1, <2>2, <2>3, <2>4, <2>5, <2>6, <2>7, <2>8, <2>9 DEF Next
<1>3. Init => Opened
  BY DEF Init, Opened
<1>4. Spec => []Opened
  BY <1>3, OpenedStep, LinksInvariance, PTL DEF Spec
<1> QED BY <1>1, <1>2, <1>4, LinksInvariance, PTL DEF Spec, ImplementsLinks, Promise!Spec
=============================================================================
