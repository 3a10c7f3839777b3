---------------------------- MODULE JourneyLinks ----------------------------
(***************************************************************************)
(* What the magic links of a journey promise, with each change one step: a *)
(* link that was asked for is given up or goes live, which supersedes the  *)
(* journey's live one; a live link is verified once, before it expires;    *)
(* and what is superseded, verified or gone never works again.  There are  *)
(* no emails, transactions, snapshots, retries or lost answers here.       *)
(*                                                                         *)
(* VerificationLinks, which has all that, and ApplicantApi, which has the  *)
(* rest of the API instead, both keep this promise.                        *)
(***************************************************************************)
EXTENDS Integers

CONSTANTS
    Link,
    Before,     \* those that may be there from the start
    Journey,
    Email,
    LinkTtl,    \* how long a link can be verified
    Retention,  \* how long anything is kept about it
    MaxTime,    \* bound: the clock stops here
    None

VARIABLES
    clock,
    phase,      \* "none" before the record, its status, and "gone" after it
    about,      \* the journey and address of each record, and when it was asked for
    used        \* when each was verified

vars == <<clock, phase, about, used>>

AskedBy(time) == [journey : Journey, email : Email, at : 0..time]

Init ==
    /\ clock = 0
    /\ phase \in [Link -> {"none", "pending", "verified"}]
    /\ \A l \in Link : phase[l] # "none" => l \in Before
    /\ about \in [Link -> {None} \cup AskedBy(0)]
    /\ \A l \in Link : about[l] \in IF phase[l] = "none" THEN {None} ELSE AskedBy(0)
    /\ \A l, m \in Link :
        phase[l] = "pending" /\ phase[m] = "pending" /\ about[l].journey = about[m].journey
            => l = m
    /\ used = [l \in Link |-> IF phase[l] = "verified" THEN 0 ELSE None]

Tick ==
    /\ clock < MaxTime
    /\ clock' = clock + 1
    /\ UNCHANGED <<phase, about, used>>

\* A request that began some time ago stores its record.
AskFor(l) ==
    /\ phase[l] = "none"
    /\ phase' = [phase EXCEPT ![l] = "sending"]
    /\ about'[l] \in AskedBy(clock)
    /\ about' = [about EXCEPT ![l] = about'[l]]
    /\ UNCHANGED <<clock, used>>

\* A request is refused, or fails before it stored anything.
Forgo(l) ==
    /\ phase[l] = "none"
    /\ phase' = [phase EXCEPT ![l] = "gone"]
    /\ UNCHANGED <<clock, about, used>>

\* A request fails later, and its record is dropped.
GiveUp(l) ==
    /\ phase[l] = "sending"
    /\ phase' = [phase EXCEPT ![l] = "gone"]
    /\ about' = [about EXCEPT ![l] = None]
    /\ UNCHANGED <<clock, used>>

\* The link goes live, and the journey's live one is superseded.
GoLive(l) ==
    LET former(m) == phase[m] = "pending" /\ about[m].journey = about[l].journey IN
    /\ phase[l] = "sending"
    /\ phase' = [m \in Link |-> IF m = l THEN "pending"
                                ELSE IF former(m) THEN "superseded" ELSE phase[m]]
    /\ UNCHANGED <<clock, about, used>>

\* The link is verified, by a call that came in some time ago.
Use(l) ==
    /\ phase[l] = "pending"
    /\ phase' = [phase EXCEPT ![l] = "verified"]
    /\ used'[l] \in 0..clock
    /\ used'[l] < about[l].at + LinkTtl
    /\ used' = [used EXCEPT ![l] = used'[l]]
    /\ UNCHANGED <<clock, about>>

\* The retention of the record is over.
Expire(l) ==
    /\ phase[l] \notin {"none", "gone"}
    /\ about[l].at + Retention <= clock
    /\ phase' = [phase EXCEPT ![l] = "gone"]
    /\ about' = [about EXCEPT ![l] = None]
    /\ used' = [used EXCEPT ![l] = None]
    /\ UNCHANGED clock

Next ==
    \/ Tick
    \/ \E l \in Link : /\ phase'[l] # phase[l]  \* it moves on
                       /\ AskFor(l) \/ Forgo(l) \/ GiveUp(l) \/ GoLive(l) \/ Use(l) \/ Expire(l)

Spec == Init /\ [][Next]_vars

-----------------------------------------------------------------------------
(* What whoever keeps the promise has                                      *)

TypeOK ==
    /\ clock \in Nat
    /\ phase \in [Link -> {"none", "sending", "pending", "superseded", "verified", "gone"}]
    /\ about \in [Link -> {None} \cup [journey : Journey, email : Email, at : Nat]]
    /\ used \in [Link -> {None} \cup Nat]

\* No journey has two live links (verification-records.js:45).
OneLive ==
    \A l, m \in Link :
        phase[l] = "pending" /\ phase[m] = "pending" /\ about[l].journey = about[m].journey
            => l = m

\* A verified link was verified in the past, and before it expired.
UsedInTime ==
    \A l \in Link : phase[l] = "verified" =>
        used[l] \in 0..clock /\ used[l] < about[l].at + LinkTtl

\* What is superseded or verified stays so until it is gone, with the journey and
\* address it is about and the time it was verified, and what is gone stays away.
NeverBack ==
    [][\A l \in Link : phase[l] \in {"superseded", "verified", "gone"} =>
         \/ phase'[l] = phase[l] /\ about'[l] = about[l] /\ used'[l] = used[l]
         \/ phase'[l] = "gone"]_vars
=============================================================================
