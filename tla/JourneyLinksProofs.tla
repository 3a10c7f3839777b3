-------------------------- MODULE JourneyLinksProofs --------------------------
(***************************************************************************)
(* What the promise of JourneyLinks is worth: whatever keeps it has at     *)
(* most one live link for a journey, verifies links in time only, and      *)
(* brings none back, for any number of links, journeys and addresses.      *)
(***************************************************************************)
EXTENDS JourneyLinks, TLAPS

\* Whatever happens to the links, the variables keep their types.
LEMMA Types == Spec => []TypeOK
<1>1. Init => TypeOK
  <2> SUFFICES ASSUME Init PROVE TypeOK
    OBVIOUS
  <2>1. AskedBy(0) \subseteq [journey : Journey, email : Email, at : Nat]
    BY DEF AskedBy
  <2> QED BY <2>1 DEF Init, TypeOK
<1>2. TypeOK /\ [Next]_vars => TypeOK'
  <2> SUFFICES ASSUME TypeOK, [Next]_vars PROVE TypeOK'
    OBVIOUS
  <2> USE DEF TypeOK
  <2>1. CASE UNCHANGED vars
    BY <2>1 DEF vars
  <2>2. CASE Tick
    BY <2>2 DEF Tick
  <2>3. ASSUME NEW l \in Link, AskFor(l) PROVE TypeOK'
    <3>1. AskedBy(clock) \subseteq [journey : Journey, email : Email, at : Nat]
      BY DEF AskedBy
    <3> QED BY <2>3, <3>1 DEF AskFor
  <2>4. ASSUME NEW l \in Link, Forgo(l) \/ GiveUp(l) \/ Expire(l) PROVE TypeOK'
    BY <2>4 DEF Forgo, GiveUp, Expire
  <2>5. ASSUME NEW l \in Link, GoLive(l) PROVE TypeOK'
    BY <2>5 DEF GoLive
  <2>6. ASSUME NEW l \in Link, Use(l) PROVE TypeOK'
    <3>1. used'[l] \in Nat
      BY <2>6 DEF Use
    <3> QED BY <2>6, <3>1 DEF Use
  <2> QED BY <2>1, <2>2, <2>3, <2>4, <2>5, <2>6 DEF Next
<1> QED BY <1>1, <1>2, PTL DEF Spec

\* What a step does to each link that it does not supersede.
LEMMA Steps ==
    ASSUME TypeOK, [Next]_vars, NEW l \in Link
    PROVE  \/ phase'[l] = phase[l] /\ about'[l] = about[l] /\ used'[l] = used[l]
           \/ phase'[l] \in {"sending", "gone"}
           \/ GoLive(l)
           \/ Use(l)
           \/ phase[l] = "pending" /\ phase'[l] = "superseded"
<1> USE DEF TypeOK
<1>1. CASE UNCHANGED vars
  BY <1>1 DEF vars
<1>2. CASE Tick
  BY <1>2 DEF Tick
<1>3. ASSUME NEW m \in Link, m # l,
             AskFor(m) \/ Forgo(m) \/ GiveUp(m) \/ Expire(m) \/ Use(m)
      PROVE  phase'[l] = phase[l] /\ about'[l] = about[l] /\ used'[l] = used[l]
  BY <1>3 DEF AskFor, Forgo, GiveUp, Expire, Use
<1>4. ASSUME NEW m \in Link, m # l, GoLive(m)
      PROVE  \/ phase'[l] = phase[l] /\ about'[l] = about[l] /\ used'[l] = used[l]
             \/ phase[l] = "pending" /\ phase'[l] = "superseded"
  BY <1>4 DEF GoLive
<1>5. ASSUME AskFor(l) \/ Forgo(l) \/ GiveUp(l) \/ Expire(l)
      PROVE  phase'[l] \in {"sending", "gone"}
  BY <1>5 DEF AskFor, Forgo, GiveUp, Expire
<1> QED BY <1>1, <1>2, <1>3, <1>4, <1>5 DEF Next

\* At most one link of a journey is live, since going live supersedes the other
\* in the same step.
THEOREM LiveOnce == Spec => []OneLive
<1>1. Init => OneLive
  BY DEF Init, OneLive
<1>2. TypeOK /\ OneLive /\ [Next]_vars => OneLive'
  <2> SUFFICES ASSUME TypeOK, OneLive, [Next]_vars PROVE OneLive'
    OBVIOUS
  <2>1. CASE \E l \in Link : GoLive(l)
    <3>1. PICK l \in Link : GoLive(l)
      BY <2>1
    <3>2. /\ about' = about
          /\ \A m \in Link \ {l} : phase'[m] = "pending" =>
               phase[m] = "pending" /\ about[m].journey # about[l].journey
      BY <3>1 DEF GoLive
    <3> QED BY <3>2 DEF OneLive
  <2>2. CASE \A l \in Link : ~GoLive(l)
    <3>1. \A l \in Link : phase'[l] = "pending" => phase[l] = "pending" /\ about'[l] = about[l]
      <4> SUFFICES ASSUME NEW l \in Link, phase'[l] = "pending"
                   PROVE  phase[l] = "pending" /\ about'[l] = about[l]
        OBVIOUS
      <4>1. ~Use(l)
        BY DEF Use, TypeOK
      <4> QED BY <2>2, <4>1, Steps
    <3> QED BY <3>1 DEF OneLive
  <2> QED BY <2>1, <2>2
<1> QED BY <1>1, <1>2, Types, PTL DEF Spec

\* A link is verified by a call that came before it expired.
THEOREM UsedEarlyEnough == Spec => [](LinkTtl \in Nat \ {0} => UsedInTime)
<1> DEFINE Inv == LinkTtl \in Nat \ {0} => UsedInTime
<1>1. Init => Inv
  <2> SUFFICES ASSUME Init, LinkTtl \in Nat \ {0}, NEW l \in Link, phase[l] = "verified"
               PROVE  used[l] \in 0..clock /\ used[l] < about[l].at + LinkTtl
    BY DEF UsedInTime
  <2>1. used[l] = 0 /\ about[l] \in AskedBy(0) /\ clock = 0
    BY DEF Init
  <2>2. about[l].at = 0
    BY <2>1 DEF AskedBy
  <2> QED BY <2>1, <2>2
<1>2. TypeOK /\ TypeOK' /\ Inv /\ [Next]_vars => Inv'
  <2> SUFFICES ASSUME TypeOK, TypeOK', UsedInTime, [Next]_vars, NEW l \in Link,
                      phase'[l] = "verified"
               PROVE  used'[l] \in 0..clock' /\ used'[l] < about'[l].at + LinkTtl
    BY DEF UsedInTime
  <2>1. clock \in Nat /\ clock' \in Nat /\ clock <= clock'
    BY DEF TypeOK, Next, vars, Tick, AskFor, Forgo, GiveUp, GoLive, Use, Expire
  <2>2. CASE Use(l)
    <3>1. /\ used'[l] \in 0..clock /\ used'[l] < about[l].at + LinkTtl
          /\ about' = about /\ clock' = clock
      BY <2>2 DEF Use
    <3> QED BY <3>1
  <2>3. CASE ~Use(l)
    <3>1. ~GoLive(l)
      BY DEF GoLive, TypeOK
    <3>2. phase'[l] = phase[l] /\ about'[l] = about[l] /\ used'[l] = used[l]
      BY <2>3, <3>1, Steps
    <3>3. used[l] \in 0..clock /\ used[l] < about[l].at + LinkTtl
      BY <3>2 DEF UsedInTime
    <3> QED BY <2>1, <3>2, <3>3
  <2> QED BY <2>2, <2>3
<1> QED BY <1>1, <1>2, Types, PTL DEF Spec

\* No link that is superseded, verified or gone works again, nor does the record
\* of a verification change.
THEOREM NoneComesBack == Spec => NeverBack
<1>1. ASSUME TypeOK, [Next]_vars, NEW l \in Link, phase[l] \in {"superseded", "verified", "gone"}
      PROVE  \/ phase'[l] = phase[l] /\ about'[l] = about[l] /\ used'[l] = used[l]
             \/ phase'[l] = "gone"
  <2>1. ~GoLive(l) /\ ~Use(l)
    BY <1>1 DEF GoLive, Use
  <2>2. phase'[l] # "sending" \/ phase'[l] = phase[l]
    BY <1>1 DEF TypeOK, Next, vars, Tick, AskFor, Forgo, GiveUp, GoLive, Use, Expire
  <2> QED BY <1>1, <2>1, <2>2, Steps
<1>2. TypeOK /\ [Next]_vars =>
        [\A l \in Link : phase[l] \in {"superseded", "verified", "gone"} =>
           \/ phase'[l] = phase[l] /\ about'[l] = about[l] /\ used'[l] = used[l]
           \/ phase'[l] = "gone"]_vars
  BY <1>1
<1> QED BY <1>2, Types, PTL DEF Spec, NeverBack
=============================================================================
