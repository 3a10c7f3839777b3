-------------------------- MODULE RegistrationStore --------------------------
(***************************************************************************)
(* What the audited repository promises: registrations change only by      *)
(* whole transactions, each of which records every new version of every    *)
(* registration it touches, continues the versions without a gap, and      *)
(* never touches a deleted registration.  There are no snapshots, no       *)
(* conflicts, no failures and no retries here.                             *)
(*                                                                         *)
(* The code promises it in audited-repository.js: every write of a         *)
(* registration and its appendHistory share one transaction.               *)
(***************************************************************************)
EXTENDS Integers

CONSTANTS
    Ref,       \* the references of registrations
    Caller,    \* those who change them
    Initial,   \* the registrations stored before history existed
    Absent     \* no registration with that reference

VARIABLES
    regs,      \* the registrations
    hist       \* the entries of their history

vars == <<regs, hist>>

Version(d) == IF d = Absent THEN 0 ELSE d.version

Init == regs = Initial /\ hist = {}

\* Only a registration that is not deleted changes.
Changeable(d) == d # Absent => ~d.isDeleted

\* The first version of a reference is its creation, unless it was stored
\* before versions; nothing else is.
CreatesFirst(d, es) ==
    \A e \in es : e.operation = "create" <=> d = Absent /\ e.version = 1

\* The entry of a deletion is the last, and no other snapshot is deleted.
DeletesLast(es) ==
    \A e \in es :
        /\ e.operation = "delete" <=> e.snapshot.isDeleted
        /\ e.operation = "delete" => \A f \in es : f.version <= e.version

\* es takes the registration d, by versions without a gap, to the snapshot of
\* the last of them.
Continues(d, es, after) ==
    /\ \A e, f \in es : e.version = f.version => e = f
    /\ \E last \in es :
         /\ after = last.snapshot
         /\ after.version = last.version
         /\ {e.version : e \in es} = (Version(d) + 1)..last.version

\* c's transaction records the entries es and leaves each registration as the
\* last of its entries says; one without entries does not change.
Transaction(c, es) ==
    /\ \A e \in es : e.by = c
    /\ hist' = hist \cup es
    /\ \A r \in Ref :
         LET own == {e \in es : e.reference = r} IN
         \/ own = {} /\ regs'[r] = regs[r]
         \/ /\ Changeable(regs[r])
            /\ CreatesFirst(regs[r], own)
            /\ DeletesLast(own)
            /\ Continues(regs[r], own, regs'[r])

Next == \E c \in Caller : Transaction(c, hist' \ hist)

Spec == Init /\ [][Next]_vars
=============================================================================
