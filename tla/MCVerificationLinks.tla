------------------------ MODULE MCVerificationLinks ------------------------
(* A small instance of VerificationLinks for TLC. *)
EXTENDS VerificationLinks, TLC

\* Requests, verifications, journeys and addresses are interchangeable.
Symmetry == Permutations(Link) \cup Permutations(Verifier)
                \cup Permutations(Journey) \cup Permutations(Email)
=============================================================================
