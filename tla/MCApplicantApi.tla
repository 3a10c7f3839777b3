---------------------------- MODULE MCApplicantApi ----------------------------
(* A small instance of ApplicantApi for TLC. *)
EXTENDS ApplicantApi, TLC

\* All is set up; or no email verification, and the service uses the prefix of the
\* seeds; or there is no secret, and no analytics.
MCTier ==
    {[secret |-> TRUE, others |-> TRUE, required |-> TRUE, analytics |-> TRUE, seedPrefix |-> FALSE],
     [secret |-> TRUE, others |-> FALSE, required |-> FALSE, analytics |-> TRUE, seedPrefix |-> TRUE],
     [secret |-> FALSE, others |-> TRUE, required |-> TRUE, analytics |-> FALSE, seedPrefix |-> FALSE]}

\* Two spellings of one address.
MCLower == [e \in {"Ann ", "ann"} |-> "ann"]

Symmetry == Permutations(Call) \cup Permutations(Reference)
=============================================================================
