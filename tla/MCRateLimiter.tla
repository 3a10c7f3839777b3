--------------------------- MODULE MCRateLimiter ---------------------------
(* A small instance of RateLimiter for TLC. *)
EXTENDS RateLimiter, TLC

\* Requests, and journeys, are interchangeable: none is named.
Symmetry == Permutations(Request) \cup Permutations(Journey)
=============================================================================
