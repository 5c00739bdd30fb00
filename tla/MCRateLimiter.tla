--------------------------- MODULE MCRateLimiter ---------------------------
(***************************************************************************)
(* Small instances of RateLimiter for TLC.                                 *)
(***************************************************************************)
EXTENDS RateLimiter, TLC

\* Every request carries an ID of its own.
OwnIds == [r \in Requests |-> r]

\* Every request carries the X-Request-ID its client chose once.
OneId == [r \in Requests |-> "id"]

\* Requests are interchangeable.
MCSymmetry == Permutations(Requests)
=============================================================================
