--------------------------- MODULE MCChatGateway ---------------------------
(***************************************************************************)
(* Small instances of ChatGateway for TLC.                                 *)
(***************************************************************************)
EXTENDS ChatGateway, TLC

\* This holds a reservation of 2 and always refuses one of 6; of reservations
\* of 4 it holds one, not two.
MCAlloc == [p \in 1 .. NumPeriods |-> 5]

\* Requests, keys and fingerprints are interchangeable.
MCSymmetry == Permutations(Requests) \cup Permutations(Keys) \cup Permutations(Hashes)
=============================================================================
