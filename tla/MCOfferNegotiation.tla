------------------------ MODULE MCOfferNegotiation ------------------------
(* An instance of OfferNegotiation for TLC.                                 *)
EXTENDS OfferNegotiation, TLC
Interchangeable == Permutations(Requests) \cup Permutations(Offers)
=============================================================================
