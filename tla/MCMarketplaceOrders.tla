------------------------ MODULE MCMarketplaceOrders ------------------------
(* Instances of MarketplaceOrders for TLC; requests and keys of refunds are  *)
(* interchangeable.                                                         *)
EXTENDS MarketplaceOrders, TLC

Interchangeable == Permutations(Requests) \cup Permutations(RefundKeys)

=============================================================================
