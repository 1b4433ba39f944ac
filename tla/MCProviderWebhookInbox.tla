----------------------- MODULE MCProviderWebhookInbox -----------------------
(***************************************************************************)
(* Instances of ProviderWebhookInbox for TLC.  Times are scaled so that,   *)
(* as with the default configuration, the first retry (30 s) and the lease *)
(* of a receipt (120 s) end before the fence of a claim (300 s) does.      *)
(***************************************************************************)
EXTENDS ProviderWebhookInbox, TLC

Interchangeable == Permutations(Events) \cup Permutations(Workers)

=============================================================================
