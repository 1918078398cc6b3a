-------------------------- MODULE MCWebhookReplay --------------------------
(* An instance of WebhookReplay for TLC. *)
EXTENDS WebhookReplay, TLC

Symmetry == Permutations(Messages) \cup Permutations(Nonces) \cup Permutations(Requests)
=============================================================================
