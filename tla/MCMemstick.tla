----------------------------- MODULE MCMemstick -----------------------------
(* Two places for a card: the one that is registered and the one being identified. *)
EXTENDS MemstickHosts

CONSTANTS c1, c2
TwoCards == {c1, c2}
=============================================================================
