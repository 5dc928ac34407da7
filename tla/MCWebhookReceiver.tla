------------------------- MODULE MCWebhookReceiver --------------------------
(***************************************************************************)
(* Two workflows in a cache of one or two entries.                         *)
(***************************************************************************)
EXTENDS WebhookReceiver

CONSTANTS w1, w2, p1, p2, p3

Paths == [w \in {w1, w2} |-> IF w = w1 THEN p1 ELSE p2]
OnePath == [w \in {w1} |-> p1]
=============================================================================
