-------------------------- MODULE MCWebhookDelivery --------------------------
(* Two attempts stand for five: one that is retried and the last one; with *)
(* three the middle one, retried and to be retried, is there as well.      *)
EXTENDS WebhookDelivery, TLC

CONSTANTS tick1, tick2

MCBackoff  == [n \in {1} |-> 1]
MCBackoff3 == [n \in {1, 2} |-> n]
MCTicks    == {tick1, tick2}
MCSymmetry == Permutations(MCTicks)
=============================================================================
