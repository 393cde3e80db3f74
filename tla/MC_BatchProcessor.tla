------------------------- MODULE MC_BatchProcessor -------------------------
(* BatchProcessor for TLC: a batch of two items and one of one item.          *)
EXTENDS BatchProcessor

MCBatches == 1..2
MCSize == [b \in MCBatches |-> 3 - b]
MCOutcomes == [b \in MCBatches |-> IF b = 1 THEN Settled ELSE {"ok"}]
=============================================================================
