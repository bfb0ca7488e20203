------------------------- MODULE MCScrapyDownloader -------------------------
(* Two slots of concurrency 1: "plain" has no delay, "polite" a delay of 2 *)
(* ticks, randomized between half and one and a half of it.                *)
EXTENDS ScrapyDownloader

MCConcurrency == [k \in SlotKey |-> 1]
MCDelay == [k \in SlotKey |-> IF k = "polite" THEN 2 ELSE 0]
MCDelays == [k \in SlotKey |-> IF k = "polite" THEN {1, 3} ELSE {0}]
=============================================================================
