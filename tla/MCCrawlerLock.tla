----------------------------- MODULE MCCrawlerLock -----------------------------
(***************************************************************************)
(* Instances of CrawlerLock for TLC.                                       *)
(***************************************************************************)
EXTENDS CrawlerLock

CONSTANTS w1, w2, w3

ThreeWorkers == {w1, w2, w3}
=============================================================================
