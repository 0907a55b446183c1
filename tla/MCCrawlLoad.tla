---------------------------- MODULE MCCrawlLoad -----------------------------
(***************************************************************************)
(* The files of MCExt4Blocks, crawled and loaded.                          *)
(***************************************************************************)
EXTENDS CrawlLoad, MCExt4Blocks
=============================================================================
