---------------------------- MODULE MCSpiderLite ----------------------------
(***************************************************************************)
(* An instance of SpiderLite: every web of three urls, in two runs.        *)
(***************************************************************************)
EXTENDS SpiderLite

AllWebs == [WebUrls -> SUBSET WebUrls]
=============================================================================
