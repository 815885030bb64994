----------------------------- MODULE MCIpcSetup -----------------------------
(***************************************************************************)
(* Instances of IpcSetup.  Two processes are enough to disagree.           *)
(***************************************************************************)
EXTENDS IpcSetup

AsDocumented == [table |-> FALSE, killsAll |-> TRUE, again |-> FALSE, bare |-> FALSE]
Again == [AsDocumented EXCEPT !.again = TRUE]
Tables == [AsDocumented EXCEPT !.table = TRUE]

\* Each departs from the documented use in one way, which suffices for properties
\* that each exclude the ways that break them.
MCScenarios ==
  {AsDocumented, Again, Tables, [AsDocumented EXCEPT !.killsAll = FALSE],
   [AsDocumented EXCEPT !.bare = TRUE]}
=============================================================================
