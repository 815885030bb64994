----------------------------- MODULE MCShmRelay -----------------------------
(***************************************************************************)
(* Instances of ShmRelay.  The program has 10 blocks and 2 readers; 3      *)
(* blocks are the fewest that keep a writer one round ahead of 2 readers   *)
(* from writing the block they read, and are soon lapped otherwise.        *)
(***************************************************************************)
EXTENDS ShmRelay

Calm == [attached |-> TRUE, prompt |-> TRUE, alarms |-> FALSE, refused |-> FALSE,
         kills |-> FALSE]
AnyTiming == [Calm EXCEPT !.prompt = FALSE]

\* One circumstance at a time departs from the calm one, which suffices for
\* properties that each exclude the circumstances that break them.
MCScenarios ==
  {Calm, AnyTiming, [Calm EXCEPT !.attached = FALSE], [Calm EXCEPT !.alarms = TRUE],
   [Calm EXCEPT !.refused = TRUE], [Calm EXCEPT !.kills = TRUE], [AnyTiming EXCEPT !.kills = TRUE]}
=============================================================================
