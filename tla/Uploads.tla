------------------------------- MODULE Uploads -------------------------------
(***************************************************************************)
(* Traffic for instances of StorageConn and StorageServer: uploads that    *)
(* the relay deals to its two reading processes, the first packet to the   *)
(* second process.  c1 and c2 are their connections, c3 the one the second *)
(* makes after an alarm.                                                   *)
(***************************************************************************)
EXTENDS Integers, Sequences

CONSTANTS Conns, c1, c2, c3,
          f1, f2,
          MaxLen,     \* the payload of a full data packet
          NULL

Header(f, n) == [type |-> "N", id |-> f, size |-> n]
Data(f, from, n) == [type |-> "D", id |-> f, offset |-> from, len |-> n]
End(f) == [type |-> "E", id |-> f]

On(a, b, c) == [x \in Conns |-> CASE x = c1 -> a [] x = c2 -> b [] x = c3 -> c]
After == [x \in Conns |-> IF x = c3 THEN c2 ELSE NULL]

\* A file of a full packet and 100 bytes: four messages, dealt in turn.
OneUpload(cut) ==
  [brings |-> On(<<Data(f1, 0, MaxLen), End(f1)>>,
                 <<Header(f1, MaxLen + 100), Data(f1, MaxLen, 100)>>, <<>>),
   after |-> After, cut |-> cut]

\* A file of one full packet: the packet without data follows.
FullPacket ==
  [brings |-> On(<<Data(f1, 0, MaxLen), End(f1)>>,
                 <<Header(f1, MaxLen), Data(f1, MaxLen, 0)>>, <<>>),
   after |-> After, cut |-> 0]

\* Two uploads of a packet each: over one connection per process, and with an
\* alarm of the second process, which has been idle for longer, between them.
OverSameConnections ==
  [brings |-> On(<<Data(f1, 0, 100), Header(f2, 7), End(f2)>>,
                 <<Header(f1, 100), End(f1), Data(f2, 0, 7)>>, <<>>),
   after |-> After, cut |-> 0]
OverNewConnection ==
  [brings |-> On(<<Data(f1, 0, 100), Header(f2, 7), End(f2)>>,
                 <<Header(f1, 100), End(f1)>>, <<Data(f2, 0, 7)>>),
   after |-> After, cut |-> 0]
==============================================================================
