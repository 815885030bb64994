--------------------------- MODULE MCPendingFile ---------------------------
(***************************************************************************)
(* Instances of PendingFile.  Streams are what the relay makes of uploads: *)
(* it deals the packets it receives in turn to its reading processes, each *)
(* of which has one connection to the storage server; the first packet     *)
(* goes to process 1 (w_datarecv.cpp, lines 114-116).                      *)
(***************************************************************************)
EXTENDS PendingFile

CONSTANTS f1, f2, f3

\* The packets the client sends for a file of n blocks, and those it sends
\* when the size is a multiple of a packet: a data packet with no data is last.
DataPackets(f, n) ==
  [k \in 1..n |-> [type |-> "D", id |-> f, offset |-> k - 1, len |-> 1]]
Header(f, n) == <<[type |-> "N", id |-> f, size |-> n]>>
End(f) == <<[type |-> "E", id |-> f]>>
Upload(f, n) == Header(f, n) \o DataPackets(f, n) \o End(f)
UploadOfWholePackets(f, n) ==
  Header(f, n) \o DataPackets(f, n)
    \o <<[type |-> "D", id |-> f, offset |-> n, len |-> 0]>> \o End(f)

\* Packet k, from 1, goes to connection k % n.
Deal(s, n) ==
  [t \in 0..n - 1 |->
    LET mine == SelectSeq([k \in 1..Len(s) |-> k], LAMBDA k : k % n = t)
    IN  [j \in 1..Len(mine) |-> s[mine[j]]]]

\* Three threads, of which Deal leaves the last idle when n is 2.
MCThreads == {0, 1, 2}
On(streams) == [t \in MCThreads |-> IF t \in DOMAIN streams THEN streams[t] ELSE <<>>]

SmallFiles == On(Deal(Upload(f1, 1) \o Upload(f2, 1) \o Upload(f3, 1), 2))
ConnectionPerFile == On([t \in {0, 1} |-> IF t = 0 THEN Upload(f1, 2) ELSE Upload(f2, 2)])
OverTwo == On(Deal(Upload(f1, 2), 2))
OverThree == On(Deal(Upload(f1, 2) \o Upload(f2, 1), 3))
WholePackets == On(Deal(UploadOfWholePackets(f1, 1), 2))
SameFileTwice == On(Deal(Upload(f1, 1) \o Upload(f1, 1), 2))

AllStreams == {SmallFiles, ConnectionPerFile, OverTwo, OverThree, WholePackets,
               SameFileTwice}
DealtStreams == {OverTwo}
============================================================================
