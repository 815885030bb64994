----------------------------- MODULE UrlManager -----------------------------
(***************************************************************************)
(* The CGI scripts of url_manager: requests to add, delete and show urls   *)
(* run as processes of their own over the files of block_dump, the file    *)
(* url_cnt of their number, and two temporary files.                       *)
(*                                                                         *)
(* A url is in the file of its length, modulo 50, and of the last two      *)
(* characters of its md5.  sed -i reads a file and renames its result over  *)
(* it; add_url_cnt.sh opens url_cnt_tmp, reads url_cnt, writes, and renames *)
(* the one over the other.  A process that has url_cnt_tmp open keeps the   *)
(* file whatever its name becomes.                                         *)
(***************************************************************************)
EXTENDS Integers, Sequences, FiniteSets, SequencesExt

CONSTANTS Urls,
          LenOf, TailOf,    \* of a url: its length, and the end of its md5
          Lens, Tails,      \* their values, as sequences in the order of ls
          Reqs,             \* processes that serve requests
          MaxReqs,          \* bound: requests served
          MaxPage,          \* bound: number and size of the page shown
          Scenarios, NULL

\* alone: one request at a time.  apart: none at the same time of the same file.
Scenario == {"alone", "apart", "any"}

\* ff of the scripts
FileOf(u) == <<LenOf[u], TailOf[u]>>
Files == {<<Lens[n], Tails[m]>> : n \in DOMAIN Lens, m \in DOMAIN Tails}
\* The files as get_show_urls.sh goes through them.
NFiles == Len(Lens) * Len(Tails)
FileAt(k) == <<Lens[((k - 1) \div Len(Tails)) + 1], Tails[((k - 1) % Len(Tails)) + 1]>>

VARIABLES
  scen,
  file,     \* file[f]: the urls in f, a line each
  node,     \* node[n]: what the open or named file n says, Blank or a number
  cnt,      \* the file that url_cnt names
  cnt_tmp,  \* the file that url_cnt_tmp names, NULL if there is none
  tmp,      \* the lines of data/tmp
  pc, req,  \* of a process: what it does next, and its request
  snap,     \* what its sed has read
  fd, val,  \* the file its redirection has open, and the number its awk read
  at, line_begin, need_print,   \* of get_show_urls.sh
  served,   \* requests begun
  met       \* have two processes been inside add_url_cnt.sh at once?

count == <<node, cnt, cnt_tmp, fd, val>>
show == <<tmp, at, line_begin, need_print>>
vars == <<scen, file, count, show, pc, req, snap, served, met>>

Blank == -1000      \* an empty file
Nodes == 1..Cardinality(Reqs) + 2

\* ls names each file once, and the file of each url.
ConstantsOK ==
  /\ Scenarios \subseteq Scenario
  /\ MaxReqs \in Nat /\ MaxPage \in Nat \ {0}
  /\ IsFiniteSet(Urls) /\ Urls # {}
  /\ IsFiniteSet(Reqs) /\ NULL \notin Nodes
  /\ Lens \in Seq(Range(Lens)) /\ IsInjective(Lens)
  /\ Tails \in Seq(Range(Tails)) /\ IsInjective(Tails)
  /\ \A u \in Urls : FileOf(u) \in Files
ASSUME ConstantsAssumption == ConstantsOK

Ops == {"add", "delete", "show"}
Request == [op : Ops, url : Urls, cur : 1..MaxPage, per : 1..MaxPage]
PC == {"free", "check", "append", "sed", "sedmv", "trunc", "awk", "write", "mv",
       "rm", "scan", "show"}
Counting(p) == pc[p] \in {"awk", "write", "mv"}

Lines(s) == {s[n] : n \in DOMAIN s}
Stored(u) == u \in Lines(file[FileOf(u)])
Busy == {p \in Reqs : pc[p] # "free"}
Goto(p, label) == pc' = [pc EXCEPT ![p] = label]

\* The urls, in order, of the files from the k-th on; Down from the last.
Listing[k \in 1..NFiles + 1] ==
  IF k > NFiles THEN <<>> ELSE file[FileAt(k)] \o Listing[k + 1]

\* md5_divide.sh puts each url into its file; cal_sum_of_url.sh counts the lines.
Init ==
  /\ scen \in Scenarios
  /\ \E S \in SUBSET Urls :
       /\ file = [f \in Files |-> SetToSeq({u \in S : FileOf(u) = f})]
       /\ node = [n \in Nodes |-> IF n = 1 THEN Cardinality(S) ELSE Blank]
  /\ cnt = 1 /\ cnt_tmp = NULL
  /\ tmp = <<>>
  /\ pc = [p \in Reqs |-> "free"]
  /\ req \in [Reqs -> {[op |-> "add", url |-> CHOOSE u \in Urls : TRUE, cur |-> 1, per |-> 1]}]
  /\ snap = [p \in Reqs |-> <<>>]
  /\ fd = [p \in Reqs |-> NULL]
  /\ val = [p \in Reqs |-> Blank]
  /\ at = [p \in Reqs |-> 1]
  /\ line_begin = [p \in Reqs |-> 0]
  /\ need_print = [p \in Reqs |-> 0]
  /\ served = 0
  /\ met = FALSE

\* A request comes, in the circumstances of the scenario.
Begin(p) ==
  /\ pc[p] = "free" /\ served < MaxReqs
  /\ served' = served + 1
  /\ \E r \in Request :
       /\ r.op # "show" => r.cur = 1 /\ r.per = 1
       /\ r.op = "show" => r.url = req[p].url
       /\ scen = "alone" => Busy = {}
       /\ scen = "apart" =>
            /\ \A q \in Busy : FileOf(req[q].url) # FileOf(r.url)
            /\ r.op = "show" => Busy = {}
            /\ \A q \in Busy : req[q].op # "show"
       /\ req' = [req EXCEPT ![p] = r]
       /\ Goto(p, IF r.op = "show" THEN "rm" ELSE "check")
  /\ UNCHANGED <<scen, file, count, show, snap, met>>

\* Mutant: sed, and the count, whether or not the url is there.
CheckAdds(p) ==
  /\ pc[p] = "check"
  /\ Goto(p, IF req[p].op = "delete" THEN "sed"
             ELSE IF Stored(req[p].url) THEN "free" ELSE "append")
  /\ UNCHANGED <<scen, file, count, show, req, snap, served, met>>

\* The fgrep of add_url.cgi and delete_url.cgi.
Check(p) ==
  /\ pc[p] = "check"
  /\ Goto(p, IF Stored(req[p].url) = (req[p].op = "add") THEN "free"
             ELSE IF req[p].op = "add" THEN "append" ELSE "sed")
  /\ UNCHANGED <<scen, file, count, show, req, snap, served, met>>

\* Mutant: echo > where it should be echo >>.
AppendOver(p) ==
  /\ pc[p] = "append"
  /\ file' = [file EXCEPT ![FileOf(req[p].url)] = <<req[p].url>>]
  /\ Goto(p, "trunc")
  /\ UNCHANGED <<scen, count, show, req, snap, served, met>>

\* add_url.cgi: echo >>
AppendUrl(p) ==
  /\ pc[p] = "append"
  /\ file' = [file EXCEPT ![FileOf(req[p].url)] = Append(@, req[p].url)]
  /\ Goto(p, "trunc")
  /\ UNCHANGED <<scen, count, show, req, snap, served, met>>

\* delete_url.cgi: sed -i reads the lines that it keeps, in their order ...
SedRead(p) ==
  /\ pc[p] = "sed"
  /\ LET lines == file[FileOf(req[p].url)]
         kept == {n \in DOMAIN lines : lines[n] # req[p].url}
     IN \E place \in [1..Cardinality(kept) -> kept] :
          /\ \A n, m \in DOMAIN place : n < m => place[n] < place[m]
          /\ snap' = [snap EXCEPT ![p] = [n \in DOMAIN place |-> lines[place[n]]]]
  /\ Goto(p, "sedmv")
  /\ UNCHANGED <<scen, file, count, show, req, served, met>>

\* ... and renames its result over the file.
SedRename(p) ==
  /\ pc[p] = "sedmv"
  /\ file' = [file EXCEPT ![FileOf(req[p].url)] = snap[p]]
  /\ Goto(p, "trunc")
  /\ UNCHANGED <<scen, count, show, req, snap, served, met>>

-----------------------------------------------------------------------------
(* add_url_cnt.sh                                                          *)

InUse == {cnt, cnt_tmp} \cup {fd[p] : p \in Reqs}

\* > url_cnt_tmp empties the file that has the name, or makes one.
OpenTmp(p) ==
  /\ pc[p] = "trunc"
  /\ cnt_tmp' = IF cnt_tmp # NULL THEN cnt_tmp ELSE CHOOSE n \in Nodes : n \notin InUse
  /\ node' = [node EXCEPT ![cnt_tmp'] = Blank]
  /\ fd' = [fd EXCEPT ![p] = cnt_tmp']
  /\ met' = (met \/ \E q \in Reqs \ {p} : Counting(q))
  /\ Goto(p, "awk")
  /\ UNCHANGED <<scen, file, cnt, val, show, req, snap, served>>

\* awk reads url_cnt.
AwkRead(p) ==
  /\ pc[p] = "awk"
  /\ val' = [val EXCEPT ![p] = node[cnt]]
  /\ Goto(p, "write")
  /\ UNCHANGED <<scen, file, node, cnt, cnt_tmp, fd, show, req, snap, served, met>>

\* awk writes a line for the line it read, if any, when it ends.
AwkWrite(p) ==
  /\ pc[p] = "write"
  /\ node' = IF val[p] = Blank THEN node
             ELSE [node EXCEPT ![fd[p]] = val[p] + IF req[p].op = "add" THEN 1 ELSE -1]
  /\ fd' = [fd EXCEPT ![p] = NULL]
  /\ Goto(p, "mv")
  /\ UNCHANGED <<scen, file, cnt, cnt_tmp, val, show, req, snap, served, met>>

\* mv fails when another process has renamed url_cnt_tmp.
Move(p) ==
  /\ pc[p] = "mv"
  /\ cnt' = IF cnt_tmp = NULL THEN cnt ELSE cnt_tmp
  /\ cnt_tmp' = NULL
  /\ Goto(p, "free")
  /\ UNCHANGED <<scen, file, node, fd, val, show, req, snap, served, met>>

-----------------------------------------------------------------------------
(* show_all_urls.cgi: get_show_urls.sh and show_urls.sh                     *)

RemoveTmp(p) ==
  /\ pc[p] = "rm"
  /\ tmp' = <<>>
  /\ at' = [at EXCEPT ![p] = 1]
  /\ line_begin' = [line_begin EXCEPT ![p] = req[p].per * (req[p].cur - 1) + 1]
  /\ need_print' = [need_print EXCEPT ![p] = req[p].per]
  /\ Goto(p, "scan")
  /\ UNCHANGED <<scen, file, count, req, snap, served, met>>

\* Mutant: goes on to the next file with the lines yet to skip unchanged.
ScanForgets(p) ==
  /\ pc[p] = "scan"
  /\ at[p] <= NFiles
  /\ LET lines == file[FileAt(at[p])]
         more == tmp \o SubSeq(lines, line_begin[p] + 1,
                               IF line_begin[p] + need_print[p] <= Len(lines)
                               THEN line_begin[p] + need_print[p] ELSE Len(lines))
     IN IF line_begin[p] > Len(lines)
          THEN UNCHANGED <<tmp, line_begin, need_print, pc>>
          ELSE /\ tmp' = more
               /\ line_begin' = [line_begin EXCEPT ![p] = 0]
               /\ need_print' = [need_print EXCEPT ![p] = req[p].per - Len(more)]
               /\ Goto(p, IF Len(more) >= req[p].per THEN "show" ELSE "scan")
  /\ at' = [at EXCEPT ![p] = @ + 1]
  /\ UNCHANGED <<scen, file, count, req, snap, served, met>>

\* One file: it is skipped while it has fewer lines than are to be skipped; else
\* awk skips line_begin of its lines, and prints up to need_print.
Scan(p) ==
  /\ pc[p] = "scan"
  /\ at[p] <= NFiles
  /\ LET lines == file[FileAt(at[p])]
         more == tmp \o SubSeq(lines, line_begin[p] + 1,
                               IF line_begin[p] + need_print[p] <= Len(lines)
                               THEN line_begin[p] + need_print[p] ELSE Len(lines))
     IN IF line_begin[p] > Len(lines)
          THEN /\ line_begin' = [line_begin EXCEPT ![p] = @ - Len(lines)]
               /\ UNCHANGED <<tmp, need_print, pc>>
          ELSE /\ tmp' = more
               /\ line_begin' = [line_begin EXCEPT ![p] = 0]
               /\ need_print' = [need_print EXCEPT ![p] = req[p].per - Len(more)]
               /\ Goto(p, IF Len(more) >= req[p].per THEN "show" ELSE "scan")
  /\ at' = [at EXCEPT ![p] = @ + 1]
  /\ UNCHANGED <<scen, file, count, req, snap, served, met>>

\* The last file is done.
ScanEnds(p) ==
  /\ pc[p] = "scan" /\ at[p] > NFiles
  /\ Goto(p, "show")
  /\ UNCHANGED <<scen, file, count, show, req, snap, served, met>>

\* show_urls.sh prints data/tmp.
Show(p) ==
  /\ pc[p] = "show"
  /\ Goto(p, "free")
  /\ UNCHANGED <<scen, file, count, show, req, snap, served, met>>

Step(p) ==
  \/ Check(p) \/ AppendUrl(p) \/ SedRead(p) \/ SedRename(p)
  \/ OpenTmp(p) \/ AwkRead(p) \/ AwkWrite(p) \/ Move(p)
  \/ RemoveTmp(p) \/ Scan(p) \/ ScanEnds(p) \/ Show(p)

Next == \E p \in Reqs : Begin(p) \/ Step(p)

Spec == Init /\ [][Next]_vars

-----------------------------------------------------------------------------
(* Properties                                                              *)

\* The process that has the request asks for this change of u.
Asked(p, u) == pc[p] \in {"append", "sedmv"} /\ req[p].url = u

\* Requests at the same time on different files do not disturb each other: a url
\* comes or goes only by a request that names it, and no file has it twice.
OnlyAsAsked ==
  [][scen # "any" =>
      \A u \in Urls : Stored(u) # Stored(u)' =>
         \E p \in Reqs : Asked(p, u) /\ (req[p].op = "add") = Stored(u)']_vars

\* When all is quiet url_cnt is the number of the urls, if no two processes were
\* inside add_url_cnt.sh at once: failed requests and shows do not count, and a
\* url that is added is one more and one that is deleted one less.
CountMatches ==
  (scen # "any" /\ ~met /\ Busy = {}) => node[cnt] = Len(Listing[1])

\* Pages of a size follow one another, whatever the files their lines are in:
\* page n is the n-th run of that many lines of the listing, without a gap or an
\* overlap, after its first line, which no page shows (get_show_urls.sh:8).
PagesFollowOn ==
  \A p \in Reqs :
    (scen # "any" /\ pc[p] = "show") =>
      LET all == Listing[1]
          first == req[p].per * (req[p].cur - 1) + 2
          last == first + req[p].per - 1
      IN tmp = SubSeq(all, first, IF last <= Len(all) THEN last ELSE Len(all))
=============================================================================
