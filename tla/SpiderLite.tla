----------------------------- MODULE SpiderLite -----------------------------
(***************************************************************************)
(* The crawler of spider_lite (shell/spider_ctl.sh and the three scripts   *)
(* it runs for each url): download a url, search the page for urls, keep   *)
(* those not in the file of unvisited urls, append them to that file.      *)
(*                                                                         *)
(* The state is in files, which outlive a run: only unvisited is made anew *)
(* by s_root_download.sh.  A line "url \t md5" is its url, and the page at *)
(* a path is the url it came from.                                         *)
(***************************************************************************)
EXTENDS Integers, Sequences, FiniteSets, Functions

CONSTANTS NUrl,       \* urls of the web are 1..NUrl, in the order of sort
          MaxRuns,    \* bound: runs of spider_ctl.sh
          Webs        \* the webs to consider: which urls each page names

WebUrls == 1..NUrl
WebsOK ==
  /\ NUrl \in Nat \ {0} /\ MaxRuns \in Nat
  /\ Webs \subseteq [WebUrls -> SUBSET WebUrls]
ASSUME WebsAssumption == WebsOK

VARIABLES
  web,        \* web[u]: the urls that the page of u names
  kills,      \* may the crawler be killed in this behaviour?
  runs,       \* runs begun
  spider_pc,  \* what spider_ctl.sh does next
  unvisited, visited, download_md5,   \* the files of data/
  dump,       \* dump[n]: the page in data/dump_urls/n, of those that exist
  htm,        \* the urls of spider.tmp_htm that s_uniq_url has yet to read
  htm_uniq,   \* the file spider.tmp_htm_uniq
  line,       \* lines of unvisited read
  url,        \* the url read last
  i           \* the number of the next page

files == <<unvisited, visited, download_md5, dump>>
spider_tmp == <<htm, htm_uniq>>
loop == <<line, url, i>>
spider_vars == <<web, kills, runs, spider_pc, files, spider_tmp, loop>>

NoText == 0        \* a file that is not text, or empty

SpiderPC == {"off", "read", "wget", "record", "filetype", "search", "uniq", "append"}

\* The files with page as number n, and without number n.
With(d, n, page) == [m \in DOMAIN d \cup {n} |-> IF m = n THEN page ELSE d[m]]
Without(d, n) == [m \in DOMAIN d \ {n} |-> d[m]]

SpiderInit ==
  /\ web \in Webs
  /\ kills \in BOOLEAN
  /\ runs = 0
  /\ spider_pc = "off"
  /\ unvisited = <<>> /\ visited = <<>> /\ download_md5 = <<>>
  /\ dump = [n \in {} |-> NoText]
  /\ htm = {} /\ htm_uniq = <<>>
  /\ line = 0 /\ url = 1 /\ i = 1

\* spider_ctl.sh and s_root_download.sh: unvisited is the root url and no more.
BeginRun ==
  /\ spider_pc = "off" /\ runs < MaxRuns
  /\ runs' = runs + 1
  /\ \E root \in WebUrls : unvisited' = <<root>>
  /\ line' = 0 /\ i' = 1
  /\ spider_pc' = "read"
  /\ UNCHANGED <<web, kills, visited, download_md5, dump, spider_tmp, url>>

\* Mutant: downloads what it has downloaded.
ReadAll ==
  /\ spider_pc = "read"
  /\ IF line < Len(unvisited)
       THEN /\ url' = unvisited[line + 1]
            /\ line' = line + 1
            /\ spider_pc' = "wget"
       ELSE spider_pc' = "off" /\ UNCHANGED <<url, line>>
  /\ UNCHANGED <<web, kills, runs, files, spider_tmp, i>>

\* Mutant: does not go past a url that is in download_md5.
ReadSameLine ==
  /\ spider_pc = "read"
  /\ IF line < Len(unvisited)
       THEN /\ url' = unvisited[line + 1]
            /\ line' = IF url' \in Range(download_md5) THEN line ELSE line + 1
            /\ spider_pc' = IF url' \in Range(download_md5) THEN "read" ELSE "wget"
       ELSE spider_pc' = "off" /\ UNCHANGED <<url, line>>
  /\ UNCHANGED <<web, kills, runs, files, spider_tmp, i>>

\* The next line of unvisited, which grows while it is read; s_download.sh leaves
\* a url that is in download_md5.
Read ==
  /\ spider_pc = "read"
  /\ IF line < Len(unvisited)
       THEN /\ url' = unvisited[line + 1]
            /\ line' = line + 1
            /\ spider_pc' = IF url' \in Range(download_md5) THEN "read" ELSE "wget"
       ELSE spider_pc' = "off" /\ UNCHANGED <<url, line>>
  /\ UNCHANGED <<web, kills, runs, files, spider_tmp, i>>

\* wget writes the file in any case; the page may be missing, or not text.
Wget ==
  /\ spider_pc = "wget"
  /\ \E page \in {url, NoText} : dump' = With(dump, i, page)
  /\ spider_pc' = "record"
  /\ UNCHANGED <<web, kills, runs, unvisited, visited, download_md5, spider_tmp, loop>>

Record ==
  /\ spider_pc = "record"
  /\ download_md5' = Append(download_md5, url)
  /\ spider_pc' = "filetype"
  /\ UNCHANGED <<web, kills, runs, unvisited, visited, dump, spider_tmp, loop>>

\* A file that is not text is removed, and its number is used again; the others
\* are visited.
FileType ==
  /\ spider_pc = "filetype"
  /\ IF dump[i] = url
       THEN /\ visited' = Append(visited, [url |-> url, path |-> i])
            /\ spider_pc' = "search"
            /\ UNCHANGED dump
       ELSE /\ dump' = Without(dump, i)
            /\ spider_pc' = "read"
            /\ UNCHANGED visited
  /\ UNCHANGED <<web, kills, runs, unvisited, download_md5, spider_tmp, loop>>

\* s_search_urls.sh makes spider.tmp_htm anew.
Search ==
  /\ spider_pc = "search"
  /\ htm' = web[url]
  /\ spider_pc' = "uniq"
  /\ UNCHANGED <<web, kills, runs, files, htm_uniq, loop>>

\* Mutant: > in place of >> to the file.
UniqOverwrites ==
  /\ spider_pc = "uniq"
  /\ \/ \E u \in htm :
          /\ \A v \in htm : u <= v
          /\ htm' = htm \ {u}
          /\ htm_uniq' = IF u \in Range(unvisited) THEN htm_uniq ELSE <<u>>
          /\ UNCHANGED spider_pc
     \/ htm = {} /\ spider_pc' = "append" /\ UNCHANGED spider_tmp
  /\ UNCHANGED <<web, kills, runs, files, loop>>

\* s_uniq_url.sh, for one url: it appends to a file that nothing empties.
Uniq ==
  /\ spider_pc = "uniq"
  /\ \/ \E u \in htm :
          /\ \A v \in htm : u <= v
          /\ htm' = htm \ {u}
          /\ htm_uniq' = IF u \in Range(unvisited) THEN htm_uniq ELSE Append(htm_uniq, u)
          /\ UNCHANGED spider_pc
     \/ htm = {} /\ spider_pc' = "append" /\ UNCHANGED spider_tmp
  /\ UNCHANGED <<web, kills, runs, files, loop>>

\* Mutant: every page has the same number.
AppendWithoutCounting ==
  /\ spider_pc = "append"
  /\ unvisited' = unvisited \o htm_uniq
  /\ spider_pc' = "read"
  /\ UNCHANGED <<web, kills, runs, visited, download_md5, dump, spider_tmp, loop>>

\* cat fails, and the number is used again, while spider.tmp_htm_uniq does not
\* exist, that is while nothing was appended to it.
AppendUrls ==
  /\ spider_pc = "append"
  /\ unvisited' = unvisited \o htm_uniq
  /\ i' = IF htm_uniq = <<>> THEN i ELSE i + 1
  /\ spider_pc' = "read"
  /\ UNCHANGED <<web, kills, runs, visited, download_md5, dump, spider_tmp, line, url>>

\* Ctrl-C, at any step.
Kill ==
  /\ kills /\ spider_pc # "off"
  /\ spider_pc' = "off"
  /\ UNCHANGED <<web, kills, runs, files, spider_tmp, loop>>

Crawl == Read \/ Wget \/ Record \/ FileType \/ Search \/ Uniq \/ AppendUrls

SpiderNext == BeginRun \/ Crawl \/ Kill

SpiderSpec == SpiderInit /\ [][SpiderNext]_spider_vars

\* A run goes on until it ends; wget has a time-out of 6 seconds and two tries.
SpiderFairSpec == SpiderSpec /\ WF_spider_vars(Crawl)

-----------------------------------------------------------------------------
(* Properties                                                              *)

\* The variables keep their types.
SpiderTypeOK ==
  /\ web \in [WebUrls -> SUBSET WebUrls] /\ kills \in BOOLEAN
  /\ runs \in 0..MaxRuns /\ spider_pc \in SpiderPC
  /\ unvisited \in Seq(WebUrls) /\ download_md5 \in Seq(WebUrls)
  /\ visited \in Seq([url : WebUrls, path : Nat])
  /\ \A n \in DOMAIN dump : dump[n] \in WebUrls \cup {NoText}
  /\ spider_pc \in {"record", "filetype"} => i \in DOMAIN dump
  /\ htm \subseteq WebUrls /\ htm_uniq \in Seq(WebUrls)
  /\ line \in Nat /\ url \in WebUrls /\ i \in Nat

\* In the first run, though numbers are used again after downloads that failed,
\* no page overwrites one that visited names: the path of each line holds the page
\* of its url, even when the run is killed.
VisitedPagesKept ==
  runs <= 1 =>
    \A v \in Range(visited) : v.path \in DOMAIN dump /\ dump[v.path] = v.url

\* Over all runs, killed ones included, no url is visited, and its page searched,
\* twice, though the same url comes again and again in unvisited.
VisitedOnce ==
  \A m, n \in DOMAIN visited : m # n => visited[m].url # visited[n].url

\* A run that ends by itself overlooks nothing: every url named by a page that it
\* or an earlier run visited has been tried.
NothingOverlooked ==
  (spider_pc = "off" /\ ~kills) =>
    \A v \in Range(visited) : web[v.url] \subseteq Range(download_md5)

\* A run ends, though it appends to the file it reads, and each round appends all
\* that the rounds before had found.
RunEnds == spider_pc # "off" ~> spider_pc = "off"
=============================================================================
