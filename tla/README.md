# homework-t2: a verification development

TLA+ models of the programs of this repository, the TLC runs that check them on small
instances, and TLAPS proofs of what holds for every instance. The models are read off the
code under `src/`; comments and documents of the repository are used only as statements to
check.

Run a model with `tlc -config X.cfg M` and the proofs with `tlapm M.tla`, in this directory.

## Inventory

### transfer_export (the core)

A client uploads a file to a storage server through a relay. Each box is a process.

    client --TCP--> transfer server ==shared memory, semaphores, FIFOs==> reading process 0
                                                                          reading process 1
                                                  each with one TCP connection --> storage server

| part | code | state | operations |
|---|---|---|---|
| client | `src/client/client.cpp` | the file, its sha1 | header, data packets, end, in this order on one connection |
| transfer server | `src/transfer/transfer_server.cpp` | connection, buffer | read a message, `WriteData` |
| relay | `src/share_mem/w_datarecv.cpp` with `w_sem_table`, `w_shm_ctl`, `w_fifo_ctl` | ring of blocks, a semaphore per block, a FIFO per reader | `WriteData`, `ReadData`, attach and reset |
| reading processes | `src/read_proc/*.cpp` | FIFO, copy of a block, socket, alarm | `ReadFileTest`, `SendData`, `sig_alarm` |
| storage server, connections | `src/storage_server/storage_server.cpp` | 5 threads, one connection each | accept, read a message, dispatch |
| storage server, files | `src/storage_server/PendingFile.cpp` | hash table of unfinished files; per file two sizes, a descriptor, a mutex, a condition | set size, write data, close |
| setup | `src/shm_app/w_new_shm.cpp`, the attaching half of `w_shm_ctl` and `w_sem_table`, the scripts in `bin` | ids and keys of segments and semaphores, in files under `conf` and in the kernel | create, write the files, attach; start, kill, clear |
| route tables, schedule manager | `src/share_mem/w_route_ctl.cpp`, `w_shm_table.h`, `schedule_mng.cpp` | tables of blocks and processes | find a free entry, take it, give it back; register a process. Built, not used by any process |

How they interact, and what is hard about it:

- The relay deals packets in turn to the readers, so the packets of one file reach the
  storage server over several connections, served by several threads, in any order. The
  header can be last and the end first. Threads meet in one `PendingFile` object, through a
  read-write lock on the table, a mutex and a condition per object, a shared descriptor
  whose position `lseek` and `write` use without a lock, and `delete`.
- Nothing tells the writer of the relay that a block has been read. What holds it back is
  that opening a FIFO blocks until the other end is open. Each side opens and closes the
  FIFO once per message, and nothing makes a side close in time.
- A reader's alarm closes its connection and interrupts whatever call it is in; a write to
  a socket or FIFO that nobody reads kills the process; a refused connection leaves a socket
  behind.
- Framing is by fixed sizes, with single `read` calls.
- Ids of segments and semaphores go through files that `shm_app` empties and writes line by
  line, that outlive what they name (`clear.sh`, a reboot), and in which 0 stands for "none",
  which is also the first id a kernel gives.

What makes the parts correct: one object per file; no wakeup lost and every plain upload
closed; no use after deletion; descriptors neither leaked nor shared; every block in its
place; copies of a block exclude each other; no notified block overwritten; each packet
sent once, by the reader it was dealt to; no process blocked for ever; whole packets passed
on in step, whatever an earlier client did to the buffer; all processes on the same segment
and the same semaphores; no block and no item of a table given to two.

### The other programs

- `dns_server`: one epoll loop over an edge-triggered UDP socket, one request and one answer
  at a time, answers A and PTR queries from maps read at the start; a client that builds
  queries and reads answers. Hard: several requests queued behind one event; one answer and
  one address kept across two waits; late answers; names and addresses converted by hand.
- `http_server`: one epoll loop over edge-triggered sockets, one receive buffer for all
  connections. Hard: events of several connections in one round.
- `spider_lite`: shell scripts that download pages in rounds, find urls, keep the new ones.
  Hard: the loop reads the file that it appends to; files outlive a run that is killed at any
  step; numbers of pages are used again.
- `url_manager`: CGI scripts that add, delete, search and count urls in files. Hard:
  concurrent requests over the same files, temporary files and count; pages that run across files.

Every component, with what is modelled of it, is in `PROJECT.json` under `components`; what
is hard to test, at its line, under `hazards`.

## Modules

| module | what it is |
|---|---|
| `PendingFile` | the storage server's table of unfinished files and the three operations on a file |
| `FileStore` | abstract specification: what an upload promises whatever the order of its packets |
| `MCPendingFile` | instances: uploads of small files, dealt to two or three connections |
| `PendingFileProofs` | proofs about `PendingFile` |
| `ShmRelay` | the relay: the writer and the reading processes over shared memory, semaphores and FIFOs |
| `MCShmRelay` | instances |
| `ShmRelayProofs` | proofs about `ShmRelay`, and about `TransferConn`, whose thread is its writer |
| `TransferConn` | the transfer server's connections: one thread, single reads, one buffer for all clients |
| `MCTransferConn` | an instance: two clients, streams cut or reset |
| `IpcSetup` | how processes come to share memory and semaphores: kernel objects, files, scripts, reboots |
| `MCIpcSetup` | instances |
| `IpcSetupProofs` | proofs about `IpcSetup` |
| `BlockTables` | the tables of blocks and processes of `W_RouteCtl` and of `CScheduleManager` |
| `MCBlockTables` | an instance |
| `BlockTablesProofs` | proofs about `BlockTables` |
| `StorageConn` | the storage server's pool of threads and the framing of its connections |
| `StorageConnProofs` | proofs about `StorageConn` |
| `MCStorageConn` | instances |
| `StorageServer` | the storage server whole: `StorageConn` with the operations of `PendingFile` step by step |
| `MCStorageServer` | an instance |
| `Uploads` | the traffic of both: uploads dealt to two or three connections |
| `DnsServer` | the DNS server's edge-triggered loop, its maps and encodings, and those who ask |
| `AnswerService` | abstract specification: each request answered once, in order, to its sender |
| `MCDnsServer` | instances |
| `DnsServerProofs` | proofs about `DnsServer` |
| `HttpEpoll` | the HTTP server's edge-triggered loop and its clients |
| `MCHttpEpoll` | an instance |
| `HttpEpollProofs` | proofs about `HttpEpoll` |
| `SpiderLite` | the crawler's rounds over the files of `data`, with kills and further runs |
| `MCSpiderLite` | an instance: every web of three urls |
| `UrlManager` | the CGI scripts that add, delete and show urls, as processes over shared files |
| `MCUrlManager` | an instance |
| `ScriptsProofs` | proofs about the two programs that are scripts, `UrlManager` and `SpiderLite` |

The path of a packet is `TransferConn` (bytes of a client become packets), `ShmRelay` (packets
become messages of the reading processes), `StorageConn` (bytes of a connection become
operations), `PendingFile` (operations become a file). Each module begins with what the one
before it promises: the streams of `MCPendingFile` and the traffic of `Uploads` are the
relay's dealing in turn. `StorageServer` composes the last two. `IpcSetup` is what has to happen before `ShmRelay` begins.

Operators called "Mutant" in a module are variants of a definition with a plausible mistake;
nothing uses them but the tests of the properties: with one put in the place of the
definition, the property named for it in `PROJECT.json` is violated.

### PendingFile

State: for each thread its packets, its next step (`pc`) and its object (`fp`); the fields
of each object; the table; the process's descriptors with their positions; the content of
the files. The steps of an operation are its sections under a lock and its system calls:

| code | actions |
|---|---|
| `GetPendingFile` | `FindPendingFileByHash`, `AddPendingFile2Hash` (with the constructor) |
| `SS_SetPendingFileSize` | `SetPendingFileSize` |
| `SS_WriteData2PendingFile` | `OpenFile`, `Seek`, `Write`, `Count` |
| `SS_ClosePendingFile` | `WaitForData`, `CloseFd`, `Unlink`, `Delete` |
| `pthread_cond_wait` without a signal | `SpuriousWakeup` |
| any of these on a deleted object | `UseDeleted`, after which the server is "undefined" |

A section under `flock` that contains nothing else is one step; the one that closes the file
takes two (`CloseFd`, `Unlink`), because `close` gives the descriptor's number back while
`opened_fd` still has it. Hash buckets are left out: the table is the set of linked objects.
Sizes count packets, and a block is named by its place. `disk_ok`, fixed in the initial
state, tells whether `open` and `write` succeed.

### ShmRelay

State: the step and the block of each process, the semaphores, the blocks, the FIFOs, what
each reader was told of, what it copied, its socket and alarm, and what it sent. The actions
are the system calls in the order of `WriteData` and of `ReadData` and `SendData`. The
circumstances (`Scenario`) are fixed in the initial state, so that one run covers all of
them and each property says which ones it needs:

- `attached`: the readers attached, and reset the semaphores, before the first packet. They
  do when they are started with the server and nothing is uploaded in the meantime.
- `prompt`: whoever has a FIFO open for one message has closed it before the other side
  opens it for the next. Usual, as a close follows at once, but not enforced.
- `alarms`: SIGALRM arrives while there is work. It is armed for a minute by each packet.
- `refused`: the storage server may refuse a connection.
- `kills`: a process may be killed at any step, as `kill_proc.sh` does one after the other.
  `Die` closes what it has open and undoes its P (`Undo`: `adj` is the kernel's SEM_UNDO
  adjustment); a writer killed inside its copy may leave half a packet (`Half`) in a block
  whose semaphore is free again.

The FIFO is the kernel's, modelled from how the code uses it: the rendezvous of opens,
0 bytes at end of file, SIGPIPE, and the loss of unread data when both ends are closed.

### StorageConn

State: the traffic (fixed in the initial state: the messages each connection brings, which
connection is made after which, where a block is cut in two), the connections, the accept
mutex, and for each thread its step, connection and the reads its handler has yet to do.
Positions count bytes and the sizes are the program's, so that the sums of the reads of each
handler are what is checked. `ReadType` is the `switch`, `ReadField` one `read`, `Operate`
the operation on the file, which is one step here (`PendingFile` has its steps), `Ignore` the
rest of a data block, `Skip` the loop over unknown types. `Operate` of an end waits inside
`SS_ClosePendingFile` and keeps its thread.

The handler of an end reads 10 bytes less than the block. The next byte is no type, and the
loop that looks for one never ends, as its condition joins three inequalities by "or". So
each end leaves its thread astray, and a second upload is served only over new connections
and only while threads are left.

### StorageServer

State: that of `StorageConn` but its sizes of files, and that of `PendingFile`; where both have
a `pc` they are `conn_pc` and `file_pc`. A thread that has read the last field of a message
(`ReadField`) appends it to its packets in `PendingFile`, takes the steps of the operation
(`Operate`) between those of the other threads, and reads on when the operation returns. The
actions are those of the two modules, taken together where they meet.

`ImplementsStorageConn` is the refinement: with the sizes of a file read off its object until
that is deleted, every behaviour is one of `StorageConn`, whose operation is one step. That
step is `SetPendingFileSize` for a header, `Count` for data and `Delete` for an end. So what
is checked of `StorageConn` about messages handled (`DataBeforeEnd`, `PoolServesAll`) holds
with the locks, the condition and the deletions as the code has them.

### TransferConn

State: each client's connection, with what the network may do to it (`fault`, `cut`: fixed in
the initial state) and the bytes that have arrived; the backlog; the thread's step,
connection and place in it; whose header and whose payload the buffer holds, and the length
it names; the packets written. `HeaderRead`, `HeaderFails`, `HeaderEnds` are the three results
of the read of the header, `BodyRead`, `BodyReadsNothing`, `NoBody` those of the payload,
`WriteData` the call to the relay. The buffer is not emptied between packets or clients, and
this is what the faults are about: a payload read short leaves old bytes behind it and makes
the next header begin inside a packet (`OtherLens` are the lengths that such bytes can spell);
`ret` is unsigned, so a failed read is taken for a header, and what the buffer has is written
once more. A length that goes beyond the buffer ends in `"undefined"`.

A connection that was cut stays out of step until it ends, and no property promises anything
of it. What `InStep` does promise is that this never reaches the next client.

### IpcSetup

State: the kernel's segments and semaphore sets by id (`kernel`, `next`), the two files of ids
and keys (`conf`), what `shm_app` has made (`app`, `made`), the step of the script that runs
(`op`), and for each process its step, `shmid` and `shmkey`, the segment it has attached and
its semaphore set.

| code | actions |
|---|---|
| `prepare.sh`, `auto_run.sh` | `Prepare`, `AutoRun`, then `Start` |
| `CreateShmkey`, `CreateSemkey` | `CreateKey` |
| `CreateShm`, `CreateSem`; `W_ShmTable::CreateShm` | `Get`; `CreateTable` |
| `WriteShmid`, `WriteSemid` | `OpenConf`, `WriteId`, `WriteKey`: the file is empty, has an id, has both |
| `kill_proc.sh`, `clear.sh`; a reboot | `KillProcesses`, `Remove`; `Reboot` |
| `ShmReadInit` and what it calls | `ReadShmid`, `AttachMem`, `ReadSemid`, `ResetSem`, `SkipInit` |

The kernel is modelled from how the code uses it: an id belongs to what was made last with
it, a removed segment lives until its last process detaches, a removed set is gone. A reboot
takes all objects and leaves the files. The circumstances (`Scenario`) are fixed in the
initial state: `table`, the setup of `W_RouteCtl`, whose segments have no key; `killsAll`, that
what `clear.sh` cuts out of `ps` is the pids, as it is for some lengths of the user's name;
`again`, that `prepare.sh` is run while processes are up; `bare`, that `auto_run.sh` is used,
which does not run `shm_app`.

`HasShm` is true from the moment the ids are read, so a process whose attach failed copies
through an address it never attached (`"wild"`). In the documented use that does not happen,
because a file with an id is never older than the kernel's objects while a process is up; with
`auto_run.sh` after a reboot it does. With the id 0, the first after a boot, `ReadShmid` finds
no id: no process then ever attaches, though `readme.txt:10` asks for nothing but the scripts.

### BlockTables

State: the item of each block (free, ready), who was given which, the packets in the blocks
and how often each was read; and for processes the file that names the table's segment, who
has which segment attached, and the items. Both tables are in one module because they make
the same promise in two ways: a semaphore per item (`ScanItem`, `MarkItem`, `AddSearch`,
`AddSet`) or one per table (`ScanTable`, `MarkData`, `MarkFree`, `IsProExist` to `Register`).
What a call does between its P and its V is one step. Nothing that runs calls them, so their
use is the one that their operations are made for: ask for a block, take it by a second call,
use it, mark it; and register once.

With any number of processes at a time (`crowd = "any"`) two are given the same block, and two
that attach before either registers get the same item; the run explores this, and the
properties promise their results for one of a kind at a time (`"alone"`). `register_proc`
compares with `>`, so the item after the last may be used (`Slots`). The destructor removes
the segment and not the file, and `isProExist` compares a failed attach with `NULL`: who comes
later is refused or crashes.

### DnsServer

State: what each lookup got, the requests in the socket's buffer, the interest that the loop
has registered and whether an event is pending, the loop's step, its one address and one
answer, the two maps, and what was sent. The steps of `Run` are its system calls, because a
datagram can arrive between any two. The socket and epoll are the kernel's, modelled from
how the code uses them: an event comes with a datagram that the interest covers, and when
`epoll_ctl` finds the socket ready. Each lookup has a socket of its own; the network may
lose, delay and repeat requests, and spoil datagrams, which then make the socket readable
with nothing to read. Names go through the encoding of the client and back through the loop
of `GetRes`; addresses go through `GetIp` with its signed chars.

Two conversions are wrong in the code, and the properties say which questions they concern
(`Plain`): octets of 128 or more after the first take one from the octet before, and an
address in the resolvers' domain is looked up with its octets backwards.

### HttpEpoll

State: each client's connection, requests and answers; the backlog, the interest registered
for each descriptor, epoll's ready list and the events of the round; the loop's step and the
file named by the request in the receive buffer. `Accept`, `Recv` or `RecvEnd`, and `Send`
are the three branches of `W_Epoll::run`; the `epoll_ctl` after a `recv` or a `send` is a step
of its own (`ModOut`, `ModIn`), because clients act in between. `make_http_res` is `Response`:
a missing or empty file, and an empty buffer, give 404. A file that the buffer cannot take
with its header makes `make_body` end the server (`OutOfRange`).

The buffer is shared. A request read from one connection is looked at when that connection
is writable, in a later round, and until then the requests and ends of others overwrite it:
the client then gets another's file or 404. `disturbed` and `mixed` record this, so that
`AnswersMatch` says what holds in spite of it, and `SerialNotMixed` that it takes clients at
the same time. The loop accepts one connection for one event, so of two that arrive together
the second waits for a third; `SerialAreAccepted` says where this does not happen. `serial`,
fixed in the initial state, tells whether clients take turns, as the shell script does that
calls `wget` for one url after the other.

### SpiderLite

State: the files `unvisited`, `visited`, `download_md5`, the pages in `dump_urls` and the two
temporary files, all of which outlive a run but for `unvisited`; and the loop of
`spider_ctl.sh`: its place in `unvisited`, its url, the number of the next page. A round is
`Read`, `Wget`, `Record`, `FileType`, `Search`, `Uniq` for each url, `AppendUrls`; `Kill` may come
between any two. The web is fixed in the initial state; whether a download brings a page is
decided each time.

`spider.tmp_htm_uniq` is never emptied, so each round appends all urls found so far once more
(the crawler's `readme:19` speaks of leaving out duplicates): the file that the loop reads
grows faster than the web, and that the loop ends (`RunEnds`) rests on `download_md5` alone. A
second run begins with page 1 and overwrites pages that `visited` names, hence `runs <= 1` in
`VisitedPagesKept`.

### UrlManager

State: the files of urls, the files that the names `url_cnt` and `url_cnt_tmp` stand for and
what they say (`node`: a name can be moved while a process has the file open), `data/tmp`, and
for each process its request and its place in the scripts. `Check`, `AppendUrl`, `SedRead` and
`SedRename` are `add_url.cgi` and `delete_url.cgi`; `OpenTmp`, `AwkRead`, `AwkWrite`, `Move` are
`add_url_cnt.sh`, whose redirection empties the temporary file before `awk` reads the count;
`RemoveTmp`, `Scan`, `ScanEnds`, `Show` are the page of urls across the files in the order of
`ls`. The test of `fgrep` for a part of a line is modelled as equality of urls.

`scen` says which requests may meet: one at a time, different files only, or any. Two on one
file lose one of the two changes, and two in `add_url_cnt.sh` can leave an empty count; the run
explores both, and the properties say when the scripts are right. No page shows the first url,
because `get_show_urls.sh:8` counts lines from 1 and `awk` skips that many: `PagesFollowOn` takes
this as it is.

## Runs

| run | checks | shows |
|---|---|---|
| `pending_file` | `OneObjectPerFile`, `NoLostWakeup`, `NoUseAfterDelete`, `DescriptorsOwned`, `AllClosed`, `ImplementsFileStore` | the table of files is right for every interleaving of plain uploads |
| `pending_file_seek` | `EachWritesItsPlace` | violated: two threads interleave `lseek` and `write` |
| `shm_relay` | `TypeOK`, `BlocksGuarded`, `NeverStale`, `ExactlyOnce`, `RelayGoesOn` | the relay is right in the circumstances each property names |
| `transfer_conn` | `InStep`, `EveryClientIsServed` | packets that arrive whole are passed on in order, whatever came over the connection before; the thread always comes back |
| `ipc_setup` | `ShareMemoryAndLocks`, `NoWildCopy`, `OneOfEach`, `AttachesUnlessIdIsZero` | processes that find each other through the files have the same objects, over setups, kills, clears and reboots |
| `block_tables` | `ReadOnce`, `EachHasItsItem` | asking and taking by two calls is enough for one process of a kind at a time |
| `storage_conn` | `WholeBlocks`, `DataBeforeEnd`, `PoolServesAll` | each handler up to an end reads a whole block; an end waits for the data; the pool serves every upload it has threads for |
| `storage_server` | `ImplementsStorageConn` | the operations, step by step and on shared objects, are what `StorageConn` takes them for |
| `dns_server` | `NoLostEvent`, `ReadsFindRequests`, `AnswersMatch`, `ImplementsAnswerService`, `EveryRequestIsAnswered` | no event and no request is lost, and answers are not mixed up |
| `http_epoll` | `AnswersMatch`, `SerialNotMixed`, `AcceptedAreAnswered`, `NoDescriptorLeft`, `SerialAreAccepted` | each request read is answered once and each end closes the descriptor; answers are mixed up only between clients at the same time |
| `spider` | `VisitedPagesKept`, `VisitedOnce`, `NothingOverlooked`, `RunEnds` | nothing is visited twice, lost or overlooked, and a run ends |
| `url_manager` | `CountMatches`, `PagesFollowOn`, `OnlyAsAsked` | the count, the pages and the files are right for requests that do not meet on one file |

What the violation disagrees with is quoted in `PROJECT.json` under `findings`. Other
departures are inside passing runs, whose properties name what they exclude:

- an upload whose size is a multiple of a packet, and the same file twice at a time, may never
  be closed (`AllClosed` says "plain", one upload of a file at a time);
- a second upload made over the same connections, within a minute of the first, is lost behind
  the first one's end (`readme.txt:11` of `transfer_export` says that uploads can be repeated;
  `PoolSuffices` says that nothing follows an end, and `WholeBlocks` stops there);
- a reader may send half a packet after the writer was killed inside its copy, and the writer
  waits for a reader that was killed (`NeverStale`, and `WriterGoesOn` in `RelayGoesOn`);
- when closes of a FIFO are slow, a reader serves a notice it took from an uninitialised
  buffer, or the writer goes round the ring and overwrites a block (`ExactlyOnce` says
  "prompt"; what a reader was told of is never stale even so);
- a reverse lookup finds only addresses that read the same backwards (`README:25` of the DNS
  server promises all of them; `Plain` excludes the others);
- what is said above of the id 0, of `auto_run.sh`, of the first url, of second runs, and of
  requests, blocks and items taken at the same time.

### Bounds

`pending_file`: three threads, at most three files and four objects, two descriptors (fewer
than files, so that `open` fails and numbers are used again), uploads of one or two blocks.
Two blocks over two connections are enough to put the header, the data and the end in every
order; three threads let one close while two write. The streams include files of whole
packets and a file sent twice; properties that exclude them say so (`AllPlain`, `OneWriter`).

`shm_relay`: two readers as in the program, three blocks, four packets: one round and a part
of the next, so that the ring wraps and the writer catches up with a slow reader. Seven
circumstances, each of which departs from the calm one in one or two points; any number of
processes may be killed in the last two.

`storage_conn`: three threads (the program has five), two connections at a time and one made
after an alarm; uploads of one and two packets, with a data length of 0, of a part and of the
whole block, and blocks that arrive in one piece or in two. Two uploads need two ends, so
three threads are the fewest that serve them, and one fewer would not do.

`storage_server`: two threads, the fewest with which one waits for what the other brings, and
the uploads of `storage_conn` but the one with a packet without data, after which an object may
be used that was deleted. With two threads a second upload may find none left, and then
`PoolServesAll` promises nothing; a single upload in whole blocks is served in every order.

`transfer_conn`: two clients, of four and three packets, so that each can be the one behind the
other; a header of three bytes and a block of eight keep the proportions that matter (a
payload longer than a header, and a full block). The cuts are inside a header, behind it and
inside a payload, in the first packets and later ones; `OtherLens` has no length, one of part
of a payload and one beyond the buffer. The system stops when all clients are served.

`ipc_setup`: two processes, four scripts or reboots, five ids per kind, a kernel whose first id
is 0 or 1. Four are enough for setup, clear, reboot and setup, with processes that read before,
between and after. Each scenario departs from the documented use in one way.

`block_tables`: three processes, two blocks, two items, three packets: two of a kind can meet,
blocks are used again, and the third process to register gets the item after the last.

`spider`: all 512 webs of three urls, every root, two runs, every download failing or not, kills
at every step. Three urls give a page found by two others and a url behind a failed one. A
crawler that has ended its last run has nothing to do, so deadlock is not checked.

`url_manager`: four urls in three of four files, two processes, three requests, pages of one and
two lines: two requests can meet on one file or on different ones, the third sees what they
left, and a page runs across files with an empty one between.

`dns_server`: two programs with two lookups each, a buffer of two requests, one of which the
network repeats: enough for two requests behind one event, for a late answer to an earlier
lookup, and for a second look at a name that no file has. One kind of fault at a time: a
network that spoils datagrams does not also repeat requests. The run does not check deadlock
because the loop polls: with nothing pending `epoll_wait` returns 0 events and changes
nothing.

`http_epoll`: three connections, one of which asks twice, a backlog of two (the program's is
5), and a file of each kind. Two connections mix up each other's requests; the third makes
the second of two waiting ones move, and lets an end meet two requests in one round. The
system stops when the clients have closed or a large file has ended the server, so deadlock
is not checked.

### Fairness

Weak fairness of each thread's, and of each process's, own steps: each runs on unless it is
blocked in a call, and the calls that block are modelled with their conditions. A step that
waits for a mutex is enabled again and again, as holders release it after a bounded number
of steps of their own; in the instances no thread is overtaken for ever because each thread
has finitely many packets. Spurious wakeups, alarms, refusals and kills are not fair: they may
never happen. In `StorageConn` and `StorageServer` the reading processes are fair as well: they write what the
relay gave them and their alarm comes. In `DnsServer` only the server is fair; the network
need not deliver anything. In `HttpEpoll` only the server is fair; a client may do nothing
more at any point. In `TransferConn` the clients send all that they have, as `SendFile` does, and
the thread runs. In `IpcSetup` a script that was begun goes on, and a process that is up is
called again and again (`WriteData` for each packet, `ReadData` in a loop); that a script is begun
is not fair. In `SpiderLite` a run goes on, as `wget` has a time-out; that a run is begun, and
that it is killed, is not fair. `BlockTables` and `UrlManager` state no liveness.

## Proofs

The proofs are of inductive invariants, for every value of the constants.

`PendingFileProofs`: `IInv` is `TypeOK`, `OneObjectPerFile`, `LocksAndSleepers`,
`HeldObjects` and `NoLostWakeup`. `NoLostWakeup` alone is not inductive: that a signal wakes
a thread of the same object needs the sleepers of a condition to be the threads inside its
wait (`LocksAndSleepers`), and that the object of a closing thread is out of the table needs
`HeldObjects`. The streams are arbitrary: packets may be repeated, missing or inconsistent.

`NoUseAfterDelete` and `DescriptorsOwned` are about plain uploads, and their invariant,
`UploadIInv`, says how far an upload is. A thread handles its packets in order and works on
the object of their file (`Placed`). The object was born once and for all (`OneObjectEver`), its
bytes are those of the packets counted (`Counts`), and one that is closed has all its packets in
(`ClosedWhenIn`). So nobody is left to use an object when its closer deletes it, and the closer
itself is the only one (`OneCloser`). Descriptors need this too: `OwnedFds` is inductive only
because no thread opens a file whose object is being closed.

The refinement of `FileStore` needs in addition what is on the disk (`DiskInv`): each block is in
its place, those counted are there, and between `lseek` and `write` the descriptor's position is
the thread's own, as one thread writes the file (`Promised`). `ImplementsFileStoreSafely` shows
that the initial states are `FileStore`'s and every step is one of its steps or none. Its
hypothesis `DescriptorsSuffice` is that `open` finds a descriptor. Without it the code counts the
packet as written all the same, and the file is closed with a block missing. The number of
descriptors is the process's limit, which the code does not look at; in the run the plain uploads
whose blocks come over one connection are few enough. The liveness of `FileStore` stays with TLC.

`ShmRelayProofs`: `IInv` is `TypeOK`, `ResetBeforeUse`, `SemaphoreCounts`, `UndoesItsP` and
`MutualExclusion`. The exclusion needs the count of the semaphores, and the count needs that
the writer's reset comes before any reader can be woken and that what the kernel undoes for
a process that is killed is the P of the copy it was in, and nothing for one that is not.
`BlocksGuarded`, which the run checks, is the count and the exclusion. The type correctness
includes that every index used on a semaphore or a block is in range, in every circumstance.
`NeverStale` has an invariant of its own, `NoneStale`, inductive with the types: the writer's
index goes round with the number of the packet (`InRing`, a fact about remainders), no block
is ahead of the writer and the one it announces has the packet (`Announced`), and each notice,
in the FIFO or with the reader that took it, stays good while blocks are written again
(`NoticesHold`). It uses neither the semaphores nor the order of the opens: those make the
copies whole and keep the writer from running ahead.

That they do is `ExactlyOnce`, with the invariant `Relayed`. The two sides of a FIFO are never
more than one message apart (`Met`), the writer deals in turn (`Turn`), and so a reader owes a
packet that is at most `NPROC` behind the writer, whose block therefore still has it (`Served`).
The last step needs more blocks than readers (`NBLK > NPROC`, a hypothesis of the theorem; the
program has 10 and 2): with fewer the writer fills the block that a slow reader was told of.

For `TransferConn`, in the same module, `ConnIInv` is `ConnTypeOK`, `Delivered`, `Resets` and
`InPlace`. `InStep` speaks of what is written, and inductive is only where the thread is in the
bytes of each client (`Placed`): between two packets with those before written (`Between`),
behind the header of the next with that header in the buffer and all of its payload arrived
(`AtBody`), or behind the packet with all of it in the buffer (`AtWrite`). That a read
finds a whole part rests on `Delivered`: what has arrived of a stream that is not cut ends at
the end of a packet. A reset is where the thread leaves this path, once: when all is read and
the reset returned (`Spent`), it may go through body and write with what the buffer has
(`Astray`), and then finds the end. The other connections, which may be cut, do not matter,
whatever they leave in the buffer, because a whole header and a whole payload are read over it.
The places of the packets (`Start`) are a recursive function, and what they are is shown by
`SetInduction`, of which see `ScriptsProofs` below. `InStep` says nothing once a length has run
over the buffer, and neither does `InPlace`.

`StorageConnProofs`: `IInv` is `TypeOK`, `ArrivesInBlocks`, `OneServer`, `InHand` and `InStep`.
`WholeBlocks` looks at a thread between two blocks; inductive is only how far into the block
the thread is after each of the reads of a handler (`InBlock`), and that needs the handler's
message to be the one at the thread's position, that no other thread reads the connection
(`OneServer`, which follows it from the client through the backlog to the thread), and that
what has arrived ends at a block (`ArrivesInBlocks`).

`DataBeforeEnd` holds also where threads are astray and blocks are cut, so `InStep` is no help
there. Its invariant is `EInv`: no message is handled twice, because the bytes read of a
connection are beyond the type of each message handled (`Passed`); until the end of a file is
through, its two sizes are what the header says and the number of the bytes of the packets
handled (`SizesTrue`); and after it nothing is missing (`EndsLast`). When the end does not wait
the sizes are equal, hence the bytes handled are as many as the bytes sent, hence all of them:
an argument about cardinalities. The hypothesis `UploadsWhole` is what the client sends: one
header for a file, which tells the number of its bytes. `MCStorageConn` assumes it of its
traffic, so that TLC evaluates it there.

`DnsServerProofs`: `Inv` is `LoopOK` (which interest goes with which step), `NoLostEvent` and
`ReadsFindRequests`. On top of it `AInv` says that the maps have what the files had, whatever
was looked up (`TouchedKeeps`), and that the answer in the buffer is the record for the
address beside it; from it each step of the loop is a step of `AnswerService` or none
(`OneAnswerEach`). `RightAnswers` follows the answers to the other side: what is on its way to
a lookup, and what it took, is the record the files had for it (`RInv`), although requests
are repeated and answers late. Both theorems take as hypothesis (`AnswersTrue`) that the files
have the true answer to each plain question, which is about the recursive decoding of names.
It is a statement about constants, which the files of `MCDnsServer` satisfy and which is false
when names are decoded wrongly (the mutant of `AnswersMatch`). Of it, that `GetIp` keeps
every address with low octets is proved (`LowOctetsKept`).

`HttpEpollProofs`: `IInv` is `TypeOK`, `Round`, `Waiting`, `Counts`, `Buffered` and `Answered`. Every
answer goes through the one receive buffer. That it has the right request is inductive only
with what a round of events may still hold: one event for each descriptor, the one registered,
and the listening socket's only while a client waits (`Round`), and which clients wait
(`Waiting`); then between the read and the answer of a connection no other has read unless it is
marked as disturbed (`Counts`, `Buffered`). `SerialNotMixed` needs more. The loop may accept the next client
before it reads the end of the last, and what saves the buffer is the order of the round: the
end was reported before the next client's first request, and is handled before it. `EndsFirst`
says so, with `Noticed`, that what is readable is on the ready list or in the round, and
`OneOpen`, that clients that wait for one another are open one at a time. The number of
events a round may report, the number of clients and what they ask are arbitrary.

`ScriptsProofs` is about two modules, whose names differ so that one module can extend both.

For `UrlManager`, `IInv` is the types, what a script finds of its url (`Edits`), which requests
there are at a time (`Apart`), which urls a file has (`OwnFiles`), the count (`Names`, `Numbers`,
`Fits`) and the pages (`Pages`). What `Check` found still holds when the file is changed only
because nobody else is at that file, and then `sed` removes one line and `echo` adds a new one:
`OnlyAsAsked`. `CountMatches` is seen when all is quiet; inductive is that `url_cnt` has the
number of the urls whose change is counted (`Counted`: those there, less those whose `add` is
still inside `add_url_cnt.sh`, with those whose `delete` is), and that the file being written is
not the one that `url_cnt` names (`Names`), until two processes meet. A page is made while
nothing else runs: `Scanned` says which part of the listing the lines of `tmp` are after each
file, with the three cases of `get_show_urls.sh` (the page begins later, here, or has begun), and
`PagesFollowOn` is that at the end. The listing is a recursive function. That it exists and what
its values are is shown with `SetInduction`: a set that has 0, and n + 1 with each n, has all
numbers, because strict inclusion of the finite sets 0..n is well founded. It names a set where
the theorems of the library take an operator.

For `SpiderLite`, `SpiderIInv` adds to `SpiderTypeOK` and `VisitedOnce` which url is in hand at which step
and not in `visited` yet (`InHand`), that the numbers of `visited` are behind the next one unless
a page at hand has it, in the first run (`NumbersInUse`), and that a url named by a visited page
has been tried or is on its way: still to be read in `unvisited`, or in the temporary files
(`Unfinished`). `NothingOverlooked` follows from the last, because at the end nothing is on its
way; a kill breaks it, so it is about crawlers that are not killed.

`IpcSetupProofs`: `IInv` is `TypeOK`, `MadeLast`, `WildInv` and `OrderInv`. `NoWildCopy` alone is not
inductive: that an attach succeeds needs that an id in a file is one the kernel has, which
fails while scripts remove and create, and holds whenever a process is up or the script is
behind `CreateShm` (`FilesAreTrue`). `ShareMemoryAndLocks` needs in addition that no file changes
while a process is up, and that a process at its blocks has what the files say (`Agree`,
`SemsAreTrue`). `OneOfEach` has `FoundInv`: a live object is the one whose id and key are kept, in
the file or, while a script is at work, with `shm_app` (`Kept`, `AtWork`), so that a setup finds
it again instead of making a second one. It holds for every kind of scenario but `table`, with
kills and reboots in the middle of a script, and breaks when the kernel gives the id 0.

`BlockTablesProofs`: `IInv` says what the flags of a block mean while a process holds it and while
none does (`Flags`), that a block has one holder (`OneHolder`) and that each packet not yet read
is in a block that is yet to be read (`Fresh`); for items, that one found free stays free
(`RouteItems`), and that in the schedule manager the number of those attached grows with each
who registers (`ManagerItems`), which is a fact about cardinalities.

Assumptions: those named in the modules (sizes positive, streams of packets, no payload longer
than the buffer has room for, `NULL` and `NONE` distinct, each file listed once), and the hypotheses named above (`DescriptorsSuffice`, `NBLK > NPROC`, `UploadsWhole`,
`AnswersTrue`), each of the theorems that state it.

Model-checked only:

- liveness, which the prover does not handle: `AllClosed`, `RelayGoesOn`, `PoolServesAll`,
  `EveryClientIsServed` and the others stated with `~>` or `<>`, and the fairness of `FileStore`
  and of `StorageConn` in the refinements;
- `ImplementsStorageConn` of `StorageServer`, whose steps are those of two modules with proofs of
  their own. A file's sizes are those of its one live object only while no message follows its
  end, since between `Unlink` and `Delete` a second object can be made: the proof needs what
  `UploadIInv` says of an upload for streams that grow as the connections are read, and that the
  end is the last of them (`EndsLast`). The plan has it.

## Not modelled

- What happens after undefined behaviour: the state is only marked.
- The address of a deleted object used again for a new one.
- The block after the last one, which the index check of `W_ShmCtl::Read` lets through, and
  an uninitialised buffer that holds neither a block's number nor -1.
- Single processes of the relay started again after a kill: the scripts start them together,
  which is `IpcSetup`. In `ShmRelay` a dead process stays dead, and a writer that is to notify
  a dead reader waits for ever (`WriterGoesOn` excludes kills).
- `DeinitHashTable`, which the SIGINT handler calls without a lock: from its first `delete` on
  the threads' behaviour is undefined.
- Overflow of the 64-bit sizes.
- Blocks cut within the header fields, and bytes off the start of a block that happen to be
  the letter of a type: a thread astray is taken to stay so.
- An empty datagram, which would make the DNS server close its socket; the id and the counts
  of its header, which are constant.
- Requests cut in pieces at the HTTP server, failures of its `accept` and `send`.
- Calls of the tables that nothing could use: `GetFreePid`, whose items have no index to take
  them by; `get_free_proc` and `set_proc`, for processes that nothing starts; listings.
- The web pages, login form and queries of `url_manager`, which change no state;
  `stat_cnt_tool.sh`, which prints counts; `make_file`, which writes test files; `w_udpserver`,
  `w_udpclient` and `bak`, which nothing runs; the list macros of `list.h`, which are
  the sets of the tables that use them.
- Wording of messages, logging, dates.

## Plan

What is left, in order:

1. The client and the relay in front of `StorageServer`, with `FileStore` as the abstract
   specification; today `ShmRelay` and `StorageServer` meet at the traffic.
2. A theorem: the steps of `ImplementsStorageConn`, from the invariants of `PendingFile` and
   `StorageConn`.
