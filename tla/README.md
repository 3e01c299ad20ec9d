# Verification of the INP network programs

The repository holds the network programs of one course: a chat server
(`homework2`), a static web server (`homework1`), a file transfer over lossy UDP
(`lab6`), a TUN VPN (`lab8`), an N-Queen solver (`lab7`), a file format reader
(`lab2`), a maze solver (`lab3`) and scripts that talk to course servers. This
directory models them in TLA+, checks the models with TLC and proves theorems
about them with TLAPS.

## The system's parts

| Part | State | Operations | What makes it correct |
|---|---|---|---|
| Chat server, command layer (`homework2/server.cpp`) | accounts and their status; `clients` and `loggedInUsers`; `client_in_chat_room` and the rooms (owner, clients, history, pin) | eleven state-changing commands, the listings, the dispatch in and out of a room | the books kept twice agree; a member has a user; members agree on the conversation; only the owner ends a room; nothing foul is shown |
| Chat server, select loop (`hw2_chat_server.cpp`) | `client_socket`, `master_set`, `readfds` | select, accept, one read per ready slot | table and poll set agree and hold live descriptors; no read blocks; nobody starves |
| Robust UDP (`lab6/src`) | server: `expanded`, `stored_packet`, `datas`, `file_saved`, files on disk; client: nothing but its position | first burst, answer to an acknowledgement; store, save, acknowledge, time out, finish | files are saved intact, once; acknowledgements are true; the end comes after all files, and comes |
| TUN VPN (`lab8/lab_tun/dist`) | server: `client_addr`, `client_num`; client: its address | assign an address, forward between tun and UDP | one client per address, traffic reaches its address only, a client gets configured |
| Web server, threads (`homework1/demo/server.c`, `utils.c`) | `client_infos`, capacity, count; one thread per connection | accept, grow, start a thread; decode, decide, respond | each thread serves its own connection; none is lost; each client gets the answer to what it asked, and that the right one |
| Web server, epoll (`server_https.c`, `utils_https.c`) | what epoll has still to report, the one connection served, the request buffer | wait, accept one, serve it to the end | accept never blocks; arrivals are noticed; no answer is made from another's request |
| N-Queen solver (`lab7/src`) | the receive buffer; table, rows and columns taken; the recursion | ask, receive, search, upload | what it uploads solves the puzzle; it ends |
| Maze solver (`lab3`) | what was received; heap, closed list, costs, parents | receive, search, send, receive three times | the moves are a shortest walk; it ends |
| Flag reader, other teams' variants, shaper, scripts | | straight-line I/O | see "Not modelled" |

The parts are separate programs. The two web servers are two builds of one
assignment: each has its own copy of the code that decides on an answer, and one of
the two runs. Inside the chat server the select loop calls the
command layer (`handleCommand`), which closes connections and changes the loop's
table itself (`exitUser`); they share the descriptor numbers, which the kernel
reuses. The two sides of robust UDP share only datagrams.

What is hard: descriptors that change hands while sessions hang on them; books
kept twice; clients that leave at any point of a round; datagrams lost, repeated,
late or corrupted; timeouts without retries; a table that moves under the threads
that point into it; one thread that blocks on whoever it serves. The full list, each at its line, is
under `hazards` in `PROJECT.json`.

## Modules

| Module | Models | Notes |
|---|---|---|
| `UserChat` | what the chat promises its users | abstract; no descriptors |
| `ChatServer` | `class Server` | refines `UserChat` |
| `SelectLoop` | `main` of the chat server | extends and refines `ChatServer` |
| `ChatServerProofs` | theorems about the sessions and memberships of `ChatServer` | |
| `ChatRoomProofs` | theorems about what its rooms keep and show, and that `ChatServer` implements `UserChat` | |
| `SelectLoopProofs` | theorems about `SelectLoop`, its refinements included | |
| `FileTransfer` | what robust UDP promises | abstract; no packets |
| `RobustUdp` | `client.cpp`, `server.cpp` of `lab6/src` and the link | refines `FileTransfer` |
| `RobustUdpProofs` | theorems about `RobustUdp`, its refinement included | |
| `TunVpn` | `tunvpn_server`, `tunvpn_client` and the link | |
| `TunVpnProofs` | theorems about `TunVpn` | |
| `HttpResponse` | from a request to its answer | operators, both builds |
| `WebClients` | clients of the web server and the kernel between | shared by both builds |
| `WebThreads` | `server.c`, `utils.c` | |
| `WebEpoll` | `server_https.c`, `utils_https.c` | |
| `WebService` | what a web server promises its clients | abstract; no threads, tables or buffers |
| `WebServer` | the two builds | composes `WebThreads` and `WebEpoll`; properties; refines `WebService` |
| `WebServerProofs` | theorems about `WebServer`, its refinement included | |
| `ChallengeLink` | the connection to a course server | |
| `QueenSolver` | `lab7/src/solver.cpp` | |
| `MazeSolver` | `lab3_1.py`, `lab3_2.py`, `MazeSolver.py` | |
| `PuzzleSolvers` | the two solvers, each on its own link | composes; properties |
| `QueenSolverProofs` | theorems about the N-Queen solver | |
| `MazeSolverProofs` | theorems about the maze solver | |
| `MC*` | instances for TLC | symmetry, commands, file sizes |

### ChatServer

One action per connection event (`Connect`, `PeerLeaves`, `ReadFails`,
`Disconnect`) and `Handle`, one command of one connection: `handleCommand`
dispatches as the code does, on whether the descriptor is in a room. Every method
that changes state is an operator of the same name; `RefusedBasic` and
`RefusedInRoom` are the early returns, which only reply. `CreateRoom`, `JoinRoom`,
`KickOut`, `EraseRoom`, `EndSession` and `MayLogin` are pieces of one method each.

* A room that is not in `chatRooms` has `owner = NoUser`; its other fields are
  those of a new `ChatRoom`. `roomClients` counts occurrences in the vector of
  clients, since nothing in the code prevents a second one.
* A text says only whether it holds a word of the filter list; `Censor` is the
  masking loop. A reply is only a `send`: what it says is left out, that it is
  sent matters, because a send to a peer that has left leads to a reset and the
  next send to SIGPIPE. Until the reset has arrived a send still succeeds, so
  `SurvivesSend` leaves the outcome open. The welcome sent to a new connection is such
  a send when its client left while it waited for accept: `Connect` may then find it
  `reset`.
* `conn` says what a connection is to the server: `open`; `left`, its peer closed
  or aborted and the server has not noticed; `reset`, a send to it would raise
  SIGPIPE; `closed`, the descriptor is free.
* `authed` and `seen` are history variables: who logged in on this very
  connection, and what its screen showed of the room.

### SelectLoop

`pc` is the part of the round: `select`, the test of the listening socket
(`accept`), the loop over the slots (`slots`). A step handles the next slot that
was reported; the slots skipped in between have no effect. Clients connect, write
and leave between any two steps. A client that left
before it was accepted may have written first (`WrittenBefore`). One read takes all that
has arrived, and
`OneCommand` makes one command of it, as the code's tokenizer does of several
lines. The descriptor of a new connection is the lowest free one. A connection
accepted when all slots are taken stays open and unread, as in the code.

### RobustUdp

One action per datagram received, by what it leads to, and one per timeout that
does something; the timeouts that only wait again (`getAck`, the outer `recvfrom`)
change nothing and are no actions. An acknowledgement round follows the inner loop
in the same step. The link is a set of datagrams: they overtake each other, may be
received more than once (`Taken`), lost and corrupted. The three kinds of
corruption are those the code tells apart: bytes the checksum covers, the length it
does not cover, and acknowledgements, which carry none. `junk` is the
uninitialised `Ack` of `init_send`, `PastTheEnd` the reads beyond `MAX_PACKETS`: both
are undefined behaviour and appear as a free choice. A corrupted length is modelled
as a wrong piece; that the server may also read beyond its buffer and die is not.

### TunVpn

One action per datagram received, by what the receiver does with it, and one per
packet read from a tun device. An address is its offset from `ADDRBASE`, a packet
its destination, a client the UDP address it sends from: when a process is started
again from the same address it may meet what was sent to its predecessor.
`daddr` is what the client's receive buffer holds where an IP header has its
destination; nothing clears it, and a reply of four bytes does not reach it.
`Configure` takes the first datagram for the address whatever it is; the first four
bytes of an IP header are the value `Header`. `got` is a history variable: the
destinations of all packets written to each tun device. `Stop` and `Boot` restart the
server, which forgets its table; while it is down a client that sends is refused and
exits. `lost` is a history variable too: the tables of the servers that were stopped.

### HttpResponse, WebClients, WebThreads, WebEpoll, WebServer

`HttpResponse` computes the answer to a request as the code does: `urlDecode` over the
whole request, the split into words, the query cut off, then the tests of
`handleHTTPRequest` in their order. A target is a sequence of pieces, a piece being a
character that is treated specially, an escape, or a name. `AsSpecified` is the same
question answered from the assignment's text instead: the query goes first, and what is
left is decoded.

A client is one connection; it may ask, close its sending side or leave at any time.
In `WebThreads` the accept loop is one action per connection (`Accept`), a thread one
action per system call. `stale` holds the clients whose thread has not read its entry
and whose table was moved by `realloc`: what such a thread finds is the old bytes or no
descriptor, or, the table having been large, a fault. `Fds` counts connections and files
being sent against `MaxFds`; with `SureThreads` threads running `pthread_create` may fail.
SIGPIPE, `errquit` and faults end the process (`ServerEnds`), and nothing happens after it.

In `WebEpoll` `edge` is what epoll has not reported yet and `events` what it has: the
loop accepts one connection per event, whatever has arrived. `stage` is where the one
thread is; a stage that waits for the client has no step until the client moves. `buffer`
is what the request buffers hold from earlier requests; they are never cleared, and a
read that fails is answered from them (`ReadNothing`).

`WebServer` runs one of the two, on the same clients and with the same properties. To
those clients it is a `WebService`: `response` maps a request to the one response this
build gives to it, which is one of those the assignment allows; who asks is sent that,
once, header first, while still there. `silent` is a promise only the build with threads
keeps: who closes its sending side without having asked is sent nothing. The build with
epoll may answer it from an earlier request.

### ChallengeLink, QueenSolver, MazeSolver, PuzzleSolvers

`ChallengeLink` delivers a text in `Pieces` parts, at any time, and may close.
`QueenSolver` follows `main`: the reads, each of which overwrites the one before, until
half a second passes without data; the search; one command and one wait per queen; the
verdict. A timeout is enabled when nothing has arrived, so a text that is late is
possible: the board is then incomplete, and the stage `fault` is all that is said of the
search beyond its rows. The recursion of `solveNQueen` is the sequence `calls` of placed
queens; `SkipRow`, `PlaceQueen` and `Backtrack` are its three ways on.

`MazeSolver` receives until the prompt is in what one `recv` returned (`cut`: it lies
across two pieces) and then runs A* one round of the loop per step. `Popped` is the
smallest pair of the heap. After the moves it receives three times, without a timeout and
whatever it gets (`RecvReply`, counted in `recvs`): the server may answer in fewer pieces,
and then the client waits until it closes. What is sent to a server that has closed may
raise, at once or in the next receive (`SendRaises`, `RecvRaises`). The references are independent of the algorithms: `Solves` and
`Solvable` quantify over placements, `Within` is the set of positions within a distance.

## Runs

| Run | What it asks |
|---|---|
| `chat_server` | Do the books agree, do members see the same conversation, is `UserChat` implemented? |
| `select_loop` | Do table and poll set agree, may a read block, is `ChatServer` implemented? |
| `select_loop_live` | Does anyone starve? |
| `chat_stale_session` | May a new connection be in somebody's session? It may: a finding. |
| `chat_stops` | May the process end in a command? It may: a finding. |
| `robust_udp` | With every fault of the link: are saved files intact and saved once, are acknowledgements true, does the client end too early? |
| `robust_udp_live` | Without loss: is `FileTransfer` implemented and does the transfer end? |
| `robust_udp_stalls` | Does it end with loss? One lost acknowledgement stops it: a finding. |
| `tun_vpn` | Was an address given to who holds it, does anyone get packets for an address he was never given, does a client fail of itself, is a request answered? |
| `web_server` | Is `WebService` implemented, is the answer the assignment's, is anyone lost, may accept block, are arrivals noticed? |
| `puzzle_solvers` | Is what the solvers send a solution, a shortest walk, and do they end but for the ways to hang that `Hangs` names? |
| `tun_vpn_conflict` | Are the addresses in use distinct? A client can get the server's: a finding. |

### Bounds

* `chat_server`: two descriptors, two users, one room. Two descriptors are enough
  for a session to hang on one while its user, or another, uses the second, and for
  a room with an owner outside; descriptors never interact by more than two, rooms
  not at all. `ShowLast = 1` and `MaxHistory = 2` make the backlog shorter than the
  history. One password: what a wrong password does, refusing, is also reached by
  an unregistered name. Descriptors and users are symmetric; no liveness is
  checked there.
* `select_loop`: two slots for three descriptors, so that the table overflows,
  descriptors are reused within a round and run out; one connection waiting
  (`MaxBacklog`), two lines on the way (`MaxPending`), enough for two to be read
  together or from two clients in one round. Lines: register, login, exit; what
  the other commands do is `chat_server`'s subject.
* `select_loop_live`: two descriptors, the same otherwise.
* `robust_udp`: a file of two packets and one of one, acknowledgements with room
  for one packet (`MaxPackets = 1`), so that reads past the end happen; one
  corruption of each kind and one loss. That a datagram is never received models
  further losses.
* `robust_udp_live`: three files, the first alone in the first burst, a window of
  two, one garbled packet.
* `tun_vpn`: two clients, one of them started twice; one restart of the server, one
  datagram lost, one repeated: at most four requests, so four addresses, of which the
  last is the server's own. `Dests` has the second address, which either client can
  come to hold, and the server's. A packet is sent when nothing else is on the way
  (`MaxNet = 1`), but requests, replies and forwarded packets then join it, so that
  packets and replies still overtake each other.
* `tun_vpn_conflict`: the same without faults, the third address the server's own
  (244 addresses lie before it in the code).

* `web_server`: two clients, enough for one thread to find the other's entry, for two
  connections behind one event, and for a buffer with somebody else's request. A table
  of one entry (`InitialCapacity = 1`), so that the second client moves it; three
  descriptors (`MaxFds`), one fewer than two connections with a file each; one sure
  thread. The document root has an index, a directory without one and a file whose name
  needs escapes; the requests are those of `homework1/testcase`: one per kind of answer.
  The proofs below cover any number of clients.
* `puzzle_solvers`: boards of five by five (`N`) with up to two given queens anywhere,
  solvable or not, in two pieces; all mazes of three by three from three starts, and of
  five by three from a corner to the far side, where walls can force the way away from
  the exit and lead a search that trusts the heuristic astray.

### Fairness

* `SelectLoop`: weak fairness of `Round`, the server's single thread. Clients owe
  nothing.
* `RobustUdp`: weak fairness of each process's own steps and of the receipt of each
  datagram on the link: it is received unless it is lost or corrupted. `LosslessEnds`
  is checked without loss; nothing is assumed of a link that loses.
* `TunVpn`: weak fairness of the receipt of each datagram. Nobody has to start, end or
  restart a process, or to send.

* `WebServer`: weak fairness of accept, of each thread and of the event loop. Clients
  owe nothing: they may stay silent, or stay after their answer. The build with epoll
  then blocks, and `ArrivalIsNoticed` names that way out and no other
  (`[]KeptWaiting`).
* `PuzzleSolvers`: weak fairness of the solver and of the delivery of what the server
  has sent. The server owes nothing: it may close at any time and answer the maze
  solver's moves with less than that waits for. `SolversEnd` says that in the end a solver
  has ended or hangs for good in one of the ways `Hangs` names, all of which the code has:
  `recvMsg` spins at the end of file; on an incomplete board the behaviour is undefined and
  nothing is claimed; the maze's prompt is cut in two, or the server closes before it;
  one of the three last receives waits for a reply that does not come. What it excludes
  is a search, an upload or a receive that goes on or waits in any other case.

## Findings

* `chat_stale_session`: end of file does not log out. The next connection that gets
  the descriptor inherits the session.
* `chat_stops`: SIGPIPE and an uncaught `std::out_of_range` end the server.
* `robust_udp_stalls`: neither timeout resends, so a lost round is final;
  `INIT_RETRY` is declared and never used.
* `tun_vpn_conflict`: addresses only count up, past the server's own.

Properties that hold only under a condition say so: `SavedFilesAreIntact` while no
length is corrupted, `AcksAreTrue` and `EndedMeansSaved` while no acknowledgement is.
`HeldIsRouted` and `OnlyAddresseeGets` have no condition, but say less after a restart: a
new server gives addresses out again that running clients hold, so `Gave` asks only that
one server, the one that runs or an earlier one, gave the address to that client. Without
a restart it is the server that runs, which forwards there. `AskedIsAnswered` speaks of
the build with threads while the process runs and no connection was lost;
`LostForAReason` says how one can be. `ArrivalIsNoticed` is what edge-triggered epoll with
one accept per event gives: each arrival has one connection accepted, the oldest, unless
the connection being served keeps the only thread waiting for good. Of two
that arrive together the second waits for a later arrival, and nothing more is claimed.
`AnswersAsSpecified` holds for the requests that are `Ordinary`, among them all of
`homework1/testcase`. The others, of which the code does something else than the assignment
says, are these:

* a path with an escaped blank or question mark, and in the build with threads a plus:
  decoding before splitting cuts it short;
* a directory without its slash whose name has escapes: the redirection goes to the decoded
  path;
* a directory below the root that has an index: the directory itself is opened, and
  nothing can be read from it.

## Proofs

`ChatServerProofs` proves, for all sets of descriptors, users, passwords and rooms,
from the assumptions `NoneAreNew` and `BoundsAreNat` of `ChatServer`:

* `BooksHold`: `Books`, the conjunction of `TypeOK`, `SessionAgreement`,
  `RoomAgreement` and `MembersAreLoggedIn`, is an inductive invariant;
* `TypeCorrect`, `SessionsAgree`, `RoomsAgree`, `MembersHaveUsers`: its parts.

None of the parts is inductive alone. That `logoutUser` keeps `SessionAgreement`
needs that no other descriptor has the same user; that it keeps
`MembersAreLoggedIn` needs that a descriptor in a room never reaches `logoutUser`;
that `closeChatRoom` empties a room needs that its list names all who point to it.
There is one lemma per group of handlers (`LoginPreserves`, `EndSessionPreserves`,
`EnterPreserves`, ...), `CommandCases` splits `handleCommand` into them, and
`SameBooks` covers the steps that leave the books alone.

`ChatRoomProofs` builds on `BooksHold`. `StepCases` sorts every step into three kinds:
`Quiet` ones that tell nobody anything, `AccountStep`s the rooms do not hear of
(`RoomsUntouched`) and `RoomsStep`s; each property is then one lemma with a case per
kind. It proves `NobodyElseOnline`, `ClosedRoomsLeaveNothing`, `FilterHolds`,
`MembersAgree`, and the action properties `OwnersEndRooms` and `MembersWriteHistory`.
`MembersAgree` is stated with `IsEnd(t, s)`, by places instead of `SubSeq`
(`EndIsSubSeq` says they are the same): the backlog is an end of the history for any
`ShowLast` (`LatestIsTheEnd`), and a record appended to both keeps it one (`EndAppend`).
That a message reaches exactly those whose room's history it joins is `MembersPoint`,
from the books.

Its last part proves `ServerIsUserChat`, the refinement. A user's place is read off the
one descriptor he is logged in on (`PlaceOf`, by `SessionAgreement`), so a step on one
descriptor moves one user (`OneMoves`), and closing a room moves exactly its members. Two
more invariants are needed: `OfflineUnlessLoggedIn`, and `ClosedRoomsAreEmpty`, since
opening a room in `UserChat` does not touch its history. `RoomsAreNumbers` is assumed: no
room number is one of the words that stand for the other places.

`SelectLoopProofs` proves the process for any number of descriptors, slots and clients,
from `DescriptorsAreNumbers`. `LoopIsServer` needs `OneCommandTyped`, that the lines of one
read make one command. With it everything above holds of the process; `ProcessIsUserChat`
is the composition of the two refinements. `TablesAgree` and `NoReadBlocks` follow from
`LoopInv`: the two properties, types, and `ReportsAreTrue`, that until the round looks at the
slots every reported client is in the table and readable. So the descriptor accept returns,
being closed before, was not reported, and cannot be read in the same round; `HandleConn` says
that a command closes no connection but its own, and `OthersComeNext` that the round
never comes to a descriptor twice.

`RobustUdpProofs` proves, for any number of files and packets, any window and any
number of losses and corruptions, from `SizesAreNat`, `NumbersDiffer` and `KindsOnly`:

* `TypeCorrect`, `SavedIsIntact`, `AcksTrue`, `EndsSaved` and `WrittenOnce`, the
  properties of the run `robust_udp`;
* `Implements`: when only bytes the checksum covers are corrupted, `RobustUdp`
  implements `FileTransfer`.

The inductive invariant `IInv` adds to the properties what they rest on.
`PiecesAreTrue`: every packet on the way and every stored piece is the piece of the
file at its place; without it, that a completed table equals the file cannot be seen.
`UnsavedIsNotOnDisk`: only saved files are on the disk, which gives `WrittenOnce`.
`FinishIsTrue`: the server is past its loop, or a `FINISH` on the way, only when all
files are saved. `ContentStep` and `AckStep` have one case per action; `SameContent`
and `AcksStayTrue` say once what every harmless action must satisfy.

`TunVpnProofs` proves, for any clients, addresses and faults, from `BoundsAreNat` and
`NoneAreNew`, the safety properties of `tun_vpn`: `TypeCorrect`, `RoutesHold`,
`AddresseesGet` and `FailuresHaveReasons`. `RoutedInv` says that a table only grows
(`Unassigned`: nothing lies at or above `client_num`) and that all that is on its way
to a client agrees with the table of the server that sent it, this one or one before it
(`Gave`): `ServeRequest` and `Stop` are the steps that could lose an entry. It also gives
`ConflictsHaveReasons`, the converse of the finding: two clients use one address, or one
the server's, only after the server was stopped or has counted up to its own address. `AnsweredOnceOnly` says that a client started once has one
request, then one reply, then an address, never two of these at a time: so no
reply meets a client that has packets in its buffer.

`WebServerProofs` proves, for any clients, document root, requests and limits, from
`TreeIsATree`, `TargetsAreWords`, `NoValues`, `NoAnswerIsNone` and `Sizes`, all safety
properties of `web_server`: `TypeCorrect`, `AcceptReturns`, `OneThreadEach`,
`NoneForgotten`, `OwnAnswers`, `SpecifiedAnswers` and `ServerIsWebService`. `ArrivalsBehindEvents` counts:
one connection behind every event, two when another arrival is unreported; without it
`AcceptOne` could empty a backlog that has an event left. `ThreadInv` has four
parts that hold each other up: a connection waits for accept once and before it has a
thread (`Waiting`), so `Accept` never starts a second thread for it; a thread that has not
read its entry will find its own connection (`EntriesAreOwn`), which `Grown` keeps because
it copies; so it serves its own (`ServesOwn`), and a thread that is done has closed
it, unless it was stale (`DoneIsClosed`). `AnswerInv` follows a request through
`Recv` or `Read` to the header; that a client answered without having asked cannot ask any
more (`SilentIsShut`) is what keeps `AnswersAreOwn` of the build with epoll.

`SpecifiedAnswers` is about the operators. `DecodedPath` says that decoding a whole target
and cutting the result at a blank and a question mark gives what the assignment asks for,
the target cut at its question mark and then decoded, when nothing before that decodes to
what is cut at; `RespondsAsSpecified` then compares the decisions, kind by kind.
`ServerIsWebService` adds `ServiceInv` to the invariants above: the content of a response
follows its header (`HeaderFirst`), and in the build with epoll who waits for accept, or
has not come, has no answer and is not the one being served (`OnceEach`), so nobody is
answered twice. Most steps of the threads and of the loop stutter; a header is an
`Answer`, the end of a content a `Complete`, and the clients' steps are their own.

`QueenSolverProofs` proves `QueensSolved`, for every size `N` and all given queens, from
`NAssumption` and `PuzzlesAssumption`. Soundness: the table is always peaceful where it
extends the given queens, because the four diagonals `checkqueen` walks are all cells
that `Attack` on a diagonal. Completeness: if the puzzle has a solution, some solution
agrees with the calls below the innermost one and has not been passed by the loop; a
queen of it may be placed when its turn comes, so the search cannot run out.
`SearchGoesFurther` is the safety part of its ending: `Place`, the queens placed followed
by the cell the innermost loop has come to, grows in the lexicographic order with every
step (`Further`), and a place has at most one queen for each row (`FewCalls`), so there
are finitely many. That the search therefore ends is left to TLC.

`MazeSolverProofs` proves `WalksAreShortest`, for mazes of any size and shape, from
`MazesAssumption`: the start and the exit are two positions outside the walls. Manhattan
distance is consistent (`Consistent`): one step changes it by at most one. `SearchInv` is
what the search keeps: the parents lead back to the start, one step shorter each time
(`ParentsAgree`, which also gives that the recursion of `Moves` is well founded,
`HasWays`); whatever is reached and not closed is in the heap at a priority no higher than
that of its present cost (`Offered`), and no entry is cheaper than the way it stands for
(`NoneCheaper`), so stale entries and entries of closed positions do no harm; no neighbour
of a closed position is more than one step dearer (`Relaxed`), because what is closed came
before whatever the heap still holds (`ClosedFirst`). `NearerIsClosed` then says that
every position nearer than the top of the heap is closed: the exit, which never is, has no
shorter way, and with an empty heap no way. The functions that `Moves`, `Walk` and
`Within` define recursively are shown to exist, or to be unique, by the least place at
which they would fail (`HasLowest`), since the induction theorems are out of the provers'
reach. `SearchRunsDry` is the safety part of its ending: positions and heap are finite
(`FiniteSearch`), and a round closes one more position or leaves the heap with fewer
entries (`FewerLeft`). The second case is an entry left behind by a better way; it adds
nothing, because no neighbour costs more than the one step from there would give it
(`NoneBetterFromClosed`, from `Relaxed`).

Not proved, only model-checked: liveness under fairness (`AskedIsAnswered`,
`ArrivalIsNoticed`, `AskingIsAnswered`, `SolversEnd`, the fairness in the runs with `Live`
in their names), which is beyond the prover.

## Not modelled

* The flag reader (`lab2`): one pass over a file from top to bottom. Nothing interleaves
  and no state outlives a statement; what can go wrong (an offset or a length out of the
  file) is reached by a file as test.
* `lab3_3.py`, `lab3_4.py`: they scroll the game server's viewport and piece the maze
  together from its screens; the rules of those screens are in the server, which is not in
  the repository.
* The other teams' solutions and the echo example beside `lab6`: not built by
  `lab6/compile.sh`, kept for comparison.
* The bandwidth shaper (`lab5`): measures times and throughput of a real link.
* Packet captures, submission scripts and the chat's test scripts: straight-line input and
  output against servers that are not in the repository, or typed sessions whose commands
  the models' clients choose freely.
* Inside the modelled parts: what the solvers print; what a reply says, beyond what a property is about; set-up of
  sockets and contexts; lines and requests split over reads, and requests longer than
  their buffer; ioctl configuration of tun devices.

## Plan

Modelled: every part but those above. Proved: every safety property the passing runs check,
and every refinement stated without fairness. What remains is
`lab3_3.py` and `lab3_4.py`, should the screens of the game server be documented.
