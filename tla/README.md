# Communication protocols: models, checks and proofs

This directory holds a TLA+ development beside the C programs of the repository
(`src/`): laboratory programs and two assignments of a communication protocols
course. Each subdirectory of `src/` is a system of its own; what they share is
the subject, so the components below interact within a laboratory, not across
laboratories.

## 1. The systems

### Link emulator (`lab3/link_emulator`, an older copy in `lab02`)

One process, three threads, between a program on UDP port 10000 and one on port
10001.

* *State*: `buffer`, a queue shared by two threads under `buffer_lock` and
  `buffer_cond`; `in_flight`, the scheduler's own queue of frames on the wire;
  `idle_time`, `crt_time`; `link_up1`, `link_up2` and the peers' addresses.
* *Operations*: `run_forwarding` (receive, check the room, drop, corrupt,
  enqueue, signal), `link_scheduler` (send what is due, look at the queue, put
  one frame in flight, sleep or wait), `run_reverse_forwarding`.
* *Hard*: check and act in separate critical sections; a clock value used long
  after it was read; a condition variable guarded by two looks at the queue;
  an assertion between two of them.
* *Correct when*: the queue is bounded, no wake-up is lost, the rate of the link
  is kept, each direction is a FIFO, what was accepted is delivered.

### NACK protocol (`lab3/send.c`, `recv.c`, `common.c`)

Over the emulator: one frame with a CRC, an answer made of `A`s when it is bad,
sending again.

* *State*: the frame each side holds, what the link carries, the file `recv.data`.
* *Hard*: the one answer that is read decides for ever; the receiver checks one
  frame again and again.
* *Correct when*: what is written is what was sent, and each side hears the other.

### Window transfer (`lab5`, copied in `lab7/lab5`)

* *State*: the client's `datagram_queue`; the server's file. No numbers anywhere.
* *Operations*: `send_file_window`, `send_file_start_stop`, `recv_a_file`.
* *Hard*: the window is the difference of two counts nobody keeps; the end of the
  file travels in the same stream; loss.
* *Correct when*: never more than a window is under way, the file is written in
  order and is complete when it is closed, both programs end.

### Stop-and-wait (`lab6`)

* *State*: the client's `seq` and the datagram being sent again, the server's
  `expected_seq`, the file.
* *Operations*: `send_file_start_stop` with `SO_RCVTIMEO`, `recv_seq_udp`,
  `recv_a_file`; `send_file_go_back_n` only fills a sorted list (`lib/list.c`).
  **The committed `main` calls `send_file_go_back_n`, which is unfinished; the call of
  `send_file_start_stop`, which is what is modelled, is commented out
  (`client.c:172-173`).**
* *Hard*: loss both ways, a timeout that races a late acknowledgement,
  acknowledgements whose number is ignored, 16-bit numbers compared with an
  `int`, a last datagram that is not sent again.
* *Correct when*: the file is a prefix of the one sent, a closed file is whole,
  the client ends and not before every chunk is written, and the file arrives.

### Chat (`lab7`)

* *State*: `poll_fds` with its `revents`, `num_clients`, one packet buffer, and
  two socket buffers per client.
* *Operations*: accept, `recv_all`, `send_all` to every client (the sender too),
  removal; the client's loop over the keyboard and the socket.
* *Hard*: packets that arrive and leave in parts, clients that leave in the middle
  of one, `revents` of slots `poll()` has not looked at, blocking sends both ways.
* *Correct when*: packets stay whole and in one order for all, and are relayed.

### Routers (`Tema1_pcom`, `lab4`)

Tables read once (in `Tema1_pcom` sorted with `qsort`), then a loop: check the
checksum, answer or look up a route, the TTL, the next hop, send. Nothing is kept
between packets; what interacts is the routers of a network, through the packets.

* *Hard*: a lookup by binary search, byte order and signedness of the comparison,
  one's complement sums, the order of the checks, loops of routes.
* *Correct when*: the longest match is found, checksums hold at the next router,
  a packet goes round at most as often as its TTL says and is not multiplied.

### Library client (`tema4-PC-REST_API`, helpers also in `lab9`)

* *State*: the session `cookie`, the token `library_access`, and one descriptor
  that every operation closes and opens again in its own copy; the buffer of an
  answer.
* *Operations*: `register_user`, `login_user`, `enter_library`, `get_books`,
  `get_book`, `add_book`, `delete_book`, `logout`; `receive_from_server`.
* *Hard*: operations that fail half way, a server that ends connections when it
  likes, answers spread over several reads.
* *Correct when*: the token is that of the login, one connection is open and it
  is main's, what is reported is what happened, an answer is read whole.

### JSON library (`tema4-PC-REST_API/parson.c`)

Third-party code that the client keeps beside its own and depends on.

* *State*: an object's pairs and the hash table that indexes them; who owns a value.
* *Hard*: deletion from a table with linear probing, growth in the middle of an
  insertion, allocations that fail, texts that are cut off.
* *Correct when*: an object is a dictionary, values are freed once, what is written
  is read back, what is cut off is refused.

### Framing (`lab02`), sorted list (`lab6/lib/list.c`), file exercises (`lab01`)

`send_frame` and `recv_frame` with DLE STX and DLE ETX around an unescaped payload,
over a `recv_byte` that makes bytes up while nothing comes; insertion in order of
`seq`; sequential file reading.

`PROJECT.json` lists these components with their status, and under `hazards` the
places in the code at which each of the hard things above happens, with the
properties that would show it going wrong.

## 2. Modules

| module | models | state and actions |
| --- | --- | --- |
| `FifoLink` | what a link promises | `next`, `chan`, `out`; accept, refuse, deliver, lose |
| `LinkEmulator` | `lab3/link_emulator` | one variable per C variable, a program counter per thread (`fwPc`, `sPc`, `revPc`), one action per critical section |
| `WindowTransfer` | `lab5` | client (`cPc`, `sent`), datagrams and acknowledgements under way, server (`sPc`, `file`) |
| `StopAndWait` | `lab6` | client (`cPc`, `seq`), two lossy channels, server (`sPc`, `expected_seq`, `file`) |
| `ChatServer` | `lab7` | the server's loop (`sPc`, `i`, `j`), its table, the streams of each connection, the clients |
| `RouteLookup` | `get_best_route` in `Tema1_pcom` and `lab4` | the table, `left`, `right` of the search, `i` of the scan, the `route` found; one action per turn of a loop and outcome |
| `InternetChecksum` | `checksum`, `ip_checksum` | the sum of a header's words, folded twice |
| `Router` | the loops of both routers | frames on the wire between two routers and their hosts; one action per outcome of the loop |
| `Dictionary` | what an object promises | a partial function from names to values; put, delete, clear |
| `JsonObject` | `JSON_Object` in `parson.c` | pairs and cells, the values that are allocated and those with a parent; one action per operation, and per turn of the loops of growth and of removal (`loop`) |
| `JsonText` | the writer, the reader and `json_value_equals` of `parson.c` | the document `doc`, `writer` with what it has written, the `text` that arrived, `reader`; each has the calls under way (`open`) and its place in the code (`mode`), and a step goes to the next value, character, comma or bracket |
| `RestSession` | the client of tema 4 | `cookie`, `library_access`, descriptors and what they stand for, the command under way (`pc`), the server; an operator per function for what it makes of an answer |
| `HttpReceive` | `receive_from_server` | what the server says and what of it has come, the buffer, the two loops (`at`) |
| `ByteFraming` | `lab02/send.c`, `recv.c` | the bytes under way, the place in `recv_frame` (`byteAt`) |
| `NackTransfer` | `lab3/send.c`, `recv.c` | both programs, frames and answers under way, the file |
| `SortedList` | `lab6/lib/list.c` | the entries, `size`, the calls so far |
| `MC...` | | the modules for TLC, with the statements of comments and assertions that do not hold. `MCJson` and `MCPrograms` put modules that share no state side by side: `half` and `program` say which of them a behaviour runs |
| `...Proofs` | | theorems and their TLAPS proofs, one module per component; `JsonProofs` has those of `JsonObject` and `JsonText`, `TransferProofs` has those of `WindowTransfer` and `NackTransfer`, `ProgramsProofs` those of `RestSession`, `SortedList`, `HttpReceive` and `ByteFraming` |

Some choices need a word.

* **Clock (`LinkEmulator`)**. The scheduler compares every time with `crt_time`,
  so times are kept relative to it (`ReadClock` rebases them) and `sLag` is how
  far the clock has moved since. `sLag` stops at `MaxLag`, from where every time
  held is past. `Tick` may happen between any two steps: threads may be delayed
  for as long as one likes. The clock does not step backwards.
* **Frames** are their place in the order of arrival and the number of flips of
  the bit chosen by `rand()`. `rand()` is a choice, open when the percentage is
  positive. No property of `LinkEmulator` is about the flips (`Corrupted`): they are
  there because the code makes them, and `NackTransfer` has what comes of one.
* **The two locks** protect single accesses, so a critical section is an action.
  `pthread_cond_wait` may also return without a signal (`SpuriousWakeUp`).
* **The end of an assertion** is `sPc = "aborted"`, after which no thread moves.
* **Network**. UDP on the topologies of the labs has one path with FIFO queues:
  datagrams are lost, not reordered. In `StopAndWait` duplicates come from the
  client's own timeouts. Losing the head of a channel at any time is losing any
  datagram.
* **`timely` (`StopAndWait`)** says whether `SO_RCVTIMEO` (10 s against links of
  milliseconds) only expires when nothing is under way. Both are modelled, since
  the code does not depend on it but what it achieves does.
* **Parts (`ChatServer`)**. A packet of fixed size is two parts, so that `recv()`
  and `send()` can stop in the middle. A reset is reported once, as Linux does;
  later `recv()` returns 0 and `send()` raises `SIGPIPE`. `revents` is memory
  of the stack until `poll()` writes it: its first value is arbitrary. A client
  leaves only once it was accepted. If it leaves with something unread or under way
  to it, TCP may end its stream in order or reset the connection, and the model
  allows both. `exit` typed at a client only leaves the
  inner loop in the code, so a client ends when its process is ended.
* **Addresses (`RouteLookup`)** are four octets, of `OCTET` values each, in network
  order. `&` with a mask is taken octet by octet, as a remainder, which is what it
  is for the octets of a prefix mask. `host` is how a little-endian machine, which
  the labs' are, reads four octets as a `uint32_t`, and `ntohl` what the function
  makes of that. `compare_entries` returns a difference of two `uint32_t` as an
  `int`: it wraps, and can contradict itself (`a < b < c < a`). What `qsort` does then
  is undefined, and the model allows any order.
* **The network of `Router`** is two routers joined by interface 0, each with a host on
  interface 1; every kind, table and state of the ARP table is an initial state. A
  header is the words that are looked at or changed, so that its checksum is a sum
  of five. The TTL wraps at 0 (`Decremented`), and the two tests that come before
  it are `Tema1Expired` and `Lab4Expired`. `send_icmp_error` never sets the TTL of what it sends, which is then what
  `malloc()` left there: any number. `lab4` uses the entry of the ARP table without
  a look at whether there is one, and its address as the number of an interface:
  the router crashes, or goes on if there is an entry.
* **Symbols (`JsonText`, `HttpReceive`)**. A text is a sequence of symbols, one for each
  character or stretch of characters that the code tells apart or that a piece may
  end after; a number, a literal or a header's name is one symbol.
* **Recursion (`JsonText`)**. The functions of `parson.c` call each other once per level of a
  document. The calls under way are a sequence of records, outermost first, with what
  each has yet to use: the container and the index for the writer, the container as read so
  far and `new_key` for the reader. The text may be cut after any symbol.
* **Allocations (`JsonObject`)** may fail: the table does not grow, or the pair is not
  stored. The hash of each name is chosen once, from codes that collide and wrap. The
  two loops that leave the table unfinished, `json_object_grow_and_rehash` and the
  shift behind a removal, go one turn a step, so that what each turn relies on is
  checked and proved; no call begins while one is under way. Capacities are powers
  of two in the code, and `&` with one less is written as a remainder.
* **Lengths (`HttpReceive`)**. A server that says how long the body is sends no more than
  that (`HttpAssumption`); that it sends all of it is not assumed.
* **The server (`RestSession`)** answers a request, carries out what it answers with
  200 OK, and may end any connection at any time, before or after it has carried
  out a request it did not answer. Cookies and tokens are named by the login they
  belong to, which is all the properties ask of them.
* **Bytes** are numbers in `ByteFraming`, whose payload is 8 bytes instead of 100. In
  `NackTransfer` a byte or a word is the set of its bits that are 1: `^` is the symmetric
  difference, `>> 1` the set of each bit less one, `~` the complement. There the CRC is
  one of 3 bits over bytes of 2, and POLY has its highest bit as 0xEDB88320 has.
* Operators commented as a *mutant* are variants of the definition below them
  with a plausible mistake. They are used to show that the properties can tell.

`LinkEmulator` is shown to implement `FifoLink` twice, once per direction
(`Forth`, `Back`, together `EachWayIsFifo`): the channel of the abstract link is the wire followed by the
queue. A frame that the forwarder holds has reached the abstract link only once it
is enqueued or dropped. `JsonObject` is shown to implement `Dictionary` (`Lookup`): the
abstract dictionary has the names that a lookup finds, with what it finds, and while
cells are shifted, when nobody looks, what the pairs say. The three refinements are
also theorems.

## 3. Runs

| run | instance | shows |
| --- | --- | --- |
| `link` | 3 frames forth and 2 back, queue of 2, serialization 2, delay 2, loss, corruption, fairness | bound of the queue, no lost wake-up, safe dequeue, rate, both ways are FIFO links, accepted frames are delivered |
| `stop_and_wait` | files of 0 to 6 chunks, numbers modulo 4, 4 datagrams under way, timely and not | prefix, completeness, the client ends only when every chunk is written, termination, arrival |
| `routes` | every table of up to 3 routes with masks /0, /2, /4 and every address, octets of one bit | the scan finds the longest match; the search finds it in an ordered table of one mask, and both end |
| `chat` | 2 clients, 2 packets each, socket buffers of 1 part, leaving | whole packets, one order, relaying |
| `router` | 2 routers of either kind, words of 6 values, TTL up to 3, every table, one packet, damaged or not | checksums hold at the next router, no packet is forwarded more often than its TTL says, packets are not multiplied, packets die |
| `json` | 4 names and 4 values, 3 hash codes, table of up to 8 cells; 135 documents of up to 3 levels, plain and pretty, cut anywhere | the table is whole, values have one owner, an object is a dictionary and each call makes its own change to it; texts are read back, what was read equals all documents of the same content and no other; texts cut off are refused |
| `programs` | one of: two frames with noise and a lost byte; a message of 2 bytes under every flip; files of 0 to 6 chunks, window 3, both senders of lab 5, with and without loss; 4 calls on the list; sessions of up to 3 logins; answers with and without length in reads of up to 3 symbols | framing finds its frames; what is written was sent and NACKs are heard; the window is kept, closed files are whole and files arrive; the list is sorted; token, connection and reports of the client, and commands end; answers are read whole and reading ends |

Why these bounds: three frames fill a queue of two while the third is held by the
forwarder, so both overflow and a full check-then-act window occur; with
serialization and delay 2 two frames are on the wire at once, which is what the
rate is about. Files of up to twice the window exercise both loops and the
file that exactly fits; numbers modulo 4 wrap around within a file of 6. Two
packets in two parts for each of two clients give partial receives, interleaved
packets, one packet behind another on a connection, full buffers both ways and a
client that leaves in every phase. Three
routes are the fewest with which the search moves both ways and with which
`compare_entries` contradicts itself; /0, /2 and /4 are no mask, one whose highest
octet in memory is free, and one whose difference to /0 is negative as an `int`.
With six values a word is just large enough for the addresses, and sums of five
words carry twice; a TTL of 3 is spent in a loop of two routers, and one packet is
enough because routers keep nothing between packets. Three of the hash codes put
all names in one cell or in two neighbours at the end of the table, so that probes
wrap round; four names make a table of 2 cells grow to 8. Two frames and one lost
byte are a call of `recv_frame` that starts in the middle of a frame; three logins
are one token too old. An answer read in pieces of 1 to 3 symbols splits the
terminator, and the length from its number, in every way.

Five runs refute a sentence of the code's own comments or an assertion; the
counterexamples are short:

| run | sentence | what happens |
| --- | --- | --- |
| `link_assertion` | `assert(!buffer->size)`, `link.c:252` | a frame arrives after the look at the queue; the emulator aborts |
| `routes_specific` | "Call get_best_route to find the most specific route", `Tema1_pcom/router.c:164` | the difference of two masks wraps, so a default route is sorted before a /32 and found first; with several masks the search may also turn away from a route that matches |
| `chat_closed` | the connection was closed, `lab7/server.c:140` | `recv_all` never returns 0: it calls `recv()` for ever |
| `chat_others` | send the message to all the *other* clients, `lab7/server.c:155` | the loop leaves out the listening socket only, so the sender gets its own packet back |
| `chat_silent` | data has come on one of the client sockets, `lab7/server.c:133` | a client accepted in this round is looked at in it with a `revents` that `poll()` has not set, and the server waits for it alone |

Other places where code and words disagree, seen in the models but not put to a run:

* `corrupt2`, the "Second bit corruption rate" of `lab3/run_experiment.sh:9`, flips the
  bit that was just flipped: the frame is intact.
* In `lab6` the empty datagram that ends the file is sent once and not waited for:
  when it is lost the server waits for ever with the file open. `DoneIsReceived` says
  that the chunks are written all the same.
* `lab7/common.c:7-8` wants `recv_all` to receive exactly `len` bytes. When a reset comes
  in the middle of a packet it returns the part it has, which `server.c` forwards as a
  packet, followed by the rest of the one before (`RecvFails`). `PacketsStayWhole` and
  `SameOrder` therefore hold until a connection is reset.
* In `lab7` the server and a client may each wait for room to send to the other
  (`CircularWait`). `PacketsAreRelayed`, which is about the clients that did not send
  the packet, makes an exception of it and of the wait that `chat_silent` shows.
* `tema4-PC-REST_API/README.md` says a connection is opened and closed for every
  request; `register` uses main's as it is. If the server has closed it, the answer
  is empty and the client reports that the account was registered
  (`client.c:127`), which `SaysWhatHappened` makes an exception of.
* `get_books` parses the whole answer, header and all, which fails: it never prints
  the list. `login` takes any answer that is no refusal for one with a cookie.
* `lab3/recv.c` checks the frame it has again instead of receiving the one sent again:
  `NackIsHeard` states what comes of it.

## 4. Fairness

* `LinkEmulator`: weak fairness of each thread's next step and of the clock. The
  threads are preempted by the kernel and the mutex is held for a moment only.
  Nothing is assumed of the programs that send, nor of spurious wake-ups.
* `WindowTransfer`: the two programs run, and a datagram that is not lost
  arrives. Liveness is claimed only when nothing is lost; that is what
  `topo.py` sets (`loss=0`) and there is no sending again.
* `StopAndWait`: weak fairness of sending and of the timeout; strong fairness of
  receiving on both sides, that is, links that do not lose every copy.
* `RouteLookup`: weak fairness of the loop that was entered.
* `ChatServer`: the server runs; a client finishes the packet it is sending and
  reads what has come when it is not sending. It need not type, connect or leave.
* `Router`: a router that has a frame to read reads it. (`select` serves the lowest
  interface first; frames of the model leave the network, so none starves.)
* `RestSession`: a command goes on, its user types something, and a server that was
  asked answers or ends the connection. `HttpReceive`: what was sent arrives.
* `NackTransfer`: both programs go on; sending again, which needs no answer, is not
  assumed to be fair. `ByteFraming`, `SortedList`, `JsonObject` and `JsonText` have no liveness.

## 5. Proofs

TLAPS proves, for every value of the constants, from the assumptions named
`ConstantsAssumption`, `RouterAssumption`, `WordAssumption`, `RestAssumption`,
`ListAssumption`, `HttpAssumption`, `FramingAssumption`, `NackAssumption`,
`JsonAssumption` and `TextAssumption` in the modules (the last says of what shape
documents are, that the names of an object differ and that no string contains the
character that ends a text):

* `LinkEmulatorProofs`: `TypeOK` first; then each invariant on its own. The queue is
  bounded because an `overflow` read as false stays true to the size: only the
  forwarder enqueues, so between its check and its enqueue the queue only
  shrinks. `NoLostWakeUp` needs to know what the scheduler has seen when it gives
  up waiting for time: everything that is on the wire is due later than the
  clock it holds, or there is nothing. `RateKept` relates the last frame on the
  wire to `idle_time`: a frame enters the wire only when `idle_time` has passed.
  `ForthImplements` and `BackImplements`: each step of the emulator is a step of
  `FifoLink` or none. The frame that the forwarder holds is the last that arrived
  (`NumberInv`), so the abstract link may take its number when it is enqueued; the
  scheduler moves frames from the head of the queue to the end of the wire, which
  changes nothing that the abstract link sees. `ForthKeepsOrder` and `BackKeepsOrder`
  draw the conclusion, which needs nothing of the emulator but the refinement: what
  was delivered, followed by the channel, ascends and stays below `next`, and a
  delivery does not change that sequence (`KeptNext`, for any link). So the emulator
  delivers in order and at most once.
* `TransferProofs`: of `WindowTransfer`, `TypeOK`; the invariant that what the client has sent
  is at most what is under way plus what was acknowledged; and, without loss, that
  the file followed by what is under way is the file sent so far, so that a closed
  file has every chunk in its place.
  Of `NackTransfer`, that `crc32` notices every single flip (`EveryFlipIsNoticed`), for frames of
  every length. The highest bit of POLY shows in a shifted word whether a 1 was
  shifted out, so words that differ stay different through a shift (`ShiftedDiffers`),
  through a byte and through the rest of a frame (`CrcDiffers`); a flip of the sum is seen
  at once. The invariant is that what is on the link and in the receiver is the frame of
  the message with at most one flip; `FileIsSent` follows. Recursive functions are known
  to the prover only once a function with their equation exists (`Recursion`); this and what
  they compute is proved by an induction over sets of numbers (`Induction`), which comes
  from the well-foundedness of `<`.
* `StopAndWaitProofs`: `TypeOK`; then, while timeouts are timely, that at most one
  datagram or acknowledgement is under way, that it belongs to the last chunk read,
  and that `expected_seq` is where that chunk puts it (`AloneInv`, with `Reach` for
  the number at which a counter that does not wrap stops meeting one that does);
  from it `NeverAhead`. `FileInv` ties the length of the file to `expected_seq`, and
  gives `FileIsPrefix` and `ClosedIsWhole` both for timely timeouts and for files
  short enough for their numbers. `DoneIsReceived` follows from both where the
  client ends: `expected_seq` is where the last chunk puts it, and the file as long.
* `RouteLookupProofs`: words made of octets are natural numbers, equal only if their
  octets are (`HostInjective`), and a prefix mask that is not smaller under `ntohl`
  is not smaller in any octet (`MaskOrder`). `ScanInv`: the candidate is the best of
  the entries before `i`; hence `ScanIsBest` for every table. `SearchInv`: whatever
  matches lies between `left` and `right` as long as all masks are equal and the
  masked prefixes ascend; hence `SearchIsBest`. Its condition is what the sort
  does not always establish; `routes_specific` shows what happens with two masks.
* `RouterProofs`: `ChecksumVerifies`, that folding twice is enough for sums of as many
  words as a word has values (the division is done once, by the bounds of the
  quotient); with it every header that `Checked` has closed is `Intact`. The invariant
  ties each frame to the TTL it was sent with, bounds its words, and says that what
  was spent of the TTL is what the packet was forwarded. That holds only because neither
  kind of router decrements a 0, which would start the TTL again: it is where the two
  tests of the TTL enter, and gives `HopsBounded`, as it does `ChecksumsHold`, for both
  kinds of router and every table. A step of a
  router takes one frame and sends at most one, hence `OneFramePerPacket`.
* `ProgramsProofs`, the session: `OneConnection` holds because the lowest descriptor that is free is the one
  just closed, as no other is open below it; the invariant says which descriptor is
  open at each step of a command. `TokenOfLogin` follows from what a request may
  carry while the cookie cannot change: a token is only stored for the cookie that
  was sent, and a command that changes the cookie refuses or forgets the token.
  `SaysWhatHappened` follows because the server is at a request only while the client
  waits (`Answered`), so the answer that is read is one to the request that was sent.
  The list: the place that the loop finds has only smaller numbers before it and
  larger ones behind it (`PlaceSplits`), and a call puts in what no earlier call had,
  which is `ListIsWindow`. The receive loop: what is in the buffer begins the answer, and
  a pattern found in it is where it first is in the whole answer (`FoundEarly`), so
  the terminator, the header and the number are those of the answer although they
  were looked for in a part; `Complete` then is true only of all of it. The client
  returns earlier only at the end of the connection.
  The framing: `StartInv` follows the receiver to the first DLE STX, which the noise
  does not have. From there the bytes left and the bytes put into `buf` add up: a byte of
  the text takes one from the wire and makes one, two zeros make one, the first read as
  an escape. So the first call, whose buffer is at most half as long as the payload,
  returns behind its text and before the second frame (`StopsInside`,
  `StopsBehindText`), where there are only DLE and ETX. The second call therefore finds
  the second start, reads its text, and meets DLE ETX in step if the zeros are even
  (`SecondInv`). Positions are counted from the end, which a byte lost from the first
  frame does not move. The texts have no zero byte, where `strlen` ends them.
* `JsonProofs`, the table: linear probing, for any hash function, capacity and set of names. On
  the way from the home of a name to its cell no cell is free (`Reached`), so a
  search reaches it (`Search`), and the first free cell is one that a new name can have
  (`Placed`). A removal leaves a hole, `loop.i`, that some pairs further on miss; the
  invariant of the shift says that these are only pairs in cells not looked at yet,
  whatever wraps round, that the rest of the table is whole, and that a free cell is
  still ahead, so that the loop ends there and not by its count (`Shifting`, `TurnStays`,
  `TurnMoves`, `ShiftEnds`). While the table grows, the larger one has the pairs of the
  object so far and room for all (`Grows`). From this invariant, `JsonInv`, follow
  `TableWhole`, `ValuesOwned`, that lookups find what was put in (`LookupsFind`) and that the
  object implements `Dictionary`. The refinement alone would let a removal that loses
  another name pass for a deletion of that one; so `ObjectIsDictionary` also says which
  step of the dictionary each call is, and that the turns of the two loops are none
  (`CallsAreTheirOwn`).
  The texts: `RoundTrip` is an equation between two recursive functions, but no induction over
  documents is needed, because both are modelled with their calls under way. The invariant
  `TextInv` has the history of the writer, from the document to the finished text, and
  says that the reader is at one of its places: same calls under way, the same names and values
  in each container (`Match`). So each step of the reader repeats the step of the
  writer from there (`Matches`), of which there is one lemma per kind, for a scalar, an
  opening bracket, a character and its escape, a colon, a comma, an end, each with and
  without white space. Where the text was cut there is no next symbol, or the step of the
  writer needs more than is left, and the reader fails; it is finished only where the writer
  was, which a cut text does not have, and then with the document (`TextInvIsEnough`).
  For the depth, what has been read whole does not reach deeper than the reader goes
  (`Shallow`), and where it gives up, the calls under way are the path that is too long.
* `ChatServerProofs`: `Base` says of the server's table that no client is in it twice, and of
  each connection that what is under way to the server is the rest of what was typed.
  `PacketsStayWhole` needs more: that the server takes the parts of a client in pairs, that
  `received_packet` is whole when it is sent, and that a client has been sent an odd
  number of parts only while the loop is at its slot or if it has left since; a client
  that leaves cuts the end off its stream, which leaves what is before it as it was
  (`CutOff`). `SameOrder` is about any two
  clients, and is not inductive. `Ordered` is: there are positions for the parts
  that ascend along every stream, the packet being sent has the highest, and the
  slots the loop has still to come to have only seen what is below it. All three
  hold until a connection is reset, and a reset is never undone (`ResetStays`).

Each invariant is proved from `TypeOK` and the ones before it, one step per action.

## 6. What is only model-checked

* Liveness: `AcceptedIsDelivered`, `ClientFinishes`, `FileArrives`, `PacketsAreRelayed`,
  `LookupEnds`, `PacketsDie`, `NackIsHeard`, `CommandEnds`, `Returns`. The prover has no rule for
  fairness and `ENABLED` here.
* `EqualByContent` of `JsonText`: `json_value_equals` goes down two documents at once, and what it
  computes for every pair of them is an induction over documents, for which the prover has no
  usable theorem. The run compares every document that was read with all others.
* That `ChatServer` relays packets, with two clients and buffers of one part. Three
  clients differ from two only in that more slots may be skipped or looked at twice
  after a removal, which two already show.

## 7. What is not modelled

* In the link emulator: reading `link_up1`, `link_up2` and the addresses in one thread
  while another writes them (an `int` and two words, written once; the models read
  the flag atomically), a clock that steps backwards, the lengths and contents of
  frames, socket errors. The copy in `lab02` differs in how it corrupts a payload.
* In `ChatServer`: more than `MAX_CONNECTIONS` clients, `run_chat_server` (which the
  comment says to replace and which handles two clients by turns), what is printed.
* `WindowTransfer` has `send_file_start_stop` of `lab5`, which `main` does not call: it
  leaves its loop on the empty chunk before sending it, so the server writes the
  whole file and never closes it. No run asks the server to close in that mode.
* The client of `StopAndWait` takes whatever `recvfrom` returns for the
  acknowledgement; `NeverAhead` is therefore claimed only while timeouts are
  timely, and `FileIsPrefix` says what survives when they are not.
* Of the routers, the parsing of the tables, Ethernet addresses, the checksum inside
  the ICMP header, packets of other kinds.
* Of `parson.c`, numbers and their formats, comments, dotted names, validation,
  copies, files, and the options of the writer. (`json_object_dotset_value` leaves a
  value whose parent is an object it has freed when it fails at line 2188; nothing
  here calls it.)
* Of the library client, what is typed (only whether it is accepted), the end of the
  standard input (after which main repeats the last command), memory that cannot be
  allocated, the length of a request.
* In `NackTransfer` the length of frames; `simple_csum`, whose result `recv.c`
  overwrites and which copies a whole frame into a payload, past its end.
* `lab7/lab5` and `lab02/link_emulator` are copies of what is modelled.
* `Tema1_pcom/lib/queue.c`, `list.c` and the sockets glue are utilities; `lab9` is two
  requests with the helpers of tema 4, `lab01` sequential exercises.

## 8. What could come next

1. `NackTransfer` over two `FifoLink`s, so that the abstract link the emulator
   implements is the one its clients are checked against.
2. `run_chat_server` and `receive_and_send` of lab 7, two clients by turns.
3. The dotted names, deep copies and validation of `parson.c`.

## 9. Running

```
tlc -workers 2 -config MCLink.cfg MCLinkEmulator.tla
tlapm LinkEmulatorProofs.tla
```

`PROJECT.json` names the module, the configuration and the properties of every run.
