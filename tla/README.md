# Verification of Micro-RTSP in TLA+

Micro-RTSP is a small RTSP/RTP server for microcontrollers (and, for tests,
POSIX): clients open a TCP connection, ask for the stream with RTSP requests,
and get the camera's JPEG frames as RTP packets, over UDP or interleaved with
the RTSP connection. This directory holds TLA+ models of its parts, the TLC
runs that check them on small instances, and proofs for every instance.

Paths are relative to the repository's root.

## The system

| component | source | state | operations |
|---|---|---|---|
| Client list | `src/LinkedListElement.h`, loops in `src/CStreamer.cpp` | a doubly linked ring through the sessions | link at the end (constructor), unlink (destructor), walk (serve, send, destroy) |
| Shared UDP transport | `src/CStreamer.cpp` 181-225 | two sockets, two ports, a reference counter | InitUdpTransport, ReleaseUdpTransport |
| RTSP session | `src/CRtspSession.cpp` | per session: command type, CSeq, transport, streaming, stopped; shared by all: receive buffer, fill level, header state | handleRequests and the handlers |
| RTP stream | `src/CStreamer.cpp` 60-169, 251-279 | sequence number, timestamp, time of the previous frame | streamFrame, SendRtpPacket |
| JPEG container | `src/CStreamer.cpp` 298-427 | none | decodeJPEGfile |
| Camera | `src/OV2640.cpp`, `src/OV2640Streamer.cpp` | the frame buffer held | run, runIfNeeded, getfb, getSize, done |
| Server loops | `test/RTSPTestServer.cpp`, `examples/ESP32-devcam.ino` | the time of the last frame | accept, serve, send a frame |
| Platform glue | `src/platglue-*.h` | none (sockets of the system) | socketread, socketsend, udpsocketcreate, ... |
| Simulated camera | `src/SimStreamer.cpp`, `src/JPEGSamples.cpp` | none; two constant images | streamImage |

Interaction. A server loop accepts a connection and calls
`CStreamer::addSession`; the new `CRtspSession` links itself into the ring. The
loop calls `CStreamer::handleRequests`, which calls `handleRequests` of every
session and deletes the sessions that have stopped. A session's SETUP calls
back into the streamer (`InitUdpTransport`), its destructor too
(`ReleaseUdpTransport`). `streamImage` of a streamer hands a frame to
`streamFrame`, which cuts it into packets and sends each to every session that
is streaming, over the session's TCP connection or the shared UDP socket.

One process is one thread. What makes the code hard is therefore mostly not
preemption but what happens between two calls: bytes that arrive in pieces and
from several clients in one static buffer, sessions that vanish in the middle
of a request or of a pass over the ring, calls of init and release that are not
paired, searches that fail, counters and clocks that wrap, a frame buffer that
belongs to the driver again. The test server forks a process for every
connection; its processes share ports and the queue of connections.

## Modules

| module | what it is |
|---|---|
| `ClientList` | the ring, the loops over it, creation and deletion of sessions |
| `ClientRegistry` | abstract: a sequence of clients and passes over it |
| `ClientListProofs` | proofs about `ClientList`, and that it implements `ClientRegistry` |
| `UdpTransport` | reference counter, port search and UDP sockets, driven by sessions |
| `UdpPool` | abstract: a port pair shared by its users |
| `UdpTransportProofs` | proofs about `UdpTransport` |
| `RtspSession` | receive buffer, header state, parser and handlers of all sessions |
| `RtspDialogue` | abstract: requests served one by one, answered for what they ask |
| `RtspSessionProofs` | proofs about `RtspSession` |
| `RtspDialogueProofs` | proofs about clients that await their answers, and that the sessions then implement `RtspDialogue` |
| `RtpStream` | images, packets, sequence numbers, media clock, receiving clients |
| `PictureFeed` | abstract: images taken and shown whole |
| `RtpStreamProofs` | proofs about `RtpStream` |
| `JpegDecode` | decodeJPEGfile and its helpers over a file of markers, sections and scan data |
| `JpegDecodeProofs` | proofs about `JpegDecode` |
| `SimImages` | the images of the simulated camera as such files |
| `Camera` | the class OV2640: one frame buffer of the driver held at a time |
| `Device` | setup and loop of the ESP32 example; extends `Camera` |
| `DeviceProofs` | proofs about `Device` and `Camera` |
| `TestServer` | the test server's processes, descriptors and UDP ports |
| `TestServerProofs` | proofs about `TestServer` |
| `MC...` | instances for TLC |

In the modules a definition named in `PROJECT.json` under "map" stands for the
source lines given there. Definitions whose comment begins with "Mutant:" are
plausible mistakes in the definition that follows them; they are used to see
that the properties notice such a mistake, and are no part of the models.

### ClientList

`next` and `prev` are `m_Next` and `m_Prev` of every node; a freed node's
pointers become `Freed`. `AddSession` is the linking constructor; `ServeOne`,
`SendOne` and `DestroyOne` are single iterations of the three loops in
`CStreamer.cpp`, with the local variable `element`. One iteration is one step,
so that every state in which a loop holds a pointer is seen. Histories: `rank`
and `created` (order of creation) and `due` (whom the running loop still has to
visit). `Freed` and `Sentinel` are not addresses of sessions; an address may be
used again after its session was deleted. `Walk` follows pointers from a node up
to the sentinel: what it meets from the sentinel on are the `clients` of
`ClientRegistry`, what it meets from `element` on those a pass has yet to visit.

### UdpTransport

A socket handle is the port it was bound to, 0 is the NULL handle. `open` is
what the operating system has open for us, so that a dangling handle is one
outside `open`. `InitUdpTransport` draws the set of ports that can be bound
during its search from `Bindable`: other programs and exhausted memory are in
that choice. The search, the half pair that is closed again and the handle that
is left behind by a failed search follow the code. NULL may be closed without
effect, as in `platglue-esp32.h`; on POSIX the NULL handle is descriptor 0, and
closing it is not harmless: that is in `TestServer`.
`holders`, `overs`, `unders` are histories: users, repeated SETUPs, and sessions
that ended without a UDP SETUP.

### RtspSession

A request is five pieces: the request line, its CR, LF with the CSeq header, CR LF
with the other headers, and CR LF CR LF. A read takes any number of pieces that
ends at a request's end, at the end of what is there, where the buffer is full, or
after one of the pieces in `Cuts`, so between the CR and the LF of a request line
too: `torn` counts those reads, in which the parser accepts the line and the
previous command is served again. A read may stop inside a piece as well; it has
the effect of one that stops in front of the piece or behind it, with these
abstractions: a piece other than the CR is taken to be six bytes or longer, what is
left of a request whose beginning was lost is taken for an unknown method (in the
code it may be so short that it is dropped without a 400, or end in the name of a
known method), and Transport is the first of the other headers. The optional empty
line in front of a request and bodies are left out.

`Weight` gives the pieces a length in units of some ten bytes, as the parser is
told the size of the last read only (`NumberRead`): whether it finds the
sequence number depends on how much came with that read. `Requests` decides with
`headers` whether the fourth piece is longer than what stands before it.
`Lockstep` says that clients await their answers, `Apart` that the server reads
from nobody else while it has read a part of a request.

`buf` is `RecvBuf[0..bufPos)`, `hdr` the static `state`. One call of
`handleRequests` is one step: `ReadData` with its outcomes `Wait`, `Reject` and
`Dispatch`, or `ReadClosed`, or `ReadTimeout`. The deletion that
`CStreamer::handleRequests` makes directly after the call is part of the step
(the early return for a stopped session is therefore never taken). `Dispatch`
is also what happens when no line end is in the buffer: the command type of an
earlier request is used, as in the code. What is parsed before the parser gives
up stays in force. `m_StreamID` is left out, nothing reads it. The UDP sockets
behind `udpRefs` (`m_udpRefCount`) are in `UdpTransport`.

### RtpStream

`StreamFrame` and `StreamBroken` are the beginning of `streamFrame` with an
image that can be decoded or not; `SendRtpPacket` and `SendToNobody` are one
call of `SendRtpPacket` each, with or without clients, and `Continue` is the
loop around it and the end of `streamFrame`. `streamFrame` runs to its end
before the server loop handles another request, so sessions are added, set up,
played and deleted only while `sending` is false. The test of `m_stopped` is
left out: a stopped session is deleted in the pass over the ring in which it
stopped (`Leave`). `m_SendIdx` is left out, nothing reads it.

A packet is its header fields, its size and, in place of the payload, the image
its bytes come from. The four bytes in front of a packet over TCP only repeat
the size. The client (`Receive`) is no part of the repository: it reassembles
JPEG images as RFC 2435 says, adding a packet that continues the last one in
sequence number, offset and timestamp. Packets over UDP may be lost, fewer than
2^16 in a row; they are not duplicated or reordered. A send over TCP is taken
to be complete, as with blocking sockets.

`now`, `start`, `calls`, `advanced`, `missed` and the fields `nr`, `at` and `ts`
of `image` are histories. The time does not go backwards; `prevMsec` is what the
code sees of it, modulo `Word`.

### JpegDecode and SimImages

A file is a sequence of pieces, each with the offset of its first byte: a marker
with its section, entropy-coded data, or what is left behind the end. The
pointers of `decodeJPEGfile` only ever stand at the beginning of a piece, so
`from` (`*start` of a search) and `at` (`bytes`) are numbers of pieces, while
`start`, `len` and the tables are in bytes, as is the limit of a search with its
errors. Lengths are computed modulo `LenMod`, 2^32 in the code, and every file is
shorter than that. `SkipSection` is one iteration of the loop of `findJPEGheader`; `Hit` and
`Miss` are its two ways out, and each of them is an action of `decodeJPEGfile`
(`ImageFound`, `ImageMissing`, ...). `nextJpegBlock` is part of the actions of the
tables, `skipScanBytes` is an action. `outside` records that a byte behind the
file was read. A loop that goes on behind the file leads to the stage "astray":
from there `decodeJPEGfile` may return, with any result, or never (`ReadOn`, without
fairness), for that depends on the memory behind the file and the loop of
`skipScanBytes` has no limit. Unknown
markers (progressive SOF, comments, restart intervals) are "other": the code
takes them for two bytes and then finds no 0xff. `IsFramed` says of a file that
its scan is not empty and ends at a marker, and that something behind the scan
stops the search for the end. `StaysInside` and `TablesFound` speak of framed
files: others are read beyond their end, and behind an empty scan the code would
take tables for those of the image.

`SimImages` has the two arrays of `JPEGSamples.cpp` as pieces, found by reading
the bytes; that their lengths are the constants `capture_jpg_len` and
`octo_jpg_len` is an assumption that TLC evaluates.

### Camera and Device

`fb` is the frame of `OV2640`, a buffer and the number of the image in it; `lent`
is what the driver has handed out. `FbGet` is the driver: it may have no frame at
any time. `Device` is the example: one action per call `loop` makes, in its order
(`HandleClient`, `HandleRequests`, `CheckTime`, `TakeFrame`, `Access`, `Send`,
`FinishImage`, `Accept`). `streamImage` and the two handlers of web pages share
`TakeFrame`, `Access` and `Send`; `user` tells them apart. The arguments of a
handler's `write` are evaluated in either order, those of `streamImage` are
not (`Access`). When the NULL pointer is followed the device crashes and starts
anew (`Reboot`), as it does without a streamer. `HandleRequests` says what a
session does at a read: it may start to play, choose a transport, or go away with a
TEARDOWN (`Request`, `EndSession`); it goes away when the connection was closed. An
image for a session that plays over UDP is sent by `m_RtpSocket` (`rtp`), which
`beginPacket` follows whether it is NULL, closed, or bound (`SendsToNothing`); `refs`
is `m_udpRefCount`, raised by each SETUP for UDP and lowered by the end of each
session. Closing a handle for the second time may crash or not. The RTCP socket and
the ports are in `UdpTransport`. One client at a time; more of them are in
`ClientList`. `since`, `misses`, `setUp` and `short` are histories; `short` records
that a session ended without a SETUP for UDP or that a search found no ports.

The example passes `cam` and `rtspClient` by value, where `OV2640Streamer` and
`addSession` take pointers; it is modelled as the pointers mean it.

### TestServer

A process has `pc` (in `main`'s accept, in `workerThread`, in the search for
ports), its table of files `fds`, and the variables of its streamer. `fork` copies
the table. `CreateUdp` is `udpsocketcreate` and `Closed` is `close`, with the
lowest free number for a new file, a limit on their number, and ports in use as
long as any process has a socket bound to them. One socket of the search is one
step, since other processes search too. A client may hang up at any time: the
process notices at its next read, or is ended by SIGPIPE while it sends
(`Killed`); `main` does not ignore the signal, and waits for no child. `conn`,
`unserved`, `ended`, `half` and `twice` are histories; `half` and `twice` pass to
a child, as the descriptors do.

## Runs

| run | instance | shows |
|---|---|---|
| `client_list` | 3 addresses, 5 sessions created | ring intact, in order of creation; each loop visits all once, stands on no deleted session and ends; implements `ClientRegistry` |
| `udp_transport` | 3 addresses, 5 sessions, 2 repeated SETUPs, 3 port pairs, 4 outcomes of a search | what the counter means, which sockets are open and announced, for any mixture of clients; as long as calls are paired, every step is one of `UdpPool` |
| `udp_mixed` | same, a pair is always free | **violated**: a session that never used UDP closes the ports of one that does |
| `rtsp_shared_buffer` | 2 sessions, 2 pipelined requests each, cut between the CR and the LF of the line or in the headers, buffer of 6 pieces | the shared buffer never overflows; no session acts on the other's command; never more answers than requests and cuts between CR and LF |
| `rtsp_dialogue` | 2 sessions that await their answers, 2 requests each of 7 kinds, cut between header lines, one client's request at a time | implements `RtspDialogue`; each answer is of its own request's type; every request that parses is answered |
| `rtsp_split` | 1 session that awaits its answers, long and short headers | **violated**: a request cut before a short rest is not answered |
| `rtsp_mixed` | 2 sessions, cut between header lines at the same time | **violated**: a request is answered as if it were an earlier one |
| `rtp_stream` | 2 sessions, 2 images of 1, 2, 3 or 5 bytes, fragments of 2, millisecond clock modulo 16 | every picture shown is one whole image; all streaming TCP clients follow; implements `PictureFeed`; the media clock never gets ahead; `streamFrame` ends |
| `rtp_pace` | 1 session, gaps of 1 and 2 ms | **violated**: timestamps lag by an image |
| `jpeg_decode` | up to 3 header sections of 5 kinds with 10 continuations, start marker first, later or missing, files without a scan, the two sample images, lengths modulo 2^16 | no read outside a file whose scan ends at a marker and that has an end; exactly the scan is handed on; tables are the first ones; camera images are accepted; it returns unless it reads on behind a file that is cut short or has no marker behind its scan |
| `device` | 1 RTSP client, web pages, `millis()` modulo 7, an image every 2 ms, steps of 1 or 2 ms, access point, a counter of UDP users from -2 to 2 | one buffer held; what is sent is a held frame; crashes have one of the causes named; images are paced and flow across roll-overs; a closed connection is noticed |
| `test_server` | 3 processes, 2 clients, 2 port pairs, 5 or 8 files, 3 sets of ports taken by others | one process per connection; nobody's connection is closed by descriptor 0; announced ports are one's own; no port is left behind; connections are accepted; silence gets images |

The type invariants of `ClientList`, `UdpTransport`, `RtspSession` and `RtpStream`,
and `AnySessionsExact`, `IteratorAllocated` and `InStep`, are proved and not run.

Bounds. Three sessions give a first, a middle and a last element of the ring,
and five creations let addresses be reused. Three port pairs suffice for a
search that takes the first, a later, or none, and for a half pair at the end
of the range; the counter moves between -5 and 5. Two clients with two requests
each contain every kind of meeting in the buffer: leftover of an earlier
request, of another client, of a client that has gone; six pieces let the
buffer overflow in the middle of a second request; in the runs of the dialogue the
buffer holds two requests. With fragments of 2 bytes,
images of 1, 2, 3 and 5 bytes have one short, one full, two and three fragments;
4 sequence numbers wrap within two images, and two sessions are one over TCP and
one over UDP, both ways. TLC's integers have 32 bits, so the clock is scaled:
16 values of a word, 3 ticks in a millisecond and 2 ms of lie make the product
overflow from 3 ms on and the clock roll over at 16. The theorems do not depend
on these numbers. Three header sections hold zero to three tables in every
position, and an unknown one; the lengths are those of real sections, so that
the limits that are a section too large reach behind short scans. In `device`
images are due after two or three steps, and 7 is small enough for the clock and
the sum to wrap; nothing but modulo arithmetic depends on it. `MaxRefs` = 2 lets a
session be set up twice and two sessions end without a SETUP: all that the code
tells apart is a counter below, at and above 0, and 1. In
`test_server` a limit of 5 files makes the first or second connection or the
first socket fail, 8 lets two connections and two pairs be open; three processes
are the parent and two children, of which each may accept in its turn.

Deadlock is checked in `device` only: clients of the other models may stop
sending, and their bounds stop every behaviour.

Fairness. `ClientList` assumes weak fairness of the loop iterations: a loop
that was entered goes on, nothing in it waits. `RtspSession!LiveSpec` assumes
weak fairness of `handleRequests` for every session: both server loops call
`CStreamer::handleRequests` again and again, and it calls every session. No
fairness of clients is assumed. `RtpStream` assumes weak fairness of `Send`: the
loop of `streamFrame` waits for nothing but the socket calls. `JpegDecode` waits
for nothing, but no fairness is assumed of a loop that has left the file. `Device` assumes that `loop` goes on and that a crash restarts the
processor; not that the network is joined, which `setup` waits for. `TestServer`
assumes weak fairness of every process: a read waits for 400 ms at most, and an
accept is enabled only when there is a connection.

## Proofs

`ClientListProofs`: neither `RingIntact` nor `EachVisitedOnce` is inductive.
`IInv` adds that the ring is sorted by the rank of creation, that ranks are
distinct, and that the sessions due are exactly those not older than the
element reached. Lemmas give the effect of linking and unlinking on the ring
(`LinkKeepsRing`, `UnlinkKeepsRing`) and of one visit on what is due
(`VisitKeepsDue`). Assumed: sentinel and freed marker are no sessions.
That the ring implements `ClientRegistry` (`RingImplementsRegistry`) needs more:
`IInv` does not say that `next` comes back to the sentinel. `WInv` adds that some
sequence lists the ring; the constructor appends to it (`AddAppends`), the
destructor takes one session out (`UnlinkTakesOut`), and a running loop stands
somewhere in it (`LoopStandsAt`). `WalkIs` says that `Walk` then is that sequence;
it needs finitely many addresses, which memory has.

`UdpTransportProofs`: `IInv` combines the ledger of the counter with
`IdleHoldsNothing` (at 0 or below, nothing is held). Sockets change only when
the counter leaves or reaches 0; the ledger then says who the users are.
With paired calls the counter is 0 exactly when there are no users: so every
step before the first call out of turn is one of `UdpPool`
(`PoolStepsWhilePaired`), and `UdpOnceSpec`, the behaviours of clients that set
up UDP exactly once, implements it (`UdpOnceImplementsPool`). Assumed: the range of ports is not empty and
its ends are even, as in the code (6970 and 0xFFFE).

`RtspSessionProofs`: the type of a command is determined only in the header
state "unknown", in which the buffer is empty when the read begins
(`BufferSound`), so the bytes looked at are the client's own
(`BufferAfterRead`, `CommandIsOwn`). `IInv` adds that nothing is read that was
not sent. Proved for any buffer capacity, any cuts and any requests.
`NoSurplusReply` (`RepliesNeverExceedRequests`) is inductive beside `IInv`: a read
adds one answer at most, and only when it ends with the end of a request, or between
the CR and the LF of a request line (`OneReplyAtMost`). Without reads of the second
kind (`LinesWhole`, which also wants a buffer of more than a line), nothing is
answered before its last piece was read (`NothingAnsweredEarly`). With them that
does not hold, though a comment says so ("in all cases we need to slurp the whole
header before answering", `src/CRtspSession.cpp` 570): TLC finds such a
state when `WholeHeaderFirst` is checked in `MCRtspShared.cfg`, where it takes the
second term of `NoSurplusReply` to make up for it.

`RtspDialogueProofs`: answers can be of the wrong request (`rtsp_mixed`), so
`AnswersCurrentRequest` is proved under the conditions of the run `rtsp_dialogue`,
for any sessions and requests: clients await their answers, the server hears
them one request after the other, and no read ends between the CR and the LF of a
request line (`Lockstep`, `Apart`, `LinesWhole`). `DInv` says that a client
is at most one request ahead (`InStep`) and that the buffer holds the end of what
was read of one client's latest request (`InHand`). `SessionsImplementDialogue`
needs `Plainly` besides: a read ends inside a request only behind the CSeq header,
the buffer holds a request, and the headers behind the CSeq are longer than what
precedes them, as with a usual client. The last cannot be dropped (`rtsp_split`);
the others are what `RInv` needs, in which a request is read at once or in two
halves. `MCRtspDialogue.cfg` satisfies `Plainly`.

`JpegDecodeProofs`: for every set of files in which offsets grow as the kinds of the
pieces demand (`IsFile`). `JInv` says for each search where it began and that it has
passed sections of known length only, none of them the one it looks for (`Begun`,
`Walked`), and what its limit is (`Limits`). The limits are wrong by two bytes and by
a section; `TablesSought` relates those of the tables to the limit of the search
for the scan: a table that was missed lies behind it, and then no scan is found.
Assumed besides: a file is shorter than `LenMod`.

`TestServerProofs`: for any number of processes, clients, files and ports. A process
is described by its own variables and table, whoever forks meanwhile: `Own` says
which file each number it relies on stands for. Only `Counted` relates processes,
by the clients they were forked for, and gives `ServedByOne`. Number 0 and a second
SETUP are the exceptions that the properties name, with the histories `half` and
`twice`. Assumed: limits of at least 5 files, ports from an even number up to
another, and that clients, ports and the other kinds of files are different things.

`RtpStreamProofs`: what a client has put together follows the local variable
`offset` only if the sequence numbers tell a loss, so `IInv` says, for each
streaming client, how far the last sequence number it saw is behind
(`SeqInStep`) and that what it holds are bytes of one image up to where it holds
them (`Assembled`). `PicturesWhole` and the refinement of `PictureFeed` follow
from it, for every fragment size, image length and modulus. `ClockInv` relates
`prevMsec` to the time of the last call and gives `NotAhead`: the overflow of
the product and the timestamps that lag can only lose time. Assumed: a fragment
has at least one byte, an image too, there are at least two sequence numbers,
and a second's ticks are a multiple of its milliseconds.

`DeviceProofs`: that a frame sent is the frame held is only inductive with what
the accessors have returned so far and how often the driver had no frame for the
present user (`Gathered`, `Sent`), and with who may use the camera where
(`Placed`). `CrashHasCause` follows from them and from `Sockets`: while every session
that ended had a SETUP for UDP and every search found its ports, the counter is not
negative, is positive once the present session was set up for UDP, and the socket is
bound while it is positive. For `Paced`, `Timely` relates the
time since the last image to the clock: as long as the interval does not end
beyond the roll-over, they agree. Assumed: an interval and two steps of a turn
are together shorter than the period of `millis()`, and the counter stays within
some bound `MaxRefs`.

Only model-checked: liveness (`PassEnds`, `EveryRequestAnswered`, `ImageEnds`,
`Returns`, `ImagesFlow`, `HangUpNoticed`, `QueuedIsAccepted`,
`SilenceGetsImages`), which is out of the prover's reach; and that the lengths of
the simulated camera's arrays are its constants, an assumption that TLC evaluates.
Every safety invariant, action property and refinement that a passing run checks
is a theorem.

## What the code does not do

* A session that ends releases the UDP transport whether it had acquired it or
  not (run `udp_mixed`).
* A request line that arrives in two reads is not glued: its beginning is lost
  and its rest is answered with 400. A request that arrives in two reads is not
  answered when the second is shorter than what stands before the sequence
  number (`rtsp_split`).
* After a read that ends between the CR and the LF of a request line the session's
  previous command is answered, and carried out, once more: a SETUP for UDP takes
  another reference, a PLAY is answered again. `NoSurplusReply` allows one answer
  more for each of these reads.
* With several clients in one process, partial requests mix in the static
  buffer (`rtsp_mixed`); a client that goes away in the middle of a request
  spoils the next client's first one.
* Of two requests in one read only the first is answered.
* When no port pair is free InitUdpTransport still counts the user and reports
  success; `m_RtpSocket` may keep a closed handle.
* A request that does not parse gets no answer, and a PLAY or TEARDOWN among
  them takes effect all the same.
* OPTIONS announces PAUSE, which is answered with 400.
* An image carries the media time of the image before it (`rtp_pace`).
* The media clock loses time when more than 47.7 s lie between two images (the
  32-bit product of the time and 90000 overflows; in the ESP32 example whenever
  nobody is connected for that long), and when an image cannot be decoded.
* The 404 of DESCRIBE lacks the empty line that ends a header.
* The first packet of an image with its own tables announces Q 128, the other
  packets Q 94.
* Of a file with one DQT section the second table is taken from whatever follows
  that section. A file that is cut off in its scan is read beyond its end, and
  `skipScanBytes` need not return from there.
* When the camera has no frame twice in a row and then has one, `streamFrame`
  follows a NULL pointer; without a frame in `setup`, so does the constructor of
  the streamer; without an access point, `loop` uses no streamer.
* An image goes to every session that plays over UDP, with a socket or without: on
  the ESP32 a PLAY without SETUP, or a SETUP after the counter went below 0 or after
  a search that found no ports, makes `udpsocketsend` follow a NULL pointer.
* While somebody watches the web page's stream, RTSP clients are not served.
* The parent of the test server keeps every connection open: a client never sees
  its connection closed by the server. When it has no descriptor left, `accept`
  fails at once, and a process is made for -1 in every turn. A child whose
  session is over accepts connections next to its parent.
* A client that goes on talking gets no images from the test server.
* On POSIX a half pair closes descriptor 0, standard input. The next connection
  or socket gets number 0; a UDP socket with that number is taken for a failure
  and stays bound.
* `platglue-mbed.h` binds a socket only if it could not open it; no build
  includes the file.

## Plan

1. Measures that every step of a loop lowers: the steps that make `PassEnds`,
   `ImageEnds` and `Returns` hold, as action properties that can be proved; and
   `SessionsImplementDialogue` for more ways to cut a request.
2. The client ports of SETUP and the lengths of fields in the parser.
3. `RtspServer`: composition of list, sessions, UDP transport and stream;
   refinement of `UdpTransport` and `ClientRegistry`.

Not modelled: the image data, the pin tables of the camera board and the
accessors of its configuration (nothing calls them), the display, peer addresses
(they are data), log output, `platglue-mbed.h` (in no build), and
`test/rfccode.cpp` (a copy of code from RFC 2435 that nothing calls).
