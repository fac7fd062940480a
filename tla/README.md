# A TLA+ model of libtelnet-ts

libtelnet-ts is the C library libtelnet (`libtelnet.c`), compiled to
WebAssembly, behind a TypeScript class. The library holds the state of one
TELNET connection: bytes received go in through `telnet_recv()`, what the
application wants to send goes in through `telnet_negotiate()`, `telnet_send()`
and others, and everything comes out through one event callback. It does no I/O
and has no threads or timers. What makes it hard is the protocol: two ends that
negotiate at the same time, a stream cut into arbitrary chunks, and callbacks
that call back.

## 1. Inventory

| component | state | operations | made correct by |
|---|---|---|---|
| Option negotiation, RFC 1143 (`_negotiate`, `telnet_negotiate`, `_set_rfc1143`) | two six-valued states for each of 256 options, the BINARY flags | a command received, a request of the application | negotiation never loops; ends agree when quiet; consent; events tell the truth |
| Stream parser (`_process`, `_buffer_byte`, `_subnegotiate`) | `state`, `sb_telopt`, `buffer` with position and size; `start` within a call | one step for each byte; the end of a chunk | chunk boundaries do not matter; no byte is lost, repeated or misread; the buffer holds |
| Subnegotiation parsers (ENVIRON, MSSP, ZMP, TTYPE) | none: they rewrite the payload in place | parse, report, or warn | reads and writes stay in the payload; the event is what the payload means |
| MCCP2 (`_init_zlib`, `_send`, `telnet_recv`, `telnet_begin_compress2`) | one `z_stream`, one direction flag | start either way, deflate, inflate, end | each byte crosses compression exactly when the peer thinks so; no use after free |
| Sending (`telnet_send`, `telnet_send_text`, `telnet_subnegotiation`, printf, TTYPE, ZMP, NEW-ENVIRON helpers) | none | escape and translate | the receiving parser gives back what was sent |
| Lifecycle (`telnet_init`, `telnet_free`, `_error`) | the tracker | allocate, free, report | no use of a tracker after `telnet_free` |
| `Telnet` class (`src/src/Telnet.ts`, `TelnetEvent.ts`, `util.ts`) | static map from pointers to objects; the pointer | construct, route, one method for each C function, dispose | events reach their object; each allocation is freed once |
| `CompatibilityTable` | 256 bytes, a pointer | support, finish, dispose | the tracker's table lives as long as the tracker |
| Bootstrap (`bootstrap.ts`, `consts.ts`, `init()` in C) | the event layout | one asynchronous start | layout is set before the first event |
| telnet-proxy (`util/telnet-proxy.c`) | two trackers, a socket each | forward what one tracker reports through the other | what goes in on one side comes out on the other, compressed or not |
| telnet-chatd (`util/telnet-chatd.c`) | a table of users: socket, name, tracker, line buffer | accept, read, login, message, quit, disconnect, error | names are unique and a user's own; lines are as typed; the sockets in the table are the open ones; one client cannot stop the server |
| telnet-client, telnet-test | terminal modes; a transcript | callbacks over the library | |

The utilities are written for the upstream library's `telnet_init()` with a handler
argument and do not build against this one; they are the only
programs of the repository that use the C library, and are modelled as written.

How they interact: the parser calls the negotiator, the subnegotiation parsers
and, after COMPRESS2, `telnet_recv()` again; all of them report through
`generic_event_handler`, which the wrapper routes by pointer to a listener; the
listener may call any operation again before the C function that reported has
returned. Two ends meet only through the bytes they exchange.

What is hard to test here is listed in `PROJECT.json` under `hazards`, each at
its line: requests that cross on the wire, withdrawn requests, text sent during
a change of encoding, chunk boundaries in every state of the parser, buffers at
their limits, in-place parsing, failing allocation and failing zlib, compression
that starts or ends in a chunk, calls, exceptions and `dispose()` from inside a
callback, addresses that are used again, and slots of the chat server that are.
Nothing is persisted and nothing runs in parallel, so there are no crashes to
recover from and no data races.

## 2. Plan

In this project now, in the order of importance to an application:

1. `Rfc1143`, `QMethod`, `QMethodProofs`: the table and one half of an option.
2. `Negotiation`, which composes halves over a shared stream and is shown to
   implement each half.
3. `TelnetStream` (what decoding means) and `TelnetRecv` (the parser, shown to
   implement it).
4. `Sending`, `SbParsers`, and `Messages`, which composes them with `TelnetStream`;
   `SbGrammar` says what payloads mean.
5. `Mccp2`: the two directions of one `z_stream`, end to end through a proxy.
6. `TelnetWrapper`: the objects and the heap.
7. `Chatd`: an application of the library.
8. The theorems: a module of proofs beside each component's module (section 6).

Next, in this order:

9. `receive()` from inside a listener: `TelnetRecv` with a stack of calls, each
   with its own chunk and `start`. The events between which the parser's state is
   stale are known (`hazards`).
10. PROXY mode of the negotiation functions, and a listener that negotiates
    inside the SEND event.

## 3. Modules

**Rfc1143** is the transition table. `OnWill`, `OnWont`, `OnDo`, `OnDont` are the
four cases of `_negotiate()`, `AskOn` and `AskOff` the two pairs of cases of
`telnet_negotiate()`. Each gives a move: the next state, the command sent and
the event reported, `None` for nothing. `Put` is the command on the wire. PROXY
mode, in which both functions bypass the table, is not modelled.

**QMethod** is one option in one direction. The *offerer*, on whose end the option
would run, keeps it in `us`; the *asker* keeps it in `him`. WILL and WONT travel
`up`, DO and DONT travel `down`. The applications may ask for anything at any
time. A half is exact, as the two nibbles of the code's state byte never
influence each other and a command concerns only one of them. The variable
`lost` is history: it records that the asker has taken the branch at line 424,
which forgets to send a DO (see Findings). `telopts` is chosen freely at the
start.

**Negotiation** has two ends, any set of options and one stream each way, which
commands of all options and texts share. `SetRfc1143` also maintains the BINARY
flags as the code does. `SendText` records which encoding the flag selects, and
`unsettled`, which is history. `view` is what an application knows that follows
the documentation of the events: WILL and WONT say the peer's option is on or
off, DO and DONT ours. The events are updated with the command that causes them:
`_negotiate()` sets the state and sends before it reports, so a listener that
negotiates in its event does so after the step, which the interleaving covers. A
listener that negotiates inside the SEND event is not covered.

**TelnetStream** is the promise: a byte-by-byte decoder written from the comments of
the parser, without chunks. **TelnetRecv** is the parser, one action for each case
of `_process()`. A chunk is not chosen beforehand: `Call` begins one, each
action reads its next byte, and `Return` may end it after any byte, running the
code behind the loop. `start` is the code's local variable. A DATA event is kept
as one record for each byte, because how the data is cut is not part of the
promise. `translate` stands for the NVT_EOL and RECEIVE_BINARY flags; a WILL or
WONT for option 0 (the byte NUL) may set it either way, as the negotiation goes, and
`DemandNvt`, the application's own DONT BINARY, sets it between two chunks or inside
an event.
`realloc()` fails at will. Recursive calls of `telnet_recv()` and `_process()`
are folded into the step that makes them. The events of the single-option
parsers are left out; of `_environ_telnet()` there is what it returns. Without
compression that return value matters only to a command that breaks off a
payload.

Both `TelnetRecv` and the code read CR then IAC as data when NVT_EOL is set
(the comment at lines 999-1000 says so). `Messages` shows when a sender that runs
this code produces it: only with raw data that holds a CR.

**Sending** is the sending functions as operators from a call to the bytes it puts on
an uncompressed wire. The three loops that escape are one,
`SendPortions`, over the recursive function `Portions`, with `l` the index up to which
the text has been sent. Bytes are named by what they
mean; NUL, SOH, STX and ETX are the values 0 to 3, which is what the codes of
NEW-ENVIRON, MSSP and TTYPE are. `vsnprintf()` is the identity, on text that is
formatted already, but the buffer it fills and the allocation beyond it are there.

**SbParsers** is `_environ_telnet()`, `_mssp_telnet()`, `_zmp_telnet()` and
`_ttype_telnet()`, one action for each turn of a loop. Pointers are indices into
`buffer`, which the first two rewrite while they read it; an event reads its strings
through its pointers, at the moment it is given, as C strings. A read behind the
payload gives a byte like no other. **SbGrammar** says, in one pass that keeps the
strings apart from the payload, what payloads mean.

**Messages** composes them: a call of the application is encoded by `Sending`, the
wire is decoded by `TelnetStream` (which `TelnetRecv` implements however the wire is
cut), and `_subnegotiate()` runs a parser on each payload. `binary` is whether BINARY
is agreed; while it is negotiated see `Negotiation`. `Messages`, the calls the
application makes, and `Payload`, the size of the receiver's buffer, are constants.
`parsed` is history: the payload as the parser was handed it, since the parsers leave
something else in the buffer. After each call everything that
the next one overwrites is forgotten, so that the calls do not multiply.

**Mccp2** has a record for each tracker: the `z_stream` with its direction, what it
holds back, the wire to the peer, and the locals of `telnet_recv()`. A unit is a
piece of the stream that is never cut. `Deflated` is the loop of `_send()`, with its
output buffer; `InflateCall`, `ProcessInflated` and `InflateEnds` are that of
`telnet_recv()`; `Reinflated` is what happens to the rest of `inflate_buffer` when
`_environ_telnet()` asks for it to be processed again. zlib itself is a queue that
fails when bytes are missing. Output that inflate() still holds when its input is used
up, because the loop has reset `avail_out` (line 1196), comes first at the next call: that is
what a chunk that was cut earlier gives, and chunks are cut anywhere, so it has no state
of its own on the receiving side. A proxy is two nodes that forward to each other
(`Twin`), as `_event_handler` of telnet-proxy does; a proxy that gets an ERROR
exits, an application closes. A call of `telnet_recv()` runs to its end before
anything else (`Idle`): the programs have one thread each and share only queues,
so interleaving their calls would give no other results. `Content` is what the
properties compare: the messages among the units of a stream, compressed or not.

**TelnetWrapper** is the heap, the `Telnet` objects, `Telnet.map`, the table and a
stack of methods that have entered the C code. A frame whose `target` is "none" runs
C code; `Event` routes by pointer and hands over to a listener, which may call any
method of any object, return or throw. `malloc()` may return any free address.
The heap holds what the wrapper has pointers to: a tracker's buffer and `z_stream`, and what
a parser has allocated when a listener throws through it, are blocks of the C code
alone and not in it.
What is assumed of applications is in the module's header. Addresses are model
values with symmetry: nothing compares them but by equality.

**Chatd** is telnet-chatd: the table, the line buffers, and the poll loop with one read
at a time (several reads of one poll are as those of several polls, as a read
depends on nothing `poll()` returned but that there is input). The bytes of a chunk
are chosen one by one, `Done` ends it. `name.by` records on which connection a name
was entered, and `meant` what the bytes of a line mean by the protocol, as far as
that can be said; both are history. The table's sockets and the descriptors are two
things: `open` has the descriptors that are open, `broken` those whose peer is gone
(`Lose`, at any time). `Send` is what `_send()` may do on a set of sockets: nothing on
-1, an exit on a closed one, and on a broken one an exit or, for ECONNRESET, nothing;
so a message may end the server in the middle of another user's chunk. `RecvFails` is
the exit when recv() fails. A write past the table or to a freed tracker ends the
model too (`up` says which).

## 4. Runs

| run | bounds | shows |
|---|---|---|
| `qmethod` | none: the state space is finite, as `NoStorm` bounds the wire | `NoStorm`, `QuietAgreement`, `NoDispute`, the inductive invariant `Inv`, and under fairness `Settles` and `WithdrawalHonoured` |
| `qmethod_settled` | none | finding 1 |
| `negotiation` | ECHO and BINARY, two tables for each end, five requests of the applications made any number of times, one text in flight each way | `Consent`, `SkewOnlyUnsettled`, `FlagsAgree`, `LocalOnReported`, `HalvesImplemented` |
| `reported_off` | the same options, fewer requests, no text | finding 2 |
| `recv` | one byte for each case of the parser, chunks of at most three bytes, any number of chunks, buffer sizes 0, 1, 2 | `DecodesStream`, `BufferFits` |
| `recv_mccp1`, `recv_environ` | alphabets with the byte in question | findings 3 and 4 |
| `messages` | texts of up to 4 bytes, payloads of up to 6, strings of up to 2 and a terminal type with a whole sequence of commands in it, one byte for each case; a receiver's buffer of 8; allocation fails at will; a printf buffer of 2 characters | `Delivered`, `ParsedAsWritten`, `ReadsGrammar`, `InBounds` |
| `mccp2` | a server, a client and a proxy; the server sends 3 units, the client 1; 2 calls of `telnet_begin_compress2()` at either end; output buffer 1 unit, input buffer 2, chunks of at most 2; zlib and memory fail at will | `NothingLost`, `Framed`, `ToldTruly`, `NoUseAfterFree` |
| `wrapper` | 2 objects, 5 addresses, 2 methods on the stack; memory runs out at will | `OwnTracker`, `RoutedToOwner`, `HeapAccounted`, `MemorySafe` |
| `chatd` | 2 slots, 3 connections, line buffers of 2 bytes, the bytes q, CR, LF, NUL; no other slot with an unfinished line during a read; any peer may be gone at any time | `NamesUnique`, `LineAsTyped`, `TrackersAccounted`, `SocketsOpen`, `ExitsOnLoss` |
| `chatd_quit` | as `chatd` | finding 5 |

Why the bounds are enough. In `qmethod` there are none. In `negotiation`, one
option besides BINARY is enough to interleave commands of different options; a
second text would only follow the first through the same flags. In `recv`,
three bytes have a byte handed over, a byte pending and a byte in hand in one
chunk, and every state of the parser occurs at every position; sizes 0, 1, 2
have the first growth, a further growth and the limit, as 0, 512, .. 16384 have.

In `messages`, a buffer of eight bytes holds every payload that is given as such, and
some but not all of those that the helpers put together; six bytes of a payload hold a command and two variables, each with a
value or an escape, and every parser is a loop over such parts; four bytes of text
have every pair of special bytes with something before and after it. In `mccp2`,
an output buffer of one unit makes every message of two leave something inside
zlib, three units from the server put data before, inside and after a compressed
stream, and two starts have compression refused, started again, and started from
both ends at once; the proxy has both roles of every node. In `wrapper`, the second
object gets the address of the first, and a method runs inside a method of its own
or of the other object; five addresses are a tracker and its states for each object
and one block, or a table in place of it, and the heap running full. In `chatd`, the
third connection gets a slot that was used, with and without the other one; a buffer
of two bytes overflows with any mixture of CR, LF and NUL; names have one character,
so that the refusal of long names (line 144) does not occur: a name longer than 32
and one that is empty take the same branch. CR, LF and NUL serve as text too, so
there are three different names. A chunk is not read while another slot has a line
unfinished (`MaxUnfinished`): nothing but the slot's own bytes and its next user touches
that line.

`wrapper`, `mccp2` and `chatd` do not check for deadlock: their systems stop, where
memory is corrupt, at an ERROR, when the server exits, and where a bound is
reached.

What the properties mean:

- `NoStorm`: never more commands in flight than ends that wait. It is the purpose
  of RFC 1143, and holds even after a DO was lost.
- `QuietAgreement`: with nothing in flight both ends hold the same settled state.
- `NoDispute`: the warnings "DONT answered by WILL" and "WONT answered by DO" are
  never raised between two ends that run this code, though commands cross.
- `Settles`: once the applications stop, the wire falls quiet with both agreed.
- `WithdrawalHonoured`: a request withdrawn before its answer is not forgotten.
- `Consent`: an option is on at an end only if the tables or the requests of both
  ends allow it.
- `SkewOnlyUnsettled`, `FlagsAgree`: text is read with the encoding it was sent
  with, unless BINARY was under negotiation at the sender when it was sent or
  is at the reader now. The exception is real: RFC 856 leaves it open too.
- `LocalOnReported`: an application that goes by its events knows of every option
  that is on at its own end.
- `HalvesImplemented`: each direction of each option behaves as one `QMethod`, so
  what is proved of `QMethod` holds of each. It is the safety part; the
  liveness of `QMethod` is checked there alone.
- `DecodesStream`: the parser refines `TelnetStream`.
- `Delivered`: what any sending function sends arrives, byte for byte, and leaves the
  receiver between two messages. The exceptions it names are raw data with a CR at a
  receiver that translates (when an IAC follows, the receiver takes both as data and the
  escaped IAC's second byte for the beginning of a command); payloads longer than the
  receiver's buffer; payloads of COMPRESS with a WILL, which is how MCCPv1 ends its
  own; and `telnet_vprintf()`, which translates even when BINARY
  is agreed (line 1483; `telnet_send_text()` does not).
- `ParsedAsWritten`: the NEW-ENVIRON, TTYPE and ZMP helpers and the parsers are
  inverse to each other, for the strings the helpers can encode: they escape none of
  the codes of NEW-ENVIRON, and `telnet_ttype_is()` not even IAC (line 1603).
  The receiver's buffer has to hold the payload.
- `ReadsGrammar`: for every payload, well formed or not, the parsers give the event the
  grammar says. The grammar is that of the comments in the code: an ESC takes the byte
  behind it as it is, a malformed ZMP command is a warning; the documentation says
  otherwise (section 5). Nothing is said of two kinds of payloads that the code
  does not read by its own comments: NEW-ENVIRON that ends in an escaped ESC, and
  MSSP that ends in MSSP_VAL (section 5).
- `InBounds`: the parsers stay in the payload and the in-place writes behind the reads.
  `_mssp_telnet()` reads one byte beyond (line 715) and ignores it.
- `NothingLost`: what an end sends arrives whole, once and in order, directly or
  through one proxy, whenever compression starts and ends. Data is lost silently in two cases: in the rest of a
  chunk in which the compressed stream ends (line 1199), and with NEW-ENVIRON in a
  compressed stream (line 646, whose return value has 1108 inflate again what was
  inflated).
- `Framed`: no compressed byte is read as plain or the other way round.
- `ToldTruly`: the COMPRESS events tell the application what `telnet->z` is.
- `NoUseAfterFree`: the loop of `telnet_recv()` has its `z_stream` to the end, but in
  the NEW-ENVIRON case.
- `OwnTracker`, `RoutedToOwner`: an object in use has its own tracker and its own entry
  of the map, and its events come to it, though addresses are used again. `dispose()`
  twice can break both for another object; `dispose()` inside an event breaks the
  second for the object itself.
- `HeapAccounted`: the only blocks lost are those of `send()` and `sendText()`, always,
  and of methods that an exception went through.
- `MemorySafe`: memory is corrupted only after `malloc()` has failed, the table was
  disposed of under its trackers, or a `dispose()` was repeated or called inside.
- `NamesUnique`: no two slots have one name, though a slot may get one when it has no
  connection. That a connected user entered his name himself is not so (finding 5), and
  is proved for clients that send nothing behind their "quit" (section 6).
- `LineAsTyped`: the line buffer holds what the client typed since its last line end.
  "Blind" are the cases in which it cannot: below.
- `TrackersAccounted`: only users that quit leave a tracker behind.
- `SocketsOpen`: while the server runs, the descriptors that are open are those of the
  connected users, so that none is lost by a quit or a disconnect, and no message is
  sent to a closed one.
- `ExitsOnLoss`: the server exits only when some peer is gone, or when a user with a name
  ends his connection (section 5). What clients send does not end it by itself; but a
  message to a peer that is gone may, for everyone, since `_send()` exits on any error
  but EINTR and ECONNRESET (lines 116-119).

Fairness. `QMethod!FairSpec` has weak fairness on receiving, at each end: the
stream is a connected TCP stream, and the application passes what arrives to
`telnet_recv()`, which works off each command without waiting. Nothing is
assumed of requests; `Settles` has as its hypothesis that they stop.

## 5. Findings

Each is a run that TLC ends with a violation.

1. `QuietMeansSettled`: an end that asked to turn the peer's option off and then on
   again (WANTNO_OP) gets WONT, moves to WANTYES, reports DO and sends nothing
   (line 424). It waits for ever. The twin branch for DONT sends its WILL.
2. `RemoteOnReported`: the confirmation of our own WONT is reported as WONT (line
   480), which the documentation gives to the peer's option.
3. `DataInChunk`: an MCCPv1 sequence cut after its WILL gives a DATA event whose
   size wraps below zero (line 1082).
4. `BreakingCommandEvaluated`: a command that breaks off an ENVIRON payload is
   dropped, because `_environ_telnet()` returns 1 (line 1140).
5. `OwnName`: a user who quits in the middle of a chunk of telnet-chatd is logged in again
   by the rest of it, without a connection, and the next connection to the slot is
   him: it is asked for a name, and what it answers goes to all as his (lines 142-166,
   331-337).

Further disagreements of the code with documents and comments. They are local and
certain, each a matter of one branch; properties above name them as exceptions, or they
are outside the models:

- A refused request gives no event (lines 428, 487), where src/README.md:420-421 says that
  WONT and DONT events are most often just that.
- src/README.md:508-510 says that ESC is not supported in ENVIRON and NEW-ENVIRON and that
  such data is not parsed correctly; the parser unescapes it (line 598) and, by
  `ReadsGrammar`, reads it right. But a payload whose last byte is an ESC that is itself
  escaped is refused as one that ends with ESC (line 554).
- src/README.md:516-517 says that `var` and `value` of an mssp event are always set, and
  libtelnet.h:231 promises an "empty string if no value"; when the payload ends in
  MSSP_VAL the last entry has null pointers (line 719).
- src/README.md:630-632 promises an event with `argc` 0 and `argv` null for a malformed ZMP
  command; the code gives a warning and no event (lines 736-739).
- libtelnet.c:269 and 1179 say "all output is produced"; the test that should hold the
  loop sees a buffer that was reset just before (lines 289, 1196). The output stays in
  zlib until the next call: delayed, and by `NothingLost` not lost or overtaken.
- src/README.md:466-467 says that the COMPRESS event tells when compression has ended; when
  `deflate()` fails (lines 272-278) there is an ERROR event and no COMPRESS event.
- src/README.md:184-185 says that the constructor throws when memory cannot be allocated; it
  makes an object whose pointer is 0, or whose tracker has no option states
  (Telnet.ts:168, libtelnet.c:878).
- When a named user of telnet-chatd disconnects the server tells him as well, on the socket
  it has just closed, and exits (lines 353-360, 116-119), although it means to "loop for
  ever" (288) and to ignore invalid sockets (110). `ExitsOnLoss` is what remains.
- `_error()` (libtelnet.c:199-204) never sets `errcode`, which `TelnetEvent.error` reads.
- `sendText()` (Telnet.ts:230) uses `length`, which is declared nowhere: in Node it throws
  (in a browser it would be the number of frames of the window).
- telnet-chatd.c:91 says an overlong line "eats a byte"; it eats two, the last of the
  buffer and the one that came. The line buffer is not reset for a new connection,
  and after CR NUL an LF ends the line though no CR LF was sent.
- telnet-chatd.c:143 says names "must be at least 32 chars", where the code refuses more.
- With the table full, line 332 writes behind it.

## 6. Proofs

Every invariant and every refinement that a passing run checks is a theorem of its specification,
for every value of the constants that the module's assumption admits; only liveness is
left to TLC. The bounds of the runs, which are constants too, may have any value: the
theorems are about wires, texts, payloads, chunks, stacks and tables of any size.

| proofs | of | theorems | assumed of the constants |
|---|---|---|---|
| `Rfc1143Proofs` | `Rfc1143` | lemmas about the table, used by the next two | nothing |
| `QMethodProofs` | `QMethod` | `TypeCorrect`, `InvHolds`, `NoStormHolds`, `AgreementHolds`, `NoDisputeHolds`, `PatientSettled` | `CmdsAssumption`: requests are WILL and WONT at the offerer, DO and DONT at the asker |
| `NegotiationProofs` | `Negotiation` | `TypeCorrect`, `ConsentHolds`, `LocalOnReportedHolds`, `FlagsAgreeHolds`, `SkewOnlyUnsettledHolds`, `HalvesImplementedHolds`, `PatientFlagsAgree` | `NegotiationAssumption`: what tables and requests are |
| `RecvProofs` | `TelnetRecv` | `TypeCorrect`, `BufferFitsHolds`, `DecodesStreamHolds`, `DataInChunkHolds`, `BreakingCommandHolds` | `RecvAssumption`: buffer sizes ascend from 0; "none" and COMPRESS2 are no bytes |
| `WrapperProofs` | `TelnetWrapper` | `TypeCorrect`, `OwnTrackerHolds`, `RoutedToOwnerHolds`, `HeapAccountedHolds`, `MemorySafeHolds` | `WrapperAssumption`: null is no address |
| `ChatdProofs` | `Chatd` | `TypeCorrect`, `NamesUniqueHolds`, `OwnNameHolds`, `LineAsTypedHolds`, `TrackersAccountedHolds`, `SocketsOpenHolds`, `ExitsOnLossHolds` | `ChatdAssumption`: sizes are positive; the word "quit" is of characters |
| `MessagesProofs` | `Messages`, with `Sending`, `SbParsers`, `SbGrammar` and `TelnetStream` | `TypeCorrect`, `InBoundsHolds`, `DeliveredHolds`, `ReadsGrammarHolds`, `ParsedAsWrittenHolds` | `MessagesAssumption`: the codes are bytes, "none" and "beyond" are not; calls have the arguments the API takes |
| `Mccp2Proofs` | `Mccp2` | `TypeCorrect`, `FramedHolds`, `ToldTrulyHolds`, `NoUseAfterFreeHolds`, `NothingLostHolds` | `Mccp2Assumption`: peers and the sides of proxies come in pairs, buffers and chunks hold something |

### QMethod

`QuietAgreement` is not inductive: what the ends agree on when quiet depends on
what was in flight before. `Inv` says what is in flight. `Conservation`: there
are exactly as many commands as ends that wait. `LastWord`: an end's last
command in flight is where that end leans. `Alternates`: two commands of one end
contradict each other. `NoneRedundant` and `NoDispute`: the command at the head
tells its reader something, and does not contradict what that asked for. All of
it holds until a DO is lost; afterwards only types and `NoStorm` do, and with
`NoStorm` the bound on the wire.

The argument. The table is finite, and three lemmas (`AskMoves`, `ReceiveMoves`,
`FittingMoves`) say of each move what the rest needs: whether it sends, whether
it starts or ends a wait, where it leans. As `Coherent` does not tell the
offerer from the asker, `AskKeepsCoherent` and `ReceiveKeepsCoherent` are proved
once for an end that moves and one that does not, and `Symmetric` carries them
to both.

`PatientSettled` says when finding 1 cannot happen: if the asker's application does not
ask for the option between its DONT and the answer to it (`PatientAsker`), then no
request is ever queued behind a DONT (`NothingQueued`), no DO is lost, and with nothing
in flight nobody waits and both ends agree. It is a condition that an application can
keep; `qmethod_settled` is the counterexample without it.

### Negotiation

All halves share two streams, with texts between their commands. `Placed` relates
the commands of one half to the positions at which they are in a stream, so that the
facts of `Rfc1143Proofs` about one half apply: `Halves` is their invariant, of each
side of each option. `Allowed` is what consent rests on: an end allows each side it
has asked for or agreed to, its peer allows each side that is on, and a WILL or DO in
flight is allowed by its sender. `FlagsDerived` says the BINARY flags are a function
of the two states. `SkewOnlyUnsettled` needs the most: `TextsMeant` says that before
each text of a settled end there is at most one offer of BINARY in flight, and that
its reader, once it has read that, decodes as the writer encoded, or is waiting
for an answer itself.

`HalvesImplementedHolds` is the refinement of `QMethod`. The mapping gives a half the
commands that the shared stream holds for it, in their order; the proof describes that
selection by `Placed`, and `StepRefines` shows that each of the four actions is a step of
the half it concerns (`HalfStep`) and a stutter of the others: a text or a command of
another option changes no position among a half's own commands.

`PatientFlagsAgree` is `PatientSettled` for a whole connection: with applications that
wait for the answer to a DONT, `FlagsAgree` needs no exception for lost requests.

### TelnetRecv

`IInv` is types, `BufferFits`, that a subnegotiation being read has an option
(`OptionNamed`) and that nothing of a chunk outlives its call (`Fresh`). It does not
have that `start` is behind the byte being read: an MCCPv1 sequence breaks that
(finding 3). So the two theorems that need it say under which condition they hold,
in terms of what arrives: `[]NoMccp1`, no subnegotiation of COMPRESS is begun, and
`[]NoEnviron`, none of ENVIRON, whose parser's result drops a command (finding 4).
Both conditions are about the behaviour of the peer, and each is needed: the two
runs `recv_mccp1` and `recv_environ` are the counterexamples without it.

`DecodesStreamHolds` is the refinement. The abstract output is the concrete one and
the data of the chunk that is not handed over yet (`Given`); each of the nine
actions is a step of `TelnetStream`, and `Call` and `Return` map to reading nothing.

### TelnetWrapper

`OwnTracker` and `MemorySafe` rest on who owns each block: `BlocksOwned` (a tracker and
its states belong to one object, the table's block to the table, every other block
to a method on the stack, or it is leaked), `StackFormed` (only the innermost method is
in the C code, and no two methods free the same block), `FramesOwned` (a method runs on
its object's tracker, unless that was disposed of inside), `Owned` (the map's entries)
and `NullOnlyStarved`. Each of the exceptions
is in the invariant where the properties have it: `misuse`, `starved`, `corrupt`.

### Chatd

`TrackersApart`: each tracker is of one slot, or of a user who quit, and connections
are numbered, so that a later one is never taken for an earlier. `Names`: names that
are not empty differ. `Opened`, which is `SocketsOpen` of any table: a quit closes the socket that
leaves the table, and what is sent goes to sockets that are in the table afterwards
(`PushProperties`), so a send fails only for a peer that is gone (`SendOpened`). It is what
`ExitsOnLoss` rests on; where a socket is closed before it leaves the table, in
`Disconnected`, the user had a name. `OwnNameHolds` is `OwnName` under a condition on the
clients, `NothingAfterQuit`: no byte follows a "quit" in its chunk. It adds to the invariant that a
slot without a connection has no name (`OwnInv`); the run `chatd_quit` is the
counterexample without the condition. `MeantBuffered` relates the
line buffer to what was typed, for the three ways a line may end (`last`), a full
buffer and a buffer that was left by the user before.

### Mccp2

The invariant `IInv` is of the whole network. `Sane`: each tracker's fields fit; in
particular z is gone inside the inflate loop only after a NEW-ENVIRON. `OneLoop`: one
call of `telnet_recv()` at a time. `Framing`: what is under way to a tracker is framed,
from what the reader takes it for to what the writer will send next. `InFrame` and
`After` say this of a sequence by its positions, and the lemmas at the beginning of the module let
streams be cut and joined (`FrameConcat`, `FrameCut`, `FrameRest`).

A step moves a tracker, and a second one if it is a proxy. `Moves(r, s)` says what a step
from r to s does to the streams at both of its sides, for any stream; so the proof of a
step looks at one tracker at a time, and `MovesFrame` puts them together. `Recv` is on
its own: it moves nothing but the border between a wire and an input.

`NothingLost` has the same structure. `Carries(n, r, s, taken, given)` says which messages
a step takes from what is under way and which it adds; `Delivered` is the property as an
invariant that can be composed (got, the messages held, those under way on one or two
connections, as one sequence), and `CarriesDeliver` composes the steps. That the
messages taken are those sent needs `Framing`, without which a compressed unit is read as
garbage. `Content` is a recursive function; what is needed of it (`ContentConcat` above
all) is proved by choosing the least prefix that would contradict it (`MinMember`).

### Messages

The sending functions and the grammar are recursive functions and folds over data of any
length. That they exist, what they are, and what holds along them is proved from
`SetInduction`, that is from the least index that would contradict it.

- *Types and bounds.* `Typed` is the types of both ends and `ParserInv`, which has a part
  for each loop. The first pass of `_environ_telnet()`, `_mssp_telnet()` and
  `_zmp_telnet()` counts the separators to size an array, the second fills it. What keeps the second inside
  is that the entries left are as many as the separators left: for MSSP and ZMP the
  cardinality of the positions behind the cursor that hold one (`From`), for NEW-ENVIRON,
  where an ESC hides what follows it, a recursive count (`Counts`). The writes of the second pass
  are behind its reads.
- *`Delivered`.* `Encoding` says what `SendPortions` puts on the wire, byte by byte, and
  `InText` where a text is: a part of it heard, the encoding of the rest on the wire, or a
  byte split between the two (`Between`, `Within`). `InCommand` and `InSubnegotiation` are
  the same for the other calls; `Arriving` puts them together.
- *`ReadsGrammar`.* `Reading` relates a parser in the middle of a payload to the grammar's
  fold at the same place: the strings that the grammar has so far are those the parser's
  pointers give in the rewritten part of the buffer (`Held`, `Means`), and the rest of the
  buffer is still the payload (`Same`). `ReadsEnviron`, `ReadsMssp`, `HasRead` and `ReadsZmp`
  say this for each loop. The fold and the loop part in the two cases that the property
  leaves out (`Odd`): there `OddReading` says what the parser gives instead, so that the
  relation can be kept through the loops.
- *`ParsedAsWritten`.* What a helper sends is `telnet_subnegotiation()` of a payload
  (`Carried`), so it arrives as above (`HelperArriving`); and the grammar, applied to that
  payload, gives back the arguments (`EnvironInverse`, `ZmpInverse`, `TtypeInverse`). With
  `ReadsGrammar` the event is what was written.

Three attempts failed for a reason and changed the model: `RawCr` once let a CR pass that is followed by an
IAC; `Delivered` and `ParsedAsWritten` did not say that the payload has to fit; and
`ReadsGrammar` compared with the buffer, which the parsers rewrite, so it needs `parsed`.

### Only model-checked

`Settles` and `WithdrawalHonoured`: they are liveness under fairness, which is beyond
the prover. Their state space is finite without any bound.

## 7. Not modelled

For good: formatting by `vsnprintf` and of messages; zlib's own computation; socket
and terminal I/O; telnet-client and telnet-test, which keep no state to speak of;
the bootstrap and the event layout, a table of offsets; how `TelnetEvent` reads the
fields of an event; printing in telnet-proxy; the tests and the generated
documentation.

For now: PROXY mode of the negotiation functions (which forward and keep no state);
a listener that negotiates in the SEND event; `receive()` inside a listener of the
same object, as far as the parser's state goes (`TelnetWrapper` has it as far as
memory goes); the contents of events that a listener keeps; `support()`, whose
entries are the `telopts` of `Negotiation`.
