# A TLA+ model of clsocket

clsocket is a small C++ library that wraps BSD sockets in two classes,
`CActiveSocket` (connects) and `CPassiveSocket` (listens, accepts), over a
common base `CSimpleSocket`. The modules here model its POSIX builds
(`_LINUX`, `_DARWIN`). Paths below are relative to the repository.

## 1. Inventory

| Component | State | Operations | Makes it correct |
|---|---|---|---|
| Error codes (`SimpleSocket.cpp`, `SimpleSocket.h`) | `m_socketErrno` per object, `errno` per thread | `TranslateSocketError`, `SetSocketError`, `GetSocketError`, `DescribeError` | every errno has a code; the code an object reports is of its own last failure |
| Object life cycle | `m_socket`, `m_nSocketType`, `m_bIsBlocking`, the process's descriptors | constructors, `Initialize`, `Close`, destructors, `SetBlocking`, `SetNonblocking` | a handle is a descriptor the object owns; none is closed twice or leaked; the blocking flag is the kernel's |
| `CPassiveSocket` | the above, client/server/multicast addresses | `Listen`, `BindMulticast`, `Accept`, `Send` | a failure cleans up and leaves its cause; an accepted client owns its descriptor; a datagram reply goes to the last sender |
| `CActiveSocket` | `m_stServerSockaddr`, `m_stConnectTimeout`, descriptor sets | `Open` (`ConnectTCP`, `ConnectUDP`), `Select` | true means connected to the address that was given; false leaves an error; it returns |
| Stream transfer (`CSimpleSocket::Send`, `Receive`) | `m_nBytesSent`, `m_nBytesReceived`, `m_pBuffer`, `m_nBufferSize` | `Send`, `Receive`, `GetData`, `GetBytesReceived`, `Shutdown` | bytes go out once and in order, come in once and in order, and stay in the buffer |
| `SendFile` | file offset, a static block | `SendFile` | what it sends is one section of the file, and the offset and the result go together |
| Vector send | — | `Send(iovec)`, `Writev`, `Flush` | the count returned is what was sent |
| Socket options | copies of timeouts and linger, `m_bIsMulticast` | DSCP, window sizes, Nagle, linger, timeouts, reuse address, `SetMulticast`, `BindInterface` | a failure leaves its cause; a receive timeout ends a wait |
| UDP data | `m_stClientSockaddr`, `m_stServerSockaddr`, `m_stMulticastGroup` | the datagram cases of `Send` and `Receive`, `CPassiveSocket::Send` | an answer goes to whoever asked |
| Buffer copy | `m_pBuffer` | copy constructor, private `operator=` | no shared or lost buffer |
| `CStatTimer` (`StatTimer.h`) | start and end time | `Initialize`, `Set*Time`, `Get*Seconds` | elapsed time |
| Examples (`examples/`) | byte counters | echo server; client and echo thread (`RecvAsync`); day time client | the payload comes back |
| Platform layer (`Host.h`), build files | — | macros that rename system calls | — |

How they interact: every operation of the two derived classes goes through
`m_socket` and ends in `TranslateSocketError`, which reads the *thread's*
`errno`, a value that a successful call leaves alone. So one component's
failure is visible to the next one's success. Objects interact through the
descriptor table (a number closed by one is handed to another), through
`Accept` (which makes a `CActiveSocket` and writes its private members as a
friend), and through the stream. Threads interact when they share an object:
`examples/RecvAsync.cpp` uses one object per thread, `README:14` promises
"Thread Safe". There are no locks, callbacks or persistent state.

What is hard here: partial failure with clean-up (`Listen`, `BindMulticast`,
`Accept`, `Close`); stale state (errno, `m_socketErrno`, `m_bIsBlocking`, the
address copy, a connection in progress); signals that interrupt system calls
(the retry loops, `Select`); timeouts that leave the kernel connecting; shared
fields in the loops of `Send` and `Receive`; a network that loses and reorders
datagrams while a listener remembers one address; short sends. `PROJECT.json`
lists each hazard at its line.

## 2. Modules

| Module | Models | EXTENDS |
|---|---|---|
| `SocketErrors` | errno values, `CSocketError`, `TranslateSocketError` | — |
| `SocketObjects` | life cycle, options, `Listen`, `BindMulticast`, `Accept`, several objects of one thread | `SocketErrors` |
| `SocketConnect` | `Open`, `ConnectTCP`, `ConnectUDP`, `Select` of one object | `SocketErrors` |
| `ByteStream` | the abstract connection: what `Send` and `Receive` promise of one direction | — |
| `SocketTransfer` | TCP `Send`, `Receive`, `Shutdown` of one object, several threads; instantiates `ByteStream` for the refinement | `SocketErrors` |
| `SocketSendFile` | `SendFile`, several threads over its static block | `SocketErrors` |
| `SocketDatagrams` | UDP `Send`, `Receive`, replies, multicast mode, several objects and an unreliable network | — |
| `Echo` | `RecvAsync.cpp` and `EchoServer.cpp`, composed of two instances of `ByteStream` | — |
| `StatTimer` | `CStatTimer`, with its two theorems | `TLAPS` |
| `SocketObjectsProofs`, `SocketConnectProofs`, `SocketTransferProofs`, `SocketSendFileProofs`, `SocketDatagramsProofs`, `EchoProofs`, `ByteStreamProofs` | theorems | the module each is named after, `TLAPS` |
| `MC...` | values of the constants | the module each is named after |

### SocketObjects

One step is one call: a thread is in the call until it returns. `alive`,
`m_nSocketType`, `m_socket`, `m_socketErrno`, `m_bIsBlocking` are the
members; `fdOwner`, `nonblocking`, `bound`, `listening` are the kernel's
table; `errno` is the thread's. `last` remembers the call that returned last
and the error number of the system call that made it fail, or `NoCause` when the
library refused without one (a bad handle, a wrong type), for `ErrorNamesCause`.
A `Close` without a descriptor is such a refusal: it makes no system call, and
stores the translation of whatever errno the thread has. Each method is
an action of the same name; the helpers `CloseOutcomes`, `Allocate`, `Release`
are shared by all that open or close, so the destructor, `Listen`'s clean-up
and `Close` are the same code in the model as in the source. Two things that
look like mistakes are the code's: `Initialize` overwrites a handle the object
still holds, and `m_nSocketType` is passed to `socket()` as the kernel's
number, so `Tcp6`, `Udp6` and `Raw` are refused. `Accept`'s loop over
`EINTR` is one step with a flag, since nothing else runs meanwhile. The
option calls are disjuncts of `Option`; they differ in when they call
`TranslateSocketError` (`OptionAnswered`), in what they refuse, and in what they
do without a handle. The values they set are left out.

The kernel: `bind` on a bound descriptor fails, `accept` needs a listening
one, and blocks (no step) without `O_NONBLOCK`; `accept` copies `O_NONBLOCK`
on Darwin and not on Linux; `close` of a socket succeeds on Linux, and on
Darwin may report `EINTR` for a connected socket with `SO_LINGER`.

### SocketConnect

One step is one system call and the library code up to the next one; `pc`
says which call is next. The kernel keeps the state of the socket (`sock`),
of the protocol (`sk`) and the pending error, as Linux does, because the
answer of a second `connect()` depends on both. The stored address is one that
was resolved, zeroed, or 255.255.255.255, which `Open` has stored before it takes
it for an error. The network completes,
refuses or resets in steps of its own. `tried` and `reached` are history:
the last result on this descriptor, and whom its handshake reached.
The constant `ReopenAfter` says after which results the application calls
`Open` again on the same descriptor; the documentation allows it for datagram
sockets (`ActiveSocket.h:63-67`).

### SocketTransfer

A round of a retry loop is two steps, the system call with
`TranslateSocketError` and the test of `GetSocketError()`, because the code
reads the shared `m_socketErrno` back. A `send()` that has to wait first stores
what fits (`SendStores`), so a timeout, a shutdown or a reset can end it
halfway. `mode` is the kernel's: blocking, with timeouts, or non-blocking. Each
thread has its own `errno`; `m_socketErrno` is the object's, and the loops of
both calls test it. `interrupted` is history: some system call of the object
answered `EINTR`. A byte sent is a pair of the call and its position, a byte
received its place in the peer's stream. `memory` is the buffer `Receive` fills,
as far as the stores lie in it. The peer may finish, reset, or reset after it
has finished; the pending error is then `EPIPE` or `ECONNRESET`, as on Linux.
`Close` happens while no thread is in a call, and one thread may call `Receive`:
two receivers free each other's buffer, and what follows has no meaning.
`SIGPIPE` is ignored. `Send` of no bytes or of `NULL` returns 0 without a system
call and is left out.

`Outgoing` and `Incoming` map both directions to `ByteStream`: the wire is the
stream, what the peer has read (or the application was given) is what was
received, a block is in progress from the call to the return of `Send`.

### SocketSendFile

`read()` and `SEND` of a block are steps of their own, between which another
thread may fill the static `szData`. `overlapped` is history: it tells a call
during which another one ran. `BlockSize` stands for
`SOCKET_SENDFILE_BLOCKSIZE`.

### SocketDatagrams

An object's name is its address. `net` holds every datagram ever sent and is
never emptied: a datagram may be received again, late, or never. A client sends
whether or not an `Open` has associated its socket, as the code tests the handle
only; without an association the kernel lets in what anyone sends to it. `peers`
is whom the socket was open to so far, and only grows, because what has arrived
under an older association stays. `Listen` and `BindMulticast` are their
successes here; the failures close the socket and are in `SocketObjects`. A
round of a loop is one step, since no thread shares an object here. `eintr` says
whether the thread's errno holds `EINTR`: that is all the loops depend on.
`grouped` and `stray` are history: what was received, or answered, in multicast
mode, in which `Receive` stores the sender where `Send` does not look. No
constructor sets `m_stClientSockaddr`, so it starts with any address.

### Echo

Client, echo thread and `EchoServer` are processes; each direction between
them is a `ByteStream`, which `SocketTransfer` implements. The client is
non-blocking: its one `send()` takes what fits. The servers block.
`EchoServer` may hold the port already when `RecvAsync` starts; then the
thread's `Listen` fails, which it does not look at.

### StatTimer

The operations as actions and the getters as operators over the two
`timeval` records. Its theorems need no invariant, so there is no run.

## 3. Runs

All bounds are constants of the `.cfg` files or of the MC modules.

| Run | Distinct states | Question |
|---|---|---|
| `objects` | 703,004 | ownership of descriptors, blocking flag, error codes on Linux |
| `connect` | 7,218 | what a true and a false `Open` mean |
| `connect_live` | 104,678 | `Open` returns |
| `transfer` | 959,563 | a sender and a receiver on one object: stream, buffer, refinement, what sends a loop round, a waiting `Receive` returns |
| `sendfile` | 408,465 | what a copy puts on the socket and where it leaves the offset |
| `datagrams` | 1,570,000 | answers go to whoever asked |
| `echo` | 6,221 | the payload comes back, or never after a short send |

`objects`: one client (`Tcp` or `Tcp6`, chosen by its constructor) and one
listener (`Tcp` or `Udp`) over two descriptors. Two are enough for a listener
beside its accepted client, for a descriptor that is closed by one object and
handed to the other, for one forgotten by `Initialize` beside a live one, and
for running out of them. The proofs extend the result to any number of each.
`HandleOwned`: a live object's handle is open and its own. `NoForeignClose`:
no call releases what belongs to another object. `OrphanOnlyByInitialize`: a
descriptor without an owner can only come from a second `Initialize`.
`NonblockingKnown`: a non-blocking descriptor is known as such, which
`ConnectTCP` relies on. The other direction does not hold: after `SetNonblocking`,
`Close`, `Initialize` an object takes a blocking descriptor for a non-blocking
one; `MisledOnlyByInitialize` says that no other call brings this about.
`ErrorNamesCause`: where a system call failed, `GetSocketError()` is the
translation of its error number, whatever errno held before and whatever the
clean-up did; where the library refused without a system call, it is not
`SocketSuccess`. Exempt by name are the two failures that leave a code which
says nothing of them, `Close` without a descriptor and `BindInterface` in
multicast mode; both are listed below. Symmetry: the descriptors.

`connect`: two addresses, a timeout, no signals, and `Open` used as documented.
`OpenTrueConnected`, `OpenReachesTarget`: true means that a handshake with the
address given took place on this descriptor. `OpenErrorKnown`: false leaves an
error. `CopyIsPeer`: the address `GetServerAddr` reads is the kernel's peer.

`connect_live`: signals, every answer of the resolver, and `Open` again after any
result. `NonblockingOpenReturns` needs only that the thread runs.
`OpenReturns` also assumes that a handshake ends.

`transfer`: a block of 2 bytes over a connection that holds 1 makes short sends
and sends that wait halfway happen; sizes 1 and 2 and two incoming bytes make a
short and a full `recv()` and a buffer that is reused, replaced and freed.
`Shutdown` of any direction, an end of the stream and a reset happen at any
point, `Close` between calls. There is one `Send` in a behaviour (`MaxCalls` is
1), so its first `send()` always finds some room; sends that find none, and
signals, are in the theorems of section 4, the latter also in the two runs
below. `SendExactlyOnce`: the first `r` bytes of the block, and only they, are
on the wire once when `Send` returns `r`. `NoByteLost`: what was delivered is
the peer's stream so far. `RecvInBounds`: the buffer is as large as `recv()` is
told, and is filled from its start until a call was interrupted.
`DataMatchesResult`, `ZeroMeansEnd`: the internal buffer, and what the result
says about it. `RetriesNeedSignal`: a call goes round its loop only after an
interruption, whatever the other thread stores in the shared `m_socketErrno`
meanwhile: one that would block, or timed out, is not tried for ever.
`ReceiveReturns`: a waiting `Receive` ends with the stream, a shutdown or a
timeout. `SendImplementsStream`, `ReceiveImplementsStream`: every step is one of
`ByteStream` or a stutter; in particular no byte enters the stream twice
*during* a call either. The bounds `MaxCalls`, `MaxWire` and `MaxIn` cut
counters, and `ShutAgain` the repetition of a `Shutdown` of a direction that has
ended, which can only store a code.

`transfer_resend` (one thread) and `transfer_shared` (a sender with signals and a
receiver) have signals, and show what they do to one call and to another
thread's; see the table below.

`sendfile`: two threads, files of two blocks, `nCount` 0 (one byte, because the
count starts at -1) and 3 (exactly two blocks), calls that go on where the last
one ended until the file does. `CopyContiguous`: a call that no other overlaps
sends one section of its file from `*pOffset` on, also when it fails halfway.
`OffsetMatchesResult`: whatever runs at the same time, a call that returns `n`
has sent `n + 1` bytes and moved the offset by `n`, and a failed call leaves it.

`datagrams`: one client asks the server's address, another its group, each
before, after or without an `Open` that associates its socket (the group's
answers come from the server's own address, which only a socket without an
association lets in); the server listens or joins the group, changes the
multicast mode at any time, and every system call may fail; those of the first
client and of the server are interrupted too. `AnswersOwn`: a client is given
only answers to its own request, by a server it sent the request to.
`ReplyAddressFresh`: a server's buffer and its reply address are of one
datagram. Both except what was received in multicast mode, where the code
replies to an older address. The proofs lift the bounds, also that of one target
for each client.

`echo`: a payload of 4, received in pieces of at most 2 by the thread and 5 by
the others, over connections that hold 1 to 5 bytes in each direction, so a
send fits, just fits or does not. `EchoesPayload`: the client gets a prefix of
the payload, also after a reset. `SleepsAfterEcho`: the thread ends its loop
when all was echoed. `EchoCompletes`: after a complete send the client ends,
against the thread always, against `EchoServer` when one `Receive` got all.
`ShortSendNeverEnds`: after a short send the client stays in its loop, whatever it
is sent: the case that `EchoCompletes` leaves out.
`DownIsStream`: the servers send what they have received, in blocks of 1 to 4
bytes, and use the way back only as
`ByteStream` allows; a reset by `EchoServer` may take bytes off it.

TLC checks deadlock in every passing run but `echo`, where programs end. In
`transfer_resend` and `transfer_shared` threads make a bounded number of calls
and are done.

### Fairness

`ThreadSpec` has weak fairness of `Library`: the scheduler runs a thread that
can run; a `select()` with a timeout ends. Signals are an action group of their
own without fairness. `OpenReturns` assumes weak fairness of `Handshake` inside
the property: Linux gives up after `tcp_syn_retries`, so a handshake completes
or fails. `FairSpec` of `SocketTransfer` adds weak fairness of each thread and a
peer that keeps reading, without which a blocking `Send` rightly waits. `Echo`
has weak fairness of each process. No fairness of application calls, signals or
resets is assumed.

### Where code and documentation disagree

Each of these runs checks one property that restates a sentence of the
repository, and TLC refutes it.

| Run | Sentence | What happens |
|---|---|---|
| `objects_darwin_close` | `SimpleSocket.cpp:476`, close and then invalidate | on Darwin an interrupted `close()` leaves a handle that is not the object's any more |
| `connect_interrupted` | `ActiveSocket.h:70`, true if connected | a signal during `select()`: sets unchanged, `SO_ERROR` 0, `Open` is true during the handshake |
| `connect_late` | `ActiveSocket.h:63`, connection to `pAddr` | `Open(A)` times out, `Open(B)` returns true with A's connection |
| `transfer_resend` | `SimpleSocket.cpp:399`, resend if interrupted | a successful retry leaves `errno` at `EINTR`, the block is sent again |
| `transfer_shared` | `README:14`, thread safe; `SimpleSocket.h:221`, bytes actually received | a signal in one thread's `send()` makes another thread's `Receive` take its own success for an interruption: it calls `recv()` once more, at the offset it has just returned, and returns the count of the last round |

The models show further ones that have no run.

- Life cycle: `Close` without a descriptor makes no system call and stores the
  translation of an old errno, which may be `SocketSuccess`, where
  `SimpleSocket.h:409-411` has "the error code for the failing" call; after
  `SetNonblocking`, `Close`, `Initialize` the object believes it is non-blocking
  and the new descriptor blocks (`SimpleSocket.h:259`); a successful `Accept`
  leaves the listener's old code (`PassiveSocket.h:66-68`); a successful
  `Listen` or option call stores an unrelated errno; on Darwin a client accepted
  from a non-blocking listener does not know that it is non-blocking.
- `Open` fails with `SocketSuccess` when the resolver answers TRY_AGAIN or
  255.255.255.255; the connect timeout is not used by a blocking `Open`
  (`SimpleSocket.h:317`); a failed UDP `Open` erases the stored address, or
  stores one that the kernel's association does not have; a TCP `Open` that was
  polled can succeed twice (`ActiveSocket.h:64`).
- Options: `SetWindowSize` returns its argument when it fails; `SetSocketDscp`
  returns true without a socket; `GetSocketDscp` passes a length of 0 and always
  reads 0; the copies of the timeouts change when the call fails; a failed
  `BindInterface` stores no code.
- Streams: a signal in one thread makes another thread's `Send` of the same
  object go out twice (`README:14`, "Thread Safe"); after an interrupted
  `recv()` the retry stores at offset -1; two senders return each other's
  counts; `Receive` on a closed object returns 0 (`SimpleSocket.h:222`).
- `SendFile`: the count starts at -1, so a call sends `nCount + 1` bytes,
  returns `nCount` and moves the offset by it (`SimpleSocket.h:255`, "number of
  bytes written"): the next call sends a byte again. `OffsetMatchesResult`
  states what the code does. `SendFile` with a negative `nCount` moves the
  offset back by one; with `nCount` the size of the file it fails after having
  sent it.
- Datagrams: an `EINTR` left in errno makes `Send` repeat a datagram without end
  and `Receive` drop what it has taken, until errno changes; a reply in
  multicast mode goes to a stale or uninitialised address.
- Examples: after a short send of the client, `RecvAsync`'s main and thread wait
  for each other for ever; `nBytesReceived += Receive(...)` would subtract on -1
  and tests the sum; `EchoServer` answers one `Receive` only, and resets a
  connection with unread data.

## 4. Proofs

### Objects

`SocketObjectsProofs` proves, for every set of objects, assignment of types and
set of descriptors:

- `TypeCorrect`: `TypeOK`, on both platforms. In particular
  `TranslateSocketError` never stores an undeclared code.
- `HandlesOwned`, `NonblockingIsKnown`, `ErrorsNameCauses`: the invariants of
  the run, on Linux.
- `ForeignDescriptorsSafe`, `OrphansExplained`, `FlagStaleExplained`: the action
  properties, on Linux.

They assume `ObjectsAssumption` (disjoint classes, a handle value that is no
descriptor) and all but the first that `Platform = "LINUX"`;
`objects_darwin_close` shows that this is needed.

The argument: `HandleOwned` alone is not inductive. A constructor or `Accept`
brings an object back to life, so one has to know that dead storage holds no
handle (`DeadHoldsNothing`), and a type invariant is needed for the functions.
`OwnershipInv` is the conjunction of `TypeOK`, `DeadHoldsNothing`,
`HandleOwned` and `NonblockingKnown`. Every action is one of three kinds, and
each kind has a lemma: it moves no descriptor (`QuietStep`), it closes the
object's own handle (`CloseStep`), or the kernel hands it a free one
(`AllocateStep`). `CloseOnLinux` says that closing the own handle succeeds and
invalidates it. The last two lemmas also give the two action properties.

`ErrorsNameCauses` rests on `CloseKeepsErrno`: on Linux the clean-up after a
failed `BindMulticast`, which translates errno once more, leaves it alone.

### Connect

`SocketConnectProofs` proves, for any addresses, timeouts and address formats:

- `ConnectTypes`: `TypeOK`, with signals and for any use of `Open`.
- `FailureExplained`: `OpenErrorKnown`, with signals and any reopening, when
  the resolver answers with an address or `HOST_NOT_FOUND` (`KnownFaults`): on
  the two other answers modelled the code stores no error.
- `TrueIsConnected`, `CopyMatchesPeer`: `OpenTrueConnected` and `CopyIsPeer`
  without signals, also when `Open` is called again after any result;
  `connect_interrupted` is the counterexample with signals.
- `TargetReached`: `OpenReachesTarget`, without signals and with stream sockets
  opened once (`OpensOnce`); `connect_late` shows what a second `Open` does.
  Datagram sockets may be opened again as the documentation allows.

None of the invariants is inductive: a true result comes several system calls
after the handshake it is about. `ConnectInv` says what `Open` knows at each of
them: when it polls, the handshake is under way or has ended one way; when it
asks for `SO_ERROR`, it has ended and the error is pending unless it was
completed; after that it was completed (`Shaken`). It needs that the address
in the object is the target while `Open` runs (`Targeted`) and that the
kernel's states name a peer (`PeerKnown`). `ReachInv` adds, for a stream
socket, that a descriptor without an earlier result is fresh and that its peer
can only be the target; for a datagram socket, that there is no handshake to
wait for. The kernel's error is always one that `TranslateSocketError` maps to
a failure (`ErrorsPending`), from which `ErrorInv` follows. The longer actions
are first proved to have one of a few outcomes (`ConnectOutcomes`,
`ReadsErrorOutcome`, `ReadsNamesOutcome`), and the invariants then of those.

### Transfer

`SocketTransferProofs` proves, for any threads, sizes, capacity and bounds of
the counters:

- `TransferTypes`: `TypeOK`, with any number of senders and signals anywhere.
- `ReceiveInBounds`, `RetriesOnlyAfterSignals`: `RecvInBounds` and
  `RetriesNeedSignal`, with any number of senders and signals anywhere. The first
  is about every round of the loop; the second has no premise on `Interruptible`,
  so it also covers the sends that find no room.
- `NothingLost`, `DataMatches`, `ZeroIsEnd`: the other properties
  of `Receive`, for any number of senders.
- `SentExactlyOnce`: `SendExactlyOnce`, with one sender.
- `ReceiveRefines`, `SendRefines`: `ReceiveImplementsStream` and
  `SendImplementsStream`, the second with exactly one sender.

From `NothingLost` on they assume `NoInterrupts`: no thread has signals that
interrupt system calls, or the object is non-blocking, so that no call waits.
That is not for convenience: `transfer_resend` sends a block twice, and
`transfer_shared` loses what was received. `OneSender` is needed as
`m_nBytesSent` is a member: two senders return each other's counts.
`SendRefines` needs a sender at all because its mapping names one.

With signals, what holds is that `EINTR` and `SocketInterrupted` are found nowhere
until a call was interrupted (`SignalNoted`), and that a call in progress has a
buffer of the size it was called with (`BufferNoted`, `BufferFits`). An offset
other than 0, which an interrupted `recv()` leaves (-1: the retry stores in front
of the buffer) and a round taken by mistake (a count: it may store past its end),
is therefore a consequence of signals alone. `BoundsInv` is their conjunction.

`ReceiveInv` puts the properties together with what makes them inductive: no
`errno` holds `EINTR` (`Uninterrupted`), the buffer is as long as noted
(`BufferNoted`), between `recv()` and the test of its result the count says what
was taken (`RoundExact`), and what was handed out is what was taken but for that
round (`DeliveredPrefix`). `SendInv` says that each byte on the wire is of a
call that was made, so the next call's number is new (`WireNumbered`), and that
at each place of `Send` the bytes of its block on the wire are those it has
stored or counted (`SendExact`). For the refinement each action is mapped to
its step: a call to `BeginSend` or a stutter, a `send()` that stores to
`Accept(k)`, a return to `EndSend` or `Refuse`, a `recv()` with its return to
`Receive(k)`, and what only the network does to a stutter.

### SendFile

`SocketSendFileProofs` proves `SendFileTypes`, `CopiesContiguous` and
`OffsetsMatch` for any number of threads and any file, block and byte counts,
with no assumption but those on the constants. `CopyInv` relates the offset,
the descriptor's position and the count of a call that is copying, with the
byte by which they differ because the count starts at -1 (`Copying`); `Alone`
and `OwnBlock` say that a call nobody overlaps finds its own block in `szData`.

### Datagrams

`SocketDatagramsProofs` proves `DatagramTypes`, `RepliesGoBack` and
`AnswersAreOwn` for any clients, servers, targets and number of requests, and
whichever calls signals interrupt, from `DatagramsAssumption` (the kinds of
address differ). `AnswersOwn` is about a client's buffer; it is inductive only
with what the network and the servers hold. `DatagramsInv` says that every
request in the network is of the client that sent it, that every reply in it
that is not stray answers a request that is in it too, that buffers hold
datagrams from the network, which addresses can be stored where, and
`ReplyAddressFresh`, which makes a new reply keep this. A step sends a datagram
(`SendStep`), receives one, or does neither (`QuietStep`).

### Streams

`ByteStreamProofs` proves of the abstract connection that the reader is given
a prefix of the stream, that no byte is in it twice, and that the bytes of a
block are in order (`StreamKept`), for any blocks of at least one byte. The
invariant `StreamInv` adds that the positions of the block in progress in the
stream are those up to `accepted`. By `SendRefines` and `ReceiveRefines` both
directions of `SocketTransfer` have these properties, under the hypotheses
given there.

### Echo

`EchoProofs` proves `EchoTypes`, `PayloadEchoed` and `SleepsWhenEchoed` for a
payload of any length, any sizes of the `Receive`s and any room in the
connection. `EchoInv` counts: what came back, was sent back, was received and
was sent never overtake each other (`Counts`); a server is level with what it
received or behind by the block it is sending (`Serving`); only one server
ever has the connection (`OneServer`), so nobody else sends on it (`Quiet`).
`ShortSendsNeverEnd` follows from the same counts and from what `main` was told
(`Told`): after a short send less than the payload can come back. `DownRefines`
proves that the servers use `ByteStream` within
what it allows. Since `Echo` is built from its operators, guards included, there
is also `SendsNeverWait`: where a program calls `Send`, no block is in progress
and its name is new, so those guards hide no behaviour of the code.

### Timer

`ElapsedExact`: the 32-bit difference is exact below 2^32 microseconds,
borrows included. `UnfinishedReportsStart`: what `BindMulticast`'s order of
timer calls reports.

### Only model-checked

The liveness properties: `NonblockingOpenReturns`, `OpenReturns`,
`ReceiveReturns` and `EchoCompletes`. They rest on fairness, and
weak fairness is defined by `ENABLED`, which the prover cannot reason about.
Every other property of a passing run has a theorem. The counterexamples of
the runs in the last section are TLC's; where they concern a hypothesis of a
theorem it is named above.

## 5. Not modelled

- Windows; `ConnectRAW`, which nothing calls; `DescribeError` and plain
  getters; memory exhaustion (`new` throws).
- `Send(iovec)`: one `writev()` without a loop; its errors are those of `Send`.
  `Writev` and `Flush`: called on Windows only; `Flush` gives `getsockopt()`
  a size where it takes a pointer.
- The copy constructor: it leaves `m_socket` and all else but the buffer
  uninitialised, so that whatever is done with a copy is undefined.
  `operator=` is private and unused.
- Two threads in `Receive`, or `Close` during another call, on one object.
- `QueryDayTime.cpp`: one request and one answer.
- `Host.h`: names only.

## 6. Plan

Built, in this order: `SocketErrors`, `SocketObjects` (ownership first: every
other operation relies on the handle), its proofs, `SocketConnect`,
`SocketTransfer`; then the options, `ByteStream` and the refinement,
`SocketSendFile`, `SocketDatagrams`, `Echo` and `StatTimer` with their proofs.

Then the proofs, in the order in which components rely on each other:
`SocketSendFile`, `SocketConnect`, `SocketTransfer` with the refinement of
`ByteStream`, and `Echo` on top of it.

Left: the part of `SendExactlyOnce` that survives several senders (what is on
the wire, without the counts they return); what of `Receive` survives a signal
that hits no call in progress; the options' values, if a property needs them.
