--------------------------- MODULE SocketTransfer ---------------------------
(***************************************************************************)
(* Send, Receive, Shutdown and Close of a connected TCP object that one or *)
(* several threads use at the same time, against a peer that reads,        *)
(* writes, finishes and resets.  Every thread has its own errno;           *)
(* m_socketErrno, m_nBytesSent, m_nBytesReceived and the receive buffer    *)
(* belong to the object and are shared.  A loop round of Send or Receive   *)
(* is the system call with TranslateSocketError, and then the test of      *)
(* GetSocketError; a send() that has to wait has stored what fits.         *)
(*                                                                         *)
(* A byte that is sent is a pair <<call, position>>, a byte that is        *)
(* received the number of its place in the peer's stream.                  *)
(***************************************************************************)
EXTENDS SocketErrors, Integers, Sequences

CONSTANTS
    Threads,           \* the threads that use the object
    Senders,           \* those that call Send
    Receivers,         \* the one that calls Receive, if any
    Closers,           \* those that call Shutdown and Close
    Interruptible,     \* those whose system calls signals interrupt
    Modes,             \* how system calls of the object may wait
    SendSizes,         \* lengths of messages
    Sizes,             \* these and the values of nMaxBytes
    Capacity,          \* bytes the connection holds before a send waits
    ShutAgain,         \* bound: whether an ended direction is shut down again
    MaxCalls,          \* bound: number of Send calls
    MaxWire,           \* bound: bytes ever sent
    MaxIn              \* bound: bytes the peer ever sends

ASSUME TransferAssumption ==
    /\ Senders \subseteq Threads
    /\ Receivers \subseteq Threads
    /\ Closers \subseteq Threads
    /\ \A t, u \in Receivers : t = u
    /\ Interruptible \subseteq Threads
    /\ Modes \subseteq {"blocking", "timed", "nonblocking"}
    /\ Sizes \subseteq Nat \ {0}
    /\ SendSizes \subseteq Sizes
    /\ Capacity \in Nat
    /\ ShutAgain \in BOOLEAN
    /\ MaxCalls \in Nat /\ MaxWire \in Nat /\ MaxIn \in Nat

NoBuffer == -1

NoMemory == [i \in {} |-> 0]

ShutdownModes == {{"Receives"}, {"Sends"}, {"Receives", "Sends"}}

VARIABLES
    valid,             \* m_socket holds a descriptor
    m_socketErrno,
    m_nBytesSent,
    m_nBytesReceived,
    m_nBufferSize,
    heap,              \* bytes allocated at m_pBuffer, NoBuffer for NULL
    errno,             \* of each thread
    interrupted,       \* some system call of the object answered EINTR
    mode,              \* kernel: O_NONBLOCK, or send and receive timeouts
    shut,              \* kernel: directions shutdown() has ended
    wire,              \* kernel: every byte accepted for the peer
    drained,           \* how many of them the peer has read
    peer,              \* what the peer has done: see Gone and Finished
    peerSent,          \* bytes the peer has sent
    taken,             \* bytes recv() has handed out
    soError,           \* kernel: pending error
    pc,                \* where each thread is
    arg,               \* size given to the call of each thread
    stored,            \* bytes the waiting send() of each thread has stored
    own,               \* Receive was given the caller's own buffer
    id,                \* number of the Send call of each thread
    calls,             \* Send calls so far
    memory,            \* contents of the buffer Receive fills, by offset
    delivered,         \* bytes Receive has handed to the application
    result             \* the call of each thread that returned last

objVars  == <<valid, m_socketErrno, m_nBytesSent, m_nBytesReceived,
              m_nBufferSize, heap>>
netVars  == <<wire, drained, peer, peerSent, taken, soError>>
kernVars == <<valid, mode, shut, drained, peer>>
sysVars  == <<errno, interrupted>>
callVars == <<pc, arg, stored, own, id, calls>>
recvVars == <<m_nBytesReceived, m_nBufferSize, heap, peerSent, taken, own,
              memory, delivered>>
sendVars == <<m_nBytesSent, stored, wire, id, calls>>
vars == <<valid, m_socketErrno, m_nBytesSent, m_nBytesReceived, m_nBufferSize,
          heap, errno, interrupted, mode, shut, wire, drained, peer, peerSent,
          taken, soError, pc, arg, stored, own, id, calls, memory, delivered,
          result>>

Results == [op : {"none", "Send", "Receive"}, ret : Int, id : Nat,
            valid : BOOLEAN]

NoResult == [op |-> "none", ret |-> 0, id |-> 0, valid |-> TRUE]

TypeOK ==
    /\ valid \in BOOLEAN
    /\ m_socketErrno \in CSocketError
    /\ m_nBytesSent \in Int /\ m_nBytesReceived \in Int
    /\ m_nBufferSize \in Sizes \cup {0}
    /\ heap \in Sizes \cup {NoBuffer}
    /\ errno \in [Threads -> Errnos]
    /\ interrupted \in BOOLEAN
    /\ mode \in Modes
    /\ shut \subseteq {"Receives", "Sends"}
    /\ wire \in Seq(Nat \X Nat)
    /\ drained \in 0..Len(wire)
    /\ peer \in {"open", "finished", "reset", "aborted"}
    /\ peerSent \in 0..MaxIn
    /\ taken \in 0..peerSent
    /\ soError \in {"EXIT_SUCCESS", "ECONNRESET", "EPIPE"}
    /\ pc \in [Threads -> {"idle", "send", "sendtest", "recv", "recvtest"}]
    /\ arg \in [Threads -> Sizes \cup {0}]
    /\ stored \in [Threads -> 0..MaxWire]
    /\ own \in [Threads -> BOOLEAN]
    /\ id \in [Threads -> 0..MaxCalls]
    /\ calls \in 0..MaxCalls
    /\ delivered \in Seq(0..MaxIn)
    /\ result \in [Threads -> Results]

Lesser(m, n) == IF m < n THEN m ELSE n

At(t, where) == pc' = [pc EXCEPT ![t] = where]

(* The call of thread t goes on at another place. *)
Goes(t, where) == At(t, where) /\ UNCHANGED <<arg, result>>

(* The call of thread t returns r to the application. *)
Returns(t, op, r, call) ==
    /\ At(t, "idle")
    /\ arg' = [arg EXCEPT ![t] = 0]
    /\ result' = [result EXCEPT ![t] =
                    [op |-> op, ret |-> r, id |-> call, valid |-> valid]]

-----------------------------------------------------------------------------
(* Send *)

SendCalled(t, n) ==
    /\ pc[t] = "idle"
    /\ t \in Senders
    /\ calls < MaxCalls
    /\ Len(wire) + n <= MaxWire
    /\ calls' = calls + 1
    /\ id' = [id EXCEPT ![t] = calls + 1]
    /\ m_socketErrno' = "SocketSuccess"
    /\ m_nBytesSent' = 0
    /\ IF valid
       THEN /\ At(t, "send")
            /\ arg' = [arg EXCEPT ![t] = n]
            /\ UNCHANGED result
       ELSE Returns(t, "Send", 0, calls + 1)
    /\ UNCHANGED <<kernVars, sysVars, soError, wire, stored, recvVars>>

When(condition, S) == IF condition THEN S ELSE {}

Space == Capacity - (Len(wire) - drained)

(* The connection was reset, after the peer had finished if "aborted". *)
Gone == peer \in {"reset", "aborted"}

Finished == peer \in {"finished", "aborted"}

SendsDead == Gone \/ "Sends" \in shut

(* k more bytes of the block of thread t are stored in the connection. *)
Store(t, k) ==
    /\ Len(wire) + k <= MaxWire
    /\ wire' = wire \o [i \in 1..k |-> <<id[t], stored[t] + i>>]

(* A send() that has to wait for room first stores what fits. *)
SendStores(t) ==
    /\ pc[t] = "send"
    /\ mode # "nonblocking"
    /\ ~SendsDead
    /\ Space \in 1..(arg[t] - stored[t] - 1)
    /\ Store(t, Space)
    /\ stored' = [stored EXCEPT ![t] = @ + Space]
    /\ UNCHANGED <<kernVars, soError, m_socketErrno, m_nBytesSent, sysVars, pc,
                   arg, id, calls, result, recvVars>>

(***************************************************************************)
(* What send() may answer: more bytes stored, and a count n or an error    *)
(* number e.  When the connection breaks, is shut down or a signal or a    *)
(* timeout ends the wait, the count is what has been stored so far.        *)
(***************************************************************************)
SendAnswers(t) ==
    LET Done(k)  == [more |-> k, n |-> stored[t] + k, e |-> errno[t]]
        Fails(e) == IF stored[t] > 0 THEN Done(0)
                                     ELSE [more |-> 0, n |-> -1, e |-> e]
        rest     == arg[t] - stored[t]
    IN  IF SendsDead
        THEN {Fails(IF soError = "EXIT_SUCCESS" THEN "EPIPE" ELSE soError)}
        ELSE IF Space >= rest THEN {Done(rest)}
        ELSE IF Space > 0 THEN When(mode = "nonblocking", {Done(Space)})
        ELSE When(mode # "blocking", {Fails("EWOULDBLOCK")})
             \cup When(mode # "nonblocking" /\ t \in Interruptible,
                       {Fails("EINTR")})

(* SEND and TranslateSocketError; a success leaves errno as it was. *)
SendSyscall(t) ==
    /\ pc[t] = "send"
    /\ \E a \in SendAnswers(t) :
         /\ Store(t, a.more)
         /\ m_nBytesSent' = a.n
         /\ errno' = [errno EXCEPT ![t] = a.e]
         /\ interrupted' = (interrupted \/ a.e = "EINTR")
         /\ m_socketErrno' = TranslateSocketError(a.e)
         /\ soError' = IF a.n = -1 /\ a.e = soError THEN "EXIT_SUCCESS"
                                                    ELSE soError
    /\ stored' = [stored EXCEPT ![t] = 0]
    /\ At(t, "sendtest")
    /\ UNCHANGED <<kernVars, arg, id, calls, result, recvVars>>

(* Mutation: a short send is taken up again from the start of the block. *)
SendRestartsShort(t) ==
    /\ pc[t] = "sendtest"
    /\ IF m_nBytesSent \in 0..(arg[t] - 1)
       THEN Goes(t, "send")
       ELSE Returns(t, "Send", m_nBytesSent, id[t])
    /\ UNCHANGED <<kernVars, m_socketErrno, sysVars, soError, sendVars,
                   recvVars>>

(* Mutation: a non-blocking send() that would block is also tried again. *)
SendRetriesWouldBlock(t) ==
    /\ pc[t] = "sendtest"
    /\ IF m_socketErrno \in {"SocketInterrupted", "SocketEwouldblock"}
       THEN Goes(t, "send")
       ELSE Returns(t, "Send", m_nBytesSent, id[t])
    /\ UNCHANGED <<kernVars, m_socketErrno, sysVars, soError, sendVars,
                   recvVars>>

(* The end of the loop: round again on SocketInterrupted, else return. *)
SendTest(t) ==
    /\ pc[t] = "sendtest"
    /\ IF m_socketErrno = "SocketInterrupted"
       THEN Goes(t, "send")
       ELSE Returns(t, "Send", m_nBytesSent, id[t])
    /\ UNCHANGED <<kernVars, m_socketErrno, sysVars, soError, sendVars,
                   recvVars>>

-----------------------------------------------------------------------------
(* Receive *)

(* Mutation: a buffer is kept whenever it is no larger than asked for. *)
AllocateIfLarger(n) ==
    /\ heap' = IF heap # NoBuffer /\ n >= m_nBufferSize THEN heap ELSE n
    /\ m_nBufferSize' = IF heap # NoBuffer /\ n >= m_nBufferSize
                        THEN m_nBufferSize ELSE n

(* The internal buffer is replaced when its size is not the one asked for. *)
AllocateBuffer(n) ==
    IF heap # NoBuffer /\ n = m_nBufferSize
    THEN UNCHANGED <<heap, m_nBufferSize>>
    ELSE heap' = n /\ m_nBufferSize' = n

(* Mutation: Receive does not reset m_nBytesReceived, the recv() offset. *)
ReceiveKeepsOffset(t, n, mine) ==
    /\ pc[t] = "idle"
    /\ t \in Receivers
    /\ IF valid
       THEN /\ IF mine THEN UNCHANGED <<heap, m_nBufferSize>>
                       ELSE AllocateBuffer(n)
            /\ m_socketErrno' = "SocketSuccess"
            /\ At(t, "recv")
            /\ arg' = [arg EXCEPT ![t] = n]
            /\ memory' = [i \in 0..(n - 1) |-> 0]
            /\ UNCHANGED result
       ELSE /\ Returns(t, "Receive", m_nBytesReceived, 0)
            /\ UNCHANGED <<heap, m_nBufferSize, m_socketErrno, memory>>
    /\ own' = [own EXCEPT ![t] = mine]
    /\ UNCHANGED <<kernVars, sysVars, soError, peerSent, taken, delivered,
                   m_nBytesReceived, sendVars>>

(* Receive on an invalid handle returns 0 and stores no error. *)
ReceiveCalled(t, n, mine) ==
    /\ pc[t] = "idle"
    /\ t \in Receivers
    /\ m_nBytesReceived' = 0
    /\ IF valid
       THEN /\ IF mine THEN UNCHANGED <<heap, m_nBufferSize>>
                       ELSE AllocateBuffer(n)
            /\ m_socketErrno' = "SocketSuccess"
            /\ At(t, "recv")
            /\ arg' = [arg EXCEPT ![t] = n]
            /\ memory' = [i \in 0..(n - 1) |-> 0]
            /\ UNCHANGED result
       ELSE /\ Returns(t, "Receive", 0, 0)
            /\ UNCHANGED <<heap, m_nBufferSize, m_socketErrno, memory>>
    /\ own' = [own EXCEPT ![t] = mine]
    /\ UNCHANGED <<kernVars, sysVars, soError, peerSent, taken, delivered,
                   sendVars>>

(***************************************************************************)
(* What recv() of at most k bytes may answer.  Bytes that have arrived are *)
(* handed out first, then the end of the stream; without one, a pending    *)
(* error, and then a connection that is gone looks like the end, too.      *)
(***************************************************************************)
RecvAnswers(t, k) ==
    LET Answer(n, e) == [n |-> n, e |-> e]
    IN  IF taken < peerSent
        THEN {Answer(Lesser(k, peerSent - taken), errno[t])}
        ELSE IF Finished THEN {Answer(0, errno[t])}
        ELSE IF soError # "EXIT_SUCCESS" THEN {Answer(-1, soError)}
        ELSE IF Gone \/ "Receives" \in shut THEN {Answer(0, errno[t])}
        ELSE When(mode # "blocking", {Answer(-1, "EWOULDBLOCK")})
             \cup When(mode # "nonblocking" /\ t \in Interruptible,
                       {Answer(-1, "EINTR")})

BufferBytes(t) == IF own[t] THEN arg[t] ELSE heap

(***************************************************************************)
(* RECV at pWorkBuffer + m_nBytesReceived, for nMaxBytes whatever that     *)
(* offset is, and TranslateSocketError.  Only stores inside the buffer are *)
(* kept in memory.                                                         *)
(***************************************************************************)
RecvSyscall(t) ==
    /\ pc[t] = "recv"
    /\ \E a \in RecvAnswers(t, arg[t]) :
         /\ memory' = [i \in DOMAIN memory |->
                         IF i - m_nBytesReceived \in 0..(a.n - 1)
                         THEN taken + 1 + i - m_nBytesReceived ELSE memory[i]]
         /\ taken' = IF a.n > 0 THEN taken + a.n ELSE taken
         /\ soError' = IF a.n = -1 /\ a.e = soError THEN "EXIT_SUCCESS"
                                                    ELSE soError
         /\ m_nBytesReceived' = a.n
         /\ errno' = [errno EXCEPT ![t] = a.e]
         /\ interrupted' = (interrupted \/ a.e = "EINTR")
         /\ m_socketErrno' = TranslateSocketError(a.e)
    /\ At(t, "recvtest")
    /\ UNCHANGED <<kernVars, arg, own, result, heap, m_nBufferSize, peerSent,
                   delivered, sendVars>>

(* Mutation: "no data yet" is reported like the end of the stream. *)
ReceiveHidesWouldBlock(t) ==
    /\ pc[t] = "recvtest"
    /\ IF errno[t] = "EWOULDBLOCK" /\ m_nBytesReceived = -1
       THEN Returns(t, "Receive", 0, 0)
       ELSE Returns(t, "Receive", m_nBytesReceived, 0)
    /\ m_socketErrno' = TranslateSocketError(errno[t])
    /\ heap' = IF m_nBytesReceived = -1 THEN NoBuffer ELSE heap
    /\ delivered' = delivered \o [i \in 1..m_nBytesReceived |-> memory[i - 1]]
    /\ memory' = NoMemory
    /\ UNCHANGED <<kernVars, sysVars, soError, own, m_nBytesReceived,
                   m_nBufferSize, peerSent, taken, sendVars>>

(* Mutation: the buffer is kept when Receive fails. *)
ReceiveKeepsBuffer(t) ==
    /\ pc[t] = "recvtest"
    /\ Returns(t, "Receive", m_nBytesReceived, 0)
    /\ m_socketErrno' = TranslateSocketError(errno[t])
    /\ delivered' = delivered \o [i \in 1..m_nBytesReceived |-> memory[i - 1]]
    /\ memory' = NoMemory
    /\ UNCHANGED <<kernVars, sysVars, soError, own, m_nBytesReceived,
                   m_nBufferSize, heap, peerSent, taken, sendVars>>

(* Mutation: Receive waits for data by itself when there is none. *)
ReceiveRetriesWouldBlock(t) ==
    /\ pc[t] = "recvtest"
    /\ IF m_socketErrno \in {"SocketInterrupted", "SocketEwouldblock"}
       THEN /\ Goes(t, "recv")
            /\ m_nBytesReceived' = 0
            /\ UNCHANGED <<m_socketErrno, heap, delivered, memory>>
       ELSE /\ Returns(t, "Receive", m_nBytesReceived, 0)
            /\ delivered' =
                 delivered \o [i \in 1..m_nBytesReceived |-> memory[i - 1]]
            /\ memory' = NoMemory
            /\ UNCHANGED <<m_socketErrno, heap, m_nBytesReceived>>
    /\ UNCHANGED <<kernVars, sysVars, soError, own, m_nBufferSize, peerSent,
                   taken, sendVars>>

(***************************************************************************)
(* The end of the loop and of Receive.  A failure frees the internal       *)
(* buffer, also when the caller's own was used; m_nBufferSize is kept.     *)
(***************************************************************************)
RecvTest(t) ==
    /\ pc[t] = "recvtest"
    /\ IF m_socketErrno = "SocketInterrupted"
       THEN /\ Goes(t, "recv")
            /\ UNCHANGED <<m_socketErrno, heap, delivered, memory>>
       ELSE /\ Returns(t, "Receive", m_nBytesReceived, 0)
            /\ m_socketErrno' = TranslateSocketError(errno[t])
            /\ heap' = IF m_nBytesReceived = -1 THEN NoBuffer ELSE heap
            /\ delivered' =
                 delivered \o [i \in 1..m_nBytesReceived |-> memory[i - 1]]
            /\ memory' = NoMemory
    /\ UNCHANGED <<kernVars, sysVars, soError, own, m_nBytesReceived,
                   m_nBufferSize, peerSent, taken, sendVars>>

-----------------------------------------------------------------------------
(***************************************************************************)
(* Shutdown of the directions in ends, while other threads may be in Send  *)
(* or Receive.  Linux marks the directions even when the connection is     *)
(* gone and shutdown() reports ENOTCONN.                                   *)
(***************************************************************************)
Shutdown(t, ends) ==
    /\ pc[t] = "idle"
    /\ t \in Closers
    /\ ShutAgain \/ ends \cap shut = {}
    /\ shut' = IF valid THEN shut \cup ends ELSE shut
    /\ errno' = [errno EXCEPT ![t] = IF ~valid THEN "EBADF"
                                   ELSE IF Gone THEN "ENOTCONN"
                                   ELSE @]
    /\ m_socketErrno' = TranslateSocketError(errno'[t])
    /\ UNCHANGED <<valid, mode, interrupted, netVars, callVars, m_nBytesSent,
                   m_nBytesReceived, m_nBufferSize, heap, memory, delivered,
                   result>>

(* Close while no thread is in a call. *)
Close(t) ==
    /\ t \in Closers
    /\ \A u \in Threads : pc[u] = "idle"
    /\ valid
    /\ valid' = FALSE
    /\ heap' = NoBuffer
    /\ m_socketErrno' = TranslateSocketError(errno[t])
    /\ UNCHANGED <<m_nBytesSent, m_nBytesReceived, m_nBufferSize, sysVars, mode,
                   shut, netVars, callVars, memory, delivered, result>>

(* The peer and the network. *)
PeerDrains ==
    /\ drained < Len(wire)
    /\ drained' = drained + 1
    /\ UNCHANGED <<wire, peer, peerSent, taken, soError>>

PeerSends ==
    /\ peer = "open"
    /\ peerSent < MaxIn
    /\ peerSent' = peerSent + 1
    /\ UNCHANGED <<wire, drained, peer, taken, soError>>

PeerFinishes ==
    /\ peer = "open"
    /\ peer' = "finished"
    /\ UNCHANGED <<wire, drained, peerSent, taken, soError>>

(***************************************************************************)
(* The peer resets the connection.  In the state CLOSE_WAIT, when only the *)
(* peer has finished, the kernel leaves EPIPE, else ECONNRESET.            *)
(***************************************************************************)
PeerResets ==
    /\ ~Gone
    /\ peer' = IF Finished THEN "aborted" ELSE "reset"
    /\ soError' = IF Finished /\ "Sends" \notin shut THEN "EPIPE"
                                                     ELSE "ECONNRESET"
    /\ UNCHANGED <<wire, drained, peerSent, taken>>

Network ==
    /\ PeerDrains \/ PeerSends \/ PeerFinishes \/ PeerResets
    /\ UNCHANGED <<objVars, sysVars, mode, shut, callVars, memory, delivered,
                   result>>

-----------------------------------------------------------------------------
Init ==
    /\ valid = TRUE
    /\ m_socketErrno = "SocketSuccess"
    /\ m_nBytesSent = -1
    /\ m_nBytesReceived = -1
    /\ m_nBufferSize = 0
    /\ heap = NoBuffer
    /\ errno = [t \in Threads |-> "EXIT_SUCCESS"]
    /\ interrupted = FALSE
    /\ mode \in Modes
    /\ shut = {}
    /\ wire = <<>>
    /\ drained = 0
    /\ peer = "open"
    /\ peerSent = 0
    /\ taken = 0
    /\ soError = "EXIT_SUCCESS"
    /\ pc = [t \in Threads |-> "idle"]
    /\ arg = [t \in Threads |-> 0]
    /\ stored = [t \in Threads |-> 0]
    /\ own = [t \in Threads |-> FALSE]
    /\ id = [t \in Threads |-> 0]
    /\ calls = 0
    /\ memory = NoMemory
    /\ delivered = <<>>
    /\ result = [t \in Threads |-> NoResult]

(* The library code thread t runs inside a call. *)
Library(t) ==
    SendStores(t) \/ SendSyscall(t) \/ SendTest(t)
    \/ RecvSyscall(t) \/ RecvTest(t)

Application(t) ==
    \/ \E n \in SendSizes : SendCalled(t, n)
    \/ \E n \in Sizes, mine \in BOOLEAN : ReceiveCalled(t, n, mine)
    \/ \E ends \in ShutdownModes : Shutdown(t, ends)
    \/ Close(t)

Next == Network \/ \E t \in Threads : Library(t) \/ Application(t)

Spec == Init /\ [][Next]_vars

(* Threads are scheduled, and a peer that is there goes on reading. *)
FairSpec ==
    /\ Spec
    /\ WF_vars(Network /\ PeerDrains)
    /\ \A t \in Threads : WF_vars(Library(t))

-----------------------------------------------------------------------------
Returned(t, op) == pc[t] = "idle" /\ result[t].op = op

(* The places of the bytes of a call on the wire. *)
Places(call) == {i \in DOMAIN wire : wire[i][1] = call}

(* The first n bytes of a block are on the wire, once and in order, and no *)
(* other byte of it is.                                                    *)
OnWire(call, n) ==
    /\ \A i \in Places(call) : wire[i][2] \in 1..n
    /\ \A p \in 1..n : \E i \in Places(call) : wire[i][2] = p
    /\ \A i, j \in Places(call) : i < j => wire[i][2] < wire[j][2]

(***************************************************************************)
(* When Send returns r, the first r bytes of its block are on the wire     *)
(* once and in order and no other byte of the block is; when it returns    *)
(* -1, none is, so that the application may send it again.  Threatened by  *)
(* the loop, which sends the block again when it believes that it was      *)
(* interrupted.                                                            *)
(***************************************************************************)
SendExactlyOnce ==
    \A t \in Threads :
        Returned(t, "Send") => OnWire(result[t].id, result[t].ret)

(***************************************************************************)
(* What the application has been given is a prefix of the peer's stream,   *)
(* and between calls nothing that recv() has handed out is missing.        *)
(***************************************************************************)
NoByteLost ==
    (\A t \in Receivers : pc[t] \notin {"recv", "recvtest"})
    => delivered = [i \in 1..taken |-> i]

(***************************************************************************)
(* The buffer a recv() fills has room for the nMaxBytes it is given,       *)
(* whatever sizes earlier calls asked for, whether they failed, and        *)
(* through every round of the loop; and recv() fills it from its start,    *)
(* until a system call of the object is interrupted.  After that a round   *)
(* may start elsewhere, at an offset that is an earlier return value: that *)
(* is what SimpleSocket.cpp:765 does, and not excluded here.               *)
(***************************************************************************)
RecvInBounds ==
    \A t \in Receivers :
        pc[t] = "recv" => /\ arg[t] <= BufferBytes(t)
                          /\ m_nBytesReceived = 0 \/ interrupted

(***************************************************************************)
(* GetData and GetBytesReceived agree: a failed Receive leaves no buffer   *)
(* for a caller (the echo server) to send from, and after a successful one *)
(* the buffer holds at least the bytes received.                           *)
(***************************************************************************)
DataMatchesResult ==
    \A t \in Receivers :
        (Returned(t, "Receive") /\ valid)
        => /\ result[t].ret = -1 => heap = NoBuffer
           /\ (result[t].ret > 0 /\ ~own[t]) => heap >= result[t].ret

(***************************************************************************)
(* On a valid socket Receive returns 0 only at the end of the stream, or   *)
(* when receiving was shut down on this side, so "no data yet" is told     *)
(* from "closed".                                                          *)
(***************************************************************************)
ZeroMeansEnd ==
    \A t \in Receivers :
        (Returned(t, "Receive") /\ result[t].ret = 0 /\ result[t].valid)
        => peer # "open" \/ "Receives" \in shut

(***************************************************************************)
(* A call makes its system call again only after a signal: neither "would  *)
(* block" and a timeout nor a short count, the end of the stream or what   *)
(* another thread stores in the shared m_socketErrno, which the loops      *)
(* test, sends Send or Receive round.  The converse is not promised, and   *)
(* after a signal the loops may go on too long: see SendExactlyOnce.       *)
(***************************************************************************)
Retries(t) ==
    \/ pc[t] = "sendtest" /\ pc'[t] = "send"
    \/ pc[t] = "recvtest" /\ pc'[t] = "recv"

RetryExplained == \A t \in Threads : Retries(t) => interrupted

RetriesNeedSignal == [][RetryExplained]_vars

(***************************************************************************)
(* A waiting Receive returns when another thread shuts receiving down, the *)
(* peer is gone, or the object does not wait for ever.                     *)
(***************************************************************************)
ReceiveReturns ==
    \A t \in Receivers :
        (/\ pc[t] = "recv"
         /\ "Receives" \in shut \/ peer # "open" \/ mode # "blocking")
        ~> pc[t] = "idle"

-----------------------------------------------------------------------------
(***************************************************************************)
(* The object implements ByteStream in both directions.  To the sender a   *)
(* block is in progress from the call to the return of Send, and told is   *)
(* what that call returned; the peer sends one long block.                 *)
(***************************************************************************)
InSend(t) == pc[t] \in {"send", "sendtest"}

(* How many bytes of its block a thread has got accepted so far. *)
Accepted(t) ==
    CASE pc[t] = "send" -> stored[t]
      [] pc[t] = "sendtest" /\ m_nBytesSent > 0 -> m_nBytesSent
      [] OTHER -> 0

TheSender == CHOOSE t \in Senders : TRUE

Outgoing == INSTANCE ByteStream WITH
    Blocks <- 1..MaxCalls,
    Sizes <- SendSizes,
    stream <- wire,
    received <- SubSeq(wire, 1, drained),
    block <- IF InSend(TheSender) THEN <<id[TheSender], arg[TheSender]>>
                                  ELSE <<0, 0>>,
    accepted <- Accepted(TheSender),
    told <- IF result[TheSender].op = "Send" THEN result[TheSender].ret ELSE 0

Incoming == INSTANCE ByteStream WITH
    Blocks <- {1},
    Sizes <- {MaxIn},
    stream <- [i \in 1..peerSent |-> <<1, i>>],
    received <- [i \in DOMAIN delivered |-> <<1, delivered[i]>>],
    block <- <<1, MaxIn>>,
    accepted <- peerSent,
    told <- 0

(***************************************************************************)
(* Every step of Send, of the connection and of the peer is a step of the  *)
(* abstract stream or none: no byte of a block enters the stream twice, or *)
(* before its turn, and Send tells what it did.                            *)
(***************************************************************************)
SendImplementsStream == Outgoing!Spec

(***************************************************************************)
(* Receive hands out the peer's bytes each once and in order, whatever     *)
(* buffer, size, timeout or shutdown there is.                             *)
(***************************************************************************)
ReceiveImplementsStream == Incoming!Spec

=============================================================================
