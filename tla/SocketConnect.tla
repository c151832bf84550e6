---------------------------- MODULE SocketConnect ----------------------------
(***************************************************************************)
(* One CActiveSocket that connects: Open with ConnectTCP and ConnectUDP,   *)
(* Select, and the calls around them (Initialize, Close, SetBlocking,      *)
(* SetNonblocking), on Linux.                                              *)
(*                                                                         *)
(* Open is followed system call by system call (connect, select,           *)
(* getsockopt, getpeername), because the handshake completes, fails or is  *)
(* reset and signals arrive between them.  ConnectRAW is never called.     *)
(* Of the calls on an object without a descriptor only Open is kept here;  *)
(* SocketObjects has the others.                                           *)
(***************************************************************************)
EXTENDS SocketErrors, Naturals

CONSTANTS
    Addrs,             \* addresses a name can resolve to
    NoAddr,            \* a zeroed sockaddr
    Broadcast,         \* 255.255.255.255, which the code takes for an error
    NameFaults,        \* what the resolver can answer instead of an address
    ConnectTimeout,    \* m_stConnectTimeout, [sec, usec]
    SelectTimeouts,    \* arguments of the application's Select calls
    Signals,           \* TRUE: signals with a handler interrupt system calls
    ReopenAfter        \* by socket type: the results after which Open is
                       \* called again on the same descriptor

Timeouts == [sec : Nat, usec : Nat]

ASSUME ConnectAssumption ==
    /\ NoAddr # Broadcast /\ {NoAddr, Broadcast} \cap Addrs = {}
    /\ NameFaults \subseteq {"HOST_NOT_FOUND", "TRY_AGAIN", "BROADCAST"}
    /\ ConnectTimeout \in Timeouts
    /\ SelectTimeouts \subseteq Timeouts
    /\ Signals \in BOOLEAN
    /\ ReopenAfter \in [{"Tcp", "Udp"} -> SUBSET {"failure", "success"}]

VARIABLES
    m_nSocketType,       \* "Tcp" or "Udp", set by the constructor
    valid,               \* m_socket holds a descriptor
    m_bIsBlocking,
    m_socketErrno,
    m_stServerSockaddr,
    errno,
    nonblocking,         \* kernel: O_NONBLOCK of the descriptor
    sock,                \* kernel: state of the struct socket
    sk,                  \* kernel: state of the protocol
    soError,             \* kernel: pending SO_ERROR
    peer,                \* kernel: address of the last connect() that started
    pc,                  \* system call the thread is about to make or is in
    op,                  \* library call the thread is in
    target,              \* address Open was given
    timeout,             \* timeout of the Select in progress
    tried,               \* result of the last Open on this descriptor
    reached,             \* whom this descriptor's last handshake reached
    last                 \* the call that returned last

objVars    == <<m_nSocketType, valid, m_bIsBlocking, m_socketErrno,
                m_stServerSockaddr>>
kernelVars == <<nonblocking, sock, sk, soError, peer>>
callVars   == <<pc, op, target, timeout>>
ghostVars  == <<tried, reached, last>>
vars == <<m_nSocketType, valid, m_bIsBlocking, m_socketErrno,
          m_stServerSockaddr, errno, nonblocking, sock, sk, soError, peer, pc,
          op, target, timeout, tried, reached, last>>

TypeOK ==
    /\ m_nSocketType \in {"Tcp", "Udp"}
    /\ valid \in BOOLEAN
    /\ m_bIsBlocking \in BOOLEAN
    /\ m_socketErrno \in CSocketError
    /\ m_stServerSockaddr \in Addrs \cup {NoAddr, Broadcast}
    /\ errno \in Errnos
    /\ nonblocking \in BOOLEAN
    /\ sock \in {"UNCONNECTED", "CONNECTING", "CONNECTED"}
    /\ sk \in {"CLOSE", "SYN_SENT", "ESTABLISHED"}
    /\ soError \in Errnos
    /\ peer \in Addrs \cup {NoAddr}
    /\ pc \in {"idle", "connect", "blocked", "select", "soerror", "names"}
    /\ op \in {"Open", "Select"}
    /\ target \in Addrs \cup {NoAddr}
    /\ timeout \in Timeouts
    /\ tried \in {"none", "failure", "success"}
    /\ reached \in Addrs \cup {NoAddr}
    /\ last \in [op : {"none", "Open", "Select"}, ret : BOOLEAN]

HasTimeout(t) == t.sec > 0 \/ t.usec > 0

IsNonblocking == ~m_bIsBlocking

(* The call the thread is in returns ret to the application. *)
Return(ret) ==
    /\ pc' = "idle"
    /\ last' = [op |-> op, ret |-> ret]
    /\ tried' = IF op # "Open" THEN tried
                ELSE IF ret THEN "success" ELSE "failure"
    /\ UNCHANGED <<op, target, timeout>>

-----------------------------------------------------------------------------
(* Calls around Open, each one step. *)

NewDescriptor ==
    /\ nonblocking' = FALSE
    /\ sock' = "UNCONNECTED"
    /\ sk' = "CLOSE"
    /\ soError' = "EXIT_SUCCESS"
    /\ peer' = NoAddr
    /\ tried' = "none"
    /\ reached' = NoAddr
    /\ last' = [op |-> "none", ret |-> TRUE]

Initialize ==
    /\ pc = "idle"
    /\ ~valid
    /\ valid' = TRUE
    /\ errno' = "EXIT_SUCCESS"
    /\ m_socketErrno' = "SocketSuccess"
    /\ NewDescriptor
    /\ UNCHANGED <<m_nSocketType, m_bIsBlocking, m_stServerSockaddr,
                   callVars>>

Close ==
    /\ pc = "idle"
    /\ valid
    /\ valid' = FALSE
    /\ m_socketErrno' = TranslateSocketError(errno)
    /\ NewDescriptor
    /\ UNCHANGED <<m_nSocketType, m_bIsBlocking, m_stServerSockaddr, errno,
                   callVars>>

SetBlockingMode(blocking) ==
    /\ pc = "idle"
    /\ valid
    /\ m_bIsBlocking' = blocking
    /\ nonblocking' = ~blocking
    /\ UNCHANGED <<m_nSocketType, valid, m_socketErrno, m_stServerSockaddr,
                   errno, sock, sk, soError, peer, callVars, ghostVars>>

-----------------------------------------------------------------------------
(* Open, up to connect(). *)

(* Open called on an invalid socket, with a NULL address or with port 0. *)
OpenRefuses(code) ==
    /\ pc = "idle"
    /\ IF valid THEN code \in {"SocketInvalidAddress", "SocketInvalidPort"}
                ELSE code = "SocketInvalidSocket"
    /\ m_socketErrno' = code
    /\ last' = [op |-> "Open", ret |-> FALSE]
    /\ UNCHANGED <<m_nSocketType, valid, m_bIsBlocking, m_stServerSockaddr,
                   errno, kernelVars, callVars, tried, reached>>

MayOpen ==
    /\ pc = "idle"
    /\ valid
    /\ tried = "none" \/ tried \in ReopenAfter[m_nSocketType]

(***************************************************************************)
(* The name does not resolve, which leaves m_stServerSockaddr zeroed, or   *)
(* resolves to 255.255.255.255, which stays there, without a port.         *)
(***************************************************************************)
OpenResolveFails(fault) ==
    /\ MayOpen
    /\ m_stServerSockaddr' = IF fault = "BROADCAST" THEN Broadcast ELSE NoAddr
    /\ m_socketErrno' = CASE fault = "HOST_NOT_FOUND" -> "SocketInvalidAddress"
                          [] fault = "TRY_AGAIN" -> m_socketErrno
                          [] fault = "BROADCAST" -> TranslateSocketError(errno)
    /\ tried' = "failure"
    /\ last' = [op |-> "Open", ret |-> FALSE]
    /\ UNCHANGED <<m_nSocketType, valid, m_bIsBlocking, errno, kernelVars,
                   callVars, reached>>

(* Mutation: the address is filled in only the first time. *)
OpenResolvesOnce(addr) ==
    /\ MayOpen
    /\ m_stServerSockaddr' = IF m_stServerSockaddr = NoAddr
                             THEN addr ELSE m_stServerSockaddr
    /\ target' = addr
    /\ op' = "Open"
    /\ pc' = "connect"
    /\ last' = [op |-> "none", ret |-> TRUE]
    /\ UNCHANGED <<m_nSocketType, valid, m_bIsBlocking, m_socketErrno, errno,
                   kernelVars, timeout, tried, reached>>

OpenResolves(addr) ==
    /\ MayOpen
    /\ m_stServerSockaddr' = addr
    /\ target' = addr
    /\ op' = "Open"
    /\ pc' = "connect"
    /\ last' = [op |-> "none", ret |-> TRUE]
    /\ UNCHANGED <<m_nSocketType, valid, m_bIsBlocking, m_socketErrno, errno,
                   kernelVars, timeout, tried, reached>>

-----------------------------------------------------------------------------
(* connect() *)

(* Mutation: the error of connect() is not translated before it is judged. *)
ConnectErrorLost(e) ==
    /\ errno' = e
    /\ UNCHANGED m_socketErrno
    /\ IF /\ m_nSocketType = "Tcp"
          /\ IsNonblocking
          /\ m_socketErrno \in {"SocketEwouldblock", "SocketEinprogress"}
       THEN /\ pc' = "select"
            /\ timeout' = ConnectTimeout
            /\ UNCHANGED <<op, target, tried, last>>
       ELSE Return(FALSE)

(* Mutation: a connection in progress counts as made, without Select. *)
ConnectDoesNotPoll(e) ==
    /\ errno' = e
    /\ m_socketErrno' = TranslateSocketError(e)
    /\ IF m_nSocketType = "Tcp" /\ IsNonblocking /\ e = "EINPROGRESS"
       THEN /\ pc' = "names"
            /\ UNCHANGED <<op, target, timeout, tried, last>>
       ELSE Return(FALSE)

(* Mutation: a refused connection is tried again at once. *)
ConnectRetries(e) ==
    /\ errno' = e
    /\ m_socketErrno' = TranslateSocketError(e)
    /\ IF e = "ECONNREFUSED"
       THEN /\ pc' = "connect"
            /\ UNCHANGED <<op, target, timeout, tried, last>>
       ELSE Return(FALSE)

(***************************************************************************)
(* connect() returned -1 with errno = e.  ConnectTCP polls the connection  *)
(* when the object is non-blocking and the connection is in progress;      *)
(* ConnectUDP never does.                                                  *)
(***************************************************************************)
ConnectFails(e) ==
    /\ errno' = e
    /\ m_socketErrno' = TranslateSocketError(e)
    /\ IF /\ m_nSocketType = "Tcp"
          /\ IsNonblocking
          /\ m_socketErrno' \in {"SocketEwouldblock", "SocketEinprogress"}
       THEN /\ pc' = "select"
            /\ timeout' = ConnectTimeout
            /\ UNCHANGED <<op, target, tried, last>>
       ELSE Return(FALSE)

(* connect() returned 0; errno, and so the code, is an old one. *)
ConnectSucceeds ==
    /\ m_socketErrno' = TranslateSocketError(errno)
    /\ pc' = "names"
    /\ UNCHANGED <<errno, op, target, timeout, tried, last>>

(* The caller waits in the kernel, or is told that it would have to. *)
WaitOrFail(e) ==
    IF nonblocking
    THEN ConnectFails(e)
    ELSE /\ pc' = "blocked"
         /\ UNCHANGED <<m_socketErrno, errno, op, target, timeout, tried,
                        last>>

(* A connection that has failed: its error, or ECONNABORTED once it was read. *)
SkError == IF soError = "EXIT_SUCCESS" THEN "ECONNABORTED" ELSE soError

(* connect() on a datagram socket replaces its association. *)
ConnectDatagram ==
    /\ pc = "connect"
    /\ m_nSocketType = "Udp"
    /\ \/ /\ peer' = m_stServerSockaddr
          /\ reached' = m_stServerSockaddr
          /\ sk' = "ESTABLISHED"
          /\ ConnectSucceeds
       \/ /\ ConnectFails("EOTHER")
          /\ UNCHANGED <<peer, reached, sk>>
    /\ UNCHANGED <<m_nSocketType, valid, m_bIsBlocking, m_stServerSockaddr,
                   nonblocking, sock, soError>>

(* connect() on a fresh stream socket sends a SYN, or finds no route. *)
ConnectFresh ==
    /\ pc = "connect"
    /\ m_nSocketType = "Tcp"
    /\ sock = "UNCONNECTED"
    /\ \/ /\ sock' = "CONNECTING"
          /\ sk' = "SYN_SENT"
          /\ peer' = m_stServerSockaddr
          /\ WaitOrFail("EINPROGRESS")
       \/ /\ ConnectFails("EOTHER")
          /\ UNCHANGED <<sock, sk, peer>>
    /\ UNCHANGED <<m_nSocketType, valid, m_bIsBlocking, m_stServerSockaddr,
                   nonblocking, soError, reached>>

(***************************************************************************)
(* connect() on a stream socket whose earlier connect() has not been       *)
(* collected: the answer is about that connection, whatever the new        *)
(* address is.                                                             *)
(***************************************************************************)
ConnectAgain ==
    /\ pc = "connect"
    /\ m_nSocketType = "Tcp"
    /\ \/ /\ sock = "CONNECTING"
          /\ sk = "SYN_SENT"
          /\ WaitOrFail("EALREADY")
          /\ UNCHANGED <<sock, soError>>
       \/ /\ sock = "CONNECTING"
          /\ sk = "ESTABLISHED"
          /\ sock' = "CONNECTED"
          /\ ConnectSucceeds
          /\ UNCHANGED soError
       \/ /\ sock = "CONNECTING"
          /\ sk = "CLOSE"
          /\ sock' = "UNCONNECTED"
          /\ soError' = "EXIT_SUCCESS"
          /\ ConnectFails(SkError)
       \/ /\ sock = "CONNECTED"
          /\ ConnectFails("EISCONN")
          /\ UNCHANGED <<sock, soError>>
    /\ UNCHANGED <<m_nSocketType, valid, m_bIsBlocking, m_stServerSockaddr,
                   nonblocking, sk, peer, reached>>

(* A connect() that waited: the handshake is over. *)
BlockedReturns ==
    /\ pc = "blocked"
    /\ \/ /\ sk = "ESTABLISHED"
          /\ sock' = "CONNECTED"
          /\ ConnectSucceeds
          /\ UNCHANGED soError
       \/ /\ sk = "CLOSE"
          /\ sock' = "UNCONNECTED"
          /\ soError' = "EXIT_SUCCESS"
          /\ ConnectFails(SkError)
    /\ UNCHANGED <<m_nSocketType, valid, m_bIsBlocking, m_stServerSockaddr,
                   nonblocking, sk, peer, reached>>

(* A signal ends the waiting; the handshake goes on in the kernel. *)
ConnectInterrupted ==
    /\ Signals
    /\ pc = "blocked"
    /\ sk = "SYN_SENT"
    /\ ConnectFails("EINTR")
    /\ UNCHANGED <<m_nSocketType, valid, m_bIsBlocking, m_stServerSockaddr,
                   kernelVars, reached>>

-----------------------------------------------------------------------------
(* Select *)

SelectCalled(t) ==
    /\ pc = "idle"
    /\ valid
    /\ op' = "Select"
    /\ timeout' = t
    /\ pc' = "select"
    /\ last' = [op |-> "none", ret |-> TRUE]
    /\ UNCHANGED <<objVars, errno, kernelVars, target, tried, reached>>

(* Writable, readable or failed: everything but a handshake in progress. *)
Ready == sk # "SYN_SENT"

(* Mutation: both parts of the timeout have to be set for it to count. *)
SelectTimesOutIfBoth ==
    /\ pc = "select"
    /\ timeout.sec > 0 /\ timeout.usec > 0
    /\ ~Ready
    /\ m_socketErrno' = "SocketTimedout"
    /\ Return(FALSE)
    /\ UNCHANGED <<m_nSocketType, valid, m_bIsBlocking, m_stServerSockaddr,
                   errno, kernelVars, reached>>

(* select() returns 0; without a timeout it waits for ever. *)
SelectTimesOut ==
    /\ pc = "select"
    /\ HasTimeout(timeout)
    /\ ~Ready
    /\ m_socketErrno' = "SocketTimedout"
    /\ Return(FALSE)
    /\ UNCHANGED <<m_nSocketType, valid, m_bIsBlocking, m_stServerSockaddr,
                   errno, kernelVars, reached>>

(* select() returns 1. *)
SelectReturns ==
    /\ pc = "select"
    /\ Ready
    /\ pc' = "soerror"
    /\ UNCHANGED <<objVars, errno, kernelVars, op, target, timeout, ghostVars>>

(***************************************************************************)
(* select() returns -1 because of a signal.  The code tests the descriptor *)
(* sets all the same, and a failed select() leaves them as they were       *)
(* filled, with the socket in all three.                                   *)
(***************************************************************************)
SelectInterrupted ==
    /\ Signals
    /\ pc = "select"
    /\ errno' = "EINTR"
    /\ pc' = "soerror"
    /\ UNCHANGED <<objVars, kernelVars, op, target, timeout, ghostVars>>

(* getsockopt(SO_ERROR), which clears the pending error. *)
SelectReadsError ==
    /\ pc = "soerror"
    /\ soError' = "EXIT_SUCCESS"
    /\ errno' = soError
    /\ m_socketErrno' = TranslateSocketError(soError)
    /\ IF op = "Open" /\ soError = "EXIT_SUCCESS"
       THEN /\ pc' = "names"
            /\ UNCHANGED <<op, target, timeout, tried, last>>
       ELSE Return(soError = "EXIT_SUCCESS")
    /\ UNCHANGED <<m_nSocketType, valid, m_bIsBlocking, m_stServerSockaddr,
                   nonblocking, sock, sk, peer, reached>>

-----------------------------------------------------------------------------
(* Mutation: m_stServerSockaddr is zeroed and getpeername() is not called. *)
OpenReadsNoPeer ==
    /\ pc = "names"
    /\ m_socketErrno' = "SocketSuccess"
    /\ m_stServerSockaddr' = NoAddr
    /\ Return(TRUE)
    /\ UNCHANGED <<m_nSocketType, valid, m_bIsBlocking, errno, kernelVars,
                   reached>>

(***************************************************************************)
(* The end of a successful Open: m_stServerSockaddr is zeroed and          *)
(* getpeername() fills it if the socket is connected.                      *)
(***************************************************************************)
OpenReadsNames ==
    /\ pc = "names"
    /\ IF sk = "ESTABLISHED"
       THEN m_stServerSockaddr' = peer /\ UNCHANGED errno
       ELSE m_stServerSockaddr' = NoAddr /\ errno' = "ENOTCONN"
    /\ m_socketErrno' = "SocketSuccess"
    /\ Return(TRUE)
    /\ UNCHANGED <<m_nSocketType, valid, m_bIsBlocking, kernelVars, reached>>

-----------------------------------------------------------------------------
(* The other side and the network. *)

HandshakeCompletes ==
    /\ sk = "SYN_SENT"
    /\ sk' = "ESTABLISHED"
    /\ reached' = peer
    /\ UNCHANGED <<objVars, errno, nonblocking, sock, soError, peer, callVars,
                   tried, last>>

(* Refused by the other side, or given up after the last SYN. *)
HandshakeFails ==
    /\ sk = "SYN_SENT"
    /\ sk' = "CLOSE"
    /\ soError' \in {"ECONNREFUSED", "ETIMEDOUT"}
    /\ UNCHANGED <<objVars, errno, nonblocking, sock, peer, callVars,
                   ghostVars>>

PeerResets ==
    /\ m_nSocketType = "Tcp"
    /\ sk = "ESTABLISHED"
    /\ sk' = "CLOSE"
    /\ soError' = "ECONNRESET"
    /\ UNCHANGED <<objVars, errno, nonblocking, sock, peer, callVars,
                   ghostVars>>

-----------------------------------------------------------------------------
Init ==
    /\ m_nSocketType \in {"Tcp", "Udp"}
    /\ valid = FALSE
    /\ m_bIsBlocking = TRUE
    /\ m_socketErrno = "SocketInvalidSocket"
    /\ m_stServerSockaddr = NoAddr
    /\ errno = "EXIT_SUCCESS"
    /\ nonblocking = FALSE
    /\ sock = "UNCONNECTED"
    /\ sk = "CLOSE"
    /\ soError = "EXIT_SUCCESS"
    /\ peer = NoAddr
    /\ pc = "idle"
    /\ op = "Open"
    /\ target = NoAddr
    /\ timeout = ConnectTimeout
    /\ tried = "none"
    /\ reached = NoAddr
    /\ last = [op |-> "none", ret |-> TRUE]

(* The application's choice of the next call. *)
Application ==
    \/ Initialize
    \/ Close
    \/ \E blocking \in BOOLEAN : SetBlockingMode(blocking)
    \/ \E code \in CSocketError : OpenRefuses(code)
    \/ \E fault \in NameFaults : OpenResolveFails(fault)
    \/ \E addr \in Addrs : OpenResolves(addr)
    \/ \E t \in SelectTimeouts : SelectCalled(t)

(* The thread going on with the call it is in. *)
Library ==
    \/ ConnectDatagram
    \/ ConnectFresh
    \/ ConnectAgain
    \/ BlockedReturns
    \/ SelectTimesOut
    \/ SelectReturns
    \/ SelectReadsError
    \/ OpenReadsNames

(* A signal with a handler arrives while the thread waits. *)
Signal == ConnectInterrupted \/ SelectInterrupted

Handshake == HandshakeCompletes \/ HandshakeFails

Next == Application \/ Library \/ Signal \/ Handshake \/ PeerResets

Spec == Init /\ [][Next]_vars

(***************************************************************************)
(* The thread is scheduled and a select() with a timeout ends.  Signals    *)
(* are not in Library: nothing relies on one to arrive.                    *)
(***************************************************************************)
ThreadSpec == Spec /\ WF_vars(Library)

-----------------------------------------------------------------------------
OpenReturned(ret) == pc = "idle" /\ last = [op |-> "Open", ret |-> ret]

(***************************************************************************)
(* Open returns true only after a handshake of this very descriptor.       *)
(* Threatened by the polling of a connection in progress, which reports    *)
(* whatever SO_ERROR says when select() returns.                           *)
(***************************************************************************)
OpenTrueConnected == OpenReturned(TRUE) => reached # NoAddr

(***************************************************************************)
(* The handshake that a successful Open reports was with the address this  *)
(* Open was given, not with the one of an earlier call.                    *)
(***************************************************************************)
OpenReachesTarget == OpenReturned(TRUE) => reached = target

(***************************************************************************)
(* A failed Open leaves an error to ask for, whatever errno held when it   *)
(* started and whichever system call failed.                               *)
(***************************************************************************)
OpenErrorKnown == OpenReturned(FALSE) => m_socketErrno # "SocketSuccess"

(***************************************************************************)
(* After a successful Open whose connection is still up, the local copy    *)
(* GetServerAddr reads (and a datagram Send sends to) is the kernel's      *)
(* peer.                                                                   *)
(***************************************************************************)
CopyIsPeer ==
    (OpenReturned(TRUE) /\ sk = "ESTABLISHED") => m_stServerSockaddr = peer

(***************************************************************************)
(* Every Open returns, also on a blocking socket, with signals arriving    *)
(* at will and after any earlier result, provided handshakes end: the      *)
(* kernel stops sending SYNs after tcp_syn_retries.                        *)
(***************************************************************************)
OpenReturns == WF_vars(Handshake) => (pc = "connect" ~> pc = "idle")

(***************************************************************************)
(* The connect timeout bounds Open on a non-blocking TCP socket even when  *)
(* the other side never answers: no fairness of the handshake is needed.   *)
(***************************************************************************)
NonblockingOpenReturns ==
    (pc = "connect" /\ nonblocking /\ IsNonblocking) ~> pc = "idle"

=============================================================================
