------------------------- MODULE SocketConnectProofs -------------------------
(***************************************************************************)
(* Proofs about SocketConnect: the types and the safety invariants of      *)
(* Open, for any addresses and timeouts.  Each theorem names what it       *)
(* assumes of the surroundings: that no signal interrupts a system call,   *)
(* which answers the resolver gives, or how often a descriptor is opened.  *)
(***************************************************************************)
EXTENDS SocketConnect, TLAPS

NoSignals == ~Signals

(* Every name resolves, or the resolver says that there is no such host. *)
KnownFaults == NameFaults \subseteq {"HOST_NOT_FOUND"}

(* As documented: a stream socket is opened once. *)
OpensOnce == ReopenAfter["Tcp"] = {}

NothingReturned == [op |-> "none", ret |-> TRUE]

OpenSaid(ret) == last = [op |-> "Open", ret |-> ret]

(* Open has called connect() and has not returned. *)
Opening == pc \notin {"idle", "connect"} /\ op = "Open"

(***************************************************************************)
(* The only errors that become pending on the socket; none of them is one  *)
(* that ConnectTCP takes for a connection in progress.                     *)
(***************************************************************************)
ErrorsPending ==
    soError \in {"EXIT_SUCCESS", "ECONNREFUSED", "ETIMEDOUT", "ECONNRESET"}

CallsTyped ==
    /\ TypeOK
    /\ ErrorsPending
    /\ pc # "idle" => last = NothingReturned
    /\ pc = "connect" => m_stServerSockaddr # Broadcast

(* While Open runs, the object holds the address that it was given. *)
Targeted ==
    (pc = "connect" \/ Opening) => /\ target \in Addrs
                                   /\ m_stServerSockaddr = target

(* A handshake is under way with an address, or was completed with one. *)
PeerKnown ==
    /\ sk = "SYN_SENT" => peer \in Addrs
    /\ sk = "ESTABLISHED" => reached \in Addrs

(***************************************************************************)
(* What Open knows of the handshake when it polls, when it asks for the    *)
(* error, and from then on: that it has ended, and how.                    *)
(***************************************************************************)
Shaken ==
    /\ pc \in {"blocked", "names", "connect"} => op = "Open"
    /\ (pc = "select" /\ op = "Open")
       => sk = "SYN_SENT" \/ reached # NoAddr \/ soError # "EXIT_SUCCESS"
    /\ (pc = "soerror" /\ op = "Open")
       => /\ sk # "SYN_SENT"
          /\ reached # NoAddr \/ soError # "EXIT_SUCCESS"
    /\ (pc = "names" \/ OpenSaid(TRUE)) => sk # "SYN_SENT" /\ reached # NoAddr

CopyInv == (OpenSaid(TRUE) /\ sk = "ESTABLISHED") => m_stServerSockaddr = peer

ConnectInv == Targeted /\ PeerKnown /\ Shaken /\ CopyInv

(* A descriptor that connect() has not been called on. *)
Fresh ==
    /\ sock = "UNCONNECTED" /\ sk = "CLOSE" /\ soError = "EXIT_SUCCESS"
    /\ peer = NoAddr /\ reached = NoAddr

(* A stream socket that is opened once knows one address at most. *)
StreamInv ==
    m_nSocketType = "Tcp" =>
        /\ (tried = "none" /\ ~Opening) => Fresh
        /\ pc = "connect" => tried = "none"
        /\ peer \in {NoAddr, target} /\ reached \in {NoAddr, target}

(* A datagram socket has no handshake; each connect() replaces its peer. *)
DatagramInv ==
    m_nSocketType = "Udp" =>
        /\ sk # "SYN_SENT"
        /\ op = "Open" => pc \in {"idle", "connect", "names"}
        /\ (pc = "names" \/ OpenSaid(TRUE)) => reached = target

ReachInv == StreamInv /\ DatagramInv

ErrorInv == OpenSaid(FALSE) => m_socketErrno # "SocketSuccess"

-----------------------------------------------------------------------------
(* The translation, as far as the proofs need it. *)
LEMMA Translation ==
    ASSUME NEW e \in Errnos
    PROVE  /\ TranslateSocketError(e) \in CSocketError
           /\ TranslateSocketError(e) = "SocketSuccess" <=> e = "EXIT_SUCCESS"
           /\ TranslateSocketError(e)
                \in {"SocketEwouldblock", "SocketEinprogress"}
              <=> e \in {"EWOULDBLOCK", "EINPROGRESS"}
  BY DEF TranslateSocketError, CSocketError, Errnos

LEMMA NamedErrnos ==
    /\ {"EXIT_SUCCESS", "EOTHER", "EINPROGRESS", "EALREADY", "EISCONN",
        "EINTR", "ECONNABORTED", "ECONNREFUSED", "ETIMEDOUT", "ECONNRESET",
        "ENOTCONN"}
       \subseteq Errnos
    /\ {"SocketSuccess", "SocketInvalidSocket", "SocketTimedout",
        "SocketInvalidAddress", "SocketInvalidPort"} \subseteq CSocketError
  BY DEF Errnos, CSocketError


-----------------------------------------------------------------------------
(* What the ends of the system calls do, with Return expanded. *)

Returned(ret) ==
    /\ pc' = "idle"
    /\ last' = [op |-> op, ret |-> ret]
    /\ tried' = IF op = "Open" THEN (IF ret THEN "success" ELSE "failure")
                ELSE tried
    /\ UNCHANGED <<op, target, timeout>>

(* connect() failed with e, and ConnectTCP polls or Open returns. *)
FailedWith(e) ==
    /\ errno' = e /\ errno' \in Errnos
    /\ m_socketErrno' \in CSocketError /\ m_socketErrno' # "SocketSuccess"
    /\ \/ /\ m_nSocketType = "Tcp" /\ e \in {"EWOULDBLOCK", "EINPROGRESS"}
          /\ pc' = "select" /\ timeout' = ConnectTimeout
          /\ UNCHANGED <<op, target, tried, last>>
       \/ Returned(FALSE)

Succeeded ==
    /\ pc' = "names" /\ m_socketErrno' \in CSocketError
    /\ UNCHANGED <<errno, op, target, timeout, tried, last>>

(* getsockopt(SO_ERROR) has cleared the error. *)
ErrorRead ==
    /\ pc = "soerror"
    /\ soError' = "EXIT_SUCCESS"
    /\ errno' \in Errnos /\ m_socketErrno' \in CSocketError
    /\ m_socketErrno' = "SocketSuccess" <=> soError = "EXIT_SUCCESS"
    /\ \/ /\ op = "Open" /\ soError = "EXIT_SUCCESS" /\ pc' = "names"
          /\ UNCHANGED <<op, target, timeout, tried, last>>
       \/ op # "Open" /\ soError = "EXIT_SUCCESS" /\ Returned(TRUE)
       \/ soError # "EXIT_SUCCESS" /\ Returned(FALSE)
    /\ UNCHANGED <<m_nSocketType, valid, m_bIsBlocking, m_stServerSockaddr,
                   nonblocking, sock, sk, peer, reached>>

LEMMA ReturnOutcome ==
    ASSUME NEW ret \in BOOLEAN, Return(ret), op \in {"Open", "Select"}
    PROVE  Returned(ret)
  BY DEF Return, Returned

LEMMA FailOutcome ==
    ASSUME NEW e \in Errnos, e # "EXIT_SUCCESS", ConnectFails(e), TypeOK
    PROVE  FailedWith(e)
<1>1. /\ errno' = e /\ m_socketErrno' = TranslateSocketError(e)
      /\ \/ /\ m_nSocketType = "Tcp"
            /\ m_socketErrno' \in {"SocketEwouldblock", "SocketEinprogress"}
            /\ pc' = "select" /\ timeout' = ConnectTimeout
            /\ UNCHANGED <<op, target, tried, last>>
         \/ Return(FALSE)
  BY DEF ConnectFails
<1>2. Return(FALSE) => Returned(FALSE)
  BY ReturnOutcome DEF TypeOK
<1> QED
  BY <1>1, <1>2, Translation DEF FailedWith

(* The values of SkError. *)
SkErrors == {"ECONNABORTED", "ECONNREFUSED", "ETIMEDOUT", "ECONNRESET"}

LEMMA ConnectOutcomes ==
    ASSUME CallsTyped
    PROVE  /\ ConnectFails("EOTHER") => FailedWith("EOTHER")
           /\ ConnectFails("EINPROGRESS") => FailedWith("EINPROGRESS")
           /\ ConnectFails("EALREADY") => FailedWith("EALREADY")
           /\ ConnectFails("EISCONN") => FailedWith("EISCONN")
           /\ ConnectFails("EINTR") => FailedWith("EINTR")
           /\ ConnectFails(SkError) => \E e \in SkErrors : FailedWith(e)
           /\ ConnectSucceeds => Succeeded
<1>1. /\ TypeOK
      /\ \A e \in Errnos \ {"EXIT_SUCCESS"} : ConnectFails(e) => FailedWith(e)
  BY FailOutcome DEF CallsTyped
<1>2. ASSUME ConnectFails(SkError)
      PROVE  \E e \in SkErrors : FailedWith(e)
  <2>1. PICK e \in SkErrors : e = SkError
    BY DEF SkErrors, SkError, CallsTyped, ErrorsPending
  <2>2. ConnectFails(e)
    BY <1>2, <2>1 DEF ConnectFails
  <2>3. e \in Errnos \ {"EXIT_SUCCESS"}
    BY <2>1, NamedErrnos DEF SkErrors
  <2> QED
    BY <1>1, <2>1, <2>2, <2>3
<1>3. ConnectSucceeds => Succeeded
  BY <1>1, Translation DEF ConnectSucceeds, Succeeded, TypeOK
<1>4. {"EOTHER", "EINPROGRESS", "EALREADY", "EISCONN", "EINTR"}
      \subseteq Errnos \ {"EXIT_SUCCESS"}
  BY NamedErrnos
<1> QED
  BY <1>1, <1>2, <1>3, <1>4

LEMMA ReadsErrorOutcome ==
    ASSUME CallsTyped, SelectReadsError
    PROVE  ErrorRead
<1>1. /\ TypeOK /\ soError \in Errnos
  BY DEF CallsTyped, TypeOK
<1>2. /\ pc = "soerror" /\ soError' = "EXIT_SUCCESS" /\ errno' = soError
      /\ m_socketErrno' = TranslateSocketError(soError)
      /\ \/ /\ op = "Open" /\ soError = "EXIT_SUCCESS" /\ pc' = "names"
            /\ UNCHANGED <<op, target, timeout, tried, last>>
         \/ /\ ~(op = "Open" /\ soError = "EXIT_SUCCESS")
            /\ Return(soError = "EXIT_SUCCESS")
      /\ UNCHANGED <<m_nSocketType, valid, m_bIsBlocking, m_stServerSockaddr,
                     nonblocking, sock, sk, peer, reached>>
  BY DEF SelectReadsError
<1>3. /\ m_socketErrno' \in CSocketError
      /\ m_socketErrno' = "SocketSuccess" <=> soError = "EXIT_SUCCESS"
  BY <1>1, <1>2, Translation
<1>4. ASSUME Return(soError = "EXIT_SUCCESS"), soError = "EXIT_SUCCESS"
      PROVE  Returned(TRUE)
  BY <1>1, <1>4 DEF Return, Returned, TypeOK
<1>5. ASSUME Return(soError = "EXIT_SUCCESS"), soError # "EXIT_SUCCESS"
      PROVE  Returned(FALSE)
  BY <1>1, <1>5 DEF Return, Returned, TypeOK
<1> QED
  BY <1>1, <1>2, <1>3, <1>4, <1>5 DEF ErrorRead

(* The end of a successful Open. *)
NamesRead ==
    /\ pc = "names"
    /\ IF sk = "ESTABLISHED"
       THEN m_stServerSockaddr' = peer /\ UNCHANGED errno
       ELSE m_stServerSockaddr' = NoAddr /\ errno' = "ENOTCONN"
    /\ m_socketErrno' = "SocketSuccess"
    /\ Returned(TRUE)
    /\ UNCHANGED <<m_nSocketType, valid, m_bIsBlocking, nonblocking, sock, sk,
                   soError, peer, reached>>

LEMMA ReadsNamesOutcome ==
    ASSUME CallsTyped, OpenReadsNames
    PROVE  NamesRead
  BY ReturnOutcome
     DEF OpenReadsNames, NamesRead, CallsTyped, TypeOK, kernelVars

-----------------------------------------------------------------------------
(* The part of the types that a thread changes when a system call ends. *)
CallTypes ==
    /\ errno \in Errnos /\ m_socketErrno \in CSocketError
    /\ pc \in {"idle", "blocked", "select", "soerror", "names"}
    /\ op \in {"Open", "Select"}
    /\ target \in Addrs \cup {NoAddr}
    /\ timeout \in Timeouts
    /\ tried \in {"none", "failure", "success"}
    /\ last \in [op : {"none", "Open", "Select"}, ret : BOOLEAN]
    /\ pc # "idle" => last = NothingReturned

LEMMA ReturnedTyped ==
    ASSUME CallsTyped, NEW ret \in BOOLEAN, Returned(ret),
           errno' \in Errnos, m_socketErrno' \in CSocketError
    PROVE  CallTypes'
<1>1. /\ op \in {"Open", "Select"} /\ target \in Addrs \cup {NoAddr}
      /\ timeout \in Timeouts /\ tried \in {"none", "failure", "success"}
  BY DEF CallsTyped, TypeOK
<1> QED
  BY <1>1 DEF Returned, CallTypes

LEMMA OutcomesTyped ==
    ASSUME CallsTyped, pc # "idle"
    PROVE  /\ \A e \in Errnos : FailedWith(e) => CallTypes'
           /\ Succeeded => CallTypes'
           /\ ErrorRead => CallTypes'
           /\ NamesRead => CallTypes'
<1>1. ASSUME NEW e \in Errnos, FailedWith(e)
      PROVE  CallTypes'
  <2>1. CASE Returned(FALSE)
    BY <1>1, <2>1, ReturnedTyped DEF FailedWith
  <2>2. CASE ~Returned(FALSE)
    BY <1>1, <2>2, ConnectAssumption
       DEF FailedWith, CallsTyped, TypeOK, CallTypes
  <2> QED
    BY <2>1, <2>2
<1>2. Succeeded => CallTypes'
  BY DEF Succeeded, CallsTyped, TypeOK, CallTypes
<1>3. ASSUME ErrorRead
      PROVE  CallTypes'
  <2>1. CASE Returned(TRUE) \/ Returned(FALSE)
    BY <1>3, <2>1, ReturnedTyped DEF ErrorRead
  <2>2. CASE ~(Returned(TRUE) \/ Returned(FALSE))
    BY <1>3, <2>2 DEF ErrorRead, CallsTyped, TypeOK, CallTypes
  <2> QED
    BY <2>1, <2>2
<1>4. ASSUME NamesRead
      PROVE  CallTypes'
  <2>1. errno' \in Errnos /\ m_socketErrno' \in CSocketError
    BY <1>4, NamedErrnos DEF NamesRead, CallsTyped, TypeOK
  <2> QED
    BY <1>4, <2>1, ReturnedTyped DEF NamesRead
<1> QED
  BY <1>1, <1>2, <1>3, <1>4

LEMMA StepTyped ==
    ASSUME CallsTyped, [Next]_vars
    PROVE  CallsTyped'
<1>1. CASE Initialize
  BY <1>1, ConnectAssumption, NamedErrnos
     DEF Initialize, NewDescriptor, callVars, CallsTyped, TypeOK,
         ErrorsPending, NothingReturned
<1>2. CASE Close
  BY <1>2, Translation, ConnectAssumption, NamedErrnos
     DEF Close, NewDescriptor, callVars, CallsTyped, TypeOK, ErrorsPending,
         NothingReturned
<1>3. ASSUME NEW blocking \in BOOLEAN, SetBlockingMode(blocking)
      PROVE  CallsTyped'
  BY <1>3, ConnectAssumption, NamedErrnos
     DEF SetBlockingMode, callVars, ghostVars, CallsTyped, TypeOK,
         ErrorsPending, NothingReturned
<1>4. ASSUME NEW code \in CSocketError, OpenRefuses(code)
      PROVE  CallsTyped'
  BY <1>4, ConnectAssumption, NamedErrnos
     DEF OpenRefuses, kernelVars, callVars, CallsTyped, TypeOK, ErrorsPending,
         NothingReturned
<1>5. ASSUME NEW fault \in NameFaults, OpenResolveFails(fault)
      PROVE  CallsTyped'
  <2>1. m_socketErrno' \in CSocketError
    <3>1. fault \in {"HOST_NOT_FOUND", "TRY_AGAIN", "BROADCAST"}
      BY <1>5, ConnectAssumption
    <3> QED
      BY <1>5, <3>1, NamedErrnos, Translation
         DEF OpenResolveFails, CallsTyped, TypeOK
  <2>2. /\ pc = "idle" /\ m_stServerSockaddr' \in {NoAddr, Broadcast}
        /\ tried' = "failure"
        /\ last' = [op |-> "Open", ret |-> FALSE]
        /\ UNCHANGED <<m_nSocketType, valid, m_bIsBlocking, errno, kernelVars,
                       callVars, reached>>
    BY <1>5 DEF OpenResolveFails, MayOpen
  <2> QED
    BY <2>1, <2>2 DEF kernelVars, callVars, CallsTyped, TypeOK, ErrorsPending
<1>6. ASSUME NEW addr \in Addrs, OpenResolves(addr)
      PROVE  CallsTyped'
  BY <1>6, ConnectAssumption, NamedErrnos
     DEF OpenResolves, MayOpen, kernelVars, CallsTyped, TypeOK, ErrorsPending,
         NothingReturned
<1>7. ASSUME NEW t \in SelectTimeouts, SelectCalled(t)
      PROVE  CallsTyped'
  BY <1>7, ConnectAssumption, NamedErrnos
     DEF SelectCalled, objVars, kernelVars, CallsTyped, TypeOK, ErrorsPending,
         NothingReturned
<1>8. CASE ConnectDatagram
  <2>1. /\ pc = "connect"
        /\ \/ /\ peer' = m_stServerSockaddr /\ reached' = m_stServerSockaddr
              /\ sk' = "ESTABLISHED" /\ Succeeded
           \/ FailedWith("EOTHER") /\ UNCHANGED <<peer, reached, sk>>
        /\ UNCHANGED <<m_nSocketType, valid, m_bIsBlocking, m_stServerSockaddr,
                       nonblocking, sock, soError>>
    BY <1>8, ConnectOutcomes DEF ConnectDatagram
  <2>2. CallTypes'
    BY <2>1, OutcomesTyped, NamedErrnos
  <2> QED
    BY <2>1, <2>2 DEF CallTypes, CallsTyped, TypeOK, ErrorsPending
<1>9. CASE ConnectFresh
  <2>1. /\ pc = "connect"
        /\ \/ /\ sock' = "CONNECTING" /\ sk' = "SYN_SENT"
              /\ peer' = m_stServerSockaddr
           \/ UNCHANGED <<sock, sk, peer>>
        /\ \/ FailedWith("EINPROGRESS") \/ FailedWith("EOTHER")
           \/ /\ pc' = "blocked"
              /\ UNCHANGED <<m_socketErrno, errno, op, target, timeout, tried,
                             last>>
        /\ UNCHANGED <<m_nSocketType, valid, m_bIsBlocking, m_stServerSockaddr,
                       nonblocking, soError, reached>>
    BY <1>9, ConnectOutcomes DEF ConnectFresh, WaitOrFail
  <2>2. CallTypes'
    BY <2>1, OutcomesTyped, NamedErrnos DEF CallTypes, CallsTyped, TypeOK
  <2> QED
    BY <2>1, <2>2 DEF CallTypes, CallsTyped, TypeOK, ErrorsPending
<1>10. CASE ConnectAgain
  <2>1. /\ pc # "idle"
        /\ sock' \in {sock, "CONNECTED", "UNCONNECTED"}
        /\ soError' \in {soError, "EXIT_SUCCESS"}
        /\ \/ \E e \in Errnos : FailedWith(e)
           \/ Succeeded
           \/ /\ pc' = "blocked"
              /\ UNCHANGED <<m_socketErrno, errno, op, target, timeout, tried,
                             last>>
        /\ UNCHANGED <<m_nSocketType, valid, m_bIsBlocking, m_stServerSockaddr,
                       nonblocking, sk, peer, reached>>
    BY <1>10, ConnectOutcomes, NamedErrnos
       DEF SkErrors, ConnectAgain, WaitOrFail
  <2>2. CallTypes'
    BY <2>1, OutcomesTyped DEF CallTypes, CallsTyped, TypeOK
  <2> QED
    BY <2>1, <2>2, NamedErrnos
       DEF CallTypes, CallsTyped, TypeOK, ErrorsPending
<1>11. CASE BlockedReturns
  <2>1. /\ pc # "idle"
        /\ sock' \in {"CONNECTED", "UNCONNECTED"}
        /\ soError' \in {soError, "EXIT_SUCCESS"}
        /\ (\E e \in Errnos : FailedWith(e)) \/ Succeeded
        /\ UNCHANGED <<m_nSocketType, valid, m_bIsBlocking, m_stServerSockaddr,
                       nonblocking, sk, peer, reached>>
    BY <1>11, ConnectOutcomes, NamedErrnos DEF SkErrors, BlockedReturns
  <2>2. CallTypes'
    BY <2>1, OutcomesTyped
  <2> QED
    BY <2>1, <2>2, NamedErrnos
       DEF CallTypes, CallsTyped, TypeOK, ErrorsPending
<1>12. CASE SelectTimesOut
  BY <1>12, ConnectAssumption, NamedErrnos
     DEF SelectTimesOut, kernelVars, Return, CallsTyped, TypeOK,
         ErrorsPending, NothingReturned
<1>13. CASE SelectReturns
  BY <1>13, ConnectAssumption, NamedErrnos
     DEF SelectReturns, objVars, kernelVars, ghostVars, CallsTyped, TypeOK,
         ErrorsPending, NothingReturned
<1>14. CASE SelectReadsError
  <2>1. ErrorRead /\ pc # "idle"
    BY <1>14, ReadsErrorOutcome DEF ErrorRead
  <2>2. CallTypes'
    BY <2>1, OutcomesTyped
  <2> QED
    BY <2>1, <2>2, NamedErrnos
       DEF ErrorRead, CallTypes, CallsTyped, TypeOK, ErrorsPending
<1>15. CASE OpenReadsNames
  <2>1. NamesRead /\ pc # "idle"
    BY <1>15, ReadsNamesOutcome DEF NamesRead
  <2>2. CallTypes'
    BY <2>1, OutcomesTyped
  <2> QED
    BY <2>1, <2>2 DEF NamesRead, CallTypes, CallsTyped, TypeOK, ErrorsPending
<1>16. CASE ConnectInterrupted
  <2>1. /\ pc # "idle" /\ FailedWith("EINTR")
        /\ UNCHANGED <<m_nSocketType, valid, m_bIsBlocking, m_stServerSockaddr,
                       kernelVars, reached>>
    BY <1>16, ConnectOutcomes DEF ConnectInterrupted
  <2>2. CallTypes'
    BY <2>1, OutcomesTyped, NamedErrnos
  <2> QED
    BY <2>1, <2>2 DEF CallTypes, CallsTyped, TypeOK, ErrorsPending, kernelVars
<1>17. CASE SelectInterrupted
  BY <1>17, ConnectAssumption, NamedErrnos
     DEF SelectInterrupted, objVars, kernelVars, ghostVars, CallsTyped,
         TypeOK, ErrorsPending, NothingReturned
<1>18. CASE HandshakeCompletes
  BY <1>18, ConnectAssumption, NamedErrnos
     DEF HandshakeCompletes, objVars, callVars, CallsTyped, TypeOK,
         ErrorsPending, NothingReturned
<1>19. CASE HandshakeFails
  BY <1>19, ConnectAssumption, NamedErrnos
     DEF HandshakeFails, objVars, callVars, ghostVars, CallsTyped, TypeOK,
         ErrorsPending, NothingReturned
<1>20. CASE PeerResets
  BY <1>20, ConnectAssumption, NamedErrnos
     DEF PeerResets, objVars, callVars, ghostVars, CallsTyped, TypeOK,
         ErrorsPending, NothingReturned
<1>21. CASE UNCHANGED vars
  BY <1>21
     DEF vars, CallsTyped, TypeOK, ErrorsPending, NothingReturned
<1> QED
  BY <1>1, <1>2, <1>3, <1>4, <1>5, <1>6, <1>7, <1>8, <1>9, <1>10, <1>11,
     <1>12, <1>13, <1>14, <1>15, <1>16, <1>17, <1>18, <1>19, <1>20, <1>21
     DEF Next, Application, Library, Signal, Handshake

-----------------------------------------------------------------------------
(* A failed Open has stored its error. *)
LEMMA StepErrorKnown ==
    ASSUME CallsTyped, ErrorInv, KnownFaults, [Next]_vars
    PROVE  ErrorInv'
<1>0. pc # "idle" => last = NothingReturned
  BY DEF CallsTyped
<1>1. CASE Initialize
  BY <1>1
     DEF Initialize, NewDescriptor, callVars, Returned, ErrorInv, OpenSaid
<1>2. CASE Close
  BY <1>2, Translation
     DEF Close, NewDescriptor, callVars, Returned, ErrorInv, OpenSaid
<1>3. ASSUME NEW blocking \in BOOLEAN, SetBlockingMode(blocking)
      PROVE  ErrorInv'
  BY <1>3
     DEF SetBlockingMode, callVars, ghostVars, Returned, ErrorInv, OpenSaid
<1>4. ASSUME NEW code \in CSocketError, OpenRefuses(code)
      PROVE  ErrorInv'
  BY <1>4
     DEF OpenRefuses, kernelVars, callVars, Returned, ErrorInv, OpenSaid
<1>5. ASSUME NEW fault \in NameFaults, OpenResolveFails(fault)
      PROVE  ErrorInv'
  BY <1>5
     DEF OpenResolveFails, MayOpen, kernelVars, callVars, Returned, ErrorInv,
         OpenSaid, KnownFaults
<1>6. ASSUME NEW addr \in Addrs, OpenResolves(addr)
      PROVE  ErrorInv'
  BY <1>6
     DEF OpenResolves, MayOpen, kernelVars, Returned, ErrorInv, OpenSaid
<1>7. ASSUME NEW t \in SelectTimeouts, SelectCalled(t)
      PROVE  ErrorInv'
  BY <1>7
     DEF SelectCalled, objVars, kernelVars, Returned, ErrorInv, OpenSaid
<1>8. CASE ConnectDatagram
  BY <1>8, <1>0, ConnectOutcomes
     DEF ConnectDatagram, FailedWith, Succeeded, Returned, ErrorInv, OpenSaid,
         NothingReturned
<1>9. CASE ConnectFresh
  BY <1>9, <1>0, ConnectOutcomes
     DEF ConnectFresh, WaitOrFail, FailedWith, Returned, ErrorInv, OpenSaid,
         NothingReturned
<1>10. CASE ConnectAgain
  BY <1>10, <1>0, ConnectOutcomes
     DEF SkErrors, ConnectAgain, WaitOrFail, FailedWith, Succeeded, Returned,
         ErrorInv, OpenSaid, NothingReturned
<1>11. CASE BlockedReturns
  BY <1>11, <1>0, ConnectOutcomes
     DEF SkErrors, BlockedReturns, FailedWith, Succeeded, Returned, ErrorInv,
         OpenSaid, NothingReturned
<1>12. CASE SelectTimesOut
  BY <1>12
     DEF SelectTimesOut, kernelVars, Return, Returned, ErrorInv, OpenSaid
<1>13. CASE SelectReturns
  BY <1>13
     DEF SelectReturns, objVars, kernelVars, ghostVars, Returned, ErrorInv,
         OpenSaid
<1>14. CASE SelectReadsError
  BY <1>14, <1>0, ReadsErrorOutcome
     DEF ErrorRead, Returned, ErrorInv, OpenSaid, NothingReturned
<1>15. CASE OpenReadsNames
  BY <1>15, ReadsNamesOutcome
     DEF NamesRead, Returned, ErrorInv, OpenSaid
<1>16. CASE ConnectInterrupted
  BY <1>16, ConnectOutcomes
     DEF ConnectInterrupted, FailedWith, kernelVars, Returned, ErrorInv,
         OpenSaid
<1>17. CASE SelectInterrupted
  BY <1>17
     DEF SelectInterrupted, objVars, kernelVars, ghostVars, Returned,
         ErrorInv, OpenSaid
<1>18. CASE HandshakeCompletes
  BY <1>18
     DEF HandshakeCompletes, objVars, callVars, Returned, ErrorInv, OpenSaid
<1>19. CASE HandshakeFails
  BY <1>19
     DEF HandshakeFails, objVars, callVars, ghostVars, Returned, ErrorInv,
         OpenSaid
<1>20. CASE PeerResets
  BY <1>20
     DEF PeerResets, objVars, callVars, ghostVars, Returned, ErrorInv,
         OpenSaid
<1>21. CASE UNCHANGED vars
  BY <1>21
     DEF vars, ErrorInv, OpenSaid
<1> QED
  BY <1>1, <1>2, <1>3, <1>4, <1>5, <1>6, <1>7, <1>8, <1>9, <1>10, <1>11,
     <1>12, <1>13, <1>14, <1>15, <1>16, <1>17, <1>18, <1>19, <1>20, <1>21
     DEF Next, Application, Library, Signal, Handshake

-----------------------------------------------------------------------------
(* What a successful Open knows, when no signal interrupts it. *)
LEMMA StepConnects ==
    ASSUME CallsTyped, ConnectInv, NoSignals, [Next]_vars
    PROVE  ConnectInv'
<1>1. CASE Initialize
  BY <1>1, ConnectAssumption
     DEF Initialize, NewDescriptor, callVars, Returned, ConnectInv, Targeted,
         PeerKnown, Shaken, CopyInv, OpenSaid, Opening, NothingReturned,
         CallsTyped, TypeOK, ErrorsPending
<1>2. CASE Close
  BY <1>2, Translation, ConnectAssumption
     DEF Close, NewDescriptor, callVars, Returned, ConnectInv, Targeted,
         PeerKnown, Shaken, CopyInv, OpenSaid, Opening, NothingReturned,
         CallsTyped, TypeOK, ErrorsPending
<1>3. ASSUME NEW blocking \in BOOLEAN, SetBlockingMode(blocking)
      PROVE  ConnectInv'
  BY <1>3, ConnectAssumption
     DEF SetBlockingMode, callVars, ghostVars, Returned, ConnectInv, Targeted,
         PeerKnown, Shaken, CopyInv, OpenSaid, Opening, NothingReturned,
         CallsTyped, TypeOK, ErrorsPending
<1>4. ASSUME NEW code \in CSocketError, OpenRefuses(code)
      PROVE  ConnectInv'
  BY <1>4, ConnectAssumption
     DEF OpenRefuses, kernelVars, callVars, Returned, ConnectInv, Targeted,
         PeerKnown, Shaken, CopyInv, OpenSaid, Opening, NothingReturned,
         CallsTyped, TypeOK, ErrorsPending
<1>5. ASSUME NEW fault \in NameFaults, OpenResolveFails(fault)
      PROVE  ConnectInv'
  BY <1>5, ConnectAssumption
     DEF OpenResolveFails, MayOpen, kernelVars, callVars, Returned,
         ConnectInv, Targeted, PeerKnown, Shaken, CopyInv, OpenSaid, Opening,
         NothingReturned, CallsTyped, TypeOK, ErrorsPending
<1>6. ASSUME NEW addr \in Addrs, OpenResolves(addr)
      PROVE  ConnectInv'
  BY <1>6, ConnectAssumption
     DEF OpenResolves, MayOpen, kernelVars, Returned, ConnectInv, Targeted,
         PeerKnown, Shaken, CopyInv, OpenSaid, Opening, NothingReturned,
         CallsTyped, TypeOK, ErrorsPending
<1>7. ASSUME NEW t \in SelectTimeouts, SelectCalled(t)
      PROVE  ConnectInv'
  BY <1>7, ConnectAssumption
     DEF SelectCalled, objVars, kernelVars, Returned, ConnectInv, Targeted,
         PeerKnown, Shaken, CopyInv, OpenSaid, Opening, NothingReturned,
         CallsTyped, TypeOK, ErrorsPending
<1>8. CASE ConnectDatagram
  BY <1>8, ConnectOutcomes, ConnectAssumption
     DEF ConnectDatagram, FailedWith, Succeeded, Returned, ConnectInv,
         Targeted, PeerKnown, Shaken, CopyInv, OpenSaid, Opening,
         NothingReturned, CallsTyped, TypeOK, ErrorsPending
<1>9. CASE ConnectFresh
  BY <1>9, ConnectOutcomes, ConnectAssumption
     DEF ConnectFresh, WaitOrFail, FailedWith, Returned, ConnectInv, Targeted,
         PeerKnown, Shaken, CopyInv, OpenSaid, Opening, NothingReturned,
         CallsTyped, TypeOK, ErrorsPending
<1>10. CASE ConnectAgain
  BY <1>10, ConnectOutcomes, ConnectAssumption
     DEF SkErrors, ConnectAgain, WaitOrFail, FailedWith, Succeeded, Returned,
         ConnectInv, Targeted, PeerKnown, Shaken, CopyInv, OpenSaid, Opening,
         NothingReturned, CallsTyped, TypeOK, ErrorsPending
<1>11. CASE BlockedReturns
  BY <1>11, ConnectOutcomes, ConnectAssumption
     DEF SkErrors, BlockedReturns, FailedWith, Succeeded, Returned,
         ConnectInv, Targeted, PeerKnown, Shaken, CopyInv, OpenSaid, Opening,
         NothingReturned, CallsTyped, TypeOK, ErrorsPending
<1>12. CASE SelectTimesOut
  BY <1>12, ConnectAssumption
     DEF SelectTimesOut, kernelVars, Return, Returned, ConnectInv, Targeted,
         PeerKnown, Shaken, CopyInv, OpenSaid, Opening, NothingReturned,
         CallsTyped, TypeOK, ErrorsPending
<1>13. CASE SelectReturns
  BY <1>13, ConnectAssumption
     DEF SelectReturns, Ready, objVars, kernelVars, ghostVars, Returned,
         ConnectInv, Targeted, PeerKnown, Shaken, CopyInv, OpenSaid, Opening,
         NothingReturned, CallsTyped, TypeOK, ErrorsPending
<1>14. CASE SelectReadsError
  BY <1>14, ReadsErrorOutcome, ConnectAssumption
     DEF ErrorRead, Returned, ConnectInv, Targeted, PeerKnown, Shaken,
         CopyInv, OpenSaid, Opening, NothingReturned, CallsTyped, TypeOK,
         ErrorsPending
<1>15. CASE OpenReadsNames
  BY <1>15, ReadsNamesOutcome, ConnectAssumption
     DEF NamesRead, Returned, ConnectInv, Targeted, PeerKnown, Shaken,
         CopyInv, OpenSaid, Opening, NothingReturned, CallsTyped, TypeOK,
         ErrorsPending
<1>16. CASE ConnectInterrupted
  BY <1>16, ConnectOutcomes, ConnectAssumption
     DEF ConnectInterrupted, FailedWith, kernelVars, Returned, ConnectInv,
         Targeted, PeerKnown, Shaken, CopyInv, OpenSaid, Opening,
         NothingReturned, CallsTyped, TypeOK, ErrorsPending
<1>17. CASE SelectInterrupted
  BY <1>17, ConnectAssumption
     DEF SelectInterrupted, NoSignals, objVars, kernelVars, ghostVars,
         Returned, ConnectInv, Targeted, PeerKnown, Shaken, CopyInv, OpenSaid,
         Opening, NothingReturned, CallsTyped, TypeOK, ErrorsPending
<1>18. CASE HandshakeCompletes
  BY <1>18, ConnectAssumption
     DEF HandshakeCompletes, objVars, callVars, Returned, ConnectInv,
         Targeted, PeerKnown, Shaken, CopyInv, OpenSaid, Opening,
         NothingReturned, CallsTyped, TypeOK, ErrorsPending
<1>19. CASE HandshakeFails
  BY <1>19, ConnectAssumption
     DEF HandshakeFails, objVars, callVars, ghostVars, Returned, ConnectInv,
         Targeted, PeerKnown, Shaken, CopyInv, OpenSaid, Opening,
         NothingReturned, CallsTyped, TypeOK, ErrorsPending
<1>20. CASE PeerResets
  BY <1>20, ConnectAssumption
     DEF PeerResets, objVars, callVars, ghostVars, Returned, ConnectInv,
         Targeted, PeerKnown, Shaken, CopyInv, OpenSaid, Opening,
         NothingReturned, CallsTyped, TypeOK, ErrorsPending
<1>21. CASE UNCHANGED vars
  BY <1>21
     DEF vars, ConnectInv, Targeted, PeerKnown, Shaken, CopyInv, OpenSaid,
         Opening
<1> QED
  BY <1>1, <1>2, <1>3, <1>4, <1>5, <1>6, <1>7, <1>8, <1>9, <1>10, <1>11,
     <1>12, <1>13, <1>14, <1>15, <1>16, <1>17, <1>18, <1>19, <1>20, <1>21
     DEF Next, Application, Library, Signal, Handshake, NoSignals

-----------------------------------------------------------------------------
(* An Open that succeeds has reached the address that it was given. *)
LEMMA StepReaches ==
    ASSUME CallsTyped, ConnectInv, ReachInv, NoSignals, OpensOnce, [Next]_vars
    PROVE  ReachInv'
<1>1. CASE Initialize
  BY <1>1, ConnectAssumption
     DEF Initialize, NewDescriptor, callVars, Returned, ReachInv, StreamInv,
         DatagramInv, Fresh, Opening, OpenSaid, NothingReturned, ConnectInv,
         Targeted, Shaken, CallsTyped, TypeOK, ErrorsPending
<1>2. CASE Close
  BY <1>2, Translation, ConnectAssumption
     DEF Close, NewDescriptor, callVars, Returned, ReachInv, StreamInv,
         DatagramInv, Fresh, Opening, OpenSaid, NothingReturned, ConnectInv,
         Targeted, Shaken, CallsTyped, TypeOK, ErrorsPending
<1>3. ASSUME NEW blocking \in BOOLEAN, SetBlockingMode(blocking)
      PROVE  ReachInv'
  BY <1>3, ConnectAssumption
     DEF SetBlockingMode, callVars, ghostVars, Returned, ReachInv, StreamInv,
         DatagramInv, Fresh, Opening, OpenSaid, NothingReturned, ConnectInv,
         Targeted, Shaken, CallsTyped, TypeOK, ErrorsPending
<1>4. ASSUME NEW code \in CSocketError, OpenRefuses(code)
      PROVE  ReachInv'
  BY <1>4, ConnectAssumption
     DEF OpenRefuses, kernelVars, callVars, Returned, ReachInv, StreamInv,
         DatagramInv, Fresh, Opening, OpenSaid, NothingReturned, ConnectInv,
         Targeted, Shaken, CallsTyped, TypeOK, ErrorsPending
<1>5. ASSUME NEW fault \in NameFaults, OpenResolveFails(fault)
      PROVE  ReachInv'
  BY <1>5, ConnectAssumption
     DEF OpenResolveFails, OpensOnce, MayOpen, kernelVars, callVars, Returned,
         ReachInv, StreamInv, DatagramInv, Fresh, Opening, OpenSaid,
         NothingReturned, ConnectInv, Targeted, Shaken, CallsTyped, TypeOK,
         ErrorsPending
<1>6. ASSUME NEW addr \in Addrs, OpenResolves(addr)
      PROVE  ReachInv'
  BY <1>6, ConnectAssumption
     DEF OpenResolves, OpensOnce, MayOpen, kernelVars, Returned, ReachInv,
         StreamInv, DatagramInv, Fresh, Opening, OpenSaid, NothingReturned,
         ConnectInv, Targeted, Shaken, CallsTyped, TypeOK, ErrorsPending
<1>7. ASSUME NEW t \in SelectTimeouts, SelectCalled(t)
      PROVE  ReachInv'
  BY <1>7, ConnectAssumption
     DEF SelectCalled, objVars, kernelVars, Returned, ReachInv, StreamInv,
         DatagramInv, Fresh, Opening, OpenSaid, NothingReturned, ConnectInv,
         Targeted, Shaken, CallsTyped, TypeOK, ErrorsPending
<1>8. CASE ConnectDatagram
  BY <1>8, ConnectOutcomes, ConnectAssumption
     DEF ConnectDatagram, FailedWith, Succeeded, Returned, ReachInv,
         StreamInv, DatagramInv, Fresh, Opening, OpenSaid, NothingReturned,
         ConnectInv, Targeted, Shaken, CallsTyped, TypeOK, ErrorsPending
<1>9. CASE ConnectFresh
  BY <1>9, ConnectOutcomes, ConnectAssumption
     DEF ConnectFresh, WaitOrFail, FailedWith, Returned, ReachInv, StreamInv,
         DatagramInv, Fresh, Opening, OpenSaid, NothingReturned, ConnectInv,
         Targeted, Shaken, CallsTyped, TypeOK, ErrorsPending
<1>10. CASE ConnectAgain
  BY <1>10, ConnectOutcomes, ConnectAssumption
     DEF SkErrors, ConnectAgain, WaitOrFail, FailedWith, Succeeded, Returned,
         ReachInv, StreamInv, DatagramInv, Fresh, Opening, OpenSaid,
         NothingReturned, ConnectInv, Targeted, Shaken, CallsTyped, TypeOK,
         ErrorsPending
<1>11. CASE BlockedReturns
  BY <1>11, ConnectOutcomes, ConnectAssumption
     DEF SkErrors, BlockedReturns, FailedWith, Succeeded, Returned, ReachInv,
         StreamInv, DatagramInv, Fresh, Opening, OpenSaid, NothingReturned,
         ConnectInv, Targeted, Shaken, CallsTyped, TypeOK, ErrorsPending
<1>12. CASE SelectTimesOut
  BY <1>12, ConnectAssumption
     DEF SelectTimesOut, kernelVars, Return, Returned, ReachInv, StreamInv,
         DatagramInv, Fresh, Opening, OpenSaid, NothingReturned, ConnectInv,
         Targeted, Shaken, CallsTyped, TypeOK, ErrorsPending
<1>13. CASE SelectReturns
  BY <1>13, ConnectAssumption
     DEF SelectReturns, Ready, objVars, kernelVars, ghostVars, Returned,
         ReachInv, StreamInv, DatagramInv, Fresh, Opening, OpenSaid,
         NothingReturned, ConnectInv, Targeted, Shaken, CallsTyped, TypeOK,
         ErrorsPending
<1>14. CASE SelectReadsError
  BY <1>14, ReadsErrorOutcome, ConnectAssumption
     DEF ErrorRead, Returned, ReachInv, StreamInv, DatagramInv, Fresh,
         Opening, OpenSaid, NothingReturned, ConnectInv, Targeted, Shaken,
         CallsTyped, TypeOK, ErrorsPending
<1>15. CASE OpenReadsNames
  BY <1>15, ReadsNamesOutcome, ConnectAssumption
     DEF NamesRead, Returned, ReachInv, StreamInv, DatagramInv, Fresh,
         Opening, OpenSaid, NothingReturned, ConnectInv, Targeted, Shaken,
         CallsTyped, TypeOK, ErrorsPending
<1>16. CASE ConnectInterrupted
  BY <1>16, ConnectOutcomes, ConnectAssumption
     DEF ConnectInterrupted, FailedWith, kernelVars, Returned, ReachInv,
         StreamInv, DatagramInv, Fresh, Opening, OpenSaid, NothingReturned,
         ConnectInv, Targeted, Shaken, CallsTyped, TypeOK, ErrorsPending
<1>17. CASE SelectInterrupted
  BY <1>17, ConnectAssumption
     DEF SelectInterrupted, NoSignals, objVars, kernelVars, ghostVars,
         Returned, ReachInv, StreamInv, DatagramInv, Fresh, Opening, OpenSaid,
         NothingReturned, ConnectInv, Targeted, Shaken, CallsTyped, TypeOK,
         ErrorsPending
<1>18. CASE HandshakeCompletes
  BY <1>18, ConnectAssumption
     DEF HandshakeCompletes, objVars, callVars, Returned, ReachInv, StreamInv,
         DatagramInv, Fresh, Opening, OpenSaid, NothingReturned, ConnectInv,
         Targeted, Shaken, CallsTyped, TypeOK, ErrorsPending
<1>19. CASE HandshakeFails
  BY <1>19, ConnectAssumption
     DEF HandshakeFails, objVars, callVars, ghostVars, Returned, ReachInv,
         StreamInv, DatagramInv, Fresh, Opening, OpenSaid, NothingReturned,
         ConnectInv, Targeted, Shaken, CallsTyped, TypeOK, ErrorsPending
<1>20. CASE PeerResets
  BY <1>20, ConnectAssumption
     DEF PeerResets, objVars, callVars, ghostVars, Returned, ReachInv,
         StreamInv, DatagramInv, Fresh, Opening, OpenSaid, NothingReturned,
         ConnectInv, Targeted, Shaken, CallsTyped, TypeOK, ErrorsPending
<1>21. CASE UNCHANGED vars
  BY <1>21
     DEF vars, ReachInv, StreamInv, DatagramInv, Fresh, Opening, OpenSaid,
         NothingReturned, ConnectInv, Targeted, Shaken, CallsTyped, TypeOK,
         ErrorsPending
<1> QED
  BY <1>1, <1>2, <1>3, <1>4, <1>5, <1>6, <1>7, <1>8, <1>9, <1>10, <1>11,
     <1>12, <1>13, <1>14, <1>15, <1>16, <1>17, <1>18, <1>19, <1>20, <1>21
     DEF Next, Application, Library, Signal, Handshake

-----------------------------------------------------------------------------
(* Every behaviour keeps the invariants. *)
LEMMA InitConnects ==
    ASSUME Init
    PROVE  CallsTyped /\ ConnectInv /\ ReachInv /\ ErrorInv
<1>1. CallsTyped
  BY ConnectAssumption, NamedErrnos DEF Init, CallsTyped, TypeOK, ErrorsPending
<1>2. ConnectInv
  BY DEF Init, ConnectInv, Targeted, PeerKnown, Shaken, CopyInv, OpenSaid,
         Opening
<1>3. ReachInv /\ ErrorInv
  BY DEF Init, ReachInv, StreamInv, DatagramInv, Fresh, Opening, OpenSaid,
         ErrorInv
<1> QED
  BY <1>1, <1>2, <1>3

LEMMA AlwaysTyped == Spec => []CallsTyped
  BY InitConnects, StepTyped, PTL DEF Spec

LEMMA AlwaysErrorKnown ==
    ASSUME KnownFaults
    PROVE  Spec => [](ErrorInv)
<1>1. CallsTyped /\ ErrorInv /\ [Next]_vars => (ErrorInv)'
  BY StepErrorKnown
<1> QED
  BY <1>1, InitConnects, AlwaysTyped, PTL DEF Spec

LEMMA AlwaysConnects ==
    ASSUME NoSignals
    PROVE  Spec => [](ConnectInv)
<1>1. CallsTyped /\ ConnectInv /\ [Next]_vars => (ConnectInv)'
  BY StepConnects
<1> QED
  BY <1>1, InitConnects, AlwaysTyped, PTL DEF Spec

LEMMA AlwaysReaches ==
    ASSUME NoSignals, OpensOnce
    PROVE  Spec => []ReachInv
<1>1. CallsTyped /\ ConnectInv /\ ReachInv /\ [Next]_vars => ReachInv'
  BY StepReaches
<1> QED
  BY <1>1, InitConnects, AlwaysTyped, AlwaysConnects, PTL DEF Spec

(***************************************************************************)
(* The members of the object, the calls of the thread and what the kernel  *)
(* keeps of the socket have their types, with signals and for any use of   *)
(* Open.                                                                   *)
(***************************************************************************)
THEOREM ConnectTypes == Spec => []TypeOK
<1>1. CallsTyped => TypeOK
  BY DEF CallsTyped
<1> QED
  BY <1>1, AlwaysTyped, PTL

(***************************************************************************)
(* A failed Open leaves an error to ask for: whichever system call failed, *)
(* whatever errno held, with signals, and however often the descriptor is  *)
(* opened. The resolver must answer an address or HOST_NOT_FOUND, since    *)
(* the code stores no error for its other answers.                         *)
(***************************************************************************)
THEOREM FailureExplained ==
    ASSUME KnownFaults
    PROVE  Spec => []OpenErrorKnown
<1>1. ErrorInv => OpenErrorKnown
  BY DEF ErrorInv, OpenSaid, OpenReturned, OpenErrorKnown
<1> QED
  BY <1>1, AlwaysErrorKnown, PTL

(***************************************************************************)
(* Open returns true only after a handshake of the descriptor, on a        *)
(* blocking and on a polled socket, for resets and timeouts at any point   *)
(* and however often the descriptor is opened, unless a signal interrupts  *)
(* select().                                                               *)
(***************************************************************************)
THEOREM TrueIsConnected ==
    ASSUME NoSignals
    PROVE  Spec => []OpenTrueConnected
<1>1. ConnectInv => OpenTrueConnected
  BY DEF ConnectInv, Shaken, OpenSaid, OpenReturned, OpenTrueConnected
<1> QED
  BY <1>1, AlwaysConnects, PTL

(***************************************************************************)
(* After a successful Open the object's copy of the address is the peer    *)
(* that the kernel has, for as long as the connection is up.               *)
(***************************************************************************)
THEOREM CopyMatchesPeer ==
    ASSUME NoSignals
    PROVE  Spec => []CopyIsPeer
<1>1. ConnectInv => CopyIsPeer
  BY DEF ConnectInv, CopyInv, OpenSaid, OpenReturned, CopyIsPeer
<1> QED
  BY <1>1, AlwaysConnects, PTL

(***************************************************************************)
(* A successful Open has reached the address that this Open was given, as  *)
(* long as stream sockets are opened once; datagram sockets may be opened  *)
(* again and again.                                                        *)
(***************************************************************************)
THEOREM TargetReached ==
    ASSUME NoSignals, OpensOnce
    PROVE  Spec => []OpenReachesTarget
<1>1. CallsTyped /\ ConnectInv /\ ReachInv => OpenReachesTarget
  <2> SUFFICES ASSUME CallsTyped, ConnectInv, ReachInv, OpenSaid(TRUE)
               PROVE  reached = target
    BY DEF OpenReachesTarget, OpenReturned, OpenSaid
  <2>1. m_nSocketType \in {"Tcp", "Udp"}
    BY DEF CallsTyped, TypeOK
  <2>2. CASE m_nSocketType = "Tcp"
    BY <2>2 DEF ReachInv, StreamInv, ConnectInv, Shaken
  <2>3. CASE m_nSocketType = "Udp"
    BY <2>3 DEF ReachInv, DatagramInv
  <2> QED
    BY <2>1, <2>2, <2>3
<1> QED
  BY <1>1, AlwaysTyped, AlwaysConnects, AlwaysReaches, PTL
=============================================================================
