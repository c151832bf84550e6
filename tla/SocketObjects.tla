---------------------------- MODULE SocketObjects ----------------------------
(***************************************************************************)
(* The life cycle of CActiveSocket and CPassiveSocket objects used by one  *)
(* thread: construction, Initialize, SetBlocking and SetNonblocking, the   *)
(* socket options, Listen, BindMulticast, Accept, Close and destruction,   *)
(* over the process's descriptor table and the thread's errno.             *)
(*                                                                         *)
(* Each call is one step: the thread is inside the call until it returns,  *)
(* and nothing else touches the object meanwhile.  What the kernel may     *)
(* answer is chosen with \E.  The receive buffer, the byte counters, the   *)
(* addresses and the statistics timer do not influence the state kept      *)
(* here and are left out.                                                  *)
(***************************************************************************)
EXTENDS SocketErrors

CONSTANTS
    ActiveObjs,      \* storage for CActiveSocket objects
    PassiveObjs,     \* storage for CPassiveSocket objects
    Types,           \* the types each object may be constructed with
    Fds,             \* descriptor numbers the process can get
    INVALID_SOCKET,  \* ~0, the handle of an object without a descriptor
    Nobody,          \* the owner of a descriptor that is not open
    NoCause,         \* the cause of a failure without a failed system call
    AppErrnos,       \* numbers other calls of the thread leave in errno
    Platform         \* "LINUX" or "DARWIN", the two POSIX builds

Objs == ActiveObjs \cup PassiveObjs

CSocketType == {"Invalid", "Tcp", "Udp", "Tcp6", "Udp6", "Raw"}

ASSUME ObjectsAssumption ==
    /\ ActiveObjs \cap PassiveObjs = {}
    /\ Types \in [Objs -> SUBSET CSocketType]
    /\ INVALID_SOCKET \notin Fds
    /\ Nobody \notin Objs
    /\ NoCause \notin Errnos
    /\ AppErrnos \subseteq Errnos
    /\ Platform \in {"LINUX", "DARWIN"}

VARIABLES
    alive,           \* the objects between constructor and destructor
    m_nSocketType,   \* the type each object was constructed with
    m_socket,        \* handle of each object
    m_socketErrno,   \* last error of each object
    m_bIsBlocking,   \* what each object believes of its blocking mode
    fdOwner,         \* kernel: whom an open descriptor was handed to
    nonblocking,     \* kernel: descriptors with O_NONBLOCK set
    bound,           \* kernel: descriptors bind() succeeded on
    listening,       \* kernel: descriptors listen() succeeded on
    errno,           \* the thread's errno
    last             \* the call that returned last and what caused its result

objVars == <<alive, m_nSocketType, m_socket, m_socketErrno, m_bIsBlocking>>
fdVars  == <<fdOwner, nonblocking, bound, listening>>
vars    == <<alive, m_nSocketType, m_socket, m_socketErrno, m_bIsBlocking,
             fdOwner, nonblocking, bound, listening, errno, last>>

Calls == {"none", "Initialize", "SetMode", "Option", "BindInterface", "Listen",
          "BindMulticast", "Accept", "Close"}

(***************************************************************************)
(* cause is the errno of the system call that made the call fail,          *)
(* "EXIT_SUCCESS" when every system call its result depends on succeeded,  *)
(* or NoCause when the library refused without a failed system call.       *)
(***************************************************************************)
Returned(op, o, ret, cause) ==
    last' = [op |-> op, obj |-> o, ret |-> ret, cause |-> cause]

Outcomes == [op : Calls, obj : Objs \cup {Nobody}, ret : BOOLEAN,
             cause : Errnos \cup {NoCause}]

NoReturn == [op |-> "none", obj |-> Nobody, ret |-> TRUE,
             cause |-> "EXIT_SUCCESS"]

TypeOK ==
    /\ alive \subseteq Objs
    /\ m_nSocketType \in [Objs -> CSocketType]
    /\ m_socket \in [Objs -> Fds \cup {INVALID_SOCKET}]
    /\ m_socketErrno \in [Objs -> CSocketError]
    /\ m_bIsBlocking \in [Objs -> BOOLEAN]
    /\ fdOwner \in [Fds -> Objs \cup {Nobody}]
    /\ nonblocking \subseteq Fds
    /\ bound \subseteq Fds
    /\ listening \subseteq Fds
    /\ errno \in Errnos
    /\ last \in Outcomes

-----------------------------------------------------------------------------
(* The kernel's side of the calls. *)

IsOpen(fd) == fd \in Fds /\ fdOwner[fd] # Nobody

FreeFds == {fd \in Fds : fdOwner[fd] = Nobody}

(***************************************************************************)
(* socket(m_nSocketDomain, m_nSocketType, 0): the enumerators are passed   *)
(* as the kernel's type, so Tcp is SOCK_STREAM and Udp is SOCK_DGRAM but   *)
(* Tcp6, Udp6 and Raw are SOCK_RAW, SOCK_RDM and SOCK_SEQPACKET, which no  *)
(* kernel offers for those domains with protocol 0.                        *)
(***************************************************************************)
SocketSupported(o) == m_nSocketType[o] \in {"Tcp", "Udp"}

SocketErrnos(o) ==
    IF SocketSupported(o) THEN {"EMFILE"} ELSE {"EPROTONOSUPPORT", "EOTHER"}

BindErrnos(fd) ==
    IF ~IsOpen(fd) THEN {"EBADF"}
    ELSE IF fd \in bound THEN {"EINVAL"} ELSE {"EADDRINUSE", "EOTHER"}

(***************************************************************************)
(* accept() fails with EWOULDBLOCK only on a non-blocking descriptor; a    *)
(* blocking one waits, so the call simply has not returned yet.            *)
(***************************************************************************)
AcceptErrnos(fd) ==
    IF ~IsOpen(fd) THEN {"EBADF"}
    ELSE IF fd \notin listening THEN {"EINVAL"}
    ELSE {"ECONNABORTED", "EMFILE"} \cup
         (IF fd \in nonblocking THEN {"EWOULDBLOCK"} ELSE {})

(***************************************************************************)
(* close(): Linux releases a socket's descriptor and reports success.  On  *)
(* Darwin a close that waits for the SO_LINGER time of a connection can be *)
(* interrupted: it reports EINTR although the descriptor is released.      *)
(* Only clients have connections (Accept makes them, and Open, which is    *)
(* not in this module); a listener's close never waits.                    *)
(***************************************************************************)
CloseErrnos(fd) ==
    IF ~IsOpen(fd) THEN {"EBADF"}
    ELSE {e \in {"EINTR"} : Platform = "DARWIN" /\ fdOwner[fd] \in ActiveObjs}

(* A kernel that hands out descriptor fd to object o; the flags are new. *)
Allocate(fd, o, inherit) ==
    /\ fdOwner' = [fdOwner EXCEPT ![fd] = o]
    /\ nonblocking' = IF inherit THEN nonblocking \cup {fd}
                                 ELSE nonblocking \ {fd}
    /\ bound' = bound \ {fd}
    /\ listening' = listening \ {fd}

Release(released) ==
    /\ fdOwner' = [fd \in Fds |-> IF fd \in released THEN Nobody
                                                     ELSE fdOwner[fd]]
    /\ nonblocking' = nonblocking \ released
    /\ bound' = bound \ released
    /\ listening' = listening \ released

-----------------------------------------------------------------------------
(* CSimpleSocket *)

IsSocketValid(o) == m_socket[o] # INVALID_SOCKET

IsNonblocking(o) == ~m_bIsBlocking[o]

(***************************************************************************)
(* What a Close can do: sock is the object's new handle, released the      *)
(* descriptors the kernel lets go, errno the number it leaves, ret its     *)
(* result and cause the reason.  Without a descriptor no system call is    *)
(* made, and errno is translated all the same, whatever it holds.          *)
(***************************************************************************)
NothingToClose(e) ==
    [sock |-> INVALID_SOCKET, released |-> {}, errno |-> e,
     ret |-> FALSE, cause |-> NoCause]

CloseSucceeds(o, e) ==
    [sock |-> INVALID_SOCKET, released |-> {m_socket[o]}, errno |-> e,
     ret |-> TRUE, cause |-> "EXIT_SUCCESS"]

CloseErrs(o, c) ==
    [sock |-> m_socket[o], released |-> {m_socket[o]}, errno |-> c,
     ret |-> FALSE, cause |-> c]

(***************************************************************************)
(* Mutation: Close forgets to invalidate the handle it has closed.         *)
(***************************************************************************)
CloseKeepsHandle(o, e) ==
    IF IsSocketValid(o)
    THEN {[CloseSucceeds(o, e) EXCEPT !.sock = m_socket[o]]}
    ELSE {NothingToClose(e)}

(***************************************************************************)
(* Close on object o when errno = e.  The handle is invalidated only when  *)
(* close() reports success.                                                *)
(***************************************************************************)
CloseOutcomes(o, e) ==
    IF IsSocketValid(o)
    THEN (IF IsOpen(m_socket[o]) THEN {CloseSucceeds(o, e)} ELSE {})
         \cup {CloseErrs(o, c) : c \in CloseErrnos(m_socket[o])}
    ELSE {NothingToClose(e)}

(* A constructor runs in the storage of o. *)
Construct(o, nType) ==
    /\ o \notin alive
    /\ alive' = alive \cup {o}
    /\ m_nSocketType' = [m_nSocketType EXCEPT ![o] = nType]
    /\ m_socket' = [m_socket EXCEPT ![o] = INVALID_SOCKET]
    /\ m_socketErrno' = [m_socketErrno EXCEPT ![o] = "SocketInvalidSocket"]
    /\ m_bIsBlocking' = [m_bIsBlocking EXCEPT ![o] = TRUE]
    /\ last' = NoReturn
    /\ UNCHANGED <<fdVars, errno>>

InitializeSucceeds(o) ==
    /\ SocketSupported(o)
    /\ \E fd \in FreeFds :
         /\ m_socket' = [m_socket EXCEPT ![o] = fd]
         /\ Allocate(fd, o, FALSE)
    /\ errno' = "EXIT_SUCCESS"
    /\ Returned("Initialize", o, TRUE, "EXIT_SUCCESS")

InitializeFails(o, e) ==
    /\ m_socket' = [m_socket EXCEPT ![o] = INVALID_SOCKET]
    /\ errno' = e
    /\ Returned("Initialize", o, FALSE, e)
    /\ UNCHANGED fdVars

(***************************************************************************)
(* Initialize overwrites m_socket with whatever socket() returns: a handle *)
(* the object still holds is forgotten, and m_bIsBlocking is kept although *)
(* the new descriptor blocks.                                              *)
(***************************************************************************)
Initialize(o) ==
    /\ o \in alive
    /\ InitializeSucceeds(o) \/ \E e \in SocketErrnos(o) : InitializeFails(o, e)
    /\ m_socketErrno' =
         [m_socketErrno EXCEPT ![o] = TranslateSocketError(errno')]
    /\ UNCHANGED <<alive, m_nSocketType, m_bIsBlocking>>

(* fcntl(F_GETFL) on a handle that is not open, in both setters. *)
FcntlFails(o) ==
    /\ ~IsOpen(m_socket[o])
    /\ errno' = "EBADF"
    /\ m_socketErrno' =
         [m_socketErrno EXCEPT ![o] = TranslateSocketError("EBADF")]
    /\ Returned("SetMode", o, FALSE, "EBADF")
    /\ UNCHANGED <<m_bIsBlocking, nonblocking>>

(* F_SETFL succeeds; m_socketErrno is left alone. *)
FcntlSets(o, flagged, blocking) ==
    /\ IsOpen(m_socket[o])
    /\ nonblocking' = flagged
    /\ m_bIsBlocking' = [m_bIsBlocking EXCEPT ![o] = blocking]
    /\ Returned("SetMode", o, TRUE, "EXIT_SUCCESS")
    /\ UNCHANGED <<errno, m_socketErrno>>

SetNonblocking(o) ==
    /\ o \in alive
    /\ FcntlFails(o) \/ FcntlSets(o, nonblocking \cup {m_socket[o]}, FALSE)
    /\ UNCHANGED <<alive, m_nSocketType, m_socket, fdOwner, bound, listening>>

(***************************************************************************)
(* Mutation: SetBlocking sets the flags SetNonblocking sets.               *)
(***************************************************************************)
SetBlockingKeepsFlag(o) ==
    /\ o \in alive
    /\ FcntlFails(o) \/ FcntlSets(o, nonblocking \cup {m_socket[o]}, TRUE)
    /\ UNCHANGED <<alive, m_nSocketType, m_socket, fdOwner, bound, listening>>

(***************************************************************************)
(* Mutation: SetBlocking clears the flag and does not record it.           *)
(***************************************************************************)
SetBlockingUnrecorded(o) ==
    /\ o \in alive
    /\ \/ FcntlFails(o)
       \/ FcntlSets(o, nonblocking \ {m_socket[o]}, m_bIsBlocking[o])
    /\ UNCHANGED <<alive, m_nSocketType, m_socket, fdOwner, bound, listening>>

SetBlocking(o) ==
    /\ o \in alive
    /\ FcntlFails(o) \/ FcntlSets(o, nonblocking \ {m_socket[o]}, TRUE)
    /\ UNCHANGED <<alive, m_nSocketType, m_socket, fdOwner, bound, listening>>

(***************************************************************************)
(* The setsockopt() or getsockopt() of an option call of object o: answers *)
(* is what it may answer on an open descriptor, and always tells whether   *)
(* TranslateSocketError is called after a success as well, which leaves    *)
(* errno alone and so stores the code of some earlier failure.             *)
(***************************************************************************)
OptionAnswered(o, answers, always) ==
    \E e \in (IF IsOpen(m_socket[o]) THEN answers ELSE {"EBADF"}) :
        /\ errno' = IF e = "EXIT_SUCCESS" THEN errno ELSE e
        /\ m_socketErrno' =
             IF always \/ e # "EXIT_SUCCESS"
             THEN [m_socketErrno EXCEPT ![o] = TranslateSocketError(errno')]
             ELSE m_socketErrno
        /\ Returned("Option", o, e = "EXIT_SUCCESS", e)

(* A datagram socket has no option at the level IPPROTO_TCP. *)
TcpOptionAnswer(o) ==
    IF m_nSocketType[o] # "Udp" THEN "EXIT_SUCCESS"
    ELSE IF Platform = "LINUX" THEN "ENOPROTOOPT" ELSE "EINVAL"

(* SetOptionReuseAddr and SetOptionLinger. *)
SetSocketOption(o) == OptionAnswered(o, {"EXIT_SUCCESS"}, TRUE)

(* DisableNagleAlgoritm and EnableNagleAlgoritm. *)
SetNagleAlgorithm(o) == OptionAnswered(o, {TcpOptionAnswer(o)}, TRUE)

(* GetWindowSize and SetWindowSize. *)
WindowSize(o) ==
    IF IsSocketValid(o)
    THEN OptionAnswered(o, {"EXIT_SUCCESS"}, TRUE)
    ELSE /\ m_socketErrno' =
              [m_socketErrno EXCEPT ![o] = "SocketInvalidSocket"]
         /\ Returned("Option", o, FALSE, NoCause)
         /\ UNCHANGED errno

(* SetReceiveTimeout and SetSendTimeout; microseconds may be out of range. *)
SetTimeout(o) == OptionAnswered(o, {"EXIT_SUCCESS", "EOTHER"}, FALSE)

(* SetSocketDscp and GetSocketDscp, which do nothing without a handle. *)
SocketDscp(o) ==
    IF IsSocketValid(o)
    THEN OptionAnswered(o, {"EXIT_SUCCESS"}, FALSE)
    ELSE /\ Returned("Option", o, TRUE, "EXIT_SUCCESS")
         /\ UNCHANGED <<m_socketErrno, errno>>

(* An option the object's type does not have. *)
OptionRefused(o) ==
    /\ m_socketErrno' = [m_socketErrno EXCEPT ![o] = "SocketProtocolError"]
    /\ Returned("Option", o, FALSE, NoCause)
    /\ UNCHANGED errno

SetMulticast(o) ==
    IF m_nSocketType[o] = "Udp"
    THEN OptionAnswered(o, {"EXIT_SUCCESS"}, FALSE)
    ELSE OptionRefused(o)

(***************************************************************************)
(* BindInterface.  Whether a datagram object is in multicast mode is not   *)
(* kept here.  In that mode neither a NULL interface nor a failed          *)
(* setsockopt() stores a code.                                             *)
(***************************************************************************)
BindInterfaceAnswered(o, cause) ==
    /\ m_nSocketType[o] = "Udp"
    /\ Returned("BindInterface", o, cause = "EXIT_SUCCESS", cause)
    /\ UNCHANGED m_socketErrno

BindInterface(o) ==
    \/ OptionRefused(o)
    \/ /\ BindInterfaceAnswered(o, NoCause)
       /\ UNCHANGED errno
    \/ /\ IsOpen(m_socket[o])
       /\ BindInterfaceAnswered(o, "EXIT_SUCCESS")
       /\ UNCHANGED errno
    \/ /\ errno' = IF IsOpen(m_socket[o]) THEN "EOTHER" ELSE "EBADF"
       /\ BindInterfaceAnswered(o, errno')

Option(o) ==
    /\ o \in alive
    /\ \/ SetSocketOption(o)
       \/ SetNagleAlgorithm(o)
       \/ WindowSize(o)
       \/ SetTimeout(o)
       \/ SocketDscp(o)
       \/ SetMulticast(o)
       \/ BindInterface(o)
    /\ UNCHANGED <<alive, m_nSocketType, m_socket, m_bIsBlocking, fdVars>>

(* CSimpleSocket::Close called by the application. *)
Close(o) ==
    /\ o \in alive
    /\ \E c \in CloseOutcomes(o, errno) :
         /\ m_socket' = [m_socket EXCEPT ![o] = c.sock]
         /\ Release(c.released)
         /\ errno' = c.errno
         /\ m_socketErrno' =
              [m_socketErrno EXCEPT ![o] = TranslateSocketError(c.errno)]
         /\ Returned("Close", o, c.ret, c.cause)
    /\ UNCHANGED <<alive, m_nSocketType, m_bIsBlocking>>

(***************************************************************************)
(* Mutation: the destructor of the base class alone, which frees memory    *)
(* and does not close the socket.                                          *)
(***************************************************************************)
DestroyWithoutClose(o) ==
    /\ o \in alive
    /\ alive' = alive \ {o}
    /\ m_nSocketType' = [m_nSocketType EXCEPT ![o] = "Invalid"]
    /\ m_socket' = [m_socket EXCEPT ![o] = INVALID_SOCKET]
    /\ m_socketErrno' = [m_socketErrno EXCEPT ![o] = "SocketInvalidSocket"]
    /\ m_bIsBlocking' = [m_bIsBlocking EXCEPT ![o] = TRUE]
    /\ last' = NoReturn
    /\ UNCHANGED <<fdVars, errno>>

(***************************************************************************)
(* ~CActiveSocket and ~CPassiveSocket call Close.  The fields are gone     *)
(* afterwards; they are reset so that dead storage has one state.          *)
(***************************************************************************)
Destroy(o) ==
    /\ o \in alive
    /\ \E c \in CloseOutcomes(o, errno) :
         /\ Release(c.released)
         /\ errno' = c.errno
    /\ alive' = alive \ {o}
    /\ m_nSocketType' = [m_nSocketType EXCEPT ![o] = "Invalid"]
    /\ m_socket' = [m_socket EXCEPT ![o] = INVALID_SOCKET]
    /\ m_socketErrno' = [m_socketErrno EXCEPT ![o] = "SocketInvalidSocket"]
    /\ m_bIsBlocking' = [m_bIsBlocking EXCEPT ![o] = TRUE]
    /\ last' = NoReturn

-----------------------------------------------------------------------------
(* CPassiveSocket *)

(***************************************************************************)
(* errno after Listen's two setsockopt calls.  The second one passes       *)
(* IPPROTO_TCP, which a datagram socket does not have.                     *)
(***************************************************************************)
OptionErrno(o) ==
    IF ~IsOpen(m_socket[o]) THEN "EBADF"
    ELSE IF m_nSocketType[o] # "Udp" THEN errno ELSE TcpOptionAnswer(o)

(* bind() or listen() failed with e: close, keep the code of the failure. *)
ListenFails(o, e) ==
    \E c \in CloseOutcomes(o, e) :
        /\ m_socket' = [m_socket EXCEPT ![o] = c.sock]
        /\ Release(c.released)
        /\ errno' = c.errno
        /\ m_socketErrno' =
             [m_socketErrno EXCEPT ![o] = TranslateSocketError(e)]
        /\ Returned("Listen", o, FALSE, e)

(* A TCP socket also listens; a datagram socket is ready once bound. *)
ListenSucceeds(o) ==
    /\ IsOpen(m_socket[o])
    /\ m_socket[o] \notin bound
    /\ bound' = bound \cup {m_socket[o]}
    /\ listening' = IF m_nSocketType[o] = "Tcp"
                    THEN listening \cup {m_socket[o]} ELSE listening
    /\ errno' = OptionErrno(o)
    /\ m_socketErrno' =
         [m_socketErrno EXCEPT ![o] = TranslateSocketError(errno')]
    /\ Returned("Listen", o, TRUE, "EXIT_SUCCESS")
    /\ UNCHANGED <<m_socket, fdOwner, nonblocking>>

(***************************************************************************)
(* Listen.  listen() fails with EADDRINUSE if at all, and then closes the  *)
(* descriptor just as a failed bind() does.                                *)
(***************************************************************************)
Listen(o) ==
    /\ o \in alive \cap PassiveObjs
    /\ ListenSucceeds(o) \/ \E e \in BindErrnos(m_socket[o]) : ListenFails(o, e)
    /\ UNCHANGED <<alive, m_nSocketType, m_bIsBlocking>>

(* IP_ADD_MEMBERSHIP on a descriptor that was bound. *)
MembershipErrnos(o) ==
    IF m_nSocketType[o] = "Udp" THEN {"EINVAL", "EOTHER"} ELSE {"EPROTO"}

BindMulticastErrnos(o) ==
    BindErrnos(m_socket[o]) \cup
    (IF IsOpen(m_socket[o]) /\ m_socket[o] \notin bound
     THEN MembershipErrnos(o) ELSE {})

BindMulticastSucceeds(o) ==
    /\ IsOpen(m_socket[o])
    /\ m_socket[o] \notin bound
    /\ m_nSocketType[o] = "Udp"
    /\ bound' = bound \cup {m_socket[o]}
    /\ m_socketErrno' =
         [m_socketErrno EXCEPT ![o] = TranslateSocketError(errno)]
    /\ Returned("BindMulticast", o, TRUE, "EXIT_SUCCESS")
    /\ UNCHANGED <<m_socket, fdOwner, nonblocking, listening, errno>>

(* Unlike Listen, the error code is not restored after Close. *)
BindMulticastFails(o, e) ==
    \E c \in CloseOutcomes(o, e) :
        /\ m_socket' = [m_socket EXCEPT ![o] = c.sock]
        /\ Release(c.released)
        /\ errno' = c.errno
        /\ m_socketErrno' =
             [m_socketErrno EXCEPT ![o] = TranslateSocketError(c.errno)]
        /\ Returned("BindMulticast", o, FALSE, e)

BindMulticast(o) ==
    /\ o \in alive \cap PassiveObjs
    /\ \/ BindMulticastSucceeds(o)
       \/ \E e \in BindMulticastErrnos(o) : BindMulticastFails(o, e)
    /\ UNCHANGED <<alive, m_nSocketType, m_bIsBlocking>>

(* Accept on a socket that is not TCP. *)
AcceptWrongType(o) ==
    /\ o \in alive \cap PassiveObjs
    /\ m_nSocketType[o] # "Tcp"
    /\ m_socketErrno' = [m_socketErrno EXCEPT ![o] = "SocketProtocolError"]
    /\ Returned("Accept", o, FALSE, NoCause)
    /\ UNCHANGED <<alive, m_nSocketType, m_socket, m_bIsBlocking, fdVars,
                   errno>>

(***************************************************************************)
(* Accept returning a new object in the storage of a.  errno is zeroed     *)
(* before accept(), so the new object gets SocketSuccess; the listening    *)
(* object's own code changes only if an earlier round of the loop, waiting *)
(* in a blocking accept(), was interrupted.  getpeername() on the          *)
(* listening descriptor then fails and leaves ENOTCONN in errno.  Darwin's *)
(* accept() copies O_NONBLOCK to the new descriptor, Linux's does not.     *)
(***************************************************************************)
AcceptReturns(o, a, fd, interrupted) ==
    /\ o \in alive \cap PassiveObjs
    /\ m_nSocketType[o] = "Tcp"
    /\ IsOpen(m_socket[o])
    /\ m_socket[o] \in listening
    /\ interrupted => m_socket[o] \notin nonblocking
    /\ a \in ActiveObjs \ alive
    /\ fd \in FreeFds
    /\ Allocate(fd, a, Platform = "DARWIN" /\ m_socket[o] \in nonblocking)
    /\ alive' = alive \cup {a}
    /\ m_nSocketType' = [m_nSocketType EXCEPT ![a] = "Tcp"]
    /\ m_socket' = [m_socket EXCEPT ![a] = fd]
    /\ m_bIsBlocking' = [m_bIsBlocking EXCEPT ![a] = TRUE]
    /\ m_socketErrno' =
         [m_socketErrno EXCEPT
            ![a] = "SocketSuccess",
            ![o] = IF interrupted THEN "SocketInterrupted" ELSE @]
    /\ errno' = "ENOTCONN"
    /\ Returned("Accept", o, TRUE, "EXIT_SUCCESS")

(***************************************************************************)
(* Mutation: the failing branch records the error as the successful one    *)
(* does, with pClientSocket->TranslateSocketError(), in the object that is *)
(* about to be deleted.                                                    *)
(***************************************************************************)
AcceptFailsOnClient(o) ==
    /\ o \in alive \cap PassiveObjs
    /\ m_nSocketType[o] = "Tcp"
    /\ \E e \in AcceptErrnos(m_socket[o]) :
         /\ errno' = e
         /\ Returned("Accept", o, FALSE, e)
    /\ UNCHANGED <<alive, m_nSocketType, m_socket, m_socketErrno,
                   m_bIsBlocking, fdVars>>

(***************************************************************************)
(* Accept returning NULL.  The CActiveSocket it allocated is deleted again *)
(* before it held a descriptor.  EINTR is not here: the loop retries.      *)
(***************************************************************************)
AcceptFails(o) ==
    /\ o \in alive \cap PassiveObjs
    /\ m_nSocketType[o] = "Tcp"
    /\ \E e \in AcceptErrnos(m_socket[o]) :
         /\ errno' = e
         /\ m_socketErrno' =
              [m_socketErrno EXCEPT ![o] = TranslateSocketError(e)]
         /\ Returned("Accept", o, FALSE, e)
    /\ UNCHANGED <<alive, m_nSocketType, m_socket, m_bIsBlocking, fdVars>>

-----------------------------------------------------------------------------
(* Any other call of the thread may leave a number in errno. *)
OtherCall ==
    /\ errno' \in AppErrnos
    /\ last' = NoReturn
    /\ UNCHANGED <<objVars, fdVars>>

Init ==
    /\ alive = {}
    /\ m_nSocketType = [o \in Objs |-> "Invalid"]
    /\ m_socket = [o \in Objs |-> INVALID_SOCKET]
    /\ m_socketErrno = [o \in Objs |-> "SocketInvalidSocket"]
    /\ m_bIsBlocking = [o \in Objs |-> TRUE]
    /\ fdOwner = [fd \in Fds |-> Nobody]
    /\ nonblocking = {}
    /\ bound = {}
    /\ listening = {}
    /\ errno = "EXIT_SUCCESS"
    /\ last = NoReturn

Call(o) ==
    \/ \E nType \in Types[o] : Construct(o, nType)
    \/ Initialize(o)
    \/ SetNonblocking(o)
    \/ SetBlocking(o)
    \/ Option(o)
    \/ Listen(o)
    \/ BindMulticast(o)
    \/ AcceptWrongType(o)
    \/ \E a \in ActiveObjs, fd \in Fds, interrupted \in BOOLEAN :
         AcceptReturns(o, a, fd, interrupted)
    \/ AcceptFails(o)
    \/ Close(o)
    \/ Destroy(o)

Next == OtherCall \/ \E o \in Objs : Call(o)

Spec == Init /\ [][Next]_vars

-----------------------------------------------------------------------------
(***************************************************************************)
(* A live object's handle is a descriptor that is open and was handed to   *)
(* this very object, so IsSocketValid() tells the truth and no two objects *)
(* share a descriptor.  Threatened by every path that closes: Close, the   *)
(* destructors, a failed Listen or BindMulticast, a failed Accept.         *)
(***************************************************************************)
HandleOwned ==
    \A o \in alive : IsSocketValid(o) => fdOwner[m_socket[o]] = o

(***************************************************************************)
(* No call releases a descriptor that was handed to another object: the    *)
(* descriptor number a Close or a destructor passes to close() has not     *)
(* been given to somebody else since.                                      *)
(***************************************************************************)
ForeignKept ==
    \A fd \in Fds :
        (fdOwner[fd] # Nobody /\ fdOwner'[fd] # fdOwner[fd])
        => m_socket[fdOwner[fd]] = fd /\ m_socket'[fdOwner[fd]] # fd

NoForeignClose == [][ForeignKept]_vars

(***************************************************************************)
(* A descriptor can stay open without an object that could close it only   *)
(* because Initialize was called on an object that already held one; the   *)
(* failure paths, Accept and the destructors never lose one.               *)
(***************************************************************************)
Orphans == {fd \in Fds : fdOwner[fd] # Nobody /\ m_socket[fdOwner[fd]] # fd}

OrphansKept == Orphans' \subseteq Orphans \/ last'.op = "Initialize"

OrphanOnlyByInitialize == [][OrphansKept]_vars

(***************************************************************************)
(* An object whose descriptor has O_NONBLOCK set knows it: ConnectTCP      *)
(* relies on IsNonblocking() to decide whether EINPROGRESS is polled.      *)
(***************************************************************************)
NonblockingKnown ==
    \A o \in alive : m_socket[o] \in nonblocking => IsNonblocking(o)

(***************************************************************************)
(* The converse of NonblockingKnown does not hold: an object can believe   *)
(* its descriptor non-blocking while it blocks, so that ConnectTCP would   *)
(* sit in connect() past its timeout.  It comes about in one way only:     *)
(* Initialize gives a new, blocking descriptor to an object that was made  *)
(* non-blocking before.  SetBlocking, SetNonblocking, Accept, Close and    *)
(* the constructors, in any order, never bring it about.                   *)
(***************************************************************************)
Misled == {o \in alive : /\ IsSocketValid(o)
                         /\ IsNonblocking(o)
                         /\ m_socket[o] \notin nonblocking}

MisledExplained ==
    \A o \in Misled' \ Misled :
        IsNonblocking(o) /\ last'.op = "Initialize" /\ last'.obj = o

MisledOnlyByInitialize == [][MisledExplained]_vars

(***************************************************************************)
(* After Initialize, and after a failed option call, SetBlocking or        *)
(* SetNonblocking, Listen, BindMulticast, Accept or Close,                 *)
(* GetSocketError() is the translation of the error number of the system   *)
(* call that failed, whatever errno held before and whatever the clean-up  *)
(* did to it; where the library refused without a system call it is not    *)
(* SocketSuccess.  Two failures leave a code that says nothing of them and *)
(* are exempt: BindInterface in multicast mode stores none, and a Close    *)
(* without a descriptor (cause NoCause) stores that of an older failure or *)
(* SocketSuccess, although SimpleSocket.h:409-411 promises "the error code *)
(* for the failing" call.                                                  *)
(***************************************************************************)
SystemCallFailed == ~last.ret /\ last.cause # NoCause

Refused == ~last.ret /\ last.cause = NoCause /\ last.op # "Close"

ErrorNamesCause ==
    last.op # "BindInterface" =>
      /\ last.op = "Initialize" \/ SystemCallFailed
         => m_socketErrno[last.obj] = TranslateSocketError(last.cause)
      /\ Refused => m_socketErrno[last.obj] # "SocketSuccess"

=============================================================================
