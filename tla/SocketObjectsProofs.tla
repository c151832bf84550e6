------------------------- MODULE SocketObjectsProofs -------------------------
(***************************************************************************)
(* Proofs about SocketObjects for every set of objects, every assignment   *)
(* of types and every set of descriptors.                                  *)
(***************************************************************************)
EXTENDS SocketObjects, TLAPS

(***************************************************************************)
(* Whatever errno holds, TranslateSocketError stores a member of           *)
(* CSocketError: the switch has a default.                                 *)
(***************************************************************************)
LEMMA TranslationTyped ==
    \A e \in Errnos : TranslateSocketError(e) \in CSocketError
  BY DEF TranslateSocketError, CSocketError, Errnos

(* The result of Close on an object, on both platforms. *)
LEMMA CloseTyped ==
    ASSUME TypeOK, NEW o \in Objs, NEW e \in Errnos,
           NEW c \in CloseOutcomes(o, e)
    PROVE  /\ c.sock \in Fds \cup {INVALID_SOCKET}
           /\ c.released \subseteq Fds
           /\ c.errno \in Errnos
           /\ c.ret \in BOOLEAN
           /\ c.cause \in Errnos \cup {NoCause}
<1>1. CASE c = NothingToClose(e)
  BY <1>1 DEF NothingToClose
<1>2. CASE IsSocketValid(o) /\ c = CloseSucceeds(o, e)
  BY <1>2 DEF CloseSucceeds, TypeOK, IsSocketValid, Errnos
<1>3. ASSUME IsSocketValid(o), NEW n \in CloseErrnos(m_socket[o]),
             c = CloseErrs(o, n)
      PROVE  /\ c.sock \in Fds \cup {INVALID_SOCKET}
             /\ c.released \subseteq Fds
             /\ c.errno \in Errnos
             /\ c.ret \in BOOLEAN
             /\ c.cause \in Errnos \cup {NoCause}
  <2>1. n \in Errnos
    BY <1>3 DEF CloseErrnos, Errnos
  <2> QED
    BY <1>3, <2>1 DEF CloseErrs, TypeOK, IsSocketValid
<1> QED
  BY <1>1, <1>2, <1>3 DEF CloseOutcomes

(* What Returned and NoReturn store in last is typed. *)
LEMMA OutcomesTyped ==
    /\ NoReturn \in Outcomes
    /\ \A op \in Calls, o \in Objs, ret \in BOOLEAN,
          cause \in Errnos \cup {NoCause} :
         [op |-> op, obj |-> o, ret |-> ret, cause |-> cause] \in Outcomes
  BY DEF NoReturn, Outcomes, Calls, Errnos

(* The error numbers the models' system calls fail with are known. *)
LEMMA CausesTyped ==
    ASSUME NEW o \in Objs, NEW fd
    PROVE  /\ SocketErrnos(o) \subseteq Errnos
           /\ BindErrnos(fd) \subseteq Errnos
           /\ BindMulticastErrnos(o) \subseteq Errnos
           /\ AcceptErrnos(fd) \subseteq Errnos
  BY DEF SocketErrnos, BindErrnos, BindMulticastErrnos, MembershipErrnos,
         AcceptErrnos, Errnos

(* The numbers actions store in errno by name. *)
LEMMA NamedErrnos ==
    {"EXIT_SUCCESS", "EBADF", "ENOTCONN", "ENOPROTOOPT", "EINVAL"}
      \subseteq Errnos
  BY DEF Errnos

(***************************************************************************)
(* An option call moves no handle and no descriptor, and what it stores in *)
(* errno, m_socketErrno and last is typed.                                 *)
(***************************************************************************)
LEMMA OptionTyped ==
    ASSUME TypeOK, NEW o \in Objs, Option(o)
    PROVE  /\ UNCHANGED <<alive, m_nSocketType, m_socket, m_bIsBlocking,
                          fdOwner, nonblocking, bound, listening>>
           /\ errno' \in Errnos
           /\ m_socketErrno' \in [Objs -> CSocketError]
           /\ last' \in Outcomes
<1> DEFINE Goal == /\ errno' \in Errnos
                   /\ m_socketErrno' \in [Objs -> CSocketError]
                   /\ last' \in Outcomes
<1>0. errno \in Errnos /\ m_socketErrno \in [Objs -> CSocketError]
  BY DEF TypeOK
<1>1. ASSUME NEW answers \in SUBSET Errnos, NEW always \in BOOLEAN,
             OptionAnswered(o, answers, always)
      PROVE  Goal
  <2>1. PICK e \in Errnos :
          /\ errno' = IF e = "EXIT_SUCCESS" THEN errno ELSE e
          /\ m_socketErrno' =
               IF always \/ e # "EXIT_SUCCESS"
               THEN [m_socketErrno EXCEPT ![o] = TranslateSocketError(errno')]
               ELSE m_socketErrno
          /\ Returned("Option", o, e = "EXIT_SUCCESS", e)
    BY <1>1, NamedErrnos DEF OptionAnswered
  <2>2. errno' \in Errnos
    BY <1>0, <2>1
  <2> QED
    BY <1>0, <2>1, <2>2, TranslationTyped, OutcomesTyped DEF Returned, Calls
<1>2. /\ {"EXIT_SUCCESS"} \in SUBSET Errnos
      /\ {"EXIT_SUCCESS", "EOTHER"} \in SUBSET Errnos
      /\ {TcpOptionAnswer(o)} \in SUBSET Errnos
  BY DEF Errnos, TcpOptionAnswer
<1>3. ASSUME SetSocketOption(o) \/ SetNagleAlgorithm(o) \/ SetTimeout(o)
      PROVE  Goal
  BY <1>1, <1>2, <1>3 DEF SetSocketOption, SetNagleAlgorithm, SetTimeout
<1>4. ASSUME WindowSize(o) PROVE Goal
  <2>1. "SocketInvalidSocket" \in CSocketError
    BY DEF CSocketError
  <2> QED
    BY <1>0, <1>1, <1>2, <1>4, <2>1, OutcomesTyped
       DEF WindowSize, Returned, Calls
<1>5. ASSUME SocketDscp(o) PROVE Goal
  BY <1>0, <1>1, <1>2, <1>5, OutcomesTyped, NamedErrnos
     DEF SocketDscp, Returned, Calls
<1>6. ASSUME OptionRefused(o) PROVE Goal
  <2>1. "SocketProtocolError" \in CSocketError
    BY DEF CSocketError
  <2> QED
    BY <1>0, <1>6, <2>1, OutcomesTyped DEF OptionRefused, Returned, Calls
<1>7. ASSUME SetMulticast(o) PROVE Goal
  BY <1>1, <1>2, <1>6, <1>7 DEF SetMulticast
<1>8. ASSUME BindInterface(o) PROVE Goal
  <2>1. "EOTHER" \in Errnos
    BY DEF Errnos
  <2>2. ASSUME NEW cause \in Errnos \cup {NoCause},
               BindInterfaceAnswered(o, cause), errno' \in Errnos
        PROVE  Goal
    BY <1>0, <2>2, OutcomesTyped DEF BindInterfaceAnswered, Returned, Calls
  <2> QED
    BY <1>0, <1>6, <1>8, <2>1, <2>2, NamedErrnos DEF BindInterface
<1>9. Goal
  BY <1>3, <1>4, <1>5, <1>7, <1>8 DEF Option
<1> QED
  BY <1>9 DEF Option, fdVars

-----------------------------------------------------------------------------
(***************************************************************************)
(* One step keeps every field in its type.                                 *)
(***************************************************************************)
LEMMA TypeStep == TypeOK /\ [Next]_vars => TypeOK'
<1> SUFFICES ASSUME TypeOK, [Next]_vars PROVE TypeOK'
  OBVIOUS
<1> USE ObjectsAssumption DEF Objs
<1>0. errno \in Errnos
  BY DEF TypeOK
<1>1. ASSUME NEW o \in Objs, NEW nType \in Types[o], Construct(o, nType)
      PROVE  TypeOK'
  BY <1>1, OutcomesTyped
     DEF Construct, TypeOK, CSocketError, CSocketType, fdVars
<1>2. ASSUME NEW o \in Objs, Initialize(o) PROVE TypeOK'
  <2>1. CASE InitializeSucceeds(o)
    <3>1. PICK fd \in FreeFds : /\ m_socket' = [m_socket EXCEPT ![o] = fd]
                                 /\ Allocate(fd, o, FALSE)
      BY <2>1 DEF InitializeSucceeds
    <3> QED
      BY <1>2, <2>1, <3>1, TranslationTyped, OutcomesTyped, NamedErrnos
         DEF InitializeSucceeds, Initialize, TypeOK, Allocate, Returned,
             FreeFds, Calls
  <2>2. ASSUME NEW e \in SocketErrnos(o), InitializeFails(o, e) PROVE TypeOK'
    BY <1>2, <2>2, TranslationTyped, OutcomesTyped, CausesTyped
       DEF InitializeFails, Initialize, TypeOK, Returned, fdVars, Calls
  <2> QED
    BY <1>2, <2>1, <2>2 DEF Initialize
<1>3. ASSUME NEW o \in Objs, SetNonblocking(o) \/ SetBlocking(o) PROVE TypeOK'
  <2>1. UNCHANGED <<alive, m_nSocketType, m_socket, fdOwner, bound, listening>>
    BY <1>3 DEF SetNonblocking, SetBlocking
  <2>2. CASE FcntlFails(o)
    <3>1. last' \in Outcomes
      BY <2>2, OutcomesTyped, NamedErrnos DEF FcntlFails, Returned, Calls
    <3> QED
      BY <2>1, <2>2, <3>1, TranslationTyped, NamedErrnos
         DEF FcntlFails, TypeOK
  <2>3. ASSUME NEW flagged \in {nonblocking \cup {m_socket[o]},
                                nonblocking \ {m_socket[o]}},
               NEW blocking \in BOOLEAN, FcntlSets(o, flagged, blocking)
        PROVE  TypeOK'
    <3>1. flagged \subseteq Fds
      BY <2>3 DEF TypeOK, FcntlSets, IsOpen
    <3>2. last' \in Outcomes
      BY <2>3, OutcomesTyped, NamedErrnos DEF FcntlSets, Returned, Calls
    <3> QED
      BY <2>1, <2>3, <3>1, <3>2 DEF FcntlSets, TypeOK
  <2> QED
    BY <1>3, <2>2, <2>3 DEF SetNonblocking, SetBlocking
<1>4. ASSUME NEW o \in Objs, Close(o) PROVE TypeOK'
  <2>1. PICK c \in CloseOutcomes(o, errno) :
          /\ m_socket' = [m_socket EXCEPT ![o] = c.sock]
          /\ Release(c.released)
          /\ errno' = c.errno
          /\ m_socketErrno' =
               [m_socketErrno EXCEPT ![o] = TranslateSocketError(c.errno)]
          /\ Returned("Close", o, c.ret, c.cause)
    BY <1>4 DEF Close
  <2> QED
    BY <1>0, <1>4, <2>1, CloseTyped, TranslationTyped, OutcomesTyped
       DEF Close, Release, TypeOK, Returned, Calls
<1>5. ASSUME NEW o \in Objs, Destroy(o) PROVE TypeOK'
  <2>1. PICK c \in CloseOutcomes(o, errno) :
          Release(c.released) /\ errno' = c.errno
    BY <1>5 DEF Destroy
  <2> QED
    BY <1>0, <1>5, <2>1, CloseTyped, OutcomesTyped
       DEF Destroy, Release, TypeOK, CSocketError, CSocketType
<1>6. ASSUME NEW o \in Objs, Listen(o) PROVE TypeOK'
  <2>1. ASSUME NEW e \in BindErrnos(m_socket[o]), ListenFails(o, e)
        PROVE  TypeOK'
    <3>1. e \in Errnos
      BY <2>1, CausesTyped
    <3>2. PICK c \in CloseOutcomes(o, e) :
            /\ m_socket' = [m_socket EXCEPT ![o] = c.sock]
            /\ Release(c.released)
            /\ errno' = c.errno
            /\ m_socketErrno' =
                 [m_socketErrno EXCEPT ![o] = TranslateSocketError(e)]
            /\ Returned("Listen", o, FALSE, e)
      BY <2>1 DEF ListenFails
    <3> QED
      BY <1>6, <3>1, <3>2, CloseTyped, TranslationTyped, OutcomesTyped
         DEF Listen, Release, TypeOK, Returned, Calls
  <2>2. CASE ListenSucceeds(o)
    <3>1. m_socket[o] \in Fds /\ errno' \in Errnos
      BY <1>0, <2>2, NamedErrnos DEF ListenSucceeds, IsOpen, OptionErrno, TcpOptionAnswer
    <3>2. listening' \subseteq Fds /\ bound' \subseteq Fds
      BY <2>2, <3>1 DEF ListenSucceeds, TypeOK
    <3> QED
      BY <1>6, <2>2, <3>1, <3>2, TranslationTyped, OutcomesTyped, NamedErrnos
         DEF Listen, ListenSucceeds, TypeOK, Returned, Calls
  <2> QED
    BY <1>6, <2>1, <2>2 DEF Listen
<1>7. ASSUME NEW o \in Objs, BindMulticast(o) PROVE TypeOK'
  <2>1. ASSUME NEW e \in BindMulticastErrnos(o), BindMulticastFails(o, e)
        PROVE  TypeOK'
    <3>1. e \in Errnos
      BY <2>1, CausesTyped
    <3>2. PICK c \in CloseOutcomes(o, e) :
            /\ m_socket' = [m_socket EXCEPT ![o] = c.sock]
            /\ Release(c.released)
            /\ errno' = c.errno
            /\ m_socketErrno' =
                 [m_socketErrno EXCEPT ![o] = TranslateSocketError(c.errno)]
            /\ Returned("BindMulticast", o, FALSE, e)
      BY <2>1 DEF BindMulticastFails
    <3> QED
      BY <1>7, <3>1, <3>2, CloseTyped, TranslationTyped, OutcomesTyped
         DEF BindMulticast, Release, TypeOK, Returned, Calls
  <2>2. CASE BindMulticastSucceeds(o)
    BY <1>0, <1>7, <2>2, TranslationTyped, OutcomesTyped, NamedErrnos
       DEF BindMulticast, BindMulticastSucceeds, TypeOK, Returned, Calls, IsOpen
  <2> QED
    BY <1>7, <2>1, <2>2 DEF BindMulticast
<1>8. ASSUME NEW o \in Objs, AcceptWrongType(o) PROVE TypeOK'
  BY <1>8, OutcomesTyped
     DEF AcceptWrongType, TypeOK, CSocketError, fdVars, Returned, Calls
<1>9. ASSUME NEW o \in Objs, NEW a \in ActiveObjs, NEW fd \in Fds,
             NEW interrupted \in BOOLEAN,
             AcceptReturns(o, a, fd, interrupted)
      PROVE  TypeOK'
  <2>1. "SocketSuccess" \in CSocketError /\ "SocketInterrupted" \in CSocketError
    BY DEF CSocketError
  <2> QED
    BY <1>9, <2>1, OutcomesTyped, NamedErrnos
       DEF AcceptReturns, Allocate, TypeOK, CSocketType, Returned, Calls
<1>10. ASSUME NEW o \in Objs, AcceptFails(o) PROVE TypeOK'
  <2>1. PICK e \in AcceptErrnos(m_socket[o]) :
          /\ errno' = e
          /\ m_socketErrno' =
               [m_socketErrno EXCEPT ![o] = TranslateSocketError(e)]
          /\ Returned("Accept", o, FALSE, e)
    BY <1>10 DEF AcceptFails
  <2>2. e \in Errnos
    BY CausesTyped
  <2> QED
    BY <1>10, <2>1, <2>2, TranslationTyped, OutcomesTyped
       DEF AcceptFails, TypeOK, Returned, Calls, fdVars
<1>11. ASSUME OtherCall PROVE TypeOK'
  BY <1>11, OutcomesTyped DEF OtherCall, TypeOK, objVars, fdVars
<1>12. ASSUME UNCHANGED vars PROVE TypeOK'
  BY <1>12 DEF vars, TypeOK
<1>13. ASSUME NEW o \in Objs, Option(o) PROVE TypeOK'
  BY <1>13, OptionTyped DEF TypeOK
<1> QED
  BY <1>1, <1>2, <1>3, <1>4, <1>5, <1>6, <1>7, <1>8, <1>9, <1>10, <1>11,
     <1>12, <1>13 DEF Next, Call

(***************************************************************************)
(* Type correctness, on both platforms: in particular every code that      *)
(* TranslateSocketError or SetSocketError stores in m_socketErrno is one   *)
(* the enumeration CSocketError declares.                                  *)
(***************************************************************************)
THEOREM TypeCorrect == Spec => []TypeOK
<1>1. Init => TypeOK
  BY ObjectsAssumption, OutcomesTyped, NamedErrnos
     DEF Init, TypeOK, Objs, CSocketError, CSocketType
<1> QED
  BY <1>1, TypeStep, PTL DEF Spec

-----------------------------------------------------------------------------
(***************************************************************************)
(* Ownership on Linux.  HandleOwned is not inductive alone: a constructor  *)
(* and Accept write into dead storage, so its handle has to be known too,  *)
(* and TypeOK is needed to apply the functions.                            *)
(***************************************************************************)
DeadHoldsNothing == \A o \in Objs \ alive : m_socket[o] = INVALID_SOCKET

OwnershipInv ==
    /\ TypeOK
    /\ DeadHoldsNothing
    /\ HandleOwned
    /\ NonblockingKnown

(* On Linux a Close of a live object always ends with an invalid handle. *)
LEMMA CloseOnLinux ==
    ASSUME Platform = "LINUX", OwnershipInv, NEW o \in alive,
           NEW e \in Errnos, NEW c \in CloseOutcomes(o, e)
    PROVE  /\ c.sock = INVALID_SOCKET
           /\ c.released = {fd \in Fds : m_socket[o] = fd}
<1> USE ObjectsAssumption
<1>1. o \in Objs /\ m_socket[o] \in Fds \cup {INVALID_SOCKET}
  BY DEF OwnershipInv, TypeOK
<1>2. CASE IsSocketValid(o)
  <2>1. IsOpen(m_socket[o])
    BY <1>1, <1>2
       DEF OwnershipInv, HandleOwned, IsOpen, IsSocketValid
  <2>2. CloseErrnos(m_socket[o]) = {}
    BY <2>1 DEF CloseErrnos
  <2>3. c = CloseSucceeds(o, e)
    BY <1>2, <2>1, <2>2 DEF CloseOutcomes
  <2> QED
    BY <1>1, <1>2, <2>3 DEF CloseSucceeds, IsSocketValid
<1>3. CASE ~IsSocketValid(o)
  BY <1>1, <1>3 DEF CloseOutcomes, NothingToClose, IsSocketValid
<1> QED
  BY <1>2, <1>3

(* A step that moves no handle and no descriptor. *)
LEMMA QuietStep ==
    ASSUME OwnershipInv, TypeOK', UNCHANGED <<m_socket, fdOwner>>,
           alive \subseteq alive',
           \A o \in alive' : m_socket[o] \in nonblocking' => ~m_bIsBlocking'[o]
    PROVE  OwnershipInv' /\ ForeignKept /\ OrphansKept
<1>1. HandleOwned' /\ DeadHoldsNothing'
  BY ObjectsAssumption
     DEF OwnershipInv, HandleOwned, DeadHoldsNothing, IsSocketValid, TypeOK
<1>2. NonblockingKnown'
  BY DEF NonblockingKnown, IsNonblocking
<1> QED
  BY <1>1, <1>2 DEF OwnershipInv, ForeignKept, OrphansKept, Orphans

(* A step that closes the handle of o, and may destroy o. *)
LEMMA CloseStep ==
    ASSUME OwnershipInv, TypeOK', NEW o \in alive,
           m_socket' = [m_socket EXCEPT ![o] = INVALID_SOCKET],
           Release({fd \in Fds : m_socket[o] = fd}),
           alive' = alive \/ alive' = alive \ {o},
           \A p \in Objs \ {o} : m_bIsBlocking'[p] = m_bIsBlocking[p]
    PROVE  OwnershipInv' /\ ForeignKept /\ OrphansKept
<1> USE ObjectsAssumption
<1>1. /\ o \in Objs
      /\ alive \subseteq Objs
      /\ m_socket \in [Objs -> Fds \cup {INVALID_SOCKET}]
      /\ fdOwner \in [Fds -> Objs \cup {Nobody}]
      /\ nonblocking \subseteq Fds
  BY DEF OwnershipInv, TypeOK
<1>2. \A fd \in Fds : fdOwner'[fd] = IF m_socket[o] = fd THEN Nobody
                                                       ELSE fdOwner[fd]
  BY DEF Release
<1>3. \A fd \in Fds : m_socket[o] = fd => fdOwner[fd] = o
  BY DEF OwnershipInv, HandleOwned, IsSocketValid
<1>4. HandleOwned'
  BY <1>1, <1>2, <1>3 DEF OwnershipInv, HandleOwned, IsSocketValid
<1>5. DeadHoldsNothing'
  BY <1>1 DEF OwnershipInv, DeadHoldsNothing
<1>6. NonblockingKnown'
  BY <1>1 DEF OwnershipInv, NonblockingKnown, IsNonblocking, Release
<1>7. ForeignKept
  BY <1>1, <1>2, <1>3 DEF ForeignKept
<1>8. Orphans' \subseteq Orphans
  BY <1>1, <1>2, <1>3 DEF Orphans
<1> QED
  BY <1>4, <1>5, <1>6, <1>7, <1>8 DEF OwnershipInv, OrphansKept

(* A step in which the kernel hands a fresh descriptor to o. *)
LEMMA AllocateStep ==
    ASSUME OwnershipInv, TypeOK', NEW o \in Objs, NEW fd \in FreeFds,
           Allocate(fd, o, FALSE),
           m_socket' = [m_socket EXCEPT ![o] = fd],
           alive' = alive \cup {o},
           \A p \in Objs \ {o} : m_bIsBlocking'[p] = m_bIsBlocking[p]
    PROVE  /\ OwnershipInv'
           /\ ForeignKept
           /\ o \notin alive => OrphansKept
<1> USE ObjectsAssumption
<1>1. /\ alive \subseteq Objs
      /\ fd \in Fds
      /\ fdOwner[fd] = Nobody
      /\ m_socket \in [Objs -> Fds \cup {INVALID_SOCKET}]
      /\ fdOwner \in [Fds -> Objs \cup {Nobody}]
      /\ nonblocking \subseteq Fds
  BY DEF OwnershipInv, TypeOK, FreeFds
<1>2. HandleOwned'
  BY <1>1 DEF OwnershipInv, HandleOwned, IsSocketValid, Allocate
<1>3. DeadHoldsNothing'
  BY <1>1 DEF OwnershipInv, DeadHoldsNothing
<1>4. NonblockingKnown'
  BY <1>1 DEF OwnershipInv, NonblockingKnown, IsNonblocking, Allocate
<1>5. ForeignKept
  BY <1>1 DEF ForeignKept, Allocate
<1>6. ASSUME o \notin alive PROVE Orphans' \subseteq Orphans
  <2>1. m_socket[o] = INVALID_SOCKET
    BY <1>6 DEF OwnershipInv, DeadHoldsNothing
  <2>2. \A g \in Fds \ {fd} : fdOwner'[g] = fdOwner[g]
    BY <1>1 DEF Allocate
  <2>3. fdOwner'[fd] = o /\ m_socket'[o] = fd
    BY <1>1 DEF Allocate
  <2> QED
    BY <1>1, <2>1, <2>2, <2>3 DEF Orphans
<1> QED
  BY <1>2, <1>3, <1>4, <1>5, <1>6 DEF OwnershipInv, OrphansKept

(* Every step on Linux falls under one of the three lemmas above. *)
LEMMA OwnershipStep ==
    ASSUME Platform = "LINUX", OwnershipInv, [Next]_vars
    PROVE  OwnershipInv' /\ ForeignKept /\ OrphansKept
<1> USE ObjectsAssumption
<1> DEFINE Goal == OwnershipInv' /\ ForeignKept /\ OrphansKept
<1>0. /\ TypeOK /\ TypeOK'
      /\ alive \subseteq Objs
      /\ errno \in Errnos
      /\ m_socket \in [Objs -> Fds \cup {INVALID_SOCKET}]
      /\ m_bIsBlocking \in [Objs -> BOOLEAN]
      /\ \A p \in alive : m_socket[p] \in nonblocking => ~m_bIsBlocking[p]
  BY TypeStep DEF OwnershipInv, TypeOK, NonblockingKnown, IsNonblocking
<1>1. ASSUME NEW o \in Objs, NEW nType \in Types[o], Construct(o, nType)
      PROVE  Goal
  <2>1. UNCHANGED <<m_socket, fdOwner, nonblocking>>
    BY <1>0, <1>1
       DEF Construct, OwnershipInv, DeadHoldsNothing, fdVars
  <2>2. alive' = alive \cup {o} /\ o \notin alive
    BY <1>1 DEF Construct
  <2>3. \A p \in alive' : m_socket[p] \in nonblocking' => ~m_bIsBlocking'[p]
    BY <1>0, <1>1, <2>1, <2>2
       DEF Construct, OwnershipInv, DeadHoldsNothing, TypeOK
  <2> QED
    BY <1>0, <2>1, <2>2, <2>3, QuietStep
<1>2. ASSUME NEW o \in Objs, Initialize(o) PROVE Goal
  <2>1. o \in alive /\ UNCHANGED <<alive, m_bIsBlocking>>
    BY <1>2 DEF Initialize
  <2>2. CASE InitializeSucceeds(o)
    <3>1. PICK fd \in FreeFds : /\ m_socket' = [m_socket EXCEPT ![o] = fd]
                                 /\ Allocate(fd, o, FALSE)
      BY <2>2 DEF InitializeSucceeds
    <3>2. alive' = alive \cup {o}
      BY <2>1
    <3>3. OwnershipInv' /\ ForeignKept
      BY <1>0, <2>1, <3>1, <3>2, AllocateStep
    <3>4. last'.op = "Initialize"
      BY <2>2 DEF InitializeSucceeds, Returned
    <3> QED
      BY <3>3, <3>4 DEF OrphansKept
  <2>3. ASSUME NEW e \in SocketErrnos(o), InitializeFails(o, e) PROVE Goal
    <3>1. /\ m_socket' = [m_socket EXCEPT ![o] = INVALID_SOCKET]
          /\ UNCHANGED <<fdOwner, nonblocking>>
      BY <2>3 DEF InitializeFails, fdVars
    <3>2. HandleOwned' /\ DeadHoldsNothing'
      BY <1>0, <2>1, <3>1
         DEF OwnershipInv, HandleOwned, DeadHoldsNothing, IsSocketValid
    <3>3. NonblockingKnown'
      BY <1>0, <2>1, <3>1 DEF NonblockingKnown, IsNonblocking, TypeOK
    <3>4. last'.op = "Initialize"
      BY <2>3 DEF InitializeFails, Returned
    <3> QED
      BY <1>0, <2>1, <3>1, <3>2, <3>3, <3>4
         DEF OwnershipInv, ForeignKept, OrphansKept
  <2> QED
    BY <1>2, <2>2, <2>3 DEF Initialize
<1>3. ASSUME NEW o \in Objs, SetNonblocking(o) PROVE Goal
  <2>1. UNCHANGED <<alive, m_socket, fdOwner>>
    BY <1>3 DEF SetNonblocking
  <2>2. CASE FcntlFails(o)
    BY <1>0, <2>1, <2>2, QuietStep DEF FcntlFails
  <2>3. CASE FcntlSets(o, nonblocking \cup {m_socket[o]}, FALSE)
    <3>1. \A p \in alive : p # o => m_socket[p] # m_socket[o]
      BY <1>3, <2>3
         DEF SetNonblocking, FcntlSets, OwnershipInv, HandleOwned, IsOpen,
             IsSocketValid
    <3>2. \A p \in alive' : m_socket[p] \in nonblocking' => ~m_bIsBlocking'[p]
      BY <1>0, <2>1, <2>3, <3>1 DEF FcntlSets
    <3> QED
      BY <1>0, <2>1, <3>2, QuietStep
  <2> QED
    BY <1>3, <2>2, <2>3 DEF SetNonblocking
<1>4. ASSUME NEW o \in Objs, SetBlocking(o) PROVE Goal
  <2>1. UNCHANGED <<alive, m_socket, fdOwner>>
    BY <1>4 DEF SetBlocking
  <2>2. CASE FcntlFails(o)
    BY <1>0, <2>1, <2>2, QuietStep DEF FcntlFails
  <2>3. CASE FcntlSets(o, nonblocking \ {m_socket[o]}, TRUE)
    <3>1. \A p \in alive' : m_socket[p] \in nonblocking' => ~m_bIsBlocking'[p]
      BY <1>0, <2>1, <2>3 DEF FcntlSets
    <3> QED
      BY <1>0, <2>1, <3>1, QuietStep
  <2> QED
    BY <1>4, <2>2, <2>3 DEF SetBlocking
<1>5. ASSUME NEW o \in alive, NEW e \in Errnos, NEW c \in CloseOutcomes(o, e),
             m_socket' = [m_socket EXCEPT ![o] = c.sock],
             Release(c.released),
             UNCHANGED <<alive, m_bIsBlocking>>
      PROVE  Goal
  <2>1. c.sock = INVALID_SOCKET /\ c.released = {fd \in Fds : m_socket[o] = fd}
    BY CloseOnLinux
  <2> QED
    BY <1>0, <1>5, <2>1, CloseStep
<1>6. ASSUME NEW o \in Objs, Close(o) PROVE Goal
  BY <1>0, <1>5, <1>6 DEF Close
<1>7. ASSUME NEW o \in Objs, Destroy(o) PROVE Goal
  <2>1. PICK c \in CloseOutcomes(o, errno) : Release(c.released)
    BY <1>7 DEF Destroy
  <2>2. o \in alive /\ c.released = {fd \in Fds : m_socket[o] = fd}
    BY <1>0, <1>7, <2>1, CloseOnLinux DEF Destroy
  <2>3. \A p \in Objs \ {o} : m_bIsBlocking'[p] = m_bIsBlocking[p]
    BY <1>0, <1>7 DEF Destroy
  <2> QED
    BY <1>0, <1>7, <2>1, <2>2, <2>3, CloseStep DEF Destroy
<1>8. ASSUME NEW o \in Objs, Listen(o) PROVE Goal
  <2>1. o \in alive /\ UNCHANGED <<alive, m_bIsBlocking>>
    BY <1>8 DEF Listen
  <2>2. CASE ListenSucceeds(o)
    BY <1>0, <2>1, <2>2, QuietStep DEF ListenSucceeds
  <2>3. ASSUME NEW e \in BindErrnos(m_socket[o]), ListenFails(o, e) PROVE Goal
    <3>1. e \in Errnos
      BY <2>3, CausesTyped
    <3> QED
      BY <1>5, <2>1, <2>3, <3>1 DEF ListenFails
  <2> QED
    BY <1>8, <2>2, <2>3 DEF Listen
<1>9. ASSUME NEW o \in Objs, BindMulticast(o) PROVE Goal
  <2>1. o \in alive /\ UNCHANGED <<alive, m_bIsBlocking>>
    BY <1>9 DEF BindMulticast
  <2>2. CASE BindMulticastSucceeds(o)
    BY <1>0, <2>1, <2>2, QuietStep DEF BindMulticastSucceeds
  <2>3. ASSUME NEW e \in BindMulticastErrnos(o), BindMulticastFails(o, e)
        PROVE  Goal
    <3>1. e \in Errnos
      BY <2>3, CausesTyped
    <3> QED
      BY <1>5, <2>1, <2>3, <3>1 DEF BindMulticastFails
  <2> QED
    BY <1>9, <2>2, <2>3 DEF BindMulticast
<1>10. ASSUME NEW o \in Objs, AcceptWrongType(o) \/ AcceptFails(o) PROVE Goal
  <2>1. UNCHANGED <<alive, m_socket, m_bIsBlocking, fdOwner, nonblocking>>
    BY <1>10 DEF AcceptWrongType, AcceptFails, fdVars
  <2> QED
    BY <1>0, <2>1, QuietStep
<1>11. ASSUME NEW o \in Objs, NEW a \in ActiveObjs, NEW fd \in Fds,
              NEW interrupted \in BOOLEAN,
              AcceptReturns(o, a, fd, interrupted)
       PROVE  Goal
  <2>1. /\ a \in Objs /\ a \notin alive /\ fd \in FreeFds
        /\ Allocate(fd, a, FALSE)
        /\ m_socket' = [m_socket EXCEPT ![a] = fd]
        /\ alive' = alive \cup {a}
    BY <1>11 DEF AcceptReturns, Objs
  <2>2. \A p \in Objs \ {a} : m_bIsBlocking'[p] = m_bIsBlocking[p]
    BY <1>0, <1>11 DEF AcceptReturns
  <2> QED
    BY <1>0, <2>1, <2>2, AllocateStep
<1>12. ASSUME OtherCall \/ UNCHANGED vars PROVE Goal
  <2>1. UNCHANGED <<alive, m_socket, m_bIsBlocking, fdOwner, nonblocking>>
    BY <1>12 DEF OtherCall, objVars, fdVars, vars
  <2> QED
    BY <1>0, <2>1, QuietStep
<1>13. ASSUME NEW o \in Objs, Option(o) PROVE Goal
  <2>1. UNCHANGED <<alive, m_socket, m_bIsBlocking, fdOwner, nonblocking>>
    BY <1>0, <1>13, OptionTyped
  <2> QED
    BY <1>0, <2>1, QuietStep
<1> QED
  BY <1>1, <1>2, <1>3, <1>4, <1>6, <1>7, <1>8, <1>9, <1>10, <1>11, <1>12, <1>13
     DEF Next, Call

(* The inductive invariant holds from the start and in every state. *)
LEMMA OwnershipInvariant ==
    ASSUME Platform = "LINUX"
    PROVE  Spec => []OwnershipInv
<1>1. Init => OwnershipInv
  BY ObjectsAssumption, OutcomesTyped, NamedErrnos
     DEF Init, OwnershipInv, TypeOK, Objs, CSocketError, CSocketType,
         DeadHoldsNothing,
         HandleOwned, NonblockingKnown, IsSocketValid, IsNonblocking
<1>2. OwnershipInv /\ [Next]_vars => OwnershipInv'
  BY OwnershipStep
<1> QED
  BY <1>1, <1>2, PTL DEF Spec

(***************************************************************************)
(* On Linux a live object's handle is always an open descriptor that the   *)
(* kernel gave to this object, whatever Listen, BindMulticast, Accept,     *)
(* Close, Initialize and the destructors do in any order.                  *)
(***************************************************************************)
THEOREM HandlesOwned ==
    ASSUME Platform = "LINUX"
    PROVE  Spec => []HandleOwned
<1>1. OwnershipInv => HandleOwned
  BY DEF OwnershipInv
<1> QED
  BY <1>1, OwnershipInvariant, PTL

(***************************************************************************)
(* On Linux an object whose descriptor has O_NONBLOCK set knows it.        *)
(***************************************************************************)
THEOREM NonblockingIsKnown ==
    ASSUME Platform = "LINUX"
    PROVE  Spec => []NonblockingKnown
<1>1. OwnershipInv => NonblockingKnown
  BY DEF OwnershipInv
<1> QED
  BY <1>1, OwnershipInvariant, PTL

(***************************************************************************)
(* On Linux no call of one object closes a descriptor of another.          *)
(***************************************************************************)
THEOREM ForeignDescriptorsSafe ==
    ASSUME Platform = "LINUX"
    PROVE  Spec => NoForeignClose
<1>1. OwnershipInv /\ [Next]_vars => ForeignKept
  BY OwnershipStep
<1> QED
  BY <1>1, OwnershipInvariant, PTL DEF Spec, NoForeignClose

(***************************************************************************)
(* On Linux Initialize on an object that already holds a descriptor is the *)
(* only call that leaves one open without an owner.                        *)
(***************************************************************************)
THEOREM OrphansExplained ==
    ASSUME Platform = "LINUX"
    PROVE  Spec => OrphanOnlyByInitialize
<1>1. OwnershipInv /\ [Next]_vars => OrphansKept
  BY OwnershipStep
<1> QED
  BY <1>1, OwnershipInvariant, PTL DEF Spec, OrphanOnlyByInitialize

-----------------------------------------------------------------------------
(***************************************************************************)
(* What an object wrongly believes.  A step about object q leaves the      *)
(* other live objects' handles, beliefs and flags alone, because their     *)
(* descriptors are theirs; for q itself the action decides.                *)
(***************************************************************************)
LEMMA OthersNotMisled ==
    ASSUME OwnershipInv, NEW q \in Objs,
           m_socket' \in [Objs -> Fds \cup {INVALID_SOCKET}],
           alive' \subseteq alive \cup {q},
           \A o \in Objs \ {q} : /\ m_socket'[o] = m_socket[o]
                                 /\ m_bIsBlocking'[o] = m_bIsBlocking[o],
           \A fd \in Fds : /\ fdOwner[fd] \notin {q, Nobody}
                           /\ fd \in nonblocking
                           => fd \in nonblocking',
           q \in Misled' => \/ q \in Misled
                            \/ /\ last'.op = "Initialize"
                               /\ last'.obj = q
                               /\ IsNonblocking(q)
    PROVE  MisledExplained
<1> USE ObjectsAssumption
<1>1. SUFFICES ASSUME NEW o \in Misled', o # q PROVE o \in Misled
  BY DEF MisledExplained
<1>2. /\ o \in alive /\ o \in Objs
      /\ m_socket'[o] = m_socket[o]
      /\ m_bIsBlocking'[o] = m_bIsBlocking[o]
  BY <1>1 DEF Misled, OwnershipInv, TypeOK
<1>3. IsSocketValid(o) /\ IsNonblocking(o) /\ m_socket[o] \notin nonblocking'
  BY <1>1, <1>2 DEF Misled, IsSocketValid, IsNonblocking
<1>4. m_socket[o] \in Fds /\ fdOwner[m_socket[o]] = o
  BY <1>2, <1>3 DEF OwnershipInv, HandleOwned, TypeOK, IsSocketValid
<1>5. m_socket[o] \notin nonblocking
  BY <1>1, <1>2, <1>3, <1>4
<1> QED
  BY <1>2, <1>3, <1>5 DEF Misled

(* Every step on Linux explains an object that comes to be misled. *)
LEMMA MisledStep ==
    ASSUME Platform = "LINUX", OwnershipInv, [Next]_vars
    PROVE  MisledExplained
<1> USE ObjectsAssumption DEF Objs
<1>0. /\ TypeOK /\ TypeOK'
      /\ alive \subseteq Objs
      /\ errno \in Errnos
      /\ m_socket \in [Objs -> Fds \cup {INVALID_SOCKET}]
      /\ m_socket' \in [Objs -> Fds \cup {INVALID_SOCKET}]
      /\ m_bIsBlocking \in [Objs -> BOOLEAN]
  BY TypeStep DEF OwnershipInv, TypeOK
<1>1. ASSUME UNCHANGED <<m_socket, m_bIsBlocking, nonblocking>>,
             alive' = alive
      PROVE  MisledExplained
  BY <1>1 DEF MisledExplained, Misled, IsSocketValid, IsNonblocking
<1>2. ASSUME NEW q \in Objs, NEW nType \in Types[q], Construct(q, nType)
      PROVE  MisledExplained
  <2>1. ~IsSocketValid(q)'
    BY <1>0, <1>2 DEF Construct, IsSocketValid
  <2> QED
    BY <1>0, <1>2, <2>1, OthersNotMisled DEF Construct, fdVars, Misled
<1>3. ASSUME NEW q \in Objs, Initialize(q) PROVE MisledExplained
  <2>1. /\ last'.op = "Initialize" /\ last'.obj = q
        /\ UNCHANGED <<alive, m_bIsBlocking>>
        /\ \A o \in Objs \ {q} : m_socket'[o] = m_socket[o]
    <3>1. UNCHANGED <<alive, m_bIsBlocking>>
      BY <1>3 DEF Initialize
    <3>2. PICK sock, ret, e : /\ m_socket' = [m_socket EXCEPT ![q] = sock]
                              /\ Returned("Initialize", q, ret, e)
      BY <1>3 DEF Initialize, InitializeSucceeds, InitializeFails
    <3> QED
      BY <1>0, <3>1, <3>2 DEF Returned
  <2>2. \A fd \in Fds : fdOwner[fd] # Nobody /\ fd \in nonblocking
                       => fd \in nonblocking'
    BY <1>3 DEF Initialize, InitializeSucceeds, InitializeFails, Allocate,
                FreeFds, fdVars
  <2>3. q \in Misled' => IsNonblocking(q)
    BY <2>1 DEF Misled, IsNonblocking
  <2> QED
    BY <1>0, <2>1, <2>2, <2>3, OthersNotMisled
<1>4. ASSUME NEW q \in Objs, SetNonblocking(q) \/ SetBlocking(q)
      PROVE  MisledExplained
  <2>1. UNCHANGED <<alive, m_socket, fdOwner>>
    BY <1>4 DEF SetNonblocking, SetBlocking
  <2>2. CASE FcntlFails(q)
    BY <1>1, <2>1, <2>2 DEF FcntlFails
  <2>3. CASE FcntlSets(q, nonblocking \cup {m_socket[q]}, FALSE)
    <3>1. q \notin Misled'
      BY <2>1, <2>3 DEF FcntlSets, Misled
    <3> QED
      BY <1>0, <2>1, <2>3, <3>1, OthersNotMisled DEF FcntlSets
  <2>4. CASE FcntlSets(q, nonblocking \ {m_socket[q]}, TRUE)
    <3>1. q \notin Misled'
      BY <1>0, <2>4 DEF FcntlSets, Misled, IsNonblocking
    <3>2. \A fd \in Fds : fdOwner[fd] # q => fd # m_socket[q]
      BY <1>4, <2>4
         DEF FcntlSets, IsOpen, OwnershipInv, HandleOwned, IsSocketValid,
             SetNonblocking, SetBlocking
    <3> QED
      BY <1>0, <2>1, <2>4, <3>1, <3>2, OthersNotMisled DEF FcntlSets
  <2> QED
    BY <1>4, <2>2, <2>3, <2>4 DEF SetNonblocking, SetBlocking
<1>5. ASSUME NEW q \in alive, NEW e \in Errnos, NEW c \in CloseOutcomes(q, e),
             Release(c.released),
             \/ m_socket' = [m_socket EXCEPT ![q] = c.sock]
             \/ m_socket' = [m_socket EXCEPT ![q] = INVALID_SOCKET],
             alive' \subseteq alive,
             \A o \in Objs \ {q} : m_bIsBlocking'[o] = m_bIsBlocking[o]
      PROVE  MisledExplained
  <2>1. c.sock = INVALID_SOCKET /\ c.released = {fd \in Fds : m_socket[q] = fd}
    BY CloseOnLinux
  <2>2. ~IsSocketValid(q)'
    BY <1>0, <1>5, <2>1 DEF IsSocketValid
  <2>3. \A fd \in Fds : m_socket[q] = fd => fdOwner[fd] = q
    BY <1>5 DEF OwnershipInv, HandleOwned, IsSocketValid
  <2> QED
    BY <1>0, <1>5, <2>1, <2>2, <2>3, OthersNotMisled DEF Release, Misled
<1>6. ASSUME NEW q \in Objs, Close(q) PROVE MisledExplained
  BY <1>0, <1>5, <1>6 DEF Close
<1>7. ASSUME NEW q \in Objs, Destroy(q) PROVE MisledExplained
  <2>1. PICK c \in CloseOutcomes(q, errno) : Release(c.released)
    BY <1>7 DEF Destroy
  <2> QED
    BY <1>0, <1>5, <1>7, <2>1 DEF Destroy
<1>8. ASSUME NEW q \in Objs, Listen(q) PROVE MisledExplained
  <2>1. q \in alive /\ UNCHANGED <<alive, m_bIsBlocking>>
    BY <1>8 DEF Listen
  <2>2. CASE ListenSucceeds(q)
    BY <1>1, <2>1, <2>2 DEF ListenSucceeds
  <2>3. ASSUME NEW e \in BindErrnos(m_socket[q]), ListenFails(q, e)
        PROVE  MisledExplained
    BY <1>5, <2>1, <2>3, CausesTyped DEF ListenFails
  <2> QED
    BY <1>8, <2>2, <2>3 DEF Listen
<1>9. ASSUME NEW q \in Objs, BindMulticast(q) PROVE MisledExplained
  <2>1. q \in alive /\ UNCHANGED <<alive, m_bIsBlocking>>
    BY <1>9 DEF BindMulticast
  <2>2. CASE BindMulticastSucceeds(q)
    BY <1>1, <2>1, <2>2 DEF BindMulticastSucceeds
  <2>3. ASSUME NEW e \in BindMulticastErrnos(q), BindMulticastFails(q, e)
        PROVE  MisledExplained
    BY <1>5, <2>1, <2>3, CausesTyped DEF BindMulticastFails
  <2> QED
    BY <1>9, <2>2, <2>3 DEF BindMulticast
<1>10. ASSUME NEW q \in Objs, NEW a \in ActiveObjs, NEW fd \in Fds,
              NEW interrupted \in BOOLEAN,
              AcceptReturns(q, a, fd, interrupted)
       PROVE  MisledExplained
  <2>1. a \in Objs /\ a \notin Misled'
    BY <1>0, <1>10 DEF AcceptReturns, Misled, IsNonblocking
  <2>2. \A g \in Fds : fdOwner[g] # Nobody /\ g \in nonblocking
                      => g \in nonblocking'
    BY <1>10 DEF AcceptReturns, Allocate, FreeFds
  <2>3. \A o \in Objs \ {a} : /\ m_socket'[o] = m_socket[o]
                              /\ m_bIsBlocking'[o] = m_bIsBlocking[o]
    BY <1>0, <1>10 DEF AcceptReturns
  <2>4. alive' \subseteq alive \cup {a}
    BY <1>10 DEF AcceptReturns
  <2> QED
    BY <1>0, <2>1, <2>2, <2>3, <2>4, OthersNotMisled
<1>11. CASE \/ OtherCall
            \/ UNCHANGED vars
            \/ \E q \in Objs : AcceptWrongType(q) \/ AcceptFails(q)
  BY <1>1, <1>11 DEF OtherCall, AcceptWrongType, AcceptFails, objVars, fdVars,
     vars
<1>12. ASSUME NEW q \in Objs, Option(q) PROVE MisledExplained
  BY <1>0, <1>1, <1>12, OptionTyped
<1> QED
  BY <1>2, <1>3, <1>4, <1>6, <1>7, <1>8, <1>9, <1>10, <1>11, <1>12
     DEF Next, Call

(***************************************************************************)
(* On Linux an object comes to hold its blocking descriptor for a          *)
(* non-blocking one only by Initialize, and only if it was made            *)
(* non-blocking before.                                                    *)
(***************************************************************************)
THEOREM FlagStaleExplained ==
    ASSUME Platform = "LINUX"
    PROVE  Spec => MisledOnlyByInitialize
<1>1. OwnershipInv /\ [Next]_vars => MisledExplained
  BY MisledStep
<1> QED
  BY <1>1, OwnershipInvariant, PTL DEF Spec, MisledOnlyByInitialize

-----------------------------------------------------------------------------
(***************************************************************************)
(* Error codes on Linux.  Every call sets last and the code together, or   *)
(* leaves nothing to say; the one that needs care is BindMulticast, whose  *)
(* code is stored after a Close that must not have changed errno.          *)
(***************************************************************************)
LEMMA CloseKeepsErrno ==
    ASSUME Platform = "LINUX", NEW o \in Objs, NEW e,
           IsOpen(m_socket[o]) \/ e = "EBADF" \/ ~IsSocketValid(o),
           NEW c \in CloseOutcomes(o, e)
    PROVE  c.errno = e
  BY DEF CloseOutcomes, NothingToClose, CloseSucceeds, CloseErrs, CloseErrnos

(* One step keeps the code of the object that was called last true. *)
LEMMA ErrorStep ==
    ASSUME Platform = "LINUX", TypeOK, ErrorNamesCause, [Next]_vars
    PROVE  ErrorNamesCause'
<1> USE ObjectsAssumption DEF Objs
<1>0. m_socketErrno \in [Objs -> CSocketError] /\ errno \in Errnos
  BY DEF TypeOK
<1>1. ASSUME NEW o \in Objs, NEW op, NEW ret, NEW e \in Errnos,
             Returned(op, o, ret, e),
             m_socketErrno' =
               [m_socketErrno EXCEPT ![o] = TranslateSocketError(e)]
      PROVE  ErrorNamesCause'
  BY <1>0, <1>1 DEF Returned, ErrorNamesCause, SystemCallFailed, Refused
<1>2. ASSUME last' = NoReturn PROVE ErrorNamesCause'
  BY <1>2 DEF NoReturn, ErrorNamesCause, SystemCallFailed, Refused
<1>3. ASSUME NEW o \in Objs, NEW op \in Calls \ {"Initialize"}, NEW e,
             Returned(op, o, TRUE, e)
      PROVE  ErrorNamesCause'
  BY <1>3 DEF Returned, ErrorNamesCause, SystemCallFailed, Refused
<1>4. ASSUME NEW o \in Objs, Initialize(o) PROVE ErrorNamesCause'
  <2>1. PICK ret \in BOOLEAN, e \in Errnos :
          Returned("Initialize", o, ret, e) /\ errno' = e
    BY <1>4, CausesTyped, NamedErrnos
       DEF Initialize, InitializeSucceeds, InitializeFails
  <2> QED
    BY <1>1, <1>4, <2>1 DEF Initialize
<1>5. ASSUME NEW o \in Objs, NEW op \in Calls \ {"Initialize"},
             NEW code \in {"SocketInvalidSocket", "SocketProtocolError"},
             Returned(op, o, FALSE, NoCause),
             m_socketErrno' = [m_socketErrno EXCEPT ![o] = code]
      PROVE  ErrorNamesCause'
  BY <1>0, <1>5 DEF Returned, ErrorNamesCause, SystemCallFailed, Refused
<1>13. ASSUME NEW o \in Objs, Option(o) PROVE ErrorNamesCause'
  <2>1. ASSUME NEW answers \in SUBSET Errnos, NEW always \in BOOLEAN,
               OptionAnswered(o, answers, always)
        PROVE  ErrorNamesCause'
    <3>1. PICK e \in Errnos :
            /\ e # "EXIT_SUCCESS" =>
                 m_socketErrno' =
                   [m_socketErrno EXCEPT ![o] = TranslateSocketError(e)]
            /\ Returned("Option", o, e = "EXIT_SUCCESS", e)
      BY <2>1, NamedErrnos DEF OptionAnswered
    <3>2. CASE e = "EXIT_SUCCESS"
      BY <1>3, <3>1, <3>2 DEF Calls
    <3>3. CASE e # "EXIT_SUCCESS"
      BY <1>1, <3>1, <3>3
    <3> QED
      BY <3>2, <3>3
  <2>2. /\ {"EXIT_SUCCESS"} \in SUBSET Errnos
        /\ {"EXIT_SUCCESS", "EOTHER"} \in SUBSET Errnos
        /\ {TcpOptionAnswer(o)} \in SUBSET Errnos
    BY DEF Errnos, TcpOptionAnswer
  <2>3. ASSUME OptionRefused(o) PROVE ErrorNamesCause'
    BY <1>5, <2>3 DEF OptionRefused, Calls
  <2>4. ASSUME BindInterface(o) PROVE ErrorNamesCause'
    <3>1. OptionRefused(o) \/ last'.op = "BindInterface"
      BY <2>4 DEF BindInterface, BindInterfaceAnswered, Returned
    <3> QED
      BY <2>3, <3>1 DEF ErrorNamesCause
  <2>5. ASSUME WindowSize(o) PROVE ErrorNamesCause'
    BY <1>5, <2>1, <2>2, <2>5 DEF WindowSize, Calls
  <2>6. ASSUME SocketDscp(o) PROVE ErrorNamesCause'
    BY <1>3, <2>1, <2>2, <2>6 DEF SocketDscp, Calls
  <2>7. ASSUME SetMulticast(o) PROVE ErrorNamesCause'
    BY <2>1, <2>2, <2>3, <2>7 DEF SetMulticast
  <2>8. ASSUME SetSocketOption(o) \/ SetNagleAlgorithm(o) \/ SetTimeout(o)
        PROVE  ErrorNamesCause'
    BY <2>1, <2>2, <2>8 DEF SetSocketOption, SetNagleAlgorithm, SetTimeout
  <2> QED
    BY <1>13, <2>4, <2>5, <2>6, <2>7, <2>8 DEF Option
<1>14. ASSUME NEW o \in Objs, SetNonblocking(o) \/ SetBlocking(o)
       PROVE  ErrorNamesCause'
  <2>1. CASE FcntlFails(o)
    BY <1>1, <2>1, NamedErrnos DEF FcntlFails
  <2>2. CASE last' = [op |-> "SetMode", obj |-> o, ret |-> TRUE,
                      cause |-> "EXIT_SUCCESS"]
    BY <1>3, <2>2 DEF Returned, Calls
  <2> QED
    BY <1>14, <2>1, <2>2 DEF SetNonblocking, SetBlocking, FcntlSets, Returned
<1>6. ASSUME NEW o \in Objs, Listen(o) PROVE ErrorNamesCause'
  <2>1. CASE ListenSucceeds(o)
    BY <1>3, <2>1 DEF ListenSucceeds, Calls
  <2>2. ASSUME NEW e \in BindErrnos(m_socket[o]), ListenFails(o, e)
        PROVE  ErrorNamesCause'
    BY <1>1, <2>2, CausesTyped DEF ListenFails
  <2> QED
    BY <1>6, <2>1, <2>2 DEF Listen
<1>7. ASSUME NEW o \in Objs, BindMulticast(o) PROVE ErrorNamesCause'
  <2>1. CASE BindMulticastSucceeds(o)
    BY <1>3, <2>1 DEF BindMulticastSucceeds, Calls
  <2>2. ASSUME NEW e \in BindMulticastErrnos(o), BindMulticastFails(o, e)
        PROVE  ErrorNamesCause'
    <3>1. IsOpen(m_socket[o]) \/ e = "EBADF"
      BY <2>2 DEF BindMulticastErrnos, BindErrnos
    <3>2. PICK c \in CloseOutcomes(o, e) :
            /\ m_socketErrno' =
                 [m_socketErrno EXCEPT ![o] = TranslateSocketError(c.errno)]
            /\ Returned("BindMulticast", o, FALSE, e)
      BY <2>2 DEF BindMulticastFails
    <3>3. c.errno = e
      BY <3>1, CloseKeepsErrno
    <3> QED
      BY <1>1, <2>2, <3>2, <3>3, CausesTyped
  <2> QED
    BY <1>7, <2>1, <2>2 DEF BindMulticast
<1>8. ASSUME NEW o \in Objs, AcceptFails(o) PROVE ErrorNamesCause'
  BY <1>1, <1>8, CausesTyped DEF AcceptFails
<1>9. ASSUME NEW o \in Objs, NEW a, NEW fd, NEW interrupted,
             AcceptReturns(o, a, fd, interrupted)
      PROVE  ErrorNamesCause'
  BY <1>3, <1>9 DEF AcceptReturns, Calls
<1>10. ASSUME NEW o \in Objs, Close(o) PROVE ErrorNamesCause'
  <2>1. PICK c \in CloseOutcomes(o, errno) :
          /\ m_socketErrno' =
               [m_socketErrno EXCEPT ![o] = TranslateSocketError(c.errno)]
          /\ Returned("Close", o, c.ret, c.cause)
    BY <1>10 DEF Close
  <2>2. CASE c = CloseSucceeds(o, errno)
    <3>1. Returned("Close", o, TRUE, "EXIT_SUCCESS")
      BY <2>1, <2>2 DEF CloseSucceeds
    <3> QED
      BY <1>3, <3>1 DEF Calls
  <2>3. CASE c = NothingToClose(errno)
    <3>1. Returned("Close", o, FALSE, NoCause)
      BY <2>1, <2>3 DEF NothingToClose
    <3> QED
      BY <3>1 DEF Returned, ErrorNamesCause, SystemCallFailed, Refused
  <2>4. ASSUME NEW e \in CloseErrnos(m_socket[o]), c = CloseErrs(o, e)
        PROVE  ErrorNamesCause'
    <3>1. e \in Errnos /\ c.errno = e /\ c.cause = e
      BY <2>4 DEF CloseErrs, CloseErrnos, Errnos
    <3> QED
      BY <1>1, <2>1, <3>1
  <2> QED
    BY <2>1, <2>2, <2>3, <2>4 DEF CloseOutcomes
<1>15. ASSUME NEW o \in Objs, AcceptWrongType(o) PROVE ErrorNamesCause'
  BY <1>5, <1>15 DEF AcceptWrongType, Calls
<1>11. CASE \/ OtherCall
            \/ \E o \in Objs : \/ \E nType \in Types[o] : Construct(o, nType)
                              \/ Destroy(o)
  BY <1>2, <1>11 DEF OtherCall, Construct, Destroy
<1>12. CASE UNCHANGED vars
  BY <1>12 DEF vars, ErrorNamesCause, SystemCallFailed, Refused
<1> QED
  BY <1>4, <1>6, <1>7, <1>8, <1>9, <1>10, <1>11, <1>12, <1>13, <1>14, <1>15
     DEF Next, Call

(***************************************************************************)
(* On Linux the code of the object that was called last is that of the     *)
(* system call that failed, where one did, for any number of objects and   *)
(* whatever errno held before; a refusal without a system call leaves a    *)
(* code too.  Close without a descriptor and BindInterface are the two     *)
(* failures of which the code says nothing.                                *)
(***************************************************************************)
THEOREM ErrorsNameCauses ==
    ASSUME Platform = "LINUX"
    PROVE  Spec => []ErrorNamesCause
<1>1. Init => ErrorNamesCause
  BY DEF Init, ErrorNamesCause, SystemCallFailed, Refused, NoReturn
<1>2. TypeOK /\ ErrorNamesCause /\ [Next]_vars => ErrorNamesCause'
  BY ErrorStep
<1> QED
  BY <1>1, <1>2, TypeCorrect, PTL DEF Spec

=============================================================================
