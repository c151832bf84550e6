------------------------ MODULE SocketDatagramsProofs ------------------------
(***************************************************************************)
(* Proofs about SocketDatagrams for any clients, servers and targets, any  *)
(* number of requests, and whichever calls signals interrupt.              *)
(***************************************************************************)
EXTENDS SocketDatagrams, TLAPS

Listeners == Servers \cup {Group}

(* What clients send, and what of it servers can be given. *)
RequestsKnown ==
    \A d \in net :
        d.from \in Clients
        => d.to \in Listeners /\ d.data[1] = d.from /\ d.stray = FALSE

(* What servers send answers a request unless it is stray. *)
RepliesKnown ==
    \A d \in net :
        d.from \in Servers
        => /\ d.to \in Clients
           /\ ~d.stray =>
                /\ d.data[1] = d.to
                /\ \E a \in {d.from, Group} :
                     [from |-> d.to, to |-> a, data |-> d.data,
                      stray |-> FALSE] \in net

(* Addresses that are stored. *)
AddressesKnown ==
    /\ \A c \in Clients : peers[c] \subseteq Objs \cup {Group}
    /\ \A c \in Clients : m_stServerSockaddr[c] \in Listeners \cup {Zero}
    /\ \A s \in Servers : m_stClientSockaddr[s] \in Clients \cup {Zero}

(* A buffer holds a datagram that was sent to its object. *)
BuffersKnown ==
    /\ \A s \in Servers :
         buffer[s] # Empty => buffer[s] \in net /\ buffer[s].to \in {s, Group}
    /\ \A c \in Clients :
         buffer[c] # Empty => /\ buffer[c] \in net
                              /\ buffer[c].to = c

(* A client that is in Send has a request. *)
RequestCounted == \A c \in Clients : pc[c] = "sendto" => asked[c] > 0

DatagramsInv ==
    /\ TypeOK
    /\ RequestCounted
    /\ AddressesKnown
    /\ RequestsKnown
    /\ RepliesKnown
    /\ BuffersKnown
    /\ ReplyAddressFresh

(* The kinds of address differ. *)
LEMMA AddressKinds ==
    /\ Objs = Clients \cup Servers
    /\ Clients \cap Servers = {}
    /\ Group \notin Objs /\ Zero \notin Objs /\ Interface \notin Objs
    /\ Group # Zero /\ Group # Interface
    /\ Addresses = Objs \cup {Group, Zero, Interface}
    /\ \A c \in Clients : Targets[c] \subseteq Listeners
  BY DatagramsAssumption DEF Objs, Addresses, Listeners

(***************************************************************************)
(* A step that sends nothing and touches no buffer needs only the types    *)
(* and the stored addresses of what it does.                               *)
(***************************************************************************)
LEMMA QuietStep ==
    ASSUME DatagramsInv, TypeOK', RequestCounted', AddressesKnown',
           UNCHANGED <<net, buffer, grouped, m_stClientSockaddr>>
    PROVE  DatagramsInv'
  BY DEF DatagramsInv, RequestsKnown, RepliesKnown, BuffersKnown,
         ReplyAddressFresh

(* A datagram that is known to be a request or a reply may be sent. *)
LEMMA SendStep ==
    ASSUME DatagramsInv, TypeOK', RequestCounted', NEW d \in Datagrams,
           net' = net \cup {d}, AddressesKnown',
           UNCHANGED <<buffer, grouped, m_stClientSockaddr>>,
           d.from \in Clients
             => d.to \in Listeners /\ d.data[1] = d.from /\ d.stray = FALSE,
           d.from \in Servers
             => /\ d.to \in Clients
                /\ ~d.stray =>
                     /\ d.data[1] = d.to
                     /\ \E a \in {d.from, Group} :
                          [from |-> d.to, to |-> a, data |-> d.data,
                           stray |-> FALSE] \in net
    PROVE  DatagramsInv'
<1>1. ReplyAddressFresh'
  BY DEF DatagramsInv, ReplyAddressFresh
<1>2. RequestsKnown'
  BY DEF DatagramsInv, RequestsKnown
<1>3. RepliesKnown'
  BY DEF DatagramsInv, RepliesKnown
<1>4. BuffersKnown'
  BY DEF DatagramsInv, BuffersKnown
<1> QED
  BY <1>1, <1>2, <1>3, <1>4 DEF DatagramsInv

(* Where Receive leaves the object and its thread. *)
LEMMA LoopTyped ==
    ASSUME TypeOK, NEW o \in Objs, NEW loop \in {"sendto", "recvfrom"},
           eintr' \in [Objs -> BOOLEAN], LoopsOrReturns(o, loop)
    PROVE  pc' \in [Objs -> {"idle", "sendto", "recvfrom"}]
  BY DEF TypeOK, LoopsOrReturns

(* What a failing call leaves in errno. *)
LEMMA FailsTyped ==
    ASSUME TypeOK, NEW o \in Objs, NEW signal \in BOOLEAN, Fails(o, signal)
    PROVE  eintr' \in [Objs -> BOOLEAN]
  BY DEF TypeOK, Fails

(* A client's Send. *)
LEMMA ClientSends ==
    ASSUME DatagramsInv, NEW c \in Clients, Send(c)
    PROVE  DatagramsInv'
<1> DEFINE d == [from |-> c, to |-> m_stServerSockaddr[c],
                 data |-> <<c, asked'[c]>>, stray |-> FALSE]
<1>0. TypeOK /\ RequestCounted /\ AddressesKnown /\ c \in Objs
  BY AddressKinds DEF DatagramsInv
<1>1. /\ asked' \in [Clients -> 0..MaxAsks]
      /\ asked'[c] \in 1..MaxAsks
      /\ \A x \in Clients : asked'[x] >= asked[x]
  <2>1. MaxAsks \in Nat /\ asked \in [Clients -> 0..MaxAsks]
    BY <1>0, DatagramsAssumption DEF TypeOK
  <2>2. CASE asked[c] < MaxAsks /\ asked' = [asked EXCEPT ![c] = @ + 1]
    BY <2>1, <2>2
  <2>3. CASE pc[c] = "sendto" /\ UNCHANGED asked
    BY <1>0, <2>1, <2>3 DEF RequestCounted
  <2> QED
    BY <2>2, <2>3 DEF Send
<1>2. eintr' \in [Objs -> BOOLEAN]
  BY <1>0, FailsTyped DEF Send, TypeOK
<1>3. pc' \in [Objs -> {"idle", "sendto", "recvfrom"}]
  BY <1>0, <1>2, LoopTyped DEF Send
<1>4. RequestCounted'
  <2> SUFFICES ASSUME NEW x \in Clients, pc'[x] = "sendto"
               PROVE  asked'[x] > 0
    BY DEF RequestCounted
  <2>1. asked[x] \in Nat /\ asked'[x] \in Nat /\ asked'[x] >= asked[x]
    BY <1>0, <1>1, DatagramsAssumption DEF TypeOK
  <2>2. CASE x = c
    BY <1>1, <2>2
  <2>3. CASE x # c
    <3>1. pc[x] = "sendto"
      BY <1>0, <2>3 DEF Send, LoopsOrReturns, TypeOK
    <3> QED
      BY <1>0, <2>1, <3>1 DEF RequestCounted
  <2> QED
    BY <2>2, <2>3
<1>5. peers' \in [Clients -> SUBSET Addresses] /\ AddressesKnown'
  <2>1. Objs \subseteq Addresses
    BY AddressKinds
  <2> QED
    BY <1>0, <2>1 DEF Send, TypeOK, AddressesKnown, addrVars
<1>6. CASE m_stServerSockaddr[c] # Zero /\ net' = net \cup {d}
  <2>1. m_stServerSockaddr[c] \in Listeners
    BY <1>0, <1>6 DEF AddressesKnown
  <2>2. d \in Datagrams
    BY <1>0, <1>1, <2>1, AddressKinds DEF Datagrams, Listeners
  <2>3. TypeOK'
    BY <1>0, <1>1, <1>2, <1>3, <1>5, <1>6, <2>2 DEF Send, TypeOK, addrVars
  <2>4. d.from = c /\ d.data[1] = c /\ d.stray = FALSE
        /\ d.to = m_stServerSockaddr[c] /\ c \notin Servers
    BY AddressKinds
  <2> HIDE DEF d
  <2> QED
    BY <1>4, <1>5, <1>6, <2>1, <2>2, <2>3, <2>4, SendStep DEF Send, addrVars
<1>7. CASE UNCHANGED net
  <2>1. TypeOK'
    BY <1>0, <1>1, <1>2, <1>3, <1>5, <1>7 DEF Send, TypeOK, addrVars
  <2> QED
    BY <1>4, <1>5, <1>7, <2>1, QuietStep DEF Send, addrVars
<1> QED
  BY <1>6, <1>7 DEF Send

(***************************************************************************)
(* A server's Send: what it holds was a client's request, and unless it    *)
(* came in multicast mode the stored address is that client's.             *)
(***************************************************************************)
LEMMA ServerReplies ==
    ASSUME DatagramsInv, NEW s \in Servers, Reply(s)
    PROVE  DatagramsInv'
<1> DEFINE b == buffer[s]
           d == [from |-> s, to |-> m_stClientSockaddr[s], data |-> b.data,
                 stray |-> grouped[s]]
<1>0. TypeOK /\ RequestCounted /\ AddressesKnown /\ s \in Objs
  BY AddressKinds DEF DatagramsInv
<1>1. b \in net /\ b \in Datagrams /\ b.to \in {s, Group}
  BY <1>0 DEF DatagramsInv, BuffersKnown, Reply, TypeOK
<1>2. b.from \in Clients
  BY <1>1, AddressKinds DEF DatagramsInv, RepliesKnown, Datagrams
<1>3. b.data[1] = b.from /\ b.stray = FALSE
  BY <1>1, <1>2 DEF DatagramsInv, RequestsKnown
<1>4. eintr' \in [Objs -> BOOLEAN]
  BY <1>0, FailsTyped DEF Reply, TypeOK
<1>5. RequestCounted'
  BY <1>0 DEF RequestCounted, Reply
<1>6. CASE m_stClientSockaddr[s] # Zero /\ net' = net \cup {d}
  <2>1. m_stClientSockaddr[s] \in Clients
    BY <1>0, <1>6 DEF AddressesKnown
  <2>2. grouped[s] \in BOOLEAN /\ b.data \in Clients \X (1..MaxAsks)
    BY <1>0, <1>1 DEF TypeOK, Datagrams
  <2>3. d \in Datagrams
    BY <1>0, <2>1, <2>2, AddressKinds DEF Datagrams
  <2>4. TypeOK'
    BY <1>0, <1>4, <1>6, <2>3 DEF Reply, TypeOK, addrVars
  <2>5. ~grouped[s] => m_stClientSockaddr[s] = b.from
    BY DEF DatagramsInv, ReplyAddressFresh, Reply
  <2>6. b = [from |-> b.from, to |-> b.to, data |-> b.data, stray |-> FALSE]
    BY <1>1, <1>3 DEF Datagrams
  <2>7. /\ d.from = s /\ s \notin Clients /\ d.to \in Clients
        /\ ~d.stray =>
             /\ d.data[1] = d.to
             /\ \E a \in {d.from, Group} :
                  [from |-> d.to, to |-> a, data |-> d.data,
                   stray |-> FALSE] \in net
    BY <1>1, <1>3, <2>1, <2>5, <2>6, AddressKinds
  <2>8. AddressesKnown'
    BY <1>0 DEF Reply, AddressesKnown, addrVars
  <2> HIDE DEF d
  <2> QED
    BY <1>5, <1>6, <2>3, <2>4, <2>7, <2>8, SendStep DEF Reply, addrVars
<1>7. CASE UNCHANGED net
  <2>1. TypeOK'
    BY <1>0, <1>4, <1>7 DEF Reply, TypeOK, addrVars
  <2>2. AddressesKnown'
    BY <1>0 DEF Reply, AddressesKnown, addrVars
  <2> QED
    BY <1>5, <1>7, <2>1, <2>2, QuietStep DEF Reply, addrVars
<1> QED
  BY <1>6, <1>7 DEF Reply

(***************************************************************************)
(* Receive: the buffer and the address are of the same datagram, or the    *)
(* datagram is marked as grouped.                                          *)
(***************************************************************************)
LEMMA ObjectReceives ==
    ASSUME DatagramsInv, NEW o \in Objs, Receive(o)
    PROVE  DatagramsInv'
<1>0. /\ TypeOK /\ RequestCounted /\ AddressesKnown /\ RequestsKnown
      /\ RepliesKnown /\ BuffersKnown /\ ReplyAddressFresh
      /\ UNCHANGED <<m_bIsMulticast, m_stServerSockaddr, asked, peers, bound,
                     net>>
  BY DEF DatagramsInv, Receive, kernVars
<1>1. eintr' \in [Objs -> BOOLEAN]
  BY <1>0, FailsTyped DEF Receive, TypeOK
<1>2. pc' \in [Objs -> {"idle", "sendto", "recvfrom"}]
  BY <1>0, <1>1, LoopTyped DEF Receive
<1>3. RequestCounted'
  BY <1>0 DEF RequestCounted, Receive, LoopsOrReturns, TypeOK
<1>4. RequestsKnown' /\ RepliesKnown'
  BY <1>0 DEF RequestsKnown, RepliesKnown
<1>5. ASSUME NEW d \in net, Deliverable(d, o),
             buffer' = [buffer EXCEPT ![o] = d],
             o \in Servers
               => /\ StoresSender(o, d.from)
                  /\ grouped' = [grouped EXCEPT ![o] = m_bIsMulticast[o]],
             o \notin Servers
               => UNCHANGED <<m_stClientSockaddr, m_stMulticastGroup, grouped>>
      PROVE  DatagramsInv'
  <2>1. d \in Datagrams /\ d.from \in Objs
    BY <1>0, <1>5 DEF TypeOK, Datagrams
  <2>2. CASE o \in Servers
    <3>1. d.to \in {o, Group}
      BY <1>5, <2>2 DEF Deliverable
    <3>2. d.from \in Clients
      BY <1>0, <1>5, <2>1, <2>2, <3>1, AddressKinds DEF RepliesKnown
    <3>3. /\ m_stClientSockaddr' \in [Servers -> Addresses]
          /\ m_stMulticastGroup' \in [Servers -> Addresses]
          /\ \A s \in Servers :
               m_stClientSockaddr'[s] = IF s = o /\ ~m_bIsMulticast[o]
                                        THEN d.from ELSE m_stClientSockaddr[s]
      BY <1>0, <1>5, <2>1, <2>2, AddressKinds DEF StoresSender, TypeOK
    <3>4. /\ grouped' \in [Servers -> BOOLEAN]
          /\ \A s \in Servers :
               grouped'[s] = IF s = o THEN m_bIsMulticast[o] ELSE grouped[s]
      BY <1>0, <1>5, <2>2 DEF TypeOK
    <3>5. /\ buffer' \in [Objs -> Datagrams \cup {Empty}]
          /\ \A x \in Objs : buffer'[x] = IF x = o THEN d ELSE buffer[x]
      BY <1>0, <1>5, <2>1 DEF TypeOK
    <3>6. TypeOK'
      BY <1>0, <1>1, <1>2, <3>3, <3>4, <3>5 DEF TypeOK
    <3>7. AddressesKnown'
      BY <1>0, <3>2, <3>3 DEF AddressesKnown
    <3>8. BuffersKnown'
      BY <1>0, <1>5, <2>2, <3>1, <3>5, AddressKinds DEF BuffersKnown
    <3>9. ReplyAddressFresh'
      BY <1>0, <3>3, <3>4, <3>5, AddressKinds DEF ReplyAddressFresh
    <3> QED
      BY <1>3, <1>4, <3>6, <3>7, <3>8, <3>9 DEF DatagramsInv
  <2>3. CASE o \in Clients
    <3>1. o \notin Servers
      BY <2>3, AddressKinds
    <3>2. d.to = o
      BY <1>5, <3>1 DEF Deliverable
    <3>3. /\ buffer' \in [Objs -> Datagrams \cup {Empty}]
          /\ \A x \in Objs : buffer'[x] = IF x = o THEN d ELSE buffer[x]
      BY <1>0, <1>5, <2>1 DEF TypeOK
    <3>4. TypeOK' /\ AddressesKnown'
      BY <1>0, <1>1, <1>2, <1>5, <3>1, <3>3 DEF TypeOK, AddressesKnown
    <3>5. BuffersKnown'
      BY <1>0, <1>5, <3>1, <3>2, <3>3, AddressKinds DEF BuffersKnown
    <3>6. ReplyAddressFresh'
      BY <1>0, <1>5, <3>1, <3>3, AddressKinds DEF ReplyAddressFresh
    <3> QED
      BY <1>3, <1>4, <3>4, <3>5, <3>6 DEF DatagramsInv
  <2> QED
    BY <2>2, <2>3, AddressKinds
<1>6. ASSUME NEW signal \in BOOLEAN,
             buffer' = IF signal THEN buffer ELSE [buffer EXCEPT ![o] = Empty],
             UNCHANGED <<m_stClientSockaddr, m_stMulticastGroup, grouped>>
      PROVE  DatagramsInv'
  <2>1. /\ buffer' \in [Objs -> Datagrams \cup {Empty}]
        /\ \A x \in Objs : buffer'[x] \in {buffer[x], Empty}
    BY <1>0, <1>6 DEF TypeOK
  <2>2. TypeOK' /\ AddressesKnown'
    BY <1>0, <1>1, <1>2, <1>6, <2>1 DEF TypeOK, AddressesKnown
  <2>3. BuffersKnown'
    BY <1>0, <2>1, AddressKinds DEF BuffersKnown
  <2>4. ReplyAddressFresh'
    BY <1>0, <1>6, <2>1, AddressKinds DEF ReplyAddressFresh
  <2> QED
    BY <1>3, <1>4, <2>2, <2>3, <2>4 DEF DatagramsInv
<1> QED
  BY <1>5, <1>6 DEF Receive

(* The calls that prepare an object. *)
LEMMA ObjectPrepared ==
    ASSUME DatagramsInv,
           \/ \E c \in Clients : \E a \in Targets[c] :
                Open(c, a) \/ OpenFails(c, a)
           \/ \E s \in Servers : Listen(s) \/ BindMulticast(s)
           \/ \E s \in Servers, bEnable \in BOOLEAN : SetMulticast(s, bEnable)
           \/ UNCHANGED vars
    PROVE  DatagramsInv'
<1>0. TypeOK /\ RequestCounted /\ AddressesKnown
  BY DEF DatagramsInv
<1>1. ASSUME NEW c \in Clients, NEW a \in Targets[c],
             Open(c, a) \/ OpenFails(c, a)
      PROVE  DatagramsInv'
  <2>1. a \in Listeners /\ c \in Objs /\ Listeners \subseteq Addresses
        /\ Zero \in Addresses
    BY AddressKinds DEF Listeners
  <2>2. eintr' \in [Objs -> BOOLEAN]
    BY <1>0, <1>1, <2>1, FailsTyped DEF Open, OpenFails, TypeOK
  <2>3. /\ UNCHANGED <<m_bIsMulticast, m_stClientSockaddr, m_stMulticastGroup,
                       buffer, pc, asked, bound, net, grouped>>
        /\ \/ m_stServerSockaddr' = [m_stServerSockaddr EXCEPT ![c] = a]
           \/ m_stServerSockaddr' = [m_stServerSockaddr EXCEPT ![c] = Zero]
        /\ \/ peers' = [peers EXCEPT ![c] = @ \cup {a}]
           \/ UNCHANGED peers
    BY <1>1 DEF Open, OpenFails, kernVars
  <2>4. TypeOK' /\ RequestCounted'
    BY <1>0, <2>1, <2>2, <2>3 DEF TypeOK, RequestCounted
  <2>5. AddressesKnown'
    <3>1. \A x \in Clients : m_stServerSockaddr'[x] \in Listeners \cup {Zero}
      BY <1>0, <2>1, <2>3 DEF TypeOK, AddressesKnown
    <3>2. a \in Objs \cup {Group}
      BY <2>1, AddressKinds DEF Listeners
    <3>3. \A x \in Clients : peers'[x] \subseteq Objs \cup {Group}
      BY <1>0, <2>3, <3>2 DEF TypeOK, AddressesKnown
    <3> QED
      BY <1>0, <2>3, <3>1, <3>3 DEF AddressesKnown
  <2> QED
    BY <2>3, <2>4, <2>5, QuietStep
<1>2. ASSUME NEW s \in Servers,
             \/ Listen(s)
             \/ BindMulticast(s)
             \/ \E bEnable \in BOOLEAN : SetMulticast(s, bEnable)
      PROVE  DatagramsInv'
  <2>1. s \in Objs /\ Interface \in Addresses
    BY AddressKinds
  <2>2. eintr' \in [Objs -> BOOLEAN]
    BY <1>0, <1>2, <2>1, FailsTyped
       DEF Listen, BindMulticast, SetMulticast, TypeOK
  <2>3. TypeOK' /\ RequestCounted' /\ AddressesKnown'
    BY <1>0, <1>2, <2>1, <2>2
       DEF Listen, BindMulticast, SetMulticast, TypeOK, RequestCounted,
           AddressesKnown, addrVars, kernVars
  <2> QED
    BY <1>2, <2>3, QuietStep
       DEF Listen, BindMulticast, SetMulticast, addrVars, kernVars
<1>3. CASE UNCHANGED vars
  <2>1. TypeOK' /\ RequestCounted' /\ AddressesKnown'
    BY <1>0, <1>3 DEF vars, TypeOK, RequestCounted, AddressesKnown
  <2> QED
    BY <1>3, <2>1, QuietStep DEF vars
<1> QED
  BY <1>1, <1>2, <1>3

(* The inductive invariant holds in every state. *)
LEMMA DatagramsKnown == Spec => []DatagramsInv
<1>1. Init => DatagramsInv
  <2> SUFFICES ASSUME Init PROVE DatagramsInv
    OBVIOUS
  <2>1. TypeOK
    BY AddressKinds, DatagramsAssumption DEF Init, TypeOK
  <2>2. RequestCounted /\ AddressesKnown
    BY AddressKinds DEF Init, RequestCounted, AddressesKnown
  <2>3. RequestsKnown /\ RepliesKnown /\ BuffersKnown /\ ReplyAddressFresh
    BY AddressKinds
       DEF Init, RequestsKnown, RepliesKnown, BuffersKnown, ReplyAddressFresh
  <2> QED
    BY <2>1, <2>2, <2>3 DEF DatagramsInv
<1>2. DatagramsInv /\ [Next]_vars => DatagramsInv'
  BY ClientSends, ServerReplies, ObjectReceives, ObjectPrepared DEF Next
<1> QED
  BY <1>1, <1>2, PTL DEF Spec

(* Every field keeps its type; what is sent has a real address. *)
THEOREM DatagramTypes == Spec => []TypeOK
<1>1. DatagramsInv => TypeOK
  BY DEF DatagramsInv
<1> QED
  BY <1>1, DatagramsKnown, PTL

(***************************************************************************)
(* A server that is not in multicast mode when it receives always has the  *)
(* address of the datagram in its buffer, for any number of peers.         *)
(***************************************************************************)
THEOREM RepliesGoBack == Spec => []ReplyAddressFresh
<1>1. DatagramsInv => ReplyAddressFresh
  BY DEF DatagramsInv
<1> QED
  BY <1>1, DatagramsKnown, PTL

(***************************************************************************)
(* Any number of clients, each changing between any servers and the group: *)
(* nobody is given the answer to a request of somebody else, or to one     *)
(* that the answering server was not sent.                                 *)
(***************************************************************************)
THEOREM AnswersAreOwn == Spec => []AnswersOwn
<1>1. DatagramsInv => AnswersOwn
  <2> SUFFICES ASSUME DatagramsInv, NEW c \in Clients, buffer[c] # Empty,
                      ~buffer[c].stray
               PROVE  /\ buffer[c].data[1] = c
                      /\ \E a \in {buffer[c].from, Group} :
                           [from |-> c, to |-> a, data |-> buffer[c].data,
                            stray |-> FALSE] \in net
    BY DEF AnswersOwn
  <2>1. /\ buffer[c] \in net /\ buffer[c] \in Datagrams
        /\ buffer[c].to = c
    BY DEF DatagramsInv, BuffersKnown, TypeOK
  <2>2. buffer[c].from \in Servers
    BY <2>1, AddressKinds
       DEF DatagramsInv, RequestsKnown, Datagrams, Listeners
  <2> QED
    BY <2>1, <2>2 DEF DatagramsInv, RepliesKnown
<1> QED
  BY <1>1, DatagramsKnown, PTL

=============================================================================
