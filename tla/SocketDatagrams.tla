-------------------------- MODULE SocketDatagrams --------------------------
(***************************************************************************)
(* UDP: active objects send requests to the address Open stored and        *)
(* passive objects answer to the address their last Receive stored, over a *)
(* network that loses, delays, repeats and reorders datagrams; on Linux.   *)
(* Every object is used by a thread of its own.  A round of a loop around  *)
(* SENDTO or RECVFROM is one step, with TranslateSocketError and the test  *)
(* of GetSocketError.  All that the test sees of errno is whether it holds *)
(* EINTR; which code other failures store is the matter of SocketErrors.   *)
(***************************************************************************)
EXTENDS Naturals

CONSTANTS
    Clients,           \* CActiveSocket objects, and their addresses
    Servers,           \* CPassiveSocket objects, and their addresses
    Group,             \* a multicast address
    Zero,              \* any sockaddr with port 0
    Interface,         \* the address a group is bound to
    Targets,           \* what each client opens: servers and the group
    Interruptible,     \* objects whose system calls signals interrupt
    MaxAsks            \* bound: requests of a client

Objs == Clients \cup Servers

ASSUME DatagramsAssumption ==
    /\ Clients \cap Servers = {}
    /\ {Group, Zero, Interface} \cap Objs = {}
    /\ Group \notin {Zero, Interface}
    /\ Targets \in [Clients -> SUBSET (Servers \cup {Group})]
    /\ Interruptible \subseteq Objs
    /\ MaxAsks \in Nat

VARIABLES
    m_stServerSockaddr, \* of clients, which send to it
    m_stClientSockaddr, \* of servers, which answer to it
    m_bIsMulticast,    \* of servers
    m_stMulticastGroup, \* of servers
    buffer,            \* the datagram in the internal buffer, Empty for NULL
    eintr,             \* the errno of each object's thread holds EINTR
    pc,                \* where the thread of each object is
    asked,             \* requests each client has made
    peers,             \* kernel: from whom each client's socket took datagrams
    bound,             \* kernel: how each server's socket is bound
    net,               \* kernel: the datagrams that were ever sent
    grouped            \* buffer was filled while m_bIsMulticast held

addrVars == <<m_stServerSockaddr, m_stClientSockaddr, m_stMulticastGroup>>
kernVars == <<peers, bound, net>>
vars == <<m_bIsMulticast, m_stServerSockaddr, m_stClientSockaddr,
          m_stMulticastGroup, buffer, eintr, pc, asked, peers, bound, net,
          grouped>>

Addresses == Objs \cup {Group, Zero, Interface}

(* stray: the answer to a request that was received in multicast mode. *)
Datagrams == [from : Objs, to : Addresses \ {Interface, Zero},
              data : Clients \X (1..MaxAsks), stray : BOOLEAN]

Empty == [from |-> Zero, to |-> Zero, data |-> <<>>, stray |-> FALSE]

TypeOK ==
    /\ m_bIsMulticast \in [Servers -> BOOLEAN]
    /\ m_stServerSockaddr \in [Clients -> Addresses]
    /\ m_stClientSockaddr \in [Servers -> Addresses]
    /\ m_stMulticastGroup \in [Servers -> Addresses]
    /\ buffer \in [Objs -> Datagrams \cup {Empty}]
    /\ eintr \in [Objs -> BOOLEAN]
    /\ pc \in [Objs -> {"idle", "sendto", "recvfrom"}]
    /\ asked \in [Clients -> 0..MaxAsks]
    /\ peers \in [Clients -> SUBSET Addresses]
    /\ bound \in [Servers -> {"no", "address", "group"}]
    /\ net \subseteq Datagrams
    /\ grouped \in [Servers -> BOOLEAN]

(* A system call of o fails, with EINTR or with another number. *)
Fails(o, signal) ==
    /\ signal => o \in Interruptible
    /\ eintr' = [eintr EXCEPT ![o] = signal]

-----------------------------------------------------------------------------
(* Calls that prepare an object, each one step. *)

(* Listen of a datagram object; SO_REUSEADDR and TCP_NODELAY are tried. *)
Listen(s) ==
    /\ bound[s] = "no"
    /\ bound' = [bound EXCEPT ![s] = "address"]
    /\ Fails(s, FALSE)
    /\ UNCHANGED <<m_bIsMulticast, addrVars, buffer, pc, asked, peers, net,
                   grouped>>

(* BindMulticast stores the interface it binds to, and joins the group. *)
BindMulticast(s) ==
    /\ bound[s] = "no"
    /\ bound' = [bound EXCEPT ![s] = "group"]
    /\ m_stMulticastGroup' = [m_stMulticastGroup EXCEPT ![s] = Interface]
    /\ UNCHANGED <<m_bIsMulticast, m_stServerSockaddr, m_stClientSockaddr,
                   buffer, eintr, pc, asked, peers, net, grouped>>

(* SetMulticast; the TTL option succeeds on every datagram socket. *)
SetMulticast(s, bEnable) ==
    /\ pc[s] = "idle"
    /\ m_bIsMulticast' = [m_bIsMulticast EXCEPT ![s] = bEnable]
    /\ UNCHANGED <<addrVars, buffer, eintr, pc, asked, kernVars, grouped>>

(* Open associates the socket with a; what has arrived already stays, so *)
(* peers only grows.                                                      *)
Open(c, a) ==
    /\ pc[c] = "idle"
    /\ peers' = [peers EXCEPT ![c] = @ \cup {a}]
    /\ m_stServerSockaddr' = [m_stServerSockaddr EXCEPT ![c] = a]
    /\ UNCHANGED <<m_bIsMulticast, m_stClientSockaddr, m_stMulticastGroup,
                   buffer, eintr, pc, asked, bound, net, grouped>>

(* An Open whose name is unknown, or is 255.255.255.255, which stays with no *)
(* port; or one whose connect() fails.                                       *)
OpenFails(c, a) ==
    /\ pc[c] = "idle"
    /\ \/ /\ m_stServerSockaddr' = [m_stServerSockaddr EXCEPT ![c] = Zero]
          /\ UNCHANGED eintr
       \/ /\ m_stServerSockaddr' = [m_stServerSockaddr EXCEPT ![c] = a]
          /\ Fails(c, FALSE)
    /\ UNCHANGED <<m_bIsMulticast, m_stClientSockaddr, m_stMulticastGroup,
                   buffer, pc, asked, kernVars, grouped>>

-----------------------------------------------------------------------------
(***************************************************************************)
(* After a round the loop goes on when the code is SocketInterrupted, or   *)
(* the call returns.  A call starts with its first round.                  *)
(***************************************************************************)
LoopsOrReturns(o, loop) ==
    pc' = [pc EXCEPT ![o] = IF eintr'[o] THEN loop ELSE "idle"]

(***************************************************************************)
(* CSimpleSocket::Send of a request that no client made before, or its     *)
(* next round: a SENDTO to m_stServerSockaddr.  A success leaves errno as  *)
(* it was; the kernel refuses port 0.  A socket that no connect() has      *)
(* associated is bound by it, and then takes what anyone sends to it.      *)
(***************************************************************************)
Send(c) ==
    /\ \/ /\ pc[c] = "idle"
          /\ asked[c] < MaxAsks
          /\ asked' = [asked EXCEPT ![c] = @ + 1]
       \/ /\ pc[c] = "sendto"
          /\ UNCHANGED asked
    /\ \/ /\ m_stServerSockaddr[c] # Zero
          /\ net' = net \cup {[from |-> c, to |-> m_stServerSockaddr[c],
                               data |-> <<c, asked'[c]>>, stray |-> FALSE]}
          /\ UNCHANGED eintr
       \/ /\ \E signal \in BOOLEAN : Fails(c, signal)
          /\ UNCHANGED net
    /\ peers' = [peers EXCEPT ![c] = IF @ = {} THEN Objs ELSE @]
    /\ LoopsOrReturns(c, "sendto")
    /\ UNCHANGED <<m_bIsMulticast, addrVars, buffer, bound, grouped>>

(* Mutation: the reply goes to the address the group was bound to. *)
ReplyToGroup(s) ==
    /\ pc[s] = "idle"
    /\ buffer[s] # Empty
    /\ net' = net \cup {[from |-> s, to |-> m_stMulticastGroup[s],
                         data |-> buffer[s].data, stray |-> grouped[s]]}
    /\ UNCHANGED <<m_bIsMulticast, addrVars, buffer, eintr, pc, asked, peers,
                   bound, grouped>>

(***************************************************************************)
(* CPassiveSocket::Send of what was received, GetData() and                *)
(* GetBytesReceived(), to m_stClientSockaddr.  It does not try again.      *)
(***************************************************************************)
Reply(s) ==
    /\ pc[s] = "idle"
    /\ buffer[s] # Empty
    /\ \/ /\ m_stClientSockaddr[s] # Zero
          /\ net' = net \cup {[from |-> s, to |-> m_stClientSockaddr[s],
                               data |-> buffer[s].data, stray |-> grouped[s]]}
          /\ UNCHANGED eintr
       \/ /\ \E signal \in BOOLEAN : Fails(s, signal)
          /\ UNCHANGED net
    /\ UNCHANGED <<m_bIsMulticast, addrVars, buffer, pc, asked, peers, bound,
                   grouped>>

-----------------------------------------------------------------------------
(* Receive *)

(***************************************************************************)
(* The kernel may hand d to o: a bound server gets what is sent to it or   *)
(* to a group it joined, a client what comes from an address that its      *)
(* socket is, or was once, associated with, or from anyone when it sent    *)
(* without an association.                                                 *)
(***************************************************************************)
Deliverable(d, o) ==
    IF o \in Servers
    THEN \/ d.to = o /\ bound[o] # "no"
         \/ d.to = Group /\ bound[o] = "group"
    ELSE d.to = o /\ d.from \in peers[o]

(* Mutation: the test of GetMulticast() is the wrong way round. *)
StoresExchanged(s, sender) ==
    IF m_bIsMulticast[s]
    THEN /\ m_stClientSockaddr' = [m_stClientSockaddr EXCEPT ![s] = sender]
         /\ UNCHANGED m_stMulticastGroup
    ELSE /\ m_stMulticastGroup' = [m_stMulticastGroup EXCEPT ![s] = sender]
         /\ UNCHANGED m_stClientSockaddr

(* Where RECVFROM stores the sender. *)
StoresSender(s, sender) ==
    IF m_bIsMulticast[s]
    THEN /\ m_stMulticastGroup' = [m_stMulticastGroup EXCEPT ![s] = sender]
         /\ UNCHANGED m_stClientSockaddr
    ELSE /\ m_stClientSockaddr' = [m_stClientSockaddr EXCEPT ![s] = sender]
         /\ UNCHANGED m_stMulticastGroup

(***************************************************************************)
(* Receive or its next round: a RECVFROM.  When errno still holds EINTR, a *)
(* datagram that arrives is taken and the loop goes on to the next one.  A *)
(* failure that ends the loop frees the buffer.                            *)
(***************************************************************************)
Receive(o) ==
    /\ pc[o] \in {"idle", "recvfrom"}
    /\ \/ /\ \E d \in {x \in net : Deliverable(x, o)} :
               /\ buffer' = [buffer EXCEPT ![o] = d]
               /\ IF o \in Servers
                  THEN /\ StoresSender(o, d.from)
                       /\ grouped' = [grouped EXCEPT ![o] = m_bIsMulticast[o]]
                  ELSE UNCHANGED <<m_stClientSockaddr, m_stMulticastGroup,
                                   grouped>>
          /\ UNCHANGED eintr
       \/ /\ \E signal \in BOOLEAN :
               /\ Fails(o, signal)
               /\ buffer' = IF signal THEN buffer
                            ELSE [buffer EXCEPT ![o] = Empty]
          /\ UNCHANGED <<m_stClientSockaddr, m_stMulticastGroup, grouped>>
    /\ LoopsOrReturns(o, "recvfrom")
    /\ UNCHANGED <<m_bIsMulticast, m_stServerSockaddr, asked, kernVars>>

-----------------------------------------------------------------------------
(* No constructor sets the stored addresses of a server. *)
Init ==
    /\ m_bIsMulticast = [s \in Servers |-> FALSE]
    /\ m_stServerSockaddr = [c \in Clients |-> Zero]
    /\ \E garbage \in Clients \cup {Zero} :
         m_stClientSockaddr = [s \in Servers |-> garbage]
    /\ m_stMulticastGroup = [s \in Servers |-> Zero]
    /\ buffer = [o \in Objs |-> Empty]
    /\ eintr = [o \in Objs |-> FALSE]
    /\ pc = [o \in Objs |-> "idle"]
    /\ asked = [c \in Clients |-> 0]
    /\ peers = [c \in Clients |-> {}]
    /\ bound = [s \in Servers |-> "no"]
    /\ net = {}
    /\ grouped = [s \in Servers |-> FALSE]

Next ==
    \/ \E c \in Clients :
         \/ Send(c)
         \/ \E a \in Targets[c] : Open(c, a) \/ OpenFails(c, a)
    \/ \E s \in Servers : Listen(s) \/ BindMulticast(s) \/ Reply(s)
    \/ \E o \in Objs : Receive(o)
    \/ \E s \in Servers, bEnable \in BOOLEAN : SetMulticast(s, bEnable)

Spec == Init /\ [][Next]_vars

-----------------------------------------------------------------------------
(***************************************************************************)
(* What a client receives is the answer to a request of its own, from a    *)
(* server that got this request from it, in whatever order datagrams       *)
(* arrive, are repeated or lost, and however often the client changes its  *)
(* association; unless the server received the request in multicast mode,  *)
(* where Receive does not store the sender that Send will use.             *)
(***************************************************************************)
AnswersOwn ==
    \A c \in Clients :
        LET r == buffer[c] IN
        (r # Empty /\ ~r.stray)
        => /\ r.data[1] = c
           /\ \E a \in {r.from, Group} :
                [from |-> c, to |-> a, data |-> r.data, stray |-> FALSE] \in net

(***************************************************************************)
(* The datagram in a server's buffer and the address a Send will use are   *)
(* of the same datagram, also after failed, interrupted and repeated       *)
(* receptions and changes of the multicast mode.                           *)
(***************************************************************************)
ReplyAddressFresh ==
    \A s \in Servers :
        (buffer[s] # Empty /\ ~grouped[s])
        => m_stClientSockaddr[s] = buffer[s].from

=============================================================================
