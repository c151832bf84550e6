------------------------ MODULE SocketTransferProofs ------------------------
(***************************************************************************)
(* Proofs about SocketTransfer: the types, the bounds of the receive       *)
(* buffer and what sends the loops round, for any threads and signals; the *)
(* other safety invariants of the object and the refinement of ByteStream, *)
(* for any sizes, capacity, threads and modes, when no signal interrupts a *)
(* system call.                                                            *)
(***************************************************************************)
EXTENDS SocketTransfer, SequenceTheorems, TLAPS

SendPlaces == {"send", "sendtest"}
RecvPlaces == {"recv", "recvtest"}

-----------------------------------------------------------------------------
(* Types *)

(* A send() has stored no more than the wire holds. *)
StoredOnWire ==
    /\ Len(wire) <= MaxWire
    /\ \A t \in Threads : stored[t] <= Len(wire)

(* What a thread that is in Receive stores, and where. *)
ReceiveTyped ==
    \A t \in Threads :
        pc[t] \in RecvPlaces
        => /\ t \in Receivers
           /\ arg[t] \in Sizes
           /\ memory \in [0..(arg[t] - 1) -> 0..MaxIn]
           /\ m_nBytesReceived <= arg[t]

(* Only senders send; a send() that waits has not stored all of its block, *)
(* and nothing is stored for a thread that is not in send().               *)
SendTyped ==
    \A t \in Threads :
        /\ pc[t] \in SendPlaces => t \in Senders /\ arg[t] \in Sizes
        /\ pc[t] = "send" => stored[t] < arg[t]
        /\ pc[t] # "send" => stored[t] = 0

Typed == TypeOK /\ StoredOnWire /\ ReceiveTyped /\ SendTyped

(* TranslateSocketError stores a declared code for every error number. *)
LEMMA TranslationTyped ==
    \A e \in Errnos : TranslateSocketError(e) \in CSocketError
  BY DEF TranslateSocketError, CSocketError, Errnos

(* The numbers the system calls of this module leave. *)
LEMMA NamedErrnos ==
    {"EXIT_SUCCESS", "EPIPE", "ECONNRESET", "EWOULDBLOCK", "EINTR", "EBADF",
     "ENOTCONN"} \subseteq Errnos
  BY DEF Errnos

(* The constants as the proofs use them. *)
LEMMA ConstantsTyped ==
    /\ Senders \subseteq Threads /\ Receivers \subseteq Threads
    /\ \A t, u \in Receivers : t = u
    /\ Sizes \subseteq Nat /\ 0 \notin Sizes
    /\ SendSizes \subseteq Sizes
    /\ Capacity \in Nat /\ MaxCalls \in Nat /\ MaxWire \in Nat /\ MaxIn \in Nat
  BY TransferAssumption

LEMMA ValuesTyped ==
    ASSUME Typed, NEW t \in Threads
    PROVE  /\ arg[t] \in Nat /\ stored[t] \in Nat /\ id[t] \in Nat
           /\ arg[t] \in Sizes \cup {0} /\ (arg[t] \in Sizes => arg[t] > 0)
           /\ errno[t] \in Errnos /\ soError \in Errnos
           /\ Space \in Int /\ Len(wire) \in Nat /\ drained \in Nat
           /\ taken \in Nat /\ peerSent \in Nat /\ peerSent - taken \in Nat
           /\ MaxIn \in Nat /\ MaxWire \in Nat
<1>1. TypeOK
  BY DEF Typed
<1>2. arg[t] \in Sizes \cup {0} /\ arg[t] \in Nat
      /\ (arg[t] \in Sizes => arg[t] > 0)
  <2>1. \A n \in Sizes : n \in Nat /\ n > 0
    BY ConstantsTyped
  <2>2. arg[t] \in Sizes \cup {0}
    BY <1>1 DEF TypeOK
  <2> QED
    BY <2>1, <2>2
<1>3. stored[t] \in Nat /\ id[t] \in Nat
  BY <1>1, ConstantsTyped DEF TypeOK
<1>4. errno[t] \in Errnos /\ soError \in Errnos
  BY <1>1, NamedErrnos DEF TypeOK
<1>5. Space \in Int /\ Len(wire) \in Nat /\ drained \in Nat
  BY <1>1, ConstantsTyped DEF TypeOK, Space
<1>6. taken \in Nat /\ peerSent \in Nat /\ peerSent - taken \in Nat
  BY <1>1, ConstantsTyped DEF TypeOK
<1> QED
  BY <1>2, <1>3, <1>4, <1>5, <1>6, ConstantsTyped

(* The first n values of a buffer as a sequence; n may be negative. *)
LEMMA FirstValues ==
    ASSUME NEW S, NEW n \in Int, NEW f, \A i \in 1..n : f[i - 1] \in S
    PROVE  /\ [i \in 1..n |-> f[i - 1]] \in Seq(S)
           /\ Len([i \in 1..n |-> f[i - 1]]) = IF n > 0 THEN n ELSE 0
<1> DEFINE g == [i \in 1..n |-> f[i - 1]]
<1>1. n > 0 => g \in Seq(S) /\ Len(g) = n
  OBVIOUS
<1>2. ASSUME ~(n > 0)
      PROVE  g \in Seq(S) /\ Len(g) = 0
  <2>1. 1..n = 1..0
    BY <1>2
  <2>2. [i \in 1..0 |-> f[i - 1]] \in Seq(S)
        /\ Len([i \in 1..0 |-> f[i - 1]]) = 0
    OBVIOUS
  <2> QED
    BY <2>1, <2>2
<1> HIDE DEF g
<1>3. g \in Seq(S) /\ Len(g) = IF n > 0 THEN n ELSE 0
  BY <1>1, <1>2
<1> QED
  BY <1>3 DEF g

(* The bytes that Store puts on the wire. *)
LEMMA StoreAppends ==
    ASSUME Typed, NEW t \in Threads, NEW k \in Nat, Store(t, k)
    PROVE  /\ wire' \in Seq(Nat \X Nat)
           /\ Len(wire') = Len(wire) + k
           /\ Len(wire') <= MaxWire
           /\ \A i \in 1..Len(wire) : wire'[i] = wire[i]
           /\ \A i \in (Len(wire) + 1)..(Len(wire) + k) :
                wire'[i] = <<id[t], stored[t] + (i - Len(wire))>>
<1> DEFINE more == [i \in 1..k |-> <<id[t], stored[t] + i>>]
           n == Len(wire)
<1>1. id[t] \in Nat /\ stored[t] \in Nat /\ n \in Nat
      /\ wire \in Seq(Nat \X Nat)
  BY ConstantsTyped DEF Typed, TypeOK
<1>2. more \in Seq(Nat \X Nat) /\ Len(more) = k
      /\ \A i \in 1..k : more[i] = <<id[t], stored[t] + i>>
  BY <1>1
<1>3. wire' = wire \o more /\ n + k <= MaxWire
  BY DEF Store
<1> HIDE DEF more
<1>4. /\ wire \o more \in Seq(Nat \X Nat)
      /\ Len(wire \o more) = n + k
      /\ \A i \in 1..(n + k) :
           (wire \o more)[i] = IF i <= n THEN wire[i] ELSE more[i - n]
  BY <1>1, <1>2, ConcatProperties
<1> HIDE DEF n
<1>5. \A i \in 1..n : wire'[i] = wire[i]
  BY <1>1, <1>3, <1>4
<1>6. \A i \in (n + 1)..(n + k) : wire'[i] = <<id[t], stored[t] + (i - n)>>
  <2> TAKE i \in (n + 1)..(n + k)
  <2>1. i - n \in 1..k /\ i \in 1..(n + k) /\ ~(i <= n)
    BY <1>1
  <2>2. wire'[i] = more[i - n]
    BY <1>3, <1>4, <2>1
  <2> QED
    BY <1>2, <2>1, <2>2
<1> QED
  BY <1>3, <1>4, <1>5, <1>6 DEF n

(* What a return leaves in result. *)
LEMMA ReturnTyped ==
    ASSUME Typed, NEW t \in Threads, NEW op \in {"Send", "Receive"},
           NEW r \in Int, NEW call \in Nat, Returns(t, op, r, call)
    PROVE  /\ result' \in [Threads -> Results]
           /\ pc' = [pc EXCEPT ![t] = "idle"]
           /\ arg' = [arg EXCEPT ![t] = 0]
           /\ result'[t] = [op |-> op, ret |-> r, id |-> call,
                            valid |-> valid]
           /\ \A u \in Threads \ {t} : result'[u] = result[u]
<1> DEFINE new == [op |-> op, ret |-> r, id |-> call, valid |-> valid]
<1>1. new \in Results
  BY DEF Typed, TypeOK, Results
<1>2. result \in [Threads -> Results] /\ result' = [result EXCEPT ![t] = new]
  BY DEF Typed, TypeOK, Returns
<1> HIDE DEF new
<1>3. /\ result' \in [Threads -> Results] /\ result'[t] = new
      /\ \A u \in Threads \ {t} : result'[u] = result[u]
  BY <1>1, <1>2
<1> QED
  BY <1>3 DEF new, Returns, At

(* A step that moves one thread to another place keeps the rest typed. *)
LEMMA MoveTyped ==
    ASSUME Typed, NEW t \in Threads,
           NEW where \in {"idle", "send", "sendtest", "recv", "recvtest"},
           NEW n \in Sizes \cup {0},
           pc' = [pc EXCEPT ![t] = where],
           arg' = [arg EXCEPT ![t] = n]
    PROVE  /\ pc' \in [Threads ->
                         {"idle", "send", "sendtest", "recv", "recvtest"}]
           /\ arg' \in [Threads -> Sizes \cup {0}]
           /\ pc'[t] = where /\ arg'[t] = n
           /\ \A u \in Threads \ {t} : pc'[u] = pc[u] /\ arg'[u] = arg[u]
  BY DEF Typed, TypeOK

LEMMA SendCalledTyped ==
    ASSUME Typed, NEW t \in Threads, NEW n \in SendSizes, SendCalled(t, n)
    PROVE  Typed'
<1>0. /\ TypeOK /\ StoredOnWire /\ ReceiveTyped /\ SendTyped
      /\ n \in Sizes /\ calls < MaxCalls /\ MaxCalls \in Nat
      /\ pc[t] = "idle" /\ t \in Senders
  BY ConstantsTyped DEF Typed, SendCalled
<1>1. \E where \in {"idle", "send"}, m \in Sizes \cup {0} :
        pc' = [pc EXCEPT ![t] = where] /\ arg' = [arg EXCEPT ![t] = m]
  BY <1>0 DEF SendCalled, At, Returns
<1>2. /\ pc' \in [Threads ->
                    {"idle", "send", "sendtest", "recv", "recvtest"}]
      /\ arg' \in [Threads -> Sizes \cup {0}]
      /\ pc'[t] \in {"idle", "send"}
      /\ \A u \in Threads \ {t} : pc'[u] = pc[u] /\ arg'[u] = arg[u]
  BY <1>1, MoveTyped
<1>3. result' \in [Threads -> Results]
  <2>1. calls + 1 \in Nat
    BY <1>0 DEF TypeOK
  <2>2. CASE valid
    BY <1>0, <2>2 DEF SendCalled, TypeOK
  <2>3. CASE ~valid
    <3> DEFINE call == calls + 1
               r == 0
    <3>1. Returns(t, "Send", r, call)
      BY <2>3 DEF SendCalled
    <3>2. r \in Int /\ call \in Nat /\ "Send" \in {"Send", "Receive"}
      BY <2>1
    <3> HIDE DEF call, r
    <3> QED
      BY <3>1, <3>2, ReturnTyped
  <2> QED
    BY <2>2, <2>3
<1>4. calls' \in 0..MaxCalls /\ id' \in [Threads -> 0..MaxCalls]
  BY <1>0 DEF SendCalled, TypeOK
<1>5. TypeOK'
  BY <1>0, <1>2, <1>3, <1>4
     DEF SendCalled, TypeOK, kernVars, sysVars, recvVars, CSocketError
<1>6. StoredOnWire' /\ ReceiveTyped'
  BY <1>0, <1>2
     DEF SendCalled, StoredOnWire, ReceiveTyped, kernVars, recvVars, RecvPlaces
<1>7. SendTyped'
  <2>1. stored' = stored /\ stored[t] = 0 /\ n > 0
    BY <1>0, ConstantsTyped
       DEF SendCalled, SendTyped, SendPlaces, kernVars, recvVars
  <2>2. pc'[t] = "send" => arg'[t] = n
    BY <1>0 DEF SendCalled, Returns, At, TypeOK
  <2> QED
    BY <1>0, <1>2, <2>1, <2>2 DEF SendTyped, SendPlaces
<1> QED
  BY <1>5, <1>6, <1>7 DEF Typed

LEMMA SendStoresTyped ==
    ASSUME Typed, NEW t \in Threads, SendStores(t)
    PROVE  Typed'
<1>0. TypeOK /\ StoredOnWire /\ ReceiveTyped /\ SendTyped
  BY DEF Typed
<1>1. Space \in Nat
  BY <1>0, ConstantsTyped DEF SendStores, Space, TypeOK
<1>2. /\ wire' \in Seq(Nat \X Nat)
      /\ Len(wire') = Len(wire) + Space
      /\ Len(wire') <= MaxWire
  <2> DEFINE k == Space
  <2>1. Store(t, k) /\ k \in Nat
    BY <1>1 DEF SendStores
  <2> HIDE DEF k
  <2>2. /\ wire' \in Seq(Nat \X Nat)
        /\ Len(wire') = Len(wire) + k
        /\ Len(wire') <= MaxWire
    BY <2>1, StoreAppends
  <2> QED
    BY <2>2 DEF k
<1> DEFINE k == Space
<1>9. stored' = [stored EXCEPT ![t] = stored[t] + k]
  BY DEF SendStores
<1>10. /\ Len(wire) \in Nat /\ MaxWire \in Nat
       /\ stored \in [Threads -> 0..MaxWire]
  BY <1>0, ConstantsTyped DEF TypeOK
<1>11. k < arg[t] - stored[t]
  BY ValuesTyped DEF SendStores
<1> HIDE DEF k
<1>3. k \in Nat /\ stored' = [stored EXCEPT ![t] = stored[t] + k]
      /\ Len(wire) \in Nat /\ MaxWire \in Nat
      /\ stored \in [Threads -> 0..MaxWire]
      /\ Len(wire') = Len(wire) + k /\ Len(wire') <= MaxWire
  BY <1>1, <1>2, <1>9, <1>10 DEF k
<1>4. \A u \in Threads : stored[u] <= Len(wire)
  BY <1>0 DEF StoredOnWire
<1>5. /\ stored' \in [Threads -> 0..MaxWire]
      /\ \A u \in Threads : stored'[u] <= Len(wire')
  <2>1. stored[t] + k \in 0..MaxWire /\ stored[t] + k <= Len(wire')
    BY <1>3, <1>4
  <2>2. \A u \in Threads : stored[u] <= Len(wire')
    BY <1>3, <1>4
  <2> QED
    BY <1>3, <2>1, <2>2
<1>6. drained \in 0..Len(wire')
  BY <1>0, <1>3 DEF TypeOK
<1>7. TypeOK'
  BY <1>0, <1>2, <1>5, <1>6
     DEF SendStores, TypeOK, kernVars, sysVars, recvVars
<1>8. StoredOnWire' /\ ReceiveTyped'
  BY <1>0, <1>2, <1>5
     DEF SendStores, StoredOnWire, ReceiveTyped, kernVars, recvVars
<1>12. SendTyped'
  <2>1. pc' = pc /\ arg' = arg
    BY DEF SendStores
  <2>2. stored'[t] = stored[t] + k
        /\ \A u \in Threads \ {t} : stored'[u] = stored[u]
    BY <1>3
  <2>3. stored[t] + k < arg[t] /\ pc[t] = "send"
    BY <1>3, <1>11, ValuesTyped DEF SendStores
  <2> QED
    BY <1>0, <2>1, <2>2, <2>3 DEF SendTyped
<1> QED
  BY <1>7, <1>8, <1>12 DEF Typed

(* What send() answers: a count within the block, or -1. *)
LEMMA SendAnswersTyped ==
    ASSUME Typed, NEW t \in Threads, pc[t] = "send",
           NEW a \in SendAnswers(t)
    PROVE  /\ a.more \in Nat /\ a.n \in Int /\ a.e \in Errnos
           /\ a.n # -1 => a.n = stored[t] + a.more /\ a.n \in 1..arg[t]
           /\ a.n = -1 => a.more = 0 /\ stored[t] = 0
<1> DEFINE Done(k)  == [more |-> k, n |-> stored[t] + k, e |-> errno[t]]
           Fails(e) == IF stored[t] > 0 THEN Done(0)
                                        ELSE [more |-> 0, n |-> -1, e |-> e]
           rest     == arg[t] - stored[t]
<1>1. /\ stored[t] \in Nat /\ arg[t] \in Nat /\ stored[t] < arg[t]
      /\ errno[t] \in Errnos /\ soError \in Errnos
      /\ Space \in Int
  BY ValuesTyped DEF Typed, SendTyped
<1>2. \/ a \in {Done(rest)}
      \/ Space > 0 /\ Space < rest /\ a \in {Done(Space)}
      \/ \E e \in Errnos : a = Fails(e)
  BY <1>1, NamedErrnos DEF SendAnswers, When
<1> QED
  <2>1. CASE a \in {Done(rest)}
    BY <1>1, <2>1
  <2>2. CASE Space > 0 /\ Space < rest /\ a \in {Done(Space)}
    BY <1>1, <2>2
  <2>3. CASE \E e \in Errnos : a = Fails(e)
    BY <1>1, <2>3
  <2> QED
    BY <1>2, <2>1, <2>2, <2>3

LEMMA SendSyscallTyped ==
    ASSUME Typed, NEW t \in Threads, SendSyscall(t)
    PROVE  Typed'
<1>0. TypeOK /\ StoredOnWire /\ ReceiveTyped /\ SendTyped /\ pc[t] = "send"
  BY DEF Typed, SendSyscall
<1>1. PICK a \in SendAnswers(t) :
        /\ Store(t, a.more)
        /\ m_nBytesSent' = a.n
        /\ errno' = [errno EXCEPT ![t] = a.e]
        /\ m_socketErrno' = TranslateSocketError(a.e)
        /\ soError' = IF a.n = -1 /\ a.e = soError THEN "EXIT_SUCCESS"
                                                   ELSE soError
  BY DEF SendSyscall
<1>2. a.more \in Nat /\ a.n \in Int /\ a.e \in Errnos
  BY <1>0, SendAnswersTyped
<1>3. /\ wire' \in Seq(Nat \X Nat)
      /\ Len(wire') = Len(wire) + a.more
      /\ Len(wire') <= MaxWire
  BY <1>1, <1>2, StoreAppends
<1>4. drained \in 0..Len(wire') /\ Len(wire) <= Len(wire')
  BY <1>0, <1>2, <1>3 DEF TypeOK
<1>5. /\ stored' = [stored EXCEPT ![t] = 0]
      /\ stored' \in [Threads -> 0..MaxWire]
      /\ \A u \in Threads : stored'[u] <= Len(wire')
  <2>1. stored \in [Threads -> 0..MaxWire] /\ 0 \in 0..MaxWire
    BY <1>0, ConstantsTyped DEF TypeOK
  <2>2. Len(wire) \in Nat /\ \A u \in Threads : stored[u] <= Len(wire)
    BY <1>0 DEF TypeOK, StoredOnWire
  <2> QED
    BY <1>2, <1>3, <2>1, <2>2 DEF SendSyscall
<1>6. /\ pc' \in [Threads ->
                    {"idle", "send", "sendtest", "recv", "recvtest"}]
      /\ pc'[t] = "sendtest" /\ arg' = arg
      /\ \A u \in Threads \ {t} : pc'[u] = pc[u]
  BY <1>0 DEF SendSyscall, At, TypeOK
<1>7. /\ m_socketErrno' \in CSocketError
      /\ errno' \in [Threads -> Errnos]
      /\ soError' \in {"EXIT_SUCCESS", "ECONNRESET", "EPIPE"}
      /\ interrupted' \in BOOLEAN
  BY <1>0, <1>1, <1>2, TranslationTyped DEF TypeOK, SendSyscall
<1>8. TypeOK'
  BY <1>0, <1>1, <1>2, <1>3, <1>4, <1>5, <1>6, <1>7
     DEF SendSyscall, TypeOK, kernVars, recvVars
<1>9. StoredOnWire' /\ ReceiveTyped'
  BY <1>0, <1>3, <1>5, <1>6
     DEF SendSyscall, StoredOnWire, ReceiveTyped, RecvPlaces, kernVars,
         recvVars
<1>10. SendTyped'
  BY <1>0, <1>5, <1>6 DEF SendTyped, SendPlaces, TypeOK
<1> QED
  BY <1>8, <1>9, <1>10 DEF Typed

LEMMA SendTestTyped ==
    ASSUME Typed, NEW t \in Threads, SendTest(t)
    PROVE  Typed'
<1>0. /\ TypeOK /\ StoredOnWire /\ ReceiveTyped /\ SendTyped
      /\ pc[t] = "sendtest" /\ t \in Senders /\ arg[t] \in Sizes
      /\ stored[t] = 0
  BY DEF Typed, SendTest, SendTyped, SendPlaces
<1>1. \/ /\ pc' = [pc EXCEPT ![t] = "send"]
         /\ arg' = [arg EXCEPT ![t] = arg[t]]
         /\ result' = result
      \/ /\ pc' = [pc EXCEPT ![t] = "idle"]
         /\ arg' = [arg EXCEPT ![t] = 0]
         /\ result' \in [Threads -> Results]
  <2>1. CASE m_socketErrno = "SocketInterrupted"
    BY <1>0, <2>1 DEF SendTest, Goes, At, TypeOK
  <2>2. CASE m_socketErrno # "SocketInterrupted"
    <3>1. Returns(t, "Send", m_nBytesSent, id[t])
      BY <2>2 DEF SendTest
    <3>2. m_nBytesSent \in Int /\ id[t] \in Nat
          /\ "Send" \in {"Send", "Receive"}
      BY <1>0, ValuesTyped DEF TypeOK
    <3> QED
      BY <3>1, <3>2, ReturnTyped
  <2> QED
    BY <2>1, <2>2
<1>2. /\ pc' \in [Threads ->
                    {"idle", "send", "sendtest", "recv", "recvtest"}]
      /\ arg' \in [Threads -> Sizes \cup {0}]
      /\ pc'[t] \in {"idle", "send"}
      /\ pc'[t] = "send" => arg'[t] = arg[t]
      /\ \A u \in Threads \ {t} : pc'[u] = pc[u] /\ arg'[u] = arg[u]
  BY <1>0, <1>1, MoveTyped
<1>3. TypeOK'
  BY <1>0, <1>1, <1>2
     DEF SendTest, TypeOK, kernVars, sysVars, recvVars, sendVars
<1>4. StoredOnWire' /\ ReceiveTyped'
  BY <1>0, <1>2
     DEF SendTest, StoredOnWire, ReceiveTyped, RecvPlaces, kernVars,
         recvVars, sendVars
<1>5. SendTyped'
  <2>1. stored' = stored /\ arg[t] > 0
    BY <1>0, ValuesTyped DEF SendTest, sendVars
  <2> QED
    BY <1>0, <1>2, <2>1 DEF SendTyped, SendPlaces
<1> QED
  BY <1>3, <1>4, <1>5 DEF Typed

LEMMA ReceiveCalledTyped ==
    ASSUME Typed, NEW t \in Threads, NEW n \in Sizes, NEW mine \in BOOLEAN,
           ReceiveCalled(t, n, mine)
    PROVE  Typed'
<1>0. /\ TypeOK /\ StoredOnWire /\ ReceiveTyped /\ SendTyped
      /\ pc[t] = "idle" /\ t \in Receivers /\ n \in Nat /\ n > 0
  BY ConstantsTyped DEF Typed, ReceiveCalled
<1>1. \/ /\ pc' = [pc EXCEPT ![t] = "recv"]
         /\ arg' = [arg EXCEPT ![t] = n]
         /\ result' = result
         /\ memory' = [i \in 0..(n - 1) |-> 0]
      \/ /\ pc' = [pc EXCEPT ![t] = "idle"]
         /\ arg' = [arg EXCEPT ![t] = 0]
         /\ result' \in [Threads -> Results]
  <2>1. CASE valid
    BY <2>1 DEF ReceiveCalled, At
  <2>2. CASE ~valid
    <3> DEFINE r == 0
               call == 0
    <3>1. Returns(t, "Receive", r, call)
      BY <2>2 DEF ReceiveCalled
    <3>2. r \in Int /\ call \in Nat /\ "Receive" \in {"Send", "Receive"}
      OBVIOUS
    <3> HIDE DEF r, call
    <3> QED
      BY <3>1, <3>2, ReturnTyped
  <2> QED
    BY <2>1, <2>2
<1>2. /\ pc' \in [Threads ->
                    {"idle", "send", "sendtest", "recv", "recvtest"}]
      /\ arg' \in [Threads -> Sizes \cup {0}]
      /\ pc'[t] \in {"idle", "recv"}
      /\ pc'[t] = "recv" => /\ arg'[t] = n
                            /\ memory' = [i \in 0..(n - 1) |-> 0]
      /\ \A u \in Threads \ {t} : pc'[u] = pc[u] /\ arg'[u] = arg[u]
  BY <1>0, <1>1, MoveTyped
<1>3. result' \in [Threads -> Results]
  BY <1>0, <1>1 DEF TypeOK
<1>4. /\ heap' \in Sizes \cup {NoBuffer} /\ m_nBufferSize' \in Sizes \cup {0}
      /\ m_socketErrno' \in CSocketError
      /\ own' \in [Threads -> BOOLEAN]
  BY <1>0 DEF ReceiveCalled, AllocateBuffer, TypeOK, CSocketError
<1>5. TypeOK'
  BY <1>0, <1>2, <1>3, <1>4
     DEF ReceiveCalled, TypeOK, kernVars, sysVars, sendVars
<1>6. \A u \in Threads : u # t => pc'[u] \notin RecvPlaces
  BY <1>0, <1>2, ConstantsTyped DEF ReceiveTyped, RecvPlaces
<1>7. ReceiveTyped'
  <2> SUFFICES ASSUME pc'[t] = "recv"
               PROVE  /\ arg'[t] \in Sizes
                      /\ memory' \in [0..(arg'[t] - 1) -> 0..MaxIn]
                      /\ m_nBytesReceived' <= arg'[t]
    BY <1>0, <1>2, <1>6 DEF ReceiveTyped, RecvPlaces
  <2>1. 0 \in 0..MaxIn /\ m_nBytesReceived' = 0
    BY ConstantsTyped DEF ReceiveCalled
  <2> QED
    BY <1>0, <1>2, <2>1
<1>8. StoredOnWire' /\ SendTyped'
  BY <1>0, <1>2
     DEF ReceiveCalled, StoredOnWire, SendTyped, SendPlaces, sendVars
<1> QED
  BY <1>5, <1>7, <1>8 DEF Typed

(* What recv() answers: a count of bytes that have arrived, or -1. *)
LEMMA RecvAnswersTyped ==
    ASSUME Typed, NEW t \in Threads, pc[t] = "recv",
           NEW a \in RecvAnswers(t, arg[t])
    PROVE  /\ a.n \in Int /\ a.e \in Errnos
           /\ a.n = -1 \/ a.n \in 0..arg[t]
           /\ a.n <= peerSent - taken
           /\ a.n = 0 => peer # "open" \/ "Receives" \in shut
<1>1. arg[t] \in Nat /\ arg[t] > 0
  BY ValuesTyped DEF Typed, ReceiveTyped, RecvPlaces
<1> DEFINE Answer(n, e) == [n |-> n, e |-> e]
<1>2. \/ /\ taken < peerSent
         /\ a = Answer(Lesser(arg[t], peerSent - taken), errno[t])
      \/ \E e \in Errnos : a = Answer(-1, e)
      \/ (peer # "open" \/ "Receives" \in shut) /\ a = Answer(0, errno[t])
  BY ValuesTyped, NamedErrnos DEF RecvAnswers, When, Finished, Gone
<1>3. CASE /\ taken < peerSent
           /\ a = Answer(Lesser(arg[t], peerSent - taken), errno[t])
  <2>1. a.n = Lesser(arg[t], peerSent - taken) /\ a.e \in Errnos
    BY <1>3, ValuesTyped
  <2>2. peerSent - taken \in Nat /\ peerSent - taken > 0
    BY <1>3, ValuesTyped
  <2> QED
    BY <1>1, <2>1, <2>2 DEF Lesser
<1>4. CASE \E e \in Errnos : a = Answer(-1, e)
  BY <1>4, ValuesTyped
<1>5. CASE (peer # "open" \/ "Receives" \in shut) /\ a = Answer(0, errno[t])
  BY <1>1, <1>5, ValuesTyped
<1> QED
  BY <1>2, <1>3, <1>4, <1>5

LEMMA RecvSyscallTyped ==
    ASSUME Typed, NEW t \in Threads, RecvSyscall(t)
    PROVE  Typed'
<1>0. /\ TypeOK /\ StoredOnWire /\ ReceiveTyped /\ SendTyped
      /\ pc[t] = "recv" /\ t \in Receivers /\ arg[t] \in Sizes
      /\ memory \in [0..(arg[t] - 1) -> 0..MaxIn]
  BY DEF Typed, RecvSyscall, ReceiveTyped, RecvPlaces
<1>1. PICK a \in RecvAnswers(t, arg[t]) :
        /\ memory' = [i \in DOMAIN memory |->
                        IF i - m_nBytesReceived \in 0..(a.n - 1)
                        THEN taken + 1 + i - m_nBytesReceived ELSE memory[i]]
        /\ taken' = IF a.n > 0 THEN taken + a.n ELSE taken
        /\ soError' = IF a.n = -1 /\ a.e = soError THEN "EXIT_SUCCESS"
                                                   ELSE soError
        /\ m_nBytesReceived' = a.n
        /\ errno' = [errno EXCEPT ![t] = a.e]
        /\ m_socketErrno' = TranslateSocketError(a.e)
  BY DEF RecvSyscall
<1>2. /\ a.n \in Int /\ a.e \in Errnos
      /\ a.n = -1 \/ a.n \in 0..arg[t]
      /\ a.n <= peerSent - taken
  BY <1>0, RecvAnswersTyped
<1>3. taken' \in 0..peerSent
  <2>1. taken \in Nat /\ peerSent \in Nat /\ taken <= peerSent
    BY ValuesTyped
  <2> QED
    BY <1>1, <1>2, <2>1
<1>4. memory' \in [0..(arg[t] - 1) -> 0..MaxIn]
  <2>1. m_nBytesReceived \in Int /\ taken \in Nat /\ peerSent <= MaxIn
        /\ peerSent \in Nat /\ MaxIn \in Nat /\ taken <= peerSent
    BY <1>0, ValuesTyped DEF TypeOK
  <2>2. \A i \in 0..(arg[t] - 1) :
          i - m_nBytesReceived \in 0..(a.n - 1)
          => taken + 1 + i - m_nBytesReceived \in 0..MaxIn
    BY <1>2, <2>1
  <2> QED
    BY <1>0, <1>1, <2>2
<1>5. /\ pc' \in [Threads ->
                    {"idle", "send", "sendtest", "recv", "recvtest"}]
      /\ pc'[t] = "recvtest" /\ arg' = arg
      /\ \A u \in Threads \ {t} : pc'[u] = pc[u]
  BY <1>0 DEF RecvSyscall, At, TypeOK
<1>6. /\ m_socketErrno' \in CSocketError
      /\ errno' \in [Threads -> Errnos]
      /\ soError' \in {"EXIT_SUCCESS", "ECONNRESET", "EPIPE"}
  BY <1>0, <1>1, <1>2, TranslationTyped DEF TypeOK
<1>7. interrupted' \in BOOLEAN
  BY <1>0 DEF RecvSyscall, TypeOK
<1>8. TypeOK'
  BY <1>0, <1>1, <1>2, <1>3, <1>5, <1>6, <1>7
     DEF RecvSyscall, TypeOK, kernVars, sendVars
<1>9. ReceiveTyped'
  <2>1. \A u \in Threads : u # t => pc'[u] \notin RecvPlaces
    BY <1>0, <1>5, ConstantsTyped DEF ReceiveTyped, RecvPlaces
  <2>2. m_nBytesReceived' <= arg[t]
    BY <1>1, <1>2, ValuesTyped
  <2> QED
    BY <1>0, <1>4, <1>5, <2>1, <2>2 DEF ReceiveTyped
<1>10. StoredOnWire' /\ SendTyped'
  BY <1>0, <1>5
     DEF RecvSyscall, StoredOnWire, SendTyped, SendPlaces, sendVars
<1> QED
  BY <1>8, <1>9, <1>10 DEF Typed

(* What Receive hands to the application. *)
LEMMA HandedTyped ==
    ASSUME Typed, NEW t \in Threads, pc[t] \in RecvPlaces
    PROVE  LET handed == [i \in 1..m_nBytesReceived |-> memory[i - 1]]
           IN  /\ handed \in Seq(0..MaxIn)
               /\ Len(handed) = IF m_nBytesReceived > 0
                                THEN m_nBytesReceived ELSE 0
<1>1. m_nBytesReceived \in Int
  BY DEF Typed, TypeOK
<1>2. \A i \in 1..m_nBytesReceived : memory[i - 1] \in 0..MaxIn
  <2>1. memory \in [0..(arg[t] - 1) -> 0..MaxIn] /\ arg[t] \in Nat
        /\ m_nBytesReceived <= arg[t]
    BY ValuesTyped DEF Typed, ReceiveTyped
  <2> QED
    BY <1>1, <2>1
<1> QED
  BY <1>1, <1>2, FirstValues

LEMMA RecvTestTyped ==
    ASSUME Typed, NEW t \in Threads, RecvTest(t)
    PROVE  Typed'
<1>0. /\ TypeOK /\ StoredOnWire /\ ReceiveTyped /\ SendTyped
      /\ pc[t] = "recvtest" /\ t \in Receivers /\ arg[t] \in Sizes
      /\ errno[t] \in Errnos
  BY ValuesTyped DEF Typed, RecvTest, ReceiveTyped, RecvPlaces
<1>1. \/ /\ pc' = [pc EXCEPT ![t] = "recv"]
         /\ arg' = [arg EXCEPT ![t] = arg[t]]
         /\ UNCHANGED <<result, m_socketErrno, heap, delivered, memory>>
      \/ /\ pc' = [pc EXCEPT ![t] = "idle"]
         /\ arg' = [arg EXCEPT ![t] = 0]
         /\ result' \in [Threads -> Results]
         /\ m_socketErrno' \in CSocketError
         /\ heap' \in {heap, NoBuffer}
         /\ delivered' \in Seq(0..MaxIn)
  <2>1. CASE m_socketErrno = "SocketInterrupted"
    BY <1>0, <2>1 DEF RecvTest, Goes, At, TypeOK
  <2>2. CASE m_socketErrno # "SocketInterrupted"
    <3> DEFINE call == 0
               handed == [i \in 1..m_nBytesReceived |-> memory[i - 1]]
    <3>1. Returns(t, "Receive", m_nBytesReceived, call)
      BY <2>2 DEF RecvTest
    <3>2. m_nBytesReceived \in Int /\ call \in Nat
          /\ "Receive" \in {"Send", "Receive"}
      BY <1>0 DEF TypeOK
    <3>3. handed \in Seq(0..MaxIn) /\ delivered' = delivered \o handed
      BY <1>0, <2>2, HandedTyped DEF RecvPlaces, RecvTest
    <3> HIDE DEF call, handed
    <3>4. delivered' \in Seq(0..MaxIn)
      BY <1>0, <3>3, ConcatProperties DEF TypeOK
    <3>5. m_socketErrno' \in CSocketError /\ heap' \in {heap, NoBuffer}
      BY <1>0, <2>2, TranslationTyped DEF RecvTest
    <3>6. /\ pc' = [pc EXCEPT ![t] = "idle"]
          /\ arg' = [arg EXCEPT ![t] = 0]
          /\ result' \in [Threads -> Results]
      BY <3>1, <3>2, ReturnTyped
    <3> QED
      BY <3>4, <3>5, <3>6
  <2> QED
    BY <2>1, <2>2
<1>2. /\ pc' \in [Threads ->
                    {"idle", "send", "sendtest", "recv", "recvtest"}]
      /\ arg' \in [Threads -> Sizes \cup {0}]
      /\ pc'[t] \in {"idle", "recv"}
      /\ pc'[t] = "recv" => arg'[t] = arg[t] /\ memory' = memory
      /\ \A u \in Threads \ {t} : pc'[u] = pc[u] /\ arg'[u] = arg[u]
  BY <1>0, <1>1, MoveTyped
<1>3. /\ result' \in [Threads -> Results] /\ m_socketErrno' \in CSocketError
      /\ heap' \in Sizes \cup {NoBuffer} /\ delivered' \in Seq(0..MaxIn)
  BY <1>0, <1>1 DEF TypeOK
<1>4. TypeOK'
  BY <1>0, <1>2, <1>3
     DEF RecvTest, TypeOK, kernVars, sysVars, sendVars
<1>5. ReceiveTyped'
  <2>1. \A u \in Threads : u # t => pc'[u] \notin RecvPlaces
    BY <1>0, <1>2, ConstantsTyped DEF ReceiveTyped, RecvPlaces
  <2>2. m_nBytesReceived' = m_nBytesReceived
    BY DEF RecvTest
  <2> QED
    BY <1>0, <1>2, <2>1, <2>2 DEF ReceiveTyped, RecvPlaces
<1>6. StoredOnWire' /\ SendTyped'
  BY <1>0, <1>2
     DEF RecvTest, StoredOnWire, SendTyped, SendPlaces, sendVars
<1> QED
  BY <1>4, <1>5, <1>6 DEF Typed

(* Shutdown, Close, the peer and the network leave the calls alone. *)
LEMMA ShutdownTyped ==
    ASSUME Typed, NEW t \in Threads, NEW ends \in ShutdownModes,
           Shutdown(t, ends)
    PROVE  Typed'
<1>0. TypeOK /\ StoredOnWire /\ ReceiveTyped /\ SendTyped
  BY DEF Typed
<1>1. errno' \in [Threads -> Errnos] /\ errno'[t] \in Errnos
  BY <1>0, NamedErrnos DEF Shutdown, TypeOK
<1>2. shut' \subseteq {"Receives", "Sends"} /\ m_socketErrno' \in CSocketError
  BY <1>0, <1>1, TranslationTyped DEF Shutdown, ShutdownModes, TypeOK
<1>3. TypeOK'
  BY <1>0, <1>1, <1>2 DEF Shutdown, TypeOK, netVars, callVars
<1> QED
  BY <1>0, <1>3
     DEF Typed, Shutdown, StoredOnWire, ReceiveTyped, SendTyped, netVars,
         callVars

LEMMA CloseTyped ==
    ASSUME Typed, NEW t \in Threads, Close(t)
    PROVE  Typed'
<1>0. TypeOK /\ StoredOnWire /\ ReceiveTyped /\ SendTyped
  BY DEF Typed
<1>1. m_socketErrno' \in CSocketError
  BY ValuesTyped, TranslationTyped DEF Close
<1>2. TypeOK'
  BY <1>0, <1>1 DEF Close, TypeOK, sysVars, netVars, callVars
<1> QED
  BY <1>0, <1>2
     DEF Typed, Close, StoredOnWire, ReceiveTyped, SendTyped, netVars, callVars

LEMMA NetworkTyped ==
    ASSUME Typed, Network
    PROVE  Typed'
<1>0. TypeOK /\ StoredOnWire /\ ReceiveTyped /\ SendTyped
  BY DEF Typed
<1>1. /\ wire' = wire /\ taken' = taken
      /\ UNCHANGED <<objVars, sysVars, mode, shut, callVars, memory,
                     delivered, result>>
  BY DEF Network, PeerDrains, PeerSends, PeerFinishes, PeerResets
<1>2. drained' \in 0..Len(wire)
  BY <1>0
     DEF Network, PeerDrains, PeerSends, PeerFinishes, PeerResets, TypeOK
<1>3. peerSent' \in 0..MaxIn /\ taken \in 0..peerSent'
  BY <1>0, ConstantsTyped
     DEF Network, PeerDrains, PeerSends, PeerFinishes, PeerResets, TypeOK
<1>4. /\ peer' \in {"open", "finished", "reset", "aborted"}
      /\ soError' \in {"EXIT_SUCCESS", "ECONNRESET", "EPIPE"}
  BY <1>0
     DEF Network, PeerDrains, PeerSends, PeerFinishes, PeerResets, TypeOK
<1>5. TypeOK'
  BY <1>0, <1>1, <1>2, <1>3, <1>4 DEF TypeOK, objVars, sysVars, callVars
<1> QED
  BY <1>0, <1>1, <1>5
     DEF Typed, StoredOnWire, ReceiveTyped, SendTyped, objVars, callVars

LEMMA InitTyped == Init => Typed
<1> SUFFICES ASSUME Init
             PROVE  Typed
  OBVIOUS
<1>1. "EXIT_SUCCESS" \in Errnos /\ "SocketSuccess" \in CSocketError
      /\ NoResult \in Results
  BY NamedErrnos DEF CSocketError, NoResult, Results
<1>2. wire \in Seq(Nat \X Nat) /\ Len(wire) = 0
      /\ delivered \in Seq(0..MaxIn)
  BY DEF Init
<1>5. /\ drained \in 0..Len(wire) /\ peerSent \in 0..MaxIn
      /\ taken \in 0..peerSent /\ calls \in 0..MaxCalls
      /\ stored \in [Threads -> 0..MaxWire] /\ id \in [Threads -> 0..MaxCalls]
  BY <1>2, ConstantsTyped DEF Init
<1>6. /\ errno \in [Threads -> Errnos] /\ result \in [Threads -> Results]
      /\ pc \in [Threads -> {"idle", "send", "sendtest", "recv", "recvtest"}]
      /\ arg \in [Threads -> Sizes \cup {0}] /\ own \in [Threads -> BOOLEAN]
  BY <1>1 DEF Init
<1>8. valid \in BOOLEAN /\ interrupted \in BOOLEAN
  BY DEF Init
<1>7. /\ m_socketErrno \in CSocketError
      /\ m_nBytesSent \in Int /\ m_nBytesReceived \in Int
      /\ m_nBufferSize \in Sizes \cup {0} /\ heap \in Sizes \cup {NoBuffer}
      /\ mode \in Modes /\ shut \subseteq {"Receives", "Sends"}
      /\ peer \in {"open", "finished", "reset", "aborted"}
      /\ soError \in {"EXIT_SUCCESS", "ECONNRESET", "EPIPE"}
  BY <1>1 DEF Init, NoBuffer
<1>3. TypeOK
  BY <1>2, <1>5, <1>6, <1>7, <1>8 DEF TypeOK
<1>4. StoredOnWire /\ ReceiveTyped /\ SendTyped
  BY <1>2, ConstantsTyped
     DEF Init, StoredOnWire, ReceiveTyped, SendTyped, SendPlaces, RecvPlaces
<1> QED
  BY <1>3, <1>4 DEF Typed

LEMMA StepTyped ==
    ASSUME Typed, [Next]_vars
    PROVE  Typed'
<1>1. CASE Network
  BY <1>1, NetworkTyped
<1>2. ASSUME NEW t \in Threads, Library(t)
      PROVE  Typed'
  BY <1>2, SendStoresTyped, SendSyscallTyped, SendTestTyped,
     RecvSyscallTyped, RecvTestTyped DEF Library
<1>3. ASSUME NEW t \in Threads, Application(t)
      PROVE  Typed'
  BY <1>3, SendCalledTyped, ReceiveCalledTyped, ShutdownTyped, CloseTyped
     DEF Application
<1>4. CASE UNCHANGED vars
  BY <1>4
     DEF vars, Typed, TypeOK, StoredOnWire, ReceiveTyped, SendTyped
<1> QED
  BY <1>1, <1>2, <1>3, <1>4 DEF Next

LEMMA AlwaysTyped == Spec => []Typed
  BY InitTyped, StepTyped, PTL DEF Spec

(***************************************************************************)
(* The members of the object, the threads' calls and the connection keep   *)
(* their types, for any number of senders and with signals in any place.   *)
(***************************************************************************)
THEOREM TransferTypes == Spec => []TypeOK
<1>1. Typed => TypeOK
  BY DEF Typed
<1> QED
  BY <1>1, AlwaysTyped, PTL

-----------------------------------------------------------------------------
(***************************************************************************)
(* Signals.  Any threads send, close and are interrupted in any place.  An *)
(* EINTR in an errno or in m_socketErrno comes from a call that a signal   *)
(* ended, so that before the first one the loops do not go round; a buffer *)
(* that recv() is given is as large as nMaxBytes in every round.           *)
(***************************************************************************)
SignalNoted ==
    /\ m_socketErrno = "SocketInterrupted" => interrupted
    /\ \A t \in Threads : errno[t] = "EINTR" => interrupted

(* The internal buffer, when there is one, has the size that is noted. *)
BufferNoted == heap # NoBuffer => heap = m_nBufferSize

BufferFits ==
    \A t \in Receivers :
        /\ pc[t] \in RecvPlaces => own[t] \/ heap = arg[t]
        /\ pc[t] = "recv" => m_nBytesReceived = 0 \/ interrupted

BoundsInv == Typed /\ SignalNoted /\ BufferNoted /\ BufferFits

(* Only EINTR is translated to the code that the loops go round on. *)
LEMMA TranslationInterrupted ==
    \A e \in Errnos :
        e # "EINTR" => TranslateSocketError(e) # "SocketInterrupted"
  BY DEF TranslateSocketError, Errnos

LEMMA StepSignal ==
    ASSUME Typed, SignalNoted, [Next]_vars
    PROVE  SignalNoted' /\ (interrupted => interrupted')
<1>0. /\ errno \in [Threads -> Errnos] /\ interrupted \in BOOLEAN
      /\ m_socketErrno = "SocketInterrupted" => interrupted
      /\ \A t \in Threads : errno[t] = "EINTR" => interrupted
  BY DEF Typed, TypeOK, SignalNoted
<1>1. ASSUME NEW t \in Threads, NEW e \in Errnos,
             errno' = [errno EXCEPT ![t] = e],
             interrupted' = (interrupted \/ e = "EINTR"),
             m_socketErrno' = TranslateSocketError(e)
      PROVE  SignalNoted' /\ (interrupted => interrupted')
  BY <1>0, <1>1, TranslationInterrupted DEF SignalNoted
<1>2. ASSUME NEW t \in Threads, UNCHANGED <<errno, interrupted>>,
             \/ m_socketErrno' \in {m_socketErrno, "SocketSuccess"}
             \/ m_socketErrno' = TranslateSocketError(errno[t])
      PROVE  SignalNoted' /\ (interrupted => interrupted')
  BY <1>0, <1>2, TranslationInterrupted DEF SignalNoted
<1>3. ASSUME NEW t \in Threads, Library(t)
      PROVE  SignalNoted' /\ (interrupted => interrupted')
  <2>1. CASE SendStores(t)
    BY <1>2, <2>1 DEF SendStores, sysVars
  <2>2. CASE SendSyscall(t)
    <3>1. PICK a \in SendAnswers(t) :
            /\ errno' = [errno EXCEPT ![t] = a.e]
            /\ interrupted' = (interrupted \/ a.e = "EINTR")
            /\ m_socketErrno' = TranslateSocketError(a.e)
      BY <2>2 DEF SendSyscall
    <3>2. a.e \in Errnos
      BY <2>2, SendAnswersTyped DEF SendSyscall
    <3> QED
      BY <1>1, <3>1, <3>2
  <2>3. CASE SendTest(t)
    BY <1>2, <2>3 DEF SendTest, sysVars
  <2>4. CASE RecvSyscall(t)
    <3>1. PICK a \in RecvAnswers(t, arg[t]) :
            /\ errno' = [errno EXCEPT ![t] = a.e]
            /\ interrupted' = (interrupted \/ a.e = "EINTR")
            /\ m_socketErrno' = TranslateSocketError(a.e)
      BY <2>4 DEF RecvSyscall
    <3>2. a.e \in Errnos
      BY <2>4, RecvAnswersTyped DEF RecvSyscall
    <3> QED
      BY <1>1, <3>1, <3>2
  <2>5. CASE RecvTest(t)
    BY <1>2, <2>5 DEF RecvTest, sysVars
  <2> QED
    BY <1>3, <2>1, <2>2, <2>3, <2>4, <2>5 DEF Library
<1>4. ASSUME NEW t \in Threads, Application(t)
      PROVE  SignalNoted' /\ (interrupted => interrupted')
  <2>1. ASSUME NEW n \in SendSizes, SendCalled(t, n)
        PROVE  SignalNoted' /\ (interrupted => interrupted')
    BY <1>2, <2>1 DEF SendCalled, sysVars
  <2>2. ASSUME NEW n \in Sizes, NEW mine \in BOOLEAN, ReceiveCalled(t, n, mine)
        PROVE  SignalNoted' /\ (interrupted => interrupted')
    BY <1>2, <2>2 DEF ReceiveCalled, sysVars
  <2>3. ASSUME NEW ends \in ShutdownModes, Shutdown(t, ends)
        PROVE  SignalNoted' /\ (interrupted => interrupted')
    <3>1. PICK e \in Errnos : /\ errno' = [errno EXCEPT ![t] = e]
                              /\ e = "EINTR" => interrupted
      BY <1>0, <2>3, NamedErrnos DEF Shutdown
    <3>2. m_socketErrno' = TranslateSocketError(e) /\ interrupted' = interrupted
      BY <1>0, <2>3, <3>1 DEF Shutdown
    <3> QED
      BY <1>0, <1>1, <3>1, <3>2
  <2>4. CASE Close(t)
    BY <1>2, <2>4 DEF Close, sysVars
  <2> QED
    BY <1>4, <2>1, <2>2, <2>3, <2>4 DEF Application
<1>5. CASE Network
  BY <1>0, <1>5 DEF Network, objVars, sysVars, SignalNoted
<1>6. CASE UNCHANGED vars
  BY <1>0, <1>6 DEF vars, SignalNoted
<1> QED
  BY <1>3, <1>4, <1>5, <1>6 DEF Next

LEMMA StepBounds ==
    ASSUME BoundsInv, [Next]_vars
    PROVE  BoundsInv'
<1>0. /\ Typed /\ TypeOK /\ BufferNoted /\ BufferFits
      /\ \A t, u \in Receivers : t = u /\ t \in Threads
      /\ m_socketErrno = "SocketInterrupted" => interrupted
      /\ interrupted => interrupted'
  BY StepSignal, ConstantsTyped DEF BoundsInv, Typed, SignalNoted
<1> DEFINE Safe == BufferNoted /\ BufferFits
<1>1. ASSUME UNCHANGED <<heap, m_nBufferSize, m_nBytesReceived, own>>,
             NEW t \in Threads, pc[t] \notin RecvPlaces,
             pc'[t] \notin RecvPlaces,
             \A u \in Threads \ {t} : pc'[u] = pc[u] /\ arg'[u] = arg[u]
      PROVE  Safe'
  BY <1>0, <1>1 DEF BufferNoted, BufferFits, RecvPlaces
<1>2. ASSUME UNCHANGED <<m_nBytesReceived, m_nBufferSize, own, pc, arg>>,
             \/ heap' = heap
             \/ heap' = NoBuffer /\ \A u \in Threads : pc[u] = "idle"
      PROVE  Safe'
  BY <1>0, <1>2 DEF BufferNoted, BufferFits, RecvPlaces
<1> HIDE DEF Safe
<1>3. ASSUME NEW t \in Threads, Library(t)
      PROVE  Safe'
  <2>1. CASE SendStores(t)
    BY <1>2, <2>1 DEF SendStores, recvVars
  <2>2. CASE SendSyscall(t)
    BY <1>0, <1>1, <2>2 DEF SendSyscall, At, recvVars, RecvPlaces, TypeOK
  <2>3. CASE SendTest(t)
    BY <1>0, <1>1, <2>3
       DEF SendTest, Goes, Returns, At, recvVars, RecvPlaces, TypeOK
  <2>4. CASE RecvSyscall(t)
    <3>1. /\ pc' = [pc EXCEPT ![t] = "recvtest"] /\ pc[t] = "recv"
          /\ UNCHANGED <<heap, m_nBufferSize, own, arg>>
      BY <2>4 DEF RecvSyscall, At
    <3>2. t \in Receivers
      BY <1>0, <3>1 DEF Typed, ReceiveTyped, RecvPlaces
    <3> QED
      BY <1>0, <3>1, <3>2
         DEF Safe, BufferNoted, BufferFits, RecvPlaces, TypeOK
  <2>5. CASE RecvTest(t)
    <3>1. /\ pc[t] = "recvtest" /\ heap' \in {heap, NoBuffer}
          /\ UNCHANGED <<m_nBytesReceived, m_nBufferSize, own>>
      BY <2>5 DEF RecvTest
    <3>2. \/ /\ pc' = [pc EXCEPT ![t] = "recv"] /\ arg' = arg
             /\ heap' = heap /\ interrupted
          \/ /\ pc' = [pc EXCEPT ![t] = "idle"]
             /\ arg' = [arg EXCEPT ![t] = 0]
      BY <1>0, <2>5 DEF RecvTest, Goes, Returns, At
    <3>3. t \in Receivers
      BY <1>0, <3>1 DEF Typed, ReceiveTyped, RecvPlaces
    <3> QED
      BY <1>0, <3>1, <3>2, <3>3
         DEF Safe, BufferNoted, BufferFits, RecvPlaces, TypeOK
  <2> QED
    BY <1>3, <2>1, <2>2, <2>3, <2>4, <2>5 DEF Library
<1>4. ASSUME NEW t \in Threads, Application(t)
      PROVE  Safe'
  <2>1. ASSUME NEW n \in SendSizes, SendCalled(t, n)
        PROVE  Safe'
    <3>1. /\ UNCHANGED <<heap, m_nBufferSize, m_nBytesReceived, own>>
          /\ pc[t] = "idle"
      BY <2>1 DEF SendCalled, recvVars
    <3>2. \E where \in {"idle", "send"}, m \in {n, 0} :
            pc' = [pc EXCEPT ![t] = where] /\ arg' = [arg EXCEPT ![t] = m]
      BY <2>1 DEF SendCalled, Returns, At
    <3> QED
      BY <1>0, <1>1, <3>1, <3>2 DEF RecvPlaces, TypeOK
  <2>2. ASSUME NEW n \in Sizes, NEW mine \in BOOLEAN, ReceiveCalled(t, n, mine)
        PROVE  Safe'
    <3>1. /\ t \in Receivers /\ m_nBytesReceived' = 0
          /\ own' = [own EXCEPT ![t] = mine]
      BY <2>2 DEF ReceiveCalled
    <3>2. CASE valid
      <4>1. /\ pc' = [pc EXCEPT ![t] = "recv"]
            /\ arg' = [arg EXCEPT ![t] = n]
            /\ \/ mine /\ UNCHANGED <<heap, m_nBufferSize>>
               \/ ~mine /\ heap' = n /\ m_nBufferSize' = n
        BY <1>0, <2>2, <3>2
           DEF ReceiveCalled, At, AllocateBuffer, BufferNoted
      <4> QED
        BY <1>0, <3>1, <4>1 DEF Safe, BufferNoted, BufferFits, TypeOK
    <3>3. CASE ~valid
      <4>1. pc' = [pc EXCEPT ![t] = "idle"] /\ UNCHANGED <<heap, m_nBufferSize>>
        BY <2>2, <3>3 DEF ReceiveCalled, Returns, At
      <4> QED
        BY <1>0, <3>1, <4>1
           DEF Safe, BufferNoted, BufferFits, RecvPlaces, TypeOK
    <3> QED
      BY <3>2, <3>3
  <2>3. ASSUME NEW ends \in ShutdownModes, Shutdown(t, ends)
        PROVE  Safe'
    BY <1>2, <2>3 DEF Shutdown, callVars
  <2>4. CASE Close(t)
    BY <1>2, <2>4 DEF Close, callVars
  <2> QED
    BY <1>4, <2>1, <2>2, <2>3, <2>4 DEF Application
<1>5. ASSUME Network
      PROVE  Safe'
  BY <1>2, <1>5 DEF Network, objVars, callVars
<1>6. ASSUME UNCHANGED vars
      PROVE  Safe'
  BY <1>2, <1>6 DEF vars
<1>7. Safe'
  BY <1>3, <1>4, <1>5, <1>6 DEF Next
<1> QED
  BY <1>7, StepTyped, StepSignal DEF BoundsInv, Safe

LEMMA AlwaysBounds == Spec => []BoundsInv
<1>1. Init => BoundsInv
  <2> SUFFICES ASSUME Init
               PROVE  BoundsInv
    OBVIOUS
  <2>1. SignalNoted /\ BufferNoted /\ BufferFits
    BY ConstantsTyped
       DEF Init, SignalNoted, BufferNoted, BufferFits, RecvPlaces
  <2> QED
    BY <2>1, InitTyped DEF BoundsInv
<1>2. BoundsInv /\ [Next]_vars => BoundsInv'
  BY StepBounds
<1> QED
  BY <1>1, <1>2, PTL DEF Spec

(***************************************************************************)
(* Whatever signals interrupt the calls of whatever threads, the buffer is *)
(* as large as recv() is told: the internal one has the size asked for,    *)
(* kept or newly allocated, after successes, failures and Close, and in    *)
(* every round of the loop.  recv() fills it from its front, except after  *)
(* a system call that a signal interrupted.                                *)
(***************************************************************************)
THEOREM ReceiveInBounds == Spec => []RecvInBounds
<1>1. BoundsInv => RecvInBounds
  <2> SUFFICES ASSUME BoundsInv, NEW t \in Receivers, pc[t] = "recv"
               PROVE  /\ arg[t] <= BufferBytes(t)
                      /\ m_nBytesReceived = 0 \/ interrupted
    BY DEF RecvInBounds
  <2>1. /\ own[t] \/ heap = arg[t]
        /\ m_nBytesReceived = 0 \/ interrupted
    BY DEF BoundsInv, BufferFits, RecvPlaces
  <2>2. arg[t] \in Nat /\ BufferBytes(t) = arg[t]
    BY <2>1, ConstantsTyped, ValuesTyped DEF BoundsInv, BufferBytes
  <2> QED
    BY <2>1, <2>2
<1> QED
  BY <1>1, AlwaysBounds, PTL

(***************************************************************************)
(* Neither Send nor Receive makes its system call again before a signal    *)
(* has interrupted one: for any threads that share m_socketErrno, and for  *)
(* all counts, waits, failures, shutdowns and Closes.                      *)
(***************************************************************************)
THEOREM RetriesOnlyAfterSignals == Spec => RetriesNeedSignal
<1>1. BoundsInv /\ [Next]_vars => [RetryExplained]_vars
  <2> SUFFICES ASSUME BoundsInv, Next, NEW t \in Threads, Retries(t)
               PROVE  interrupted
    BY DEF RetryExplained
  <2>0. TypeOK /\ (m_socketErrno = "SocketInterrupted" => interrupted)
    BY DEF BoundsInv, Typed, SignalNoted
  <2>1. pc[t] \in {"sendtest", "recvtest"} /\ pc'[t] \in {"send", "recv"}
    BY DEF Retries
  <2>2. ASSUME NEW u \in Threads, Library(u) \/ Application(u)
        PROVE  interrupted
    <3>1. u = t
      <4>1. ASSUME u # t
            PROVE  pc'[t] = pc[t]
        BY <2>0, <2>2, <4>1
           DEF Library, Application, SendStores, SendSyscall, SendTest,
               RecvSyscall, RecvTest, SendCalled, ReceiveCalled, Shutdown,
               Close, Goes, Returns, At, callVars, TypeOK
      <4> QED
        BY <2>1, <4>1
    <3>2. SendTest(t) \/ RecvTest(t)
      BY <2>1, <2>2, <3>1
         DEF Library, Application, SendStores, SendSyscall, RecvSyscall,
             SendCalled, ReceiveCalled, Shutdown, Close, callVars
    <3> QED
      BY <2>0, <2>1, <3>2 DEF SendTest, RecvTest, Returns, At, TypeOK
  <2>3. CASE Network
    BY <2>1, <2>3 DEF Network, callVars
  <2> QED
    BY <2>2, <2>3 DEF Next
<1> QED
  BY <1>1, AlwaysBounds, PTL DEF Spec, RetriesNeedSignal

-----------------------------------------------------------------------------
(***************************************************************************)
(* Receive.  No system call is interrupted: there are no signals, or the   *)
(* object never waits.  Any number of threads may send.                    *)
(***************************************************************************)
NoInterrupts == Interruptible = {} \/ Modes \subseteq {"nonblocking"}

Uninterrupted ==
    /\ m_socketErrno # "SocketInterrupted"
    /\ \A t \in Threads : errno[t] # "EINTR"

StreamEnded == peer # "open" \/ "Receives" \in shut

(* A round of the loop starts at the front of a buffer of the size asked   *)
(* for, and ends with its first bytes the last ones that were taken.       *)
RoundExact ==
    \A t \in Receivers :
        /\ pc[t] = "recv" => m_nBytesReceived = 0
        /\ pc[t] \in RecvPlaces => own[t] \/ heap = arg[t]
        /\ pc[t] = "recvtest"
           => /\ m_nBytesReceived = -1 \/ m_nBytesReceived \in 0..taken
              /\ \A i \in 1..m_nBytesReceived :
                   memory[i - 1] = taken - m_nBytesReceived + i
              /\ m_nBytesReceived = 0 => StreamEnded

(* Bytes that are in the buffer and not yet handed to the application. *)
Pending ==
    IF m_nBytesReceived > 0 /\ \E t \in Receivers : pc[t] = "recvtest"
    THEN m_nBytesReceived ELSE 0

DeliveredPrefix == delivered = [i \in 1..(taken - Pending) |-> i]

ReceiveInv ==
    /\ Typed /\ Uninterrupted /\ BufferNoted /\ RoundExact
    /\ DeliveredPrefix /\ DataMatchesResult /\ ZeroMeansEnd

(* Nothing leaves EINTR, and the loops never believe that something did. *)
LEMMA SendNotInterrupted ==
    ASSUME Typed, NoInterrupts, Uninterrupted, NEW t \in Threads,
           NEW a \in SendAnswers(t)
    PROVE  a.e # "EINTR"
<1>1. mode # "nonblocking" => t \notin Interruptible
  BY DEF Typed, TypeOK, NoInterrupts
<1>2. errno[t] # "EINTR" /\ soError # "EINTR"
  BY DEF Typed, TypeOK, Uninterrupted
<1> QED
  BY <1>1, <1>2 DEF SendAnswers, When

LEMMA RecvNotInterrupted ==
    ASSUME Typed, NoInterrupts, Uninterrupted, NEW t \in Threads,
           NEW k, NEW a \in RecvAnswers(t, k)
    PROVE  a.e # "EINTR"
<1>1. mode # "nonblocking" => t \notin Interruptible
  BY DEF Typed, TypeOK, NoInterrupts
<1>2. errno[t] # "EINTR" /\ soError # "EINTR"
  BY DEF Typed, TypeOK, Uninterrupted
<1> QED
  BY <1>1, <1>2 DEF RecvAnswers, When

LEMMA StepUninterrupted ==
    ASSUME Typed, NoInterrupts, Uninterrupted, [Next]_vars
    PROVE  Uninterrupted'
<1>0. errno \in [Threads -> Errnos] /\ \A t \in Threads : errno[t] # "EINTR"
  BY DEF Typed, TypeOK, Uninterrupted
<1>1. ASSUME NEW t \in Threads, Library(t)
      PROVE  Uninterrupted'
  <2>1. CASE SendStores(t)
    BY <2>1 DEF SendStores, sysVars, Uninterrupted
  <2>2. CASE SendSyscall(t)
    <3>1. PICK a \in SendAnswers(t) :
            /\ errno' = [errno EXCEPT ![t] = a.e]
            /\ m_socketErrno' = TranslateSocketError(a.e)
      BY <2>2 DEF SendSyscall
    <3>2. a.e \in Errnos /\ a.e # "EINTR"
      BY <2>2, SendAnswersTyped, SendNotInterrupted DEF SendSyscall
    <3> QED
      BY <1>0, <3>1, <3>2, TranslationInterrupted DEF Uninterrupted
  <2>3. CASE SendTest(t)
    BY <2>3 DEF SendTest, sysVars, Uninterrupted
  <2>4. CASE RecvSyscall(t)
    <3>1. PICK a \in RecvAnswers(t, arg[t]) :
            /\ errno' = [errno EXCEPT ![t] = a.e]
            /\ m_socketErrno' = TranslateSocketError(a.e)
      BY <2>4 DEF RecvSyscall
    <3>2. a.e \in Errnos /\ a.e # "EINTR"
      BY <2>4, RecvAnswersTyped, RecvNotInterrupted DEF RecvSyscall
    <3> QED
      BY <1>0, <3>1, <3>2, TranslationInterrupted DEF Uninterrupted
  <2>5. CASE RecvTest(t)
    BY <1>0, <2>5, TranslationInterrupted
       DEF RecvTest, sysVars, Uninterrupted
  <2> QED
    BY <1>1, <2>1, <2>2, <2>3, <2>4, <2>5 DEF Library
<1>2. ASSUME NEW t \in Threads, Application(t)
      PROVE  Uninterrupted'
  <2>1. ASSUME NEW n \in SendSizes, SendCalled(t, n)
        PROVE  Uninterrupted'
    BY <2>1 DEF SendCalled, sysVars, Uninterrupted
  <2>2. ASSUME NEW n \in Sizes, NEW mine \in BOOLEAN, ReceiveCalled(t, n, mine)
        PROVE  Uninterrupted'
    BY <2>2 DEF ReceiveCalled, sysVars, Uninterrupted
  <2>3. ASSUME NEW ends \in ShutdownModes, Shutdown(t, ends)
        PROVE  Uninterrupted'
    <3>1. errno'[t] \in Errnos /\ errno'[t] # "EINTR"
      BY <1>0, <2>3, NamedErrnos DEF Shutdown
    <3> QED
      BY <1>0, <2>3, <3>1, TranslationInterrupted DEF Shutdown, Uninterrupted
  <2>4. CASE Close(t)
    BY <1>0, <2>4, TranslationInterrupted DEF Close, sysVars, Uninterrupted
  <2> QED
    BY <1>2, <2>1, <2>2, <2>3, <2>4 DEF Application
<1>3. CASE Network
  BY <1>3 DEF Network, objVars, sysVars, Uninterrupted
<1>4. CASE UNCHANGED vars
  BY <1>4 DEF vars, Uninterrupted
<1> QED
  BY <1>1, <1>2, <1>3, <1>4 DEF Next

(* A step of Send, of whichever thread, does not disturb Receive. *)
LEMMA SendKeepsReceive ==
    ASSUME ReceiveInv, NEW t \in Threads,
           UNCHANGED <<recvVars, valid, shut, peer>>,
           pc[t] \notin RecvPlaces,
           \A u \in Threads \ {t} :
               pc'[u] = pc[u] /\ arg'[u] = arg[u] /\ result'[u] = result[u],
           \/ pc'[t] \in SendPlaces
           \/ pc'[t] = "idle" /\ result'[t].op = "Send"
    PROVE  /\ BufferNoted' /\ RoundExact'
           /\ DeliveredPrefix' /\ DataMatchesResult' /\ ZeroMeansEnd'
<1>0. /\ Receivers \subseteq Threads
      /\ BufferNoted /\ RoundExact /\ DeliveredPrefix
      /\ DataMatchesResult /\ ZeroMeansEnd
  BY ConstantsTyped DEF ReceiveInv
<1>1. pc'[t] \notin RecvPlaces /\ ~Returned(t, "Receive")'
  BY DEF RecvPlaces, SendPlaces, Returned
<1>2. BufferNoted'
  BY <1>0 DEF BufferNoted, recvVars
<1>3. RoundExact'
  BY <1>0, <1>1 DEF RoundExact, RecvPlaces, StreamEnded, recvVars
<1>4. Pending' = Pending
  BY <1>0, <1>1 DEF Pending, RecvPlaces, recvVars
<1>5. DeliveredPrefix'
  BY <1>0, <1>4 DEF DeliveredPrefix, recvVars
<1>6. DataMatchesResult'
  BY <1>0, <1>1 DEF DataMatchesResult, Returned, recvVars
<1>7. ZeroMeansEnd'
  BY <1>0, <1>1 DEF ZeroMeansEnd, Returned
<1> QED
  BY <1>2, <1>3, <1>5, <1>6, <1>7

LEMMA ReceiveCalledExact ==
    ASSUME ReceiveInv, NEW t \in Threads, NEW n \in Sizes,
           NEW mine \in BOOLEAN, ReceiveCalled(t, n, mine)
    PROVE  /\ BufferNoted' /\ RoundExact'
           /\ DeliveredPrefix' /\ DataMatchesResult' /\ ZeroMeansEnd'
<1>0. /\ TypeOK /\ BufferNoted /\ RoundExact /\ DeliveredPrefix
      /\ pc[t] = "idle" /\ t \in Receivers /\ \A u \in Receivers : u = t
  BY ConstantsTyped DEF ReceiveInv, Typed, ReceiveCalled
<1>1. m_nBytesReceived' = 0 /\ delivered' = delivered /\ taken' = taken /\ valid' = valid
  BY DEF ReceiveCalled, kernVars
<1>2. Pending = 0 /\ Pending' = 0
  BY <1>0, <1>1 DEF Pending
<1>3. DeliveredPrefix'
  BY <1>0, <1>1, <1>2 DEF DeliveredPrefix
<1>4. CASE valid
  <2>1. /\ pc'[t] = "recv" /\ arg'[t] = n /\ own'[t] = mine
        /\ mine \/ heap' = n
        /\ mine \/ m_nBufferSize' = n
        /\ mine => heap' = heap /\ m_nBufferSize' = m_nBufferSize
    BY <1>0, <1>4 DEF ReceiveCalled, AllocateBuffer, At, TypeOK, BufferNoted
  <2>2. BufferNoted'
    BY <1>0, <2>1 DEF BufferNoted
  <2>3. RoundExact'
    BY <1>0, <1>1, <2>1 DEF RoundExact, RecvPlaces
  <2>4. DataMatchesResult' /\ ZeroMeansEnd'
    BY <1>0, <2>1 DEF DataMatchesResult, ZeroMeansEnd, Returned
  <2> QED
    BY <1>3, <2>2, <2>3, <2>4
<1>5. CASE ~valid
  <2>1. /\ pc'[t] = "idle" /\ result'[t].valid = FALSE /\ ~valid'
        /\ UNCHANGED <<heap, m_nBufferSize>>
    <3> DEFINE r == 0
               call == 0
    <3>1. Returns(t, "Receive", r, call)
      BY <1>5 DEF ReceiveCalled
    <3>2. r \in Int /\ call \in Nat /\ "Receive" \in {"Send", "Receive"}
      OBVIOUS
    <3> HIDE DEF r, call
    <3>3. result'[t] = [op |-> "Receive", ret |-> r, id |-> call,
                        valid |-> valid]
      BY <3>1, <3>2, ReturnTyped DEF ReceiveInv
    <3>4. result'[t].valid = FALSE
      BY <1>5, <3>3
    <3>5. pc'[t] = "idle" /\ UNCHANGED <<heap, m_nBufferSize>>
      BY <1>0, <1>5 DEF ReceiveCalled, Returns, At, TypeOK
    <3> QED
      BY <1>1, <1>5, <3>4, <3>5
  <2>2. BufferNoted' /\ RoundExact'
    BY <1>0, <2>1 DEF BufferNoted, RoundExact, RecvPlaces
  <2>3. DataMatchesResult' /\ ZeroMeansEnd'
    BY <1>0, <2>1 DEF DataMatchesResult, ZeroMeansEnd, Returned
  <2> QED
    BY <1>3, <2>2, <2>3
<1> QED
  BY <1>4, <1>5

LEMMA RecvSyscallExact ==
    ASSUME ReceiveInv, NEW t \in Threads, RecvSyscall(t)
    PROVE  /\ BufferNoted' /\ RoundExact'
           /\ DeliveredPrefix' /\ DataMatchesResult' /\ ZeroMeansEnd'
<1>0. /\ Typed /\ TypeOK /\ BufferNoted /\ RoundExact
      /\ DeliveredPrefix
      /\ pc[t] = "recv" /\ t \in Receivers /\ \A u \in Receivers : u = t
      /\ arg[t] \in Nat /\ taken \in Nat
      /\ memory \in [0..(arg[t] - 1) -> 0..MaxIn]
  BY ConstantsTyped, ValuesTyped
     DEF ReceiveInv, Typed, RecvSyscall, ReceiveTyped, RecvPlaces
<1>1. PICK a \in RecvAnswers(t, arg[t]) :
        /\ memory' = [i \in DOMAIN memory |->
                        IF i - m_nBytesReceived \in 0..(a.n - 1)
                        THEN taken + 1 + i - m_nBytesReceived ELSE memory[i]]
        /\ taken' = IF a.n > 0 THEN taken + a.n ELSE taken
        /\ m_nBytesReceived' = a.n
  BY DEF RecvSyscall
<1>2. /\ a.n \in Int
      /\ a.n = -1 \/ a.n \in 0..arg[t]
      /\ a.n = 0 => StreamEnded
  BY <1>0, RecvAnswersTyped DEF StreamEnded
<1>3. /\ m_nBytesReceived = 0
      /\ own[t] \/ heap = arg[t]
  BY <1>0 DEF RoundExact, RecvPlaces
<1>4. /\ pc'[t] = "recvtest" /\ delivered' = delivered
      /\ UNCHANGED <<heap, m_nBufferSize, own, arg, result, valid, peer, shut>>
  BY <1>0 DEF RecvSyscall, At, TypeOK, kernVars
<1>5. BufferNoted'
  BY <1>0, <1>4 DEF BufferNoted
<1>7. RoundExact'
  <2>1. a.n = -1 \/ a.n \in 0..taken'
    BY <1>0, <1>1, <1>2
  <2>2. ASSUME NEW i \in 1..a.n
        PROVE  memory'[i - 1] = taken' - a.n + i
    <3>1. i - 1 \in 0..(arg[t] - 1) /\ (i - 1) - 0 \in 0..(a.n - 1)
          /\ taken' = taken + a.n
      BY <1>0, <1>1, <1>2
    <3>2. memory'[i - 1] = taken + 1 + (i - 1) - 0
      BY <1>0, <1>1, <1>3, <3>1
    <3> QED
      BY <1>0, <1>2, <3>1, <3>2
  <2>3. StreamEnded' = StreamEnded
    BY <1>4 DEF StreamEnded
  <2> QED
    BY <1>0, <1>1, <1>2, <1>3, <1>4, <2>1, <2>2, <2>3
       DEF RoundExact, RecvPlaces
<1>8. DeliveredPrefix'
  <2>1. Pending = 0 /\ taken' - Pending' = taken
    BY <1>0, <1>1, <1>2, <1>3, <1>4 DEF Pending
  <2> QED
    BY <1>0, <1>4, <2>1 DEF DeliveredPrefix
<1>9. DataMatchesResult' /\ ZeroMeansEnd'
  BY <1>0, <1>4 DEF DataMatchesResult, ZeroMeansEnd, Returned
<1> QED
  BY <1>5, <1>7, <1>8, <1>9

(* Two pieces of a sequence of consecutive numbers. *)
LEMMA NumbersJoin ==
    ASSUME NEW m \in Nat, NEW n \in Nat, NEW s, NEW u,
           s = [i \in 1..m |-> i], u = [i \in 1..n |-> m + i]
    PROVE  s \o u = [i \in 1..(m + n) |-> i]
<1>1. s \in Seq(Nat) /\ u \in Seq(Nat) /\ Len(s) = m /\ Len(u) = n
  OBVIOUS
<1>2. /\ s \o u \in Seq(Nat) /\ Len(s \o u) = m + n
      /\ \A i \in 1..(m + n) :
           (s \o u)[i] = IF i <= m THEN s[i] ELSE u[i - m]
  BY <1>1, ConcatProperties
<1>3. \A i \in 1..(m + n) : (s \o u)[i] = i
  BY <1>2
<1>4. s \o u = [i \in 1..(m + n) |-> (s \o u)[i]]
  BY <1>2
<1> QED
  BY <1>3, <1>4

LEMMA RecvTestExact ==
    ASSUME ReceiveInv, NEW t \in Threads, RecvTest(t)
    PROVE  /\ BufferNoted' /\ RoundExact'
           /\ DeliveredPrefix' /\ DataMatchesResult' /\ ZeroMeansEnd'
<1>0. /\ Typed /\ TypeOK /\ BufferNoted /\ RoundExact
      /\ DeliveredPrefix
      /\ pc[t] = "recvtest" /\ t \in Receivers /\ \A u \in Receivers : u = t
      /\ arg[t] \in Nat /\ taken \in Nat /\ m_nBytesReceived <= arg[t]
      /\ m_nBytesReceived \in Int
  BY ConstantsTyped, ValuesTyped
     DEF ReceiveInv, Typed, TypeOK, RecvTest, ReceiveTyped, RecvPlaces
<1>1. /\ m_nBytesReceived = -1 \/ m_nBytesReceived \in 0..taken
      /\ \A i \in 1..m_nBytesReceived :
           memory[i - 1] = taken - m_nBytesReceived + i
      /\ m_nBytesReceived = 0 => StreamEnded
      /\ own[t] \/ heap = arg[t]
  BY <1>0 DEF RoundExact, RecvPlaces
<1>2. /\ Returns(t, "Receive", m_nBytesReceived, 0)
      /\ heap' = IF m_nBytesReceived = -1 THEN NoBuffer ELSE heap
      /\ delivered' =
           delivered \o [i \in 1..m_nBytesReceived |-> memory[i - 1]]
  BY DEF RecvTest, ReceiveInv, Uninterrupted
<1>3. UNCHANGED <<m_nBytesReceived, m_nBufferSize, own, taken, valid,
                  peer, shut>>
  BY DEF RecvTest, kernVars
<1>4. pc'[t] = "idle" /\ result'[t].ret = m_nBytesReceived
  <2> DEFINE call == 0
  <2>1. Returns(t, "Receive", m_nBytesReceived, call)
    BY <1>2
  <2>2. call \in Nat /\ "Receive" \in {"Send", "Receive"}
    OBVIOUS
  <2> HIDE DEF call
  <2>3. result'[t] = [op |-> "Receive", ret |-> m_nBytesReceived,
                      id |-> call, valid |-> valid]
    BY <1>0, <2>1, <2>2, ReturnTyped
  <2> QED
    BY <1>0, <1>2, <2>3 DEF Returns, At, TypeOK
<1>5. BufferNoted'
  BY <1>0, <1>2, <1>3 DEF BufferNoted
<1>6. RoundExact'
  BY <1>0, <1>4 DEF RoundExact, RecvPlaces
<1>7. DeliveredPrefix'
  <2>1. Pending' = 0
    BY <1>0, <1>4 DEF Pending
  <2>2. CASE m_nBytesReceived > 0
    <3>1. Pending = m_nBytesReceived
      BY <1>0, <2>2 DEF Pending
    <3> DEFINE m == taken - m_nBytesReceived
               handed == [i \in 1..m_nBytesReceived |-> memory[i - 1]]
    <3>2. m \in Nat /\ m_nBytesReceived \in Nat
          /\ m + m_nBytesReceived = taken
      BY <1>0, <1>1, <2>2
    <3>3. delivered = [i \in 1..m |-> i]
      BY <1>0, <3>1 DEF DeliveredPrefix
    <3>4. handed = [i \in 1..m_nBytesReceived |-> m + i]
      BY <1>1
    <3> HIDE DEF m, handed
    <3>5. delivered \o handed = [i \in 1..taken |-> i]
      BY <3>2, <3>3, <3>4, NumbersJoin
    <3>6. taken' - Pending' = taken
      BY <1>0, <1>3, <2>1
    <3> QED
      BY <1>2, <3>5, <3>6 DEF DeliveredPrefix, handed
  <2>3. CASE ~(m_nBytesReceived > 0)
    <3> DEFINE handed == [i \in 1..m_nBytesReceived |-> memory[i - 1]]
    <3>1. Pending = 0
      BY <2>3 DEF Pending
    <3>2. handed \in Seq(0..MaxIn) /\ Len(handed) = 0
      BY <1>0, <2>3, HandedTyped DEF RecvPlaces
    <3>3. handed = <<>> /\ delivered' = delivered \o handed
      BY <1>2, <3>2, EmptySeq
    <3>4. delivered' = delivered
      BY <1>0, <3>3, ConcatEmptySeq DEF TypeOK
    <3> QED
      BY <1>0, <1>3, <2>1, <3>1, <3>4 DEF DeliveredPrefix
  <2> QED
    BY <2>2, <2>3
<1>8. DataMatchesResult'
  BY <1>0, <1>1, <1>2, <1>3, <1>4 DEF DataMatchesResult
<1>9. ZeroMeansEnd'
  BY <1>0, <1>1, <1>3, <1>4 DEF ZeroMeansEnd, StreamEnded
<1> QED
  BY <1>5, <1>6, <1>7, <1>8, <1>9

(* Shutdown, Close, the peer and a stutter: only the ends of the stream    *)
(* and the validity of the object move, and an object is closed once.      *)
LEMMA OutsideKeepsReceive ==
    ASSUME ReceiveInv,
           UNCHANGED <<pc, arg, own, result, m_nBytesReceived, m_nBufferSize,
                       taken, memory, delivered>>,
           StreamEnded => StreamEnded',
           \/ heap' = heap /\ valid' = valid
           \/ /\ heap' = NoBuffer /\ ~valid'
              /\ \A u \in Threads : pc[u] = "idle"
    PROVE  /\ BufferNoted' /\ RoundExact'
           /\ DeliveredPrefix' /\ DataMatchesResult' /\ ZeroMeansEnd'
<1>0. /\ Receivers \subseteq Threads
      /\ BufferNoted /\ RoundExact /\ DeliveredPrefix
      /\ DataMatchesResult /\ ZeroMeansEnd
  BY ConstantsTyped DEF ReceiveInv
<1>1. BufferNoted'
  BY <1>0 DEF BufferNoted
<1>2. RoundExact'
  BY <1>0 DEF RoundExact, RecvPlaces
<1>3. Pending' = Pending
  BY DEF Pending
<1>4. DeliveredPrefix'
  BY <1>0, <1>3 DEF DeliveredPrefix
<1>5. DataMatchesResult'
  BY <1>0 DEF DataMatchesResult, Returned
<1>6. ZeroMeansEnd'
  BY <1>0 DEF ZeroMeansEnd, StreamEnded, Returned
<1> QED
  BY <1>1, <1>2, <1>4, <1>5, <1>6

LEMMA InitReceive == Init => ReceiveInv
<1> SUFFICES ASSUME Init
             PROVE  ReceiveInv
  OBVIOUS
<1>0. Receivers \subseteq Threads
  BY ConstantsTyped
<1>1. Typed
  BY InitTyped
<1>2. Uninterrupted /\ BufferNoted
  BY DEF Init, Uninterrupted, BufferNoted
<1>3. RoundExact
  BY <1>0 DEF Init, RoundExact, RecvPlaces
<1>4. DeliveredPrefix
  <2>1. taken - Pending = 0 /\ delivered = <<>>
    BY <1>0 DEF Init, Pending
  <2>2. [i \in 1..0 |-> i] = <<>>
    OBVIOUS
  <2> QED
    BY <2>1, <2>2 DEF DeliveredPrefix
<1>5. DataMatchesResult /\ ZeroMeansEnd
  BY <1>0 DEF Init, DataMatchesResult, ZeroMeansEnd, Returned, NoResult
<1> QED
  BY <1>1, <1>2, <1>3, <1>4, <1>5 DEF ReceiveInv

LEMMA StepReceive ==
    ASSUME NoInterrupts, ReceiveInv, [Next]_vars
    PROVE  ReceiveInv'
<1>0. Typed' /\ Uninterrupted'
  BY StepTyped, StepUninterrupted DEF ReceiveInv
<1> DEFINE Safe == /\ BufferNoted /\ RoundExact
                   /\ DeliveredPrefix /\ DataMatchesResult /\ ZeroMeansEnd
<1>1. ASSUME NEW t \in Threads, Library(t)
      PROVE  Safe'
  <2>0. TypeOK
    BY DEF ReceiveInv, Typed
  <2>1. CASE SendStores(t)
    <3>1. /\ UNCHANGED <<recvVars, valid, shut, peer>>
          /\ pc' = pc /\ arg' = arg /\ result' = result /\ pc[t] = "send"
      BY <2>1 DEF SendStores, kernVars
    <3> QED
      BY <3>1, SendKeepsReceive DEF RecvPlaces, SendPlaces
  <2>2. CASE SendSyscall(t)
    <3>1. /\ UNCHANGED <<recvVars, valid, shut, peer>>
          /\ pc' = [pc EXCEPT ![t] = "sendtest"]
          /\ arg' = arg /\ result' = result /\ pc[t] = "send"
      BY <2>2 DEF SendSyscall, kernVars, At
    <3> QED
      BY <2>0, <3>1, SendKeepsReceive DEF RecvPlaces, SendPlaces, TypeOK
  <2>3. CASE SendTest(t)
    <3>1. /\ UNCHANGED <<recvVars, valid, shut, peer>> /\ pc[t] = "sendtest"
          /\ Returns(t, "Send", m_nBytesSent, id[t])
      BY <2>3 DEF SendTest, kernVars, ReceiveInv, Uninterrupted
    <3>2. m_nBytesSent \in Int /\ id[t] \in Nat
          /\ "Send" \in {"Send", "Receive"}
      BY <2>0, ValuesTyped DEF TypeOK, ReceiveInv
    <3> DEFINE r == m_nBytesSent
               call == id[t]
    <3>5. Returns(t, "Send", r, call)
      BY <3>1
    <3> HIDE DEF r, call
    <3>3. /\ result'[t] = [op |-> "Send", ret |-> r, id |-> call,
                           valid |-> valid]
          /\ \A u \in Threads \ {t} : result'[u] = result[u]
      BY <3>2, <3>5, ReturnTyped DEF ReceiveInv, r, call
    <3>4. /\ pc'[t] = "idle"
          /\ \A u \in Threads \ {t} : pc'[u] = pc[u] /\ arg'[u] = arg[u]
      BY <2>0, <3>1 DEF Returns, At, TypeOK
    <3>6. result'[t].op = "Send"
      BY <3>3
    <3> QED
      BY <3>1, <3>3, <3>4, <3>6, SendKeepsReceive DEF RecvPlaces
  <2>4. CASE RecvSyscall(t)
    BY <2>4, RecvSyscallExact
  <2>5. CASE RecvTest(t)
    BY <2>5, RecvTestExact
  <2> QED
    BY <1>1, <2>1, <2>2, <2>3, <2>4, <2>5 DEF Library
<1>2. ASSUME NEW t \in Threads, NEW n \in SendSizes, SendCalled(t, n)
      PROVE  Safe'
  <2>0. TypeOK
    BY DEF ReceiveInv, Typed
  <2>1. UNCHANGED <<recvVars, valid, shut, peer>> /\ pc[t] = "idle"
    BY <1>2 DEF SendCalled, kernVars
  <2>2. CASE valid
    BY <1>2, <2>0, <2>1, <2>2, SendKeepsReceive
       DEF SendCalled, At, TypeOK, RecvPlaces, SendPlaces
  <2>3. CASE ~valid
    <3> DEFINE call == calls + 1
               r == 0
    <3>1. Returns(t, "Send", r, call)
      BY <1>2, <2>3 DEF SendCalled
    <3>2. r \in Int /\ call \in Nat /\ "Send" \in {"Send", "Receive"}
      BY <2>0 DEF TypeOK
    <3> HIDE DEF call, r
    <3>3. /\ result'[t] = [op |-> "Send", ret |-> r, id |-> call,
                           valid |-> valid]
          /\ \A u \in Threads \ {t} : result'[u] = result[u]
      BY <3>1, <3>2, ReturnTyped DEF ReceiveInv
    <3>4. /\ pc'[t] = "idle"
          /\ \A u \in Threads \ {t} : pc'[u] = pc[u] /\ arg'[u] = arg[u]
      BY <2>0, <3>1 DEF Returns, At, TypeOK
    <3>5. result'[t].op = "Send"
      BY <3>3
    <3> QED
      BY <2>1, <3>3, <3>4, <3>5, SendKeepsReceive DEF RecvPlaces
  <2> QED
    BY <2>2, <2>3
<1>3. ASSUME NEW t \in Threads, NEW n \in Sizes, NEW mine \in BOOLEAN,
             ReceiveCalled(t, n, mine)
      PROVE  Safe'
  BY <1>3, ReceiveCalledExact
<1>4. ASSUME NEW t \in Threads, NEW ends \in ShutdownModes, Shutdown(t, ends)
      PROVE  Safe'
  <2>1. StreamEnded => StreamEnded'
    BY <1>4 DEF Shutdown, StreamEnded, netVars
  <2> QED
    BY <1>4, <2>1, OutsideKeepsReceive DEF Shutdown, netVars, callVars
<1>5. ASSUME NEW t \in Threads, Close(t)
      PROVE  Safe'
  BY <1>5, OutsideKeepsReceive DEF Close, netVars, callVars, StreamEnded
<1>6. ASSUME Network
      PROVE  Safe'
  <2>1. /\ UNCHANGED <<objVars, shut, callVars, memory, delivered,
                       result, taken>>
        /\ StreamEnded => StreamEnded'
    BY <1>6
       DEF Network, PeerDrains, PeerSends, PeerFinishes, PeerResets, StreamEnded
  <2>2. /\ UNCHANGED <<pc, arg, own, result, m_nBytesReceived, m_nBufferSize,
                       taken, memory, delivered>>
        /\ heap' = heap /\ valid' = valid
    BY <2>1 DEF objVars, callVars
  <2> QED
    BY <2>1, <2>2, OutsideKeepsReceive
<1>7. ASSUME UNCHANGED vars
      PROVE  Safe'
  <2>1. /\ UNCHANGED <<pc, arg, own, result, m_nBytesReceived, m_nBufferSize,
                       taken, memory, delivered>>
        /\ heap' = heap /\ valid' = valid
    BY <1>7 DEF vars
  <2>2. StreamEnded => StreamEnded'
    BY <1>7 DEF vars, StreamEnded
  <2> QED
    BY <2>1, <2>2, OutsideKeepsReceive
<1> HIDE DEF Safe
<1>8. Safe'
  BY <1>1, <1>2, <1>3, <1>4, <1>5, <1>6, <1>7 DEF Next, Application
<1> QED
  BY <1>0, <1>8 DEF ReceiveInv, Safe

LEMMA AlwaysReceive ==
    ASSUME NoInterrupts
    PROVE  Spec => []ReceiveInv
<1>1. Init => ReceiveInv
  BY InitReceive
<1>2. ReceiveInv /\ [Next]_vars => ReceiveInv'
  BY StepReceive
<1> QED
  BY <1>1, <1>2, PTL DEF Spec

(***************************************************************************)
(* What Receive has handed out is a prefix of the peer's stream, and       *)
(* between calls none of what recv() gave is missing: for every sequence   *)
(* of sizes, buffers, waits and ends of the stream.                        *)
(***************************************************************************)
THEOREM NothingLost ==
    ASSUME NoInterrupts
    PROVE  Spec => []NoByteLost
<1>1. ReceiveInv => NoByteLost
  <2> SUFFICES ASSUME ReceiveInv,
                      \A t \in Receivers : pc[t] \notin {"recv", "recvtest"}
               PROVE  delivered = [i \in 1..taken |-> i]
    BY DEF NoByteLost
  <2>1. Pending = 0 /\ taken \in Nat
    BY DEF Pending, ReceiveInv, Typed, TypeOK
  <2> QED
    BY <2>1 DEF ReceiveInv, DeliveredPrefix
<1> QED
  BY <1>1, AlwaysReceive, PTL

(***************************************************************************)
(* After a failed Receive there is no buffer to read from, and after a     *)
(* successful one the buffer holds at least what was received.             *)
(***************************************************************************)
THEOREM DataMatches ==
    ASSUME NoInterrupts
    PROVE  Spec => []DataMatchesResult
<1>1. ReceiveInv => DataMatchesResult
  BY DEF ReceiveInv
<1> QED
  BY <1>1, AlwaysReceive, PTL

(***************************************************************************)
(* Receive returns 0 on a valid socket only when the stream has ended or   *)
(* was shut down here.                                                     *)
(***************************************************************************)
THEOREM ZeroIsEnd ==
    ASSUME NoInterrupts
    PROVE  Spec => []ZeroMeansEnd
<1>1. ReceiveInv => ZeroMeansEnd
  BY DEF ReceiveInv
<1> QED
  BY <1>1, AlwaysReceive, PTL

-----------------------------------------------------------------------------
(***************************************************************************)
(* Send.  One thread sends, since the count that Send returns is a member  *)
(* of the object.                                                          *)
(***************************************************************************)
OneSender == \A t, u \in Senders : t = u

(* Every byte on the wire is of a call that was made. *)
WireNumbered == \A i \in DOMAIN wire : wire[i][1] \in 1..calls

(* Where each sender is, the bytes of its block on the wire are known. *)
SendExact ==
    /\ \A t \in Senders :
        /\ pc[t] \in SendPlaces => id[t] \in 1..calls
        /\ pc[t] = "send" => OnWire(id[t], stored[t])
        /\ pc[t] = "sendtest" => /\ OnWire(id[t], m_nBytesSent)
                                 /\ m_nBytesSent \in {-1} \cup 1..arg[t]
    /\ \A t \in Threads : result[t].op = "Send" => t \in Senders

SendInv ==
    Typed /\ Uninterrupted /\ WireNumbered /\ SendExact /\ SendExactlyOnce

(* The next k bytes of a block go behind the ones that are on the wire. *)
LEMMA StoreExtends ==
    ASSUME Typed, NEW t \in Threads, NEW k \in Nat, NEW c, NEW n \in Nat,
           c = id[t], n = stored[t], OnWire(c, n), Store(t, k)
    PROVE  OnWire(c, n + k)'
<1> DEFINE last == Len(wire)
<1>7. last \in Nat
  BY ValuesTyped
<1>1. DOMAIN wire = 1..last /\ DOMAIN wire' = 1..(last + k)
  BY <1>7, StoreAppends DEF Typed, TypeOK
<1>8. \A i \in 1..last : wire'[i] = wire[i]
  BY StoreAppends
<1>9. \A i \in (last + 1)..(last + k) : wire'[i] = <<c, n + (i - last)>>
  BY StoreAppends
<1> HIDE DEF last
<1>10. \A i \in 1..last : i \in 1..(last + k)
  BY <1>7
<1>2. /\ \A i \in Places(c) : i \in 1..last /\ wire'[i] = wire[i]
      /\ \A i \in Places(c) : i \in 1..(last + k) /\ wire'[i][1] = c
      /\ \A i \in Places(c) : wire[i][2] \in 1..n
      /\ \A p \in 1..n : \E i \in Places(c) : wire[i][2] = p
      /\ \A i, j \in Places(c) : i < j => wire[i][2] < wire[j][2]
  BY <1>1, <1>8, <1>10 DEF Places, OnWire
<1>3. ASSUME NEW i \in 1..(last + k), wire'[i][1] = c
      PROVE  \/ i \in Places(c) /\ i <= last /\ wire'[i][2] = wire[i][2]
             \/ i > last /\ wire'[i][2] = n + (i - last)
  <2>1. CASE i <= last
    <3>1. i \in 1..last /\ wire'[i] = wire[i]
      BY <1>8, <2>1
    <3> QED
      BY <1>1, <1>3, <2>1, <3>1 DEF Places
  <2>2. CASE ~(i <= last)
    <3>1. i \in (last + 1)..(last + k) /\ i > last
      BY <1>7, <2>2
    <3>2. wire'[i] = <<c, n + (i - last)>>
      BY <1>9, <3>1
    <3> QED
      BY <3>1, <3>2
  <2> QED
    BY <2>1, <2>2
<1>4. \A i \in Places(c)' : wire'[i][2] \in 1..(n + k)
  <2> SUFFICES ASSUME NEW i \in 1..(last + k), wire'[i][1] = c
               PROVE  wire'[i][2] \in 1..(n + k)
    BY <1>1 DEF Places
  <2>1. CASE i \in Places(c) /\ i <= last /\ wire'[i][2] = wire[i][2]
    <3>1. wire[i][2] \in 1..n
      BY <1>2, <2>1
    <3> QED
      BY <2>1, <3>1
  <2>2. CASE i > last /\ wire'[i][2] = n + (i - last)
    BY <1>7, <2>2
  <2> QED
    BY <1>3, <2>1, <2>2
<1>5. \A p \in 1..(n + k) : \E i \in Places(c)' : wire'[i][2] = p
  <2> TAKE p \in 1..(n + k)
  <2>1. CASE p <= n
    <3>1. PICK i \in Places(c) : wire[i][2] = p
      BY <1>2, <2>1
    <3>2. i \in 1..(last + k) /\ wire'[i][1] = c /\ wire'[i][2] = p
      BY <1>2, <3>1
    <3> QED
      BY <1>1, <3>2 DEF Places
  <2>2. CASE ~(p <= n)
    <3> DEFINE i == last + (p - n)
    <3>1. /\ i \in (last + 1)..(last + k) /\ i \in 1..(last + k)
          /\ n + (i - last) = p
      BY <1>7, <2>2
    <3> HIDE DEF i
    <3>3. wire'[i] = <<c, p>>
      BY <1>9, <3>1
    <3>2. wire'[i][1] = c /\ wire'[i][2] = p
      BY <3>3
    <3> QED
      BY <1>1, <3>1, <3>2 DEF Places
  <2> QED
    BY <2>1, <2>2
<1>6. \A i, j \in Places(c)' : i < j => wire'[i][2] < wire'[j][2]
  <2> SUFFICES ASSUME NEW i \in 1..(last + k), wire'[i][1] = c,
                      NEW j \in 1..(last + k), wire'[j][1] = c, i < j
               PROVE  wire'[i][2] < wire'[j][2]
    BY <1>1 DEF Places
  <2>1. CASE i \in Places(c) /\ i <= last /\ wire'[i][2] = wire[i][2]
    <3>1. wire[i][2] \in 1..n
      BY <1>2, <2>1
    <3>2. CASE j \in Places(c) /\ wire'[j][2] = wire[j][2]
      BY <1>2, <2>1, <3>2
    <3>3. CASE j > last /\ wire'[j][2] = n + (j - last)
      BY <1>7, <2>1, <3>1, <3>3
    <3> QED
      BY <1>3, <3>2, <3>3
  <2>2. CASE i > last /\ wire'[i][2] = n + (i - last)
    <3>1. j > last
      BY <1>7, <2>2
    <3>2. wire'[j][2] = n + (j - last)
      <4>1. j \in 1..(last + k) /\ wire'[j][1] = c /\ ~(j <= last)
        BY <1>7, <3>1
      <4> QED
        BY <1>3, <4>1
    <3> QED
      BY <1>7, <2>2, <3>2
  <2> QED
    BY <1>3, <2>1, <2>2
<1> QED
  BY <1>4, <1>5, <1>6 DEF OnWire

(* A block with a new number has no byte on the wire. *)
LEMMA NewBlock ==
    ASSUME Typed, WireNumbered, NEW c, c = calls + 1, wire' = wire
    PROVE  OnWire(c, 0)'
<1>1. calls \in Nat
  BY DEF Typed, TypeOK
<1>2. Places(c)' = {}
  BY <1>1 DEF WireNumbered, Places
<1>3. 1..0 = {}
  OBVIOUS
<1> QED
  BY <1>2, <1>3 DEF OnWire

(* The bytes of a call that was made keep the wire numbered. *)
LEMMA StoreNumbered ==
    ASSUME Typed, WireNumbered, NEW t \in Threads, NEW k \in Nat,
           Store(t, k), id[t] \in 1..calls, calls' = calls
    PROVE  WireNumbered'
<1> DEFINE last == Len(wire)
<1>0. last \in Nat
  BY ValuesTyped
<1>1. DOMAIN wire = 1..last /\ DOMAIN wire' = 1..(last + k)
  BY <1>0, StoreAppends DEF Typed, TypeOK
<1>2. \A i \in 1..last : wire'[i] = wire[i]
  BY StoreAppends
<1>3. \A i \in (last + 1)..(last + k) :
        wire'[i] = <<id[t], stored[t] + (i - last)>>
  BY StoreAppends
<1> HIDE DEF last
<1> SUFFICES ASSUME NEW i \in 1..(last + k)
             PROVE  wire'[i][1] \in 1..calls
  BY <1>1 DEF WireNumbered
<1>4. CASE i \in 1..last
  BY <1>1, <1>2, <1>4 DEF WireNumbered
<1>5. CASE i \notin 1..last
  <2>1. i \in (last + 1)..(last + k)
    BY <1>0, <1>5
  <2>2. wire'[i] = <<id[t], stored[t] + (i - last)>>
    BY <1>3, <2>1
  <2> QED
    BY <2>2
<1> QED
  BY <1>4, <1>5

LEMMA SameWire ==
    ASSUME NEW c, NEW n, OnWire(c, n), wire' = wire
    PROVE  OnWire(c, n)'
  BY DEF OnWire, Places

(* Receive, Shutdown, Close and the peer do not disturb Send. *)
LEMMA OutsideKeepsSend ==
    ASSUME SendInv, UNCHANGED sendVars,
           \A u \in Threads :
               \/ pc'[u] = pc[u] /\ arg'[u] = arg[u] /\ result'[u] = result[u]
               \/ /\ pc'[u] \notin SendPlaces
                  /\ result'[u] = result[u] \/ result'[u].op = "Receive"
                  /\ pc'[u] = "idle" => result'[u].op = "Receive"
    PROVE  WireNumbered' /\ SendExact' /\ SendExactlyOnce'
<1>0. /\ WireNumbered /\ SendExact /\ SendExactlyOnce /\ Senders \subseteq Threads
      /\ UNCHANGED <<m_nBytesSent, stored, wire, id, calls>>
  BY ConstantsTyped DEF SendInv, sendVars
<1>1. WireNumbered'
  BY <1>0 DEF WireNumbered
<1>2. SendExact'
  BY <1>0 DEF SendExact, OnWire, Places, SendPlaces
<1>3. SendExactlyOnce'
  BY <1>0 DEF SendExactlyOnce, Returned, OnWire, Places
<1> QED
  BY <1>1, <1>2, <1>3

LEMMA SendCalledExact ==
    ASSUME SendInv, OneSender, NEW t \in Threads, NEW n \in SendSizes,
           SendCalled(t, n)
    PROVE  WireNumbered' /\ SendExact' /\ SendExactlyOnce'
<1>0. /\ Typed /\ TypeOK /\ WireNumbered /\ SendExact /\ SendExactlyOnce
      /\ Senders \subseteq Threads /\ calls \in Nat
      /\ t \in Senders /\ \A u \in Senders : u = t
  <2>1. t \in Senders
    BY DEF SendCalled
  <2>2. /\ Typed /\ TypeOK /\ WireNumbered /\ SendExact /\ SendExactlyOnce
    BY DEF SendInv, Typed
  <2>3. calls \in Nat
    BY <2>2 DEF TypeOK
  <2> QED
    BY <2>1, <2>2, <2>3, ConstantsTyped DEF OneSender
<1>1. PICK c : c = calls + 1
  OBVIOUS
<1>2. /\ calls' = c /\ id'[t] = c /\ wire' = wire /\ stored' = stored
      /\ stored[t] = 0
  BY <1>0, <1>1 DEF SendCalled, recvVars, TypeOK, Typed, SendTyped
<1>3. OnWire(c, 0)'
  BY <1>0, <1>1, <1>2, NewBlock
<1>4. WireNumbered'
  BY <1>0, <1>1, <1>2 DEF WireNumbered
<1>5. \A u \in Threads \ {t} : result'[u] = result[u]
  BY <1>0 DEF SendCalled, Returns, TypeOK
<1>6. CASE valid
  <2>1. pc'[t] = "send" /\ result' = result
    BY <1>0, <1>6 DEF SendCalled, At, TypeOK
  <2>2. SendExact'
    <3>1. c \in 1..c
      BY <1>0, <1>1
    <3> QED
      BY <1>0, <1>2, <1>3, <2>1, <3>1
         DEF SendExact, SendPlaces, OnWire, Places
  <2>3. SendExactlyOnce'
    BY <1>0, <2>1 DEF SendExact, SendExactlyOnce, Returned
  <2> QED
    BY <1>4, <2>2, <2>3
<1>7. CASE ~valid
  <2> DEFINE r == 0
  <2>1. pc'[t] = "idle" /\ Returns(t, "Send", r, c)
    BY <1>0, <1>1, <1>7 DEF SendCalled, Returns, At, TypeOK
  <2>2. c \in Nat /\ r \in Int /\ "Send" \in {"Send", "Receive"}
    BY <1>0, <1>1
  <2> HIDE DEF r
  <2>3. result'[t] = [op |-> "Send", ret |-> r, id |-> c, valid |-> valid]
    BY <1>0, <2>1, <2>2, ReturnTyped
  <2>4. result'[t].ret = 0 /\ result'[t].id = c
    BY <2>3 DEF r
  <2>5. SendExact'
    BY <1>0, <1>5, <2>1 DEF SendExact, SendPlaces
  <2>6. SendExactlyOnce'
    <3> SUFFICES ASSUME NEW u \in Threads, Returned(u, "Send")'
                 PROVE  OnWire(result[u].id, result[u].ret)'
      BY DEF SendExactlyOnce
    <3>1. u = t
      BY <1>0, <2>5 DEF SendExact, Returned
    <3> QED
      BY <1>3, <2>4, <3>1 DEF OnWire, Places
  <2> QED
    BY <1>4, <2>5, <2>6
<1> QED
  BY <1>6, <1>7

LEMMA SendStoresExact ==
    ASSUME SendInv, OneSender, NEW t \in Threads, SendStores(t)
    PROVE  WireNumbered' /\ SendExact' /\ SendExactlyOnce'
<1>0. /\ Typed /\ TypeOK /\ WireNumbered /\ SendExact
      /\ pc[t] = "send" /\ t \in Senders
  BY DEF SendInv, Typed, SendStores, SendTyped, SendPlaces
<1>1. /\ Senders \subseteq Threads /\ \A u \in Senders : u = t
      /\ id[t] \in 1..calls
  BY <1>0, ConstantsTyped DEF OneSender, SendExact, SendPlaces
<1>2. PICK k : k = Space
  OBVIOUS
<1>3. k \in Nat /\ Store(t, k)
  BY <1>2, ValuesTyped, <1>0 DEF SendStores
<1>4. /\ stored'[t] = stored[t] + k
      /\ UNCHANGED <<pc, arg, id, calls, result>>
  BY <1>0, <1>2 DEF SendStores, TypeOK
<1>5. PICK c, n : c = id[t] /\ n = stored[t]
  OBVIOUS
<1>6. OnWire(c, n + k)'
  <2>1. OnWire(c, n) /\ n \in Nat
    BY <1>0, <1>5, ValuesTyped DEF SendExact
  <2> QED
    BY <1>0, <1>3, <1>5, <2>1, StoreExtends
<1>7. SendExact'
  BY <1>0, <1>1, <1>4, <1>5, <1>6 DEF SendExact, SendPlaces, OnWire, Places
<1>8. WireNumbered'
  BY <1>0, <1>1, <1>3, <1>4, StoreNumbered
<1>9. SendExactlyOnce'
  BY <1>0, <1>1, <1>4 DEF SendExact, SendExactlyOnce, Returned
<1> QED
  BY <1>7, <1>8, <1>9

LEMMA SendSyscallExact ==
    ASSUME SendInv, OneSender, NEW t \in Threads, SendSyscall(t)
    PROVE  WireNumbered' /\ SendExact' /\ SendExactlyOnce'
<1>0. /\ Typed /\ TypeOK /\ WireNumbered /\ SendExact
      /\ pc[t] = "send" /\ t \in Senders
  BY DEF SendInv, Typed, SendSyscall, SendTyped, SendPlaces
<1>1. /\ Senders \subseteq Threads /\ \A u \in Senders : u = t
      /\ id[t] \in 1..calls
  BY <1>0, ConstantsTyped DEF OneSender, SendExact, SendPlaces
<1>2. PICK a \in SendAnswers(t) : Store(t, a.more) /\ m_nBytesSent' = a.n
  BY DEF SendSyscall
<1>3. /\ a.more \in Nat /\ a.n \in Int
      /\ a.n # -1 => a.n = stored[t] + a.more /\ a.n \in 1..arg[t]
      /\ a.n = -1 => a.more = 0 /\ stored[t] = 0
  BY <1>0, SendAnswersTyped
<1>4. /\ pc'[t] = "sendtest" /\ UNCHANGED <<arg, id, calls, result>>
  BY <1>0 DEF SendSyscall, At, TypeOK
<1>5. PICK c, n, k : c = id[t] /\ n = stored[t] /\ k = a.more
  OBVIOUS
<1>6. OnWire(c, n + k)'
  <2>1. OnWire(c, n) /\ n \in Nat /\ k \in Nat /\ Store(t, k)
    BY <1>0, <1>2, <1>3, <1>5, ValuesTyped DEF SendExact
  <2> QED
    BY <1>0, <1>5, <2>1, StoreExtends
<1>7. OnWire(c, a.n)'
  <2>1. CASE a.n # -1
    BY <1>3, <1>5, <1>6, <2>1
  <2>2. CASE a.n = -1
    <3>1. 1..(n + k) = 1..a.n
      BY <1>3, <1>5, <2>2
    <3> QED
      BY <1>6, <3>1 DEF OnWire
  <2> QED
    BY <2>1, <2>2
<1>8. SendExact'
  BY <1>0, <1>1, <1>2, <1>3, <1>4, <1>5, <1>7
     DEF SendExact, SendPlaces, OnWire, Places
<1>9. WireNumbered'
  BY <1>0, <1>1, <1>2, <1>3, <1>4, StoreNumbered
<1>10. SendExactlyOnce'
  BY <1>0, <1>1, <1>4 DEF SendExact, SendExactlyOnce, Returned
<1> QED
  BY <1>8, <1>9, <1>10

LEMMA SendTestExact ==
    ASSUME SendInv, OneSender, NEW t \in Threads, SendTest(t)
    PROVE  WireNumbered' /\ SendExact' /\ SendExactlyOnce'
<1>0. /\ Typed /\ TypeOK /\ WireNumbered /\ SendExact
      /\ pc[t] = "sendtest" /\ t \in Senders
  BY DEF SendInv, Typed, SendTest, SendTyped, SendPlaces
<1>1. Senders \subseteq Threads /\ \A u \in Senders : u = t
  BY <1>0, ConstantsTyped DEF OneSender
<1>2. PICK c, n : c = id[t] /\ n = m_nBytesSent
  OBVIOUS
<1>3. c \in Nat /\ n \in Int /\ "Send" \in {"Send", "Receive"}
  BY <1>0, <1>2, ValuesTyped DEF TypeOK
<1>4. Returns(t, "Send", n, c)
  BY <1>2 DEF SendTest, SendInv, Uninterrupted
<1>5. /\ pc'[t] = "idle"
      /\ result'[t] = [op |-> "Send", ret |-> n, id |-> c, valid |-> valid]
      /\ \A u \in Threads \ {t} : result'[u] = result[u]
  BY <1>0, <1>3, <1>4, ReturnTyped DEF TypeOK
<1>6. UNCHANGED <<m_nBytesSent, stored, wire, id, calls>>
  BY DEF SendTest, sendVars
<1>7. OnWire(c, n)'
  <2>1. OnWire(c, n)
    BY <1>0, <1>2 DEF SendExact
  <2> QED
    BY <1>6, <2>1, SameWire
<1>8. SendExact'
  BY <1>0, <1>1, <1>5 DEF SendExact, SendPlaces
<1>9. SendExactlyOnce'
  <2> SUFFICES ASSUME NEW u \in Threads, Returned(u, "Send")'
               PROVE  OnWire(result[u].id, result[u].ret)'
    BY DEF SendExactlyOnce
  <2>1. u = t
    BY <1>1, <1>8 DEF SendExact, Returned
  <2>2. result'[t].id = c /\ result'[t].ret = n
    BY <1>5
  <2> QED
    BY <1>7, <2>1, <2>2 DEF OnWire, Places
<1> QED
  BY <1>0, <1>6, <1>8, <1>9 DEF WireNumbered

LEMMA InitSend == Init => SendInv
<1> SUFFICES ASSUME Init
             PROVE  SendInv
  OBVIOUS
<1>1. Typed
  BY InitTyped
<1>2. DOMAIN wire = {}
  BY DEF Init
<1>3. WireNumbered /\ Uninterrupted
  BY <1>2 DEF Init, WireNumbered, Uninterrupted
<1>4. SendExact /\ SendExactlyOnce
  BY ConstantsTyped
     DEF Init, SendExact, SendPlaces, SendExactlyOnce, Returned, NoResult
<1> QED
  BY <1>1, <1>3, <1>4 DEF SendInv

(* A return of Receive, as the invariant of Send sees it. *)
LEMMA ReceiveReturned ==
    ASSUME Typed, NEW t \in Threads, NEW r \in Int, NEW call \in Nat,
           Returns(t, "Receive", r, call)
    PROVE  /\ pc'[t] = "idle" /\ result'[t].op = "Receive"
           /\ \A u \in Threads \ {t} :
                pc'[u] = pc[u] /\ arg'[u] = arg[u] /\ result'[u] = result[u]
<1>1. "Receive" \in {"Send", "Receive"} /\ TypeOK
  BY DEF Typed
<1>2. /\ result'[t] = [op |-> "Receive", ret |-> r, id |-> call,
                       valid |-> valid]
      /\ \A u \in Threads \ {t} : result'[u] = result[u]
  BY <1>1, ReturnTyped
<1>3. /\ pc'[t] = "idle"
      /\ \A u \in Threads \ {t} : pc'[u] = pc[u] /\ arg'[u] = arg[u]
  BY <1>1 DEF Returns, At, TypeOK
<1>4. result'[t].op = "Receive"
  BY <1>2
<1> QED
  BY <1>2, <1>3, <1>4

(* What a step outside Send does to the calls: nothing, or it takes one    *)
(* thread that is not in Send to another place of Receive or out of it.    *)
CallsKept ==
    \A u \in Threads :
        \/ pc'[u] = pc[u] /\ arg'[u] = arg[u] /\ result'[u] = result[u]
        \/ /\ pc'[u] \notin SendPlaces /\ pc[u] \notin SendPlaces
           /\ result'[u] = result[u] \/ result'[u].op = "Receive"
           /\ pc'[u] = "idle" => result'[u].op = "Receive"

LEMMA ReceiveKeepsCalls ==
    ASSUME Typed, Uninterrupted, NEW t \in Threads,
           \/ \E n \in Sizes, mine \in BOOLEAN : ReceiveCalled(t, n, mine)
           \/ RecvSyscall(t)
           \/ RecvTest(t)
    PROVE  CallsKept /\ UNCHANGED <<sendVars, drained>>
<1>0. TypeOK
  BY DEF Typed
<1>1. ASSUME NEW n \in Sizes, NEW mine \in BOOLEAN, ReceiveCalled(t, n, mine)
      PROVE  CallsKept /\ UNCHANGED <<sendVars, drained>>
  <2>1. UNCHANGED <<sendVars, drained>> /\ pc[t] = "idle"
    BY <1>1 DEF ReceiveCalled, kernVars
  <2>2. CASE valid
    BY <1>0, <1>1, <2>1, <2>2
       DEF ReceiveCalled, At, TypeOK, CallsKept, SendPlaces
  <2>3. CASE ~valid
    <3> DEFINE r == 0
               call == 0
    <3>1. Returns(t, "Receive", r, call) /\ r \in Int /\ call \in Nat
      BY <1>1, <2>3 DEF ReceiveCalled
    <3> HIDE DEF r, call
    <3> QED
      BY <2>1, <3>1, ReceiveReturned DEF CallsKept, SendPlaces
  <2> QED
    BY <2>2, <2>3
<1>2. CASE RecvSyscall(t)
  <2>1. /\ UNCHANGED <<sendVars, drained, arg, result>> /\ pc[t] = "recv"
        /\ pc' = [pc EXCEPT ![t] = "recvtest"]
    BY <1>2 DEF RecvSyscall, kernVars, At
  <2> QED
    BY <1>0, <2>1 DEF TypeOK, CallsKept, SendPlaces
<1>3. CASE RecvTest(t)
  <2> DEFINE call == 0
  <2>1. /\ UNCHANGED <<sendVars, drained>> /\ pc[t] = "recvtest"
        /\ Returns(t, "Receive", m_nBytesReceived, call)
        /\ m_nBytesReceived \in Int /\ call \in Nat
    BY <1>0, <1>3 DEF RecvTest, Uninterrupted, kernVars, TypeOK
  <2> HIDE DEF call
  <2> QED
    BY <2>1, ReceiveReturned DEF CallsKept, SendPlaces
<1> QED
  BY <1>1, <1>2, <1>3

LEMMA StepSend ==
    ASSUME NoInterrupts, OneSender, SendInv, [Next]_vars
    PROVE  SendInv'
<1>0. Typed /\ Uninterrupted /\ Typed' /\ Uninterrupted'
  BY StepTyped, StepUninterrupted DEF SendInv
<1> DEFINE Safe == WireNumbered /\ SendExact /\ SendExactlyOnce
<1>1. ASSUME CallsKept, UNCHANGED sendVars
      PROVE  Safe'
  BY <1>1, OutsideKeepsSend DEF CallsKept
<1>2. ASSUME NEW t \in Threads, Library(t)
      PROVE  Safe'
  <2>1. CASE SendStores(t) \/ SendSyscall(t) \/ SendTest(t)
    BY <2>1, SendStoresExact, SendSyscallExact, SendTestExact
  <2>2. CASE RecvSyscall(t) \/ RecvTest(t)
    <3>1. CallsKept /\ UNCHANGED sendVars
      BY <1>0, <2>2, ReceiveKeepsCalls
    <3> QED
      BY <1>1, <3>1
  <2> QED
    BY <1>2, <2>1, <2>2 DEF Library
<1>3. ASSUME NEW t \in Threads, Application(t)
      PROVE  Safe'
  <2>1. ASSUME NEW n \in SendSizes, SendCalled(t, n)
        PROVE  Safe'
    BY <2>1, SendCalledExact
  <2>2. CASE \E n \in Sizes, mine \in BOOLEAN : ReceiveCalled(t, n, mine)
    <3>1. CallsKept /\ UNCHANGED sendVars
      BY <1>0, <2>2, ReceiveKeepsCalls
    <3> QED
      BY <1>1, <3>1
  <2>3. CASE (\E ends \in ShutdownModes : Shutdown(t, ends)) \/ Close(t)
    <3>1. UNCHANGED <<netVars, callVars, m_nBytesSent, result>>
      BY <2>3 DEF Shutdown, Close
    <3>2. CallsKept /\ UNCHANGED sendVars
      BY <3>1 DEF CallsKept, sendVars, callVars, netVars
    <3> QED
      BY <1>1, <3>2
  <2> QED
    BY <1>3, <2>1, <2>2, <2>3 DEF Application
<1>4. ASSUME Network \/ UNCHANGED vars
      PROVE  Safe'
  <2>1. UNCHANGED <<wire, callVars, m_nBytesSent, result>>
    BY <1>4
       DEF Network, PeerDrains, PeerSends, PeerFinishes, PeerResets, objVars,
           vars, callVars
  <2>2. CallsKept /\ UNCHANGED sendVars
    BY <2>1 DEF CallsKept, sendVars, callVars
  <2> QED
    BY <1>1, <2>2
<1> HIDE DEF Safe
<1>5. Safe'
  BY <1>2, <1>3, <1>4 DEF Next
<1> QED
  BY <1>0, <1>5 DEF SendInv, Safe

LEMMA AlwaysSend ==
    ASSUME NoInterrupts, OneSender
    PROVE  Spec => []SendInv
<1>1. Init => SendInv
  BY InitSend
<1>2. SendInv /\ [Next]_vars => SendInv'
  BY StepSend
<1> QED
  BY <1>1, <1>2, PTL DEF Spec

(***************************************************************************)
(* When Send returns r, the first r bytes of the block are on the wire,    *)
(* once and in order, and nothing else of it; when it returns -1, nothing  *)
(* is: for blocks and connections of every size, short sends, timeouts,    *)
(* shutdowns and resets.                                                   *)
(***************************************************************************)
THEOREM SentExactlyOnce ==
    ASSUME NoInterrupts, OneSender
    PROVE  Spec => []SendExactlyOnce
<1>1. SendInv => SendExactlyOnce
  BY DEF SendInv
<1> QED
  BY <1>1, AlwaysSend, PTL

-----------------------------------------------------------------------------
(* Refinement of ByteStream: what the peer sends and Receive hands out. *)

(* The first p bytes of the peer's one long block. *)
Numbered(p) == [i \in 1..p |-> <<1, i>>]

LEMMA NumberedTyped ==
    ASSUME NEW p \in Nat
    PROVE  /\ Numbered(p) \in Seq(Nat \X Nat)
           /\ Len(Numbered(p)) = p
           /\ \A i \in 1..p : Numbered(p)[i] = <<1, i>>
<1>1. \A i \in 1..p : <<1, i>> \in Nat \X Nat
  OBVIOUS
<1> QED
  BY <1>1 DEF Numbered

LEMMA NumberedGrows ==
    ASSUME NEW p \in Nat
    PROVE  Numbered(p + 1) = Numbered(p) \o [i \in 1..1 |-> <<1, p + i>>]
<1> DEFINE s == Numbered(p)
           more == [i \in 1..1 |-> <<1, p + i>>]
           all == s \o more
<1>1. more \in Seq(Nat \X Nat) /\ Len(more) = 1 /\ more[1] = <<1, p + 1>>
  OBVIOUS
<1>2. s \in Seq(Nat \X Nat) /\ Len(s) = p /\ \A i \in 1..p : s[i] = <<1, i>>
  BY NumberedTyped
<1> HIDE DEF s, more
<1>3. /\ all \in Seq(Nat \X Nat) /\ Len(all) = p + 1
      /\ \A i \in 1..(p + 1) : all[i] = IF i <= p THEN s[i] ELSE more[i - p]
  <2>1. /\ s \o more \in Seq(Nat \X Nat)
        /\ Len(s \o more) = Len(s) + Len(more)
        /\ \A i \in 1..(Len(s) + Len(more)) :
             (s \o more)[i] = IF i <= Len(s) THEN s[i] ELSE more[i - Len(s)]
    BY <1>1, <1>2, ConcatProperties
  <2> QED
    BY <1>1, <1>2, <2>1
<1> HIDE DEF all
<1>4. \A i \in 1..(p + 1) : all[i] = <<1, i>>
  <2> TAKE i \in 1..(p + 1)
  <2>1. CASE i <= p
    <3>1. i \in 1..p /\ all[i] = s[i]
      BY <1>3, <2>1
    <3> QED
      BY <1>2, <3>1
  <2>2. CASE ~(i <= p)
    <3>1. i = p + 1 /\ i - p = 1
      BY <2>2
    <3>2. all[i] = more[1]
      BY <1>3, <2>2, <3>1
    <3> QED
      BY <1>1, <3>1, <3>2
  <2> QED
    BY <2>1, <2>2
<1>5. all = [i \in 1..(p + 1) |-> all[i]]
  BY <1>3
<1>6. all = Numbered(p + 1)
  BY <1>4, <1>5 DEF Numbered
<1> QED
  BY <1>6 DEF all, s, more

LEMMA NumberedPrefix ==
    ASSUME NEW p \in Nat, NEW d \in 0..p
    PROVE  SubSeq(Numbered(p), 1, d) = Numbered(d)
<1> DEFINE s == Numbered(p)
           front == SubSeq(s, 1, d)
<1>1. \A i \in 1..p : s[i] = <<1, i>>
  BY NumberedTyped
<1> HIDE DEF s
<1>2. \A i \in 1..d : i \in 1..p /\ s[i] = <<1, i>> /\ s[i] \in Nat \X Nat
  BY <1>1
<1>3. /\ front \in Seq(Nat \X Nat) /\ Len(front) = IF 1 <= d THEN d - 1 + 1 ELSE 0
      /\ \A i \in 1..(d - 1 + 1) : front[i] = s[1 + i - 1]
  <2>1. d \in Int /\ \A i \in 1..d : s[i] \in Nat \X Nat
    BY <1>2
  <2> HIDE DEF front
  <2> QED
    BY <2>1, SubSeqProperties DEF front
<1> HIDE DEF front
<1>4. Len(front) = d /\ \A i \in 1..d : front[i] = s[i]
  BY <1>3
<1>5. \A i \in 1..d : front[i] = <<1, i>>
  BY <1>2, <1>4
<1>6. front = [i \in 1..d |-> front[i]]
  BY <1>3, <1>4
<1>7. front = Numbered(d)
  BY <1>5, <1>6 DEF Numbered
<1> QED
  BY <1>7 DEF front, s

(* A step that hands out the bytes from one prefix to a longer one. *)
LEMMA NumberedHanded ==
    ASSUME NEW p \in Nat, NEW d \in 0..p, NEW n \in d..p
    PROVE  Numbered(n) = Numbered(d) \o SubSeq(Numbered(p), d + 1, n)
<1>1. Numbered(p) \in Seq(Nat \X Nat) /\ Len(Numbered(p)) = p
  BY NumberedTyped
<1>2. SubSeq(Numbered(p), 1, d) \o SubSeq(Numbered(p), d + 1, n)
      = SubSeq(Numbered(p), 1, n)
  <2>1. 1 \in 1..(p + 1) /\ d \in (1 - 1)..p /\ n \in d..p
    OBVIOUS
  <2> QED
    BY <1>1, <2>1, ConcatAdjacentSubSeq
<1>3. n \in 0..p
  OBVIOUS
<1> QED
  BY <1>2, <1>3, NumberedPrefix

(* The values of the refinement mapping. *)
LEMMA IncomingValues ==
    ASSUME ReceiveInv
    PROVE  /\ taken - Pending \in 0..peerSent /\ peerSent \in 0..MaxIn
           /\ [i \in 1..peerSent |-> <<1, i>>] = Numbered(peerSent)
           /\ [i \in DOMAIN delivered |-> <<1, delivered[i]>>]
              = Numbered(taken - Pending)
<1>1. taken \in 0..peerSent /\ peerSent \in 0..MaxIn /\ MaxIn \in Nat
      /\ m_nBytesReceived \in Int
  BY ConstantsTyped DEF ReceiveInv, Typed, TypeOK
<1>2. Pending \in 0..taken
  <2>1. CASE m_nBytesReceived > 0 /\ \E t \in Receivers : pc[t] = "recvtest"
    <3>1. m_nBytesReceived \in 0..taken
      BY <1>1, <2>1 DEF ReceiveInv, RoundExact
    <3> QED
      BY <2>1, <3>1 DEF Pending
  <2>2. CASE ~(m_nBytesReceived > 0
               /\ \E t \in Receivers : pc[t] = "recvtest")
    BY <1>1, <2>2 DEF Pending
  <2> QED
    BY <2>1, <2>2
<1> DEFINE d == taken - Pending
<1>3. d \in 0..peerSent
  BY <1>1, <1>2
<1>4. delivered = [i \in 1..d |-> i]
  BY DEF ReceiveInv, DeliveredPrefix
<1> HIDE DEF d
<1>5. [i \in DOMAIN delivered |-> <<1, delivered[i]>>] = Numbered(d)
  BY <1>4 DEF Numbered
<1> QED
  BY <1>1, <1>3, <1>5 DEF d, Numbered

LEMMA IncomingPrimed ==
    ASSUME ReceiveInv', NEW d, d = taken' - Pending'
    PROVE  [i \in DOMAIN delivered' |-> <<1, delivered'[i]>>] = Numbered(d)
<1>1. delivered' = [i \in 1..d |-> i]
  BY DEF ReceiveInv, DeliveredPrefix
<1> QED
  BY <1>1 DEF Numbered

LEMMA InitIncoming == Init => Incoming!Init
<1> SUFFICES ASSUME Init
             PROVE  Incoming!Init
  OBVIOUS
<1>1. [i \in 1..0 |-> <<1, i>>] = <<>>
  OBVIOUS
<1>2. delivered = <<>> /\ DOMAIN delivered = {} /\ peerSent = 0
  BY DEF Init
<1>3. [i \in DOMAIN delivered |-> <<1, delivered[i]>>] = <<>>
  <2>1. [i \in {} |-> <<1, delivered[i]>>] = <<>>
    OBVIOUS
  <2> QED
    BY <1>2, <2>1
<1> QED
  BY <1>1, <1>2, <1>3 DEF Incoming!Init

(* The peer's next byte enters the stream. *)
LEMMA PeerSendsAccepts ==
    ASSUME ReceiveInv, PeerSends, delivered' = delivered
    PROVE  Incoming!Accept(1) /\ 1 \in 1..(MaxIn - peerSent)
<1>1. peerSent \in Nat /\ MaxIn \in Nat /\ peerSent < MaxIn
      /\ peerSent' = peerSent + 1
  BY ConstantsTyped DEF ReceiveInv, Typed, TypeOK, PeerSends
<1>2. [i \in 1..peerSent' |-> <<1, i>>]
      = [i \in 1..peerSent |-> <<1, i>>]
        \o [i \in 1..1 |-> <<1, peerSent + i>>]
  BY <1>1, NumberedGrows DEF Numbered
<1>3. <<1, MaxIn>> # <<0, 0>> /\ <<1, MaxIn>>[1] = 1
  OBVIOUS
<1> QED
  BY <1>1, <1>2, <1>3 DEF Incoming!Accept, Incoming!NoBlock

(* What a Receive returns is handed to the reader. *)
LEMMA RecvTestReceives ==
    ASSUME ReceiveInv, ReceiveInv', NEW t \in Threads, RecvTest(t)
    PROVE  \/ UNCHANGED Incoming!streamVars
           \/ \E k \in 1..(Len([i \in 1..peerSent |-> <<1, i>>])
                           - Len([i \in DOMAIN delivered |->
                                    <<1, delivered[i]>>])) :
                Incoming!Receive(k)
<1> DEFINE d == taken - Pending
           stream == [i \in 1..peerSent |-> <<1, i>>]
           received == [i \in DOMAIN delivered |-> <<1, delivered[i]>>]
<1>1. /\ peerSent' = peerSent /\ taken' = taken
      /\ m_nBytesReceived' = m_nBytesReceived
      /\ pc[t] = "recvtest" /\ t \in Receivers /\ \A u \in Receivers : u = t
      /\ pc'[t] = "idle"
  <2>1. pc'[t] = "idle"
    BY DEF RecvTest, ReceiveInv, Typed, TypeOK, Uninterrupted, Returns, At
  <2>2. pc[t] = "recvtest" /\ t \in Receivers
    BY DEF RecvTest, ReceiveInv, Typed, ReceiveTyped, RecvPlaces
  <2> QED
    BY <2>1, <2>2, ConstantsTyped DEF RecvTest
<1>2. /\ d \in 0..peerSent /\ peerSent \in Nat /\ taken \in 0..peerSent
      /\ stream = Numbered(peerSent) /\ received = Numbered(d)
  <2>1. peerSent \in Nat /\ taken \in 0..peerSent
    BY ConstantsTyped DEF ReceiveInv, Typed, TypeOK
  <2> QED
    BY <2>1, IncomingValues
<1>3. /\ taken' - Pending' = taken
      /\ Pending >= 0 /\ Pending \in Int
  <2>1. Pending' = 0 /\ m_nBytesReceived \in Int /\ taken \in Int
    BY <1>1, <1>2 DEF Pending, ReceiveInv, Typed, TypeOK
  <2> QED
    BY <1>1, <2>1 DEF Pending
<1>4. /\ [i \in 1..peerSent' |-> <<1, i>>] = stream
      /\ [i \in DOMAIN delivered' |-> <<1, delivered'[i]>>] = Numbered(taken)
  BY <1>1, <1>3, IncomingPrimed
<1>5. d <= taken /\ d \in Nat /\ taken \in d..peerSent
  BY <1>2, <1>3
<1>6. Numbered(taken) = received \o SubSeq(stream, d + 1, taken)
  BY <1>2, <1>5, NumberedHanded
<1>7. Len(received) = d /\ Len(stream) = peerSent
  BY <1>2, <1>5, NumberedTyped
<1> HIDE DEF d
<1>8. CASE taken = d
  <2>1. Numbered(taken) = received
    BY <1>2, <1>8
  <2> QED
    BY <1>1, <1>4, <2>1 DEF Incoming!streamVars
<1>9. CASE taken # d
  <2>6. PICK k : k = taken - d
    OBVIOUS
  <2>1. k \in 1..(Len(stream) - Len(received)) /\ d + k = taken
    BY <1>2, <1>5, <1>7, <1>9, <2>6
  <2>2. Len(received) + k = taken /\ Len(received) + 1 = d + 1
    BY <1>7, <2>1
  <2>3. [i \in DOMAIN delivered' |-> <<1, delivered'[i]>>]
        = received \o SubSeq(stream, Len(received) + 1, Len(received) + k)
    BY <1>4, <1>6, <2>2
  <2>4. Incoming!Receive(k)
    BY <1>1, <1>4, <2>3 DEF Incoming!Receive
  <2> QED
    BY <2>1, <2>4
<1> QED
  BY <1>8, <1>9

LEMMA StepIncoming ==
    ASSUME ReceiveInv, ReceiveInv', [Next]_vars
    PROVE  [Incoming!Next]_(Incoming!streamVars)
<1>1. ASSUME UNCHANGED <<delivered, peerSent>>
      PROVE  UNCHANGED Incoming!streamVars
  BY <1>1 DEF Incoming!streamVars
<1>2. ASSUME NEW t \in Threads, Library(t)
      PROVE  [Incoming!Next]_(Incoming!streamVars)
  <2>1. CASE SendStores(t) \/ SendSyscall(t) \/ SendTest(t) \/ RecvSyscall(t)
    <3>1. UNCHANGED <<delivered, peerSent>>
      BY <2>1 DEF SendStores, SendSyscall, SendTest, RecvSyscall, recvVars
    <3> QED
      BY <1>1, <3>1
  <2>2. CASE RecvTest(t)
    BY <2>2, RecvTestReceives DEF Incoming!Next
  <2> QED
    BY <1>2, <2>1, <2>2 DEF Library
<1>3. ASSUME NEW t \in Threads, Application(t)
      PROVE  [Incoming!Next]_(Incoming!streamVars)
  <2>1. UNCHANGED <<delivered, peerSent>>
    BY <1>3 DEF Application, SendCalled, ReceiveCalled, Shutdown, Close,
                recvVars, netVars
  <2> QED
    BY <1>1, <2>1
<1>4. CASE Network
  <2>1. CASE PeerSends
    <3>1. delivered' = delivered
      BY <1>4 DEF Network
    <3>2. <<1, MaxIn>>[2] = MaxIn
      OBVIOUS
    <3> QED
      BY <2>1, <3>1, <3>2, PeerSendsAccepts DEF Incoming!Next
  <2>2. CASE ~PeerSends
    <3>1. UNCHANGED <<delivered, peerSent>>
      BY <1>4, <2>2 DEF Network, PeerDrains, PeerFinishes, PeerResets
    <3> QED
      BY <1>1, <3>1
  <2> QED
    BY <2>1, <2>2
<1>5. CASE UNCHANGED vars
  BY <1>1, <1>5 DEF vars
<1> QED
  BY <1>2, <1>3, <1>4, <1>5 DEF Next

(***************************************************************************)
(* Receive implements the abstract stream: it hands out the peer's bytes   *)
(* each once and in order, for all sizes, buffers, timeouts and shutdowns. *)
(***************************************************************************)
THEOREM ReceiveRefines ==
    ASSUME NoInterrupts
    PROVE  Spec => ReceiveImplementsStream
<1>1. Init => Incoming!Init
  BY InitIncoming
<1>2. ReceiveInv /\ ReceiveInv' /\ [Next]_vars
      => [Incoming!Next]_(Incoming!streamVars)
  BY StepIncoming
<1> QED
  BY <1>1, <1>2, AlwaysReceive, PTL
     DEF Spec, ReceiveImplementsStream, Incoming!Spec

-----------------------------------------------------------------------------
(* Refinement of ByteStream: what Send puts on the wire. *)

HasSender == OneSender /\ Senders # {}

LEMMA TheSenderIs ==
    ASSUME HasSender
    PROVE  /\ TheSender \in Senders /\ TheSender \in Threads
           /\ \A t \in Senders : t = TheSender
<1>1. TheSender \in Senders
  BY DEF HasSender, TheSender
<1> QED
  BY <1>1, ConstantsTyped DEF HasSender, OneSender

LEMMA AcceptedValues ==
    ASSUME NEW t
    PROVE  /\ pc[t] = "send" => Accepted(t) = stored[t]
           /\ pc[t] = "sendtest"
              => Accepted(t) = IF m_nBytesSent > 0 THEN m_nBytesSent ELSE 0
           /\ pc[t] \notin SendPlaces => Accepted(t) = 0
           /\ InSend(t) <=> pc[t] \in SendPlaces
  BY DEF Accepted, SendPlaces, InSend

LEMMA AcceptedValuesNext ==
    ASSUME NEW t
    PROVE  /\ pc'[t] = "send" => Accepted(t)' = stored'[t]
           /\ pc'[t] = "sendtest"
              => Accepted(t)' = IF m_nBytesSent' > 0 THEN m_nBytesSent' ELSE 0
           /\ pc'[t] \notin SendPlaces => Accepted(t)' = 0
           /\ InSend(t)' <=> pc'[t] \in SendPlaces
  BY DEF Accepted, SendPlaces, InSend

(* The peer has read the same bytes after a store as before. *)
LEMMA StoreKeepsRead ==
    ASSUME Typed, NEW t \in Threads, NEW k \in Nat, Store(t, k),
           drained' = drained
    PROVE  SubSeq(wire', 1, drained') = SubSeq(wire, 1, drained)
<1> DEFINE more == [i \in 1..k |-> <<id[t], stored[t] + i>>]
<1>1. more \in Seq(Nat \X Nat) /\ wire \in Seq(Nat \X Nat)
      /\ drained \in 0..Len(wire)
  BY ValuesTyped DEF Typed, TypeOK
<1>2. wire' = wire \o more
  BY DEF Store
<1> HIDE DEF more
<1>3. CASE drained = 0
  <2>1. 0 \in Int /\ 1 \in Int /\ 0 < 1
    OBVIOUS
  <2>2. SubSeq(wire', 1, 0) = <<>> /\ SubSeq(wire, 1, 0) = <<>>
    BY <2>1, SubSeqEmpty
  <2> QED
    BY <1>3, <2>2
<1>4. CASE drained # 0
  <2>1. 1 \in 1..Len(wire) /\ drained \in 1..Len(wire)
    BY <1>1, <1>4
  <2> QED
    BY <1>1, <1>2, <2>1, SubSeqOfConcat1
<1> QED
  BY <1>3, <1>4

LEMMA InitOutgoing ==
    ASSUME HasSender, Init
    PROVE  Outgoing!Init
<1>1. pc[TheSender] = "idle" /\ result[TheSender] = NoResult
  BY TheSenderIs DEF Init
<1>2. Accepted(TheSender) = 0 /\ ~InSend(TheSender)
  BY <1>1, AcceptedValues DEF SendPlaces
<1>3. SubSeq(wire, 1, drained) = <<>>
  <2>1. 0 \in Int /\ 1 \in Int /\ 0 < 1
    OBVIOUS
  <2> QED
    BY <2>1, SubSeqEmpty DEF Init
<1> QED
  BY <1>1, <1>2, <1>3 DEF Init, NoResult, Outgoing!Init, Outgoing!NoBlock

(* A step outside Send is none of the stream, or it ends a Receive of the  *)
(* sender, which then has no result of a Send to tell.                     *)
LEMMA OutsideOutgoing ==
    ASSUME HasSender, CallsKept, UNCHANGED <<sendVars, drained>>
    PROVE  UNCHANGED Outgoing!streamVars \/ Outgoing!Refuse
<1> DEFINE s == TheSender
<1>0. s \in Threads /\ UNCHANGED <<m_nBytesSent, stored, wire, id, drained>>
  BY TheSenderIs DEF sendVars
<1>1. CASE pc'[s] = pc[s] /\ arg'[s] = arg[s] /\ result'[s] = result[s]
  <2>1. Accepted(s)' = Accepted(s) /\ (InSend(s)' <=> InSend(s))
    BY <1>0, <1>1 DEF Accepted, InSend
  <2> QED
    BY <1>0, <1>1, <2>1 DEF Outgoing!streamVars
<1>2. CASE /\ pc'[s] \notin SendPlaces /\ pc[s] \notin SendPlaces
           /\ result'[s] = result[s] \/ result'[s].op = "Receive"
  <2>1. /\ Accepted(s)' = 0 /\ Accepted(s) = 0 /\ ~InSend(s) /\ ~InSend(s)'
    BY <1>2, AcceptedValues, AcceptedValuesNext
  <2>2. CASE result'[s] = result[s]
    BY <1>0, <2>1, <2>2 DEF Outgoing!streamVars
  <2>3. CASE result'[s].op = "Receive"
    BY <1>0, <2>1, <2>3 DEF Outgoing!Refuse, Outgoing!NoBlock
  <2> QED
    BY <1>2, <2>2, <2>3
<1> QED
  BY <1>0, <1>1, <1>2 DEF CallsKept

(* The call of Send begins a new block, or is refused without a socket. *)
LEMMA SendCalledOutgoing ==
    ASSUME HasSender, SendInv, NEW t \in Threads, NEW n \in SendSizes,
           SendCalled(t, n)
    PROVE  \/ Outgoing!Refuse
           \/ \E b \in 1..MaxCalls, m \in SendSizes : Outgoing!BeginSend(b, m)
<1>0. /\ Typed /\ TypeOK /\ WireNumbered /\ t \in Senders /\ t = TheSender
      /\ pc[t] = "idle" /\ stored[t] = 0 /\ calls \in Nat /\ calls < MaxCalls
  <2>1. pc[t] = "idle" /\ t \in Senders /\ calls < MaxCalls
    BY DEF SendCalled
  <2>2. Typed /\ TypeOK /\ WireNumbered
    BY DEF SendInv, Typed
  <2> QED
    BY <2>1, <2>2, TheSenderIs DEF Typed, TypeOK, SendTyped
<1>1. UNCHANGED <<wire, drained, stored>>
  BY DEF SendCalled, kernVars, recvVars
<1>2. Accepted(t) = 0 /\ ~InSend(t)
  BY <1>0, AcceptedValues DEF SendPlaces
<1>3. CASE valid
  <2>1. /\ pc'[t] = "send" /\ id'[t] = calls + 1 /\ arg'[t] = n
        /\ result' = result
    BY <1>0, <1>3 DEF SendCalled, At, TypeOK
  <2>2. Accepted(t)' = 0 /\ InSend(t)'
    BY <1>0, <1>1, <2>1, AcceptedValuesNext DEF SendPlaces
  <2>3. PICK b : b = calls + 1
    OBVIOUS
  <2>4. b \in 1..MaxCalls /\ \A i \in DOMAIN wire : wire[i][1] # b
    BY <1>0, <2>3, ConstantsTyped DEF WireNumbered
  <2>5. Outgoing!BeginSend(b, n)
    BY <1>0, <1>1, <1>2, <2>1, <2>2, <2>3, <2>4
       DEF Outgoing!BeginSend, Outgoing!NoBlock
  <2> QED
    BY <2>4, <2>5
<1>4. CASE ~valid
  <2>1. PICK c, r : c = calls + 1 /\ r = 0
    OBVIOUS
  <2>2. Returns(t, "Send", r, c) /\ c \in Nat /\ r \in Int
        /\ "Send" \in {"Send", "Receive"}
    BY <1>0, <1>4, <2>1 DEF SendCalled
  <2>3. /\ result'[t] = [op |-> "Send", ret |-> r, id |-> c, valid |-> valid]
        /\ pc'[t] = "idle"
    BY <1>0, <2>2, ReturnTyped DEF TypeOK
  <2>4. result'[t].op = "Send" /\ result'[t].ret = 0
    BY <2>1, <2>3
  <2>5. Accepted(t)' = 0 /\ ~InSend(t)'
    BY <2>3, AcceptedValuesNext DEF SendPlaces
  <2> QED
    BY <1>0, <1>1, <1>2, <2>4, <2>5 DEF Outgoing!Refuse, Outgoing!NoBlock
<1> QED
  BY <1>3, <1>4

(* k bytes that a send() stores enter the stream. *)
LEMMA StoreOutgoing ==
    ASSUME HasSender, SendInv, NEW t \in Threads, pc[t] = "send",
           NEW k \in Nat, Store(t, k), k <= arg[t] - stored[t],
           UNCHANGED <<drained, result, arg, id>>,
           pc'[t] \in SendPlaces, Accepted(t)' = stored[t] + k
    PROVE  \/ UNCHANGED Outgoing!streamVars
           \/ \E m \in 1..((IF InSend(TheSender)
                             THEN <<id[TheSender], arg[TheSender]>>
                             ELSE <<0, 0>>)[2] - Accepted(TheSender)) :
                Outgoing!Accept(m)
<1>0. Typed /\ t = TheSender /\ id[t] \in 1..calls
  <2>1. t \in Senders
    BY DEF SendInv, Typed, SendTyped, SendPlaces
  <2> QED
    BY <2>1, TheSenderIs DEF SendInv, SendExact, SendPlaces
<1>1. /\ Accepted(t) = stored[t] /\ InSend(t) /\ InSend(t)'
      /\ stored[t] \in Nat /\ arg[t] \in Nat
  BY <1>0, AcceptedValues, AcceptedValuesNext, ValuesTyped DEF SendPlaces
<1>2. SubSeq(wire', 1, drained') = SubSeq(wire, 1, drained)
  BY <1>0, StoreKeepsRead
<1>3. CASE k = 0
  <2>1. wire' = wire
    <3>1. [i \in 1..0 |-> <<id[t], stored[t] + i>>] = <<>>
      OBVIOUS
    <3>2. wire' = wire \o <<>>
      BY <1>3, <3>1 DEF Store
    <3> QED
      BY <1>0, <3>2, ConcatEmptySeq DEF Typed, TypeOK
  <2>2. stored[t] + k = stored[t]
    BY <1>1, <1>3
  <2> QED
    BY <1>0, <1>1, <1>2, <2>1, <2>2 DEF Outgoing!streamVars
<1>4. CASE k # 0
  <2> DEFINE block == <<id[t], arg[t]>>
  <2>1. block[1] = id[t] /\ block[2] = arg[t]
    OBVIOUS
  <2>2. block # <<0, 0>> /\ k \in 1..(arg[t] - stored[t])
    BY <1>0, <1>1, <1>4, <2>1
  <2>3. wire' = wire \o [i \in 1..k |-> <<id[t], stored[t] + i>>]
    BY DEF Store
  <2>4. Outgoing!Accept(k)
    BY <1>0, <1>1, <1>2, <2>1, <2>2, <2>3
       DEF Outgoing!Accept, Outgoing!NoBlock
  <2> QED
    BY <1>0, <1>1, <2>1, <2>2, <2>4
<1> QED
  BY <1>3, <1>4

LEMMA SendStoresOutgoing ==
    ASSUME HasSender, SendInv, NEW t \in Threads, SendStores(t)
    PROVE  [Outgoing!Next]_(Outgoing!streamVars)
<1>0. Typed /\ TypeOK /\ pc[t] = "send"
  BY DEF SendInv, Typed, SendStores
<1>1. PICK k : k = Space
  OBVIOUS
<1>2. k \in Nat /\ Store(t, k) /\ k <= arg[t] - stored[t]
  BY <1>0, <1>1, ValuesTyped DEF SendStores
<1>3. /\ UNCHANGED <<drained, result, arg, id>>
      /\ pc'[t] = "send" /\ stored'[t] = stored[t] + k
  BY <1>0, <1>1 DEF SendStores, kernVars, TypeOK
<1>4. Accepted(t)' = stored[t] + k /\ pc'[t] \in SendPlaces
  BY <1>3, AcceptedValuesNext DEF SendPlaces
<1> QED
  BY <1>0, <1>2, <1>3, <1>4, StoreOutgoing DEF Outgoing!Next

LEMMA SendSyscallOutgoing ==
    ASSUME HasSender, SendInv, NEW t \in Threads, SendSyscall(t)
    PROVE  [Outgoing!Next]_(Outgoing!streamVars)
<1>0. Typed /\ TypeOK /\ pc[t] = "send"
  BY DEF SendInv, Typed, SendSyscall
<1>1. PICK a \in SendAnswers(t) : Store(t, a.more) /\ m_nBytesSent' = a.n
  BY DEF SendSyscall
<1>2. /\ a.more \in Nat /\ a.n \in Int
      /\ a.n # -1 => a.n = stored[t] + a.more /\ a.n \in 1..arg[t]
      /\ a.n = -1 => a.more = 0 /\ stored[t] = 0
  BY <1>0, SendAnswersTyped
<1>3. /\ UNCHANGED <<drained, result, arg, id>> /\ pc'[t] = "sendtest"
  BY <1>0 DEF SendSyscall, kernVars, At, TypeOK
<1>4. Accepted(t)' = stored[t] + a.more /\ a.more <= arg[t] - stored[t]
  <2>1. Accepted(t)' = IF a.n > 0 THEN a.n ELSE 0
    BY <1>1, <1>3, AcceptedValuesNext
  <2>2. stored[t] \in Nat /\ arg[t] \in Nat /\ stored[t] < arg[t]
    BY <1>0, ValuesTyped DEF Typed, SendTyped
  <2> QED
    BY <1>2, <2>1, <2>2
<1>5. pc'[t] \in SendPlaces
  BY <1>3 DEF SendPlaces
<1> QED
  BY <1>0, <1>1, <1>2, <1>3, <1>4, <1>5, StoreOutgoing DEF Outgoing!Next

(* The return of Send ends the block and tells what was accepted. *)
LEMMA SendTestOutgoing ==
    ASSUME HasSender, SendInv, NEW t \in Threads, SendTest(t)
    PROVE  Outgoing!EndSend
<1>0. /\ Typed /\ TypeOK /\ pc[t] = "sendtest"
      /\ t \in Senders /\ t = TheSender /\ id[t] \in 1..calls
      /\ m_nBytesSent \in {-1} \cup 1..arg[t] /\ arg[t] \in Nat
  <2>1. Typed /\ TypeOK /\ pc[t] = "sendtest" /\ t \in Senders
    BY DEF SendInv, Typed, SendTest, SendTyped, SendPlaces
  <2> QED
    BY <2>1, TheSenderIs, ValuesTyped DEF SendInv, SendExact, SendPlaces
<1>1. PICK c, n : c = id[t] /\ n = m_nBytesSent
  OBVIOUS
<1>2. c \in Nat /\ n \in Int /\ "Send" \in {"Send", "Receive"}
  BY <1>0, <1>1, ValuesTyped DEF TypeOK
<1>3. Returns(t, "Send", n, c)
  BY <1>1 DEF SendTest, SendInv, Uninterrupted
<1>4. /\ pc'[t] = "idle"
      /\ result'[t] = [op |-> "Send", ret |-> n, id |-> c, valid |-> valid]
  BY <1>0, <1>2, <1>3, ReturnTyped DEF TypeOK
<1>5. result'[t].op = "Send" /\ result'[t].ret = n
  BY <1>4
<1>6. UNCHANGED <<wire, drained>>
  BY DEF SendTest, sendVars, kernVars
<1>7. Accepted(t)' = 0 /\ ~InSend(t)'
  BY <1>4, AcceptedValuesNext DEF SendPlaces
<1>8. /\ Accepted(t) = IF n > 0 THEN n ELSE 0
      /\ InSend(t)
  BY <1>0, <1>1, AcceptedValues DEF SendPlaces
<1>9. <<id[t], arg[t]>> # <<0, 0>>
  BY <1>0
<1>10. n = IF Accepted(t) = 0 THEN -1 ELSE Accepted(t)
  BY <1>0, <1>1, <1>8
<1> QED
  BY <1>0, <1>5, <1>6, <1>7, <1>8, <1>9, <1>10
     DEF Outgoing!EndSend, Outgoing!NoBlock

(* The peer reads one more byte. *)
LEMMA PeerDrainsOutgoing ==
    ASSUME HasSender, SendInv, PeerDrains,
           UNCHANGED <<callVars, m_nBytesSent, result>>
    PROVE  \E k \in 1..(Len(wire) - Len(SubSeq(wire, 1, drained))) :
               Outgoing!Receive(k)
<1>1. /\ wire \in Seq(Nat \X Nat) /\ drained \in Nat /\ Len(wire) \in Nat
      /\ drained < Len(wire) /\ drained' = drained + 1 /\ wire' = wire
  BY ValuesTyped DEF SendInv, Typed, TypeOK, PeerDrains
<1>2. Len(SubSeq(wire, 1, drained)) = drained
  <2>1. drained \in Int /\ 1 \in Int
        /\ \A i \in 1..drained : wire[i] \in Nat \X Nat
    BY <1>1
  <2>2. Len(SubSeq(wire, 1, drained))
        = IF 1 <= drained THEN drained - 1 + 1 ELSE 0
    BY <2>1, SubSeqProperties
  <2> QED
    BY <1>1, <2>2
<1>3. SubSeq(wire, 1, drained) \o SubSeq(wire, drained + 1, drained + 1)
      = SubSeq(wire, 1, drained + 1)
  <2>1. /\ 1 \in 1..(Len(wire) + 1) /\ drained \in (1 - 1)..Len(wire)
        /\ drained + 1 \in drained..Len(wire)
    BY <1>1
  <2> QED
    BY <1>1, <2>1, ConcatAdjacentSubSeq
<1>4. /\ UNCHANGED <<pc, arg, id, result>>
      /\ Accepted(TheSender)' = Accepted(TheSender)
      /\ InSend(TheSender)' <=> InSend(TheSender)
  BY DEF callVars, Accepted, InSend
<1>5. Outgoing!Receive(1)
  BY <1>1, <1>2, <1>3, <1>4 DEF Outgoing!Receive
<1>6. 1 \in 1..(Len(wire) - Len(SubSeq(wire, 1, drained)))
  BY <1>1, <1>2
<1> QED
  BY <1>5, <1>6

LEMMA StepOutgoing ==
    ASSUME HasSender, SendInv, [Next]_vars
    PROVE  [Outgoing!Next]_(Outgoing!streamVars)
<1>0. Typed /\ Uninterrupted
  BY DEF SendInv
<1>1. ASSUME CallsKept, UNCHANGED <<sendVars, drained>>
      PROVE  [Outgoing!Next]_(Outgoing!streamVars)
  BY <1>1, OutsideOutgoing DEF Outgoing!Next
<1>2. ASSUME NEW t \in Threads, Library(t)
      PROVE  [Outgoing!Next]_(Outgoing!streamVars)
  <2>1. CASE SendStores(t)
    BY <2>1, SendStoresOutgoing
  <2>2. CASE SendSyscall(t)
    BY <2>2, SendSyscallOutgoing
  <2>3. CASE SendTest(t)
    BY <2>3, SendTestOutgoing DEF Outgoing!Next
  <2>4. CASE RecvSyscall(t) \/ RecvTest(t)
    <3>1. CallsKept /\ UNCHANGED <<sendVars, drained>>
      BY <1>0, <2>4, ReceiveKeepsCalls
    <3> QED
      BY <1>1, <3>1
  <2> QED
    BY <1>2, <2>1, <2>2, <2>3, <2>4 DEF Library
<1>3. ASSUME NEW t \in Threads, Application(t)
      PROVE  [Outgoing!Next]_(Outgoing!streamVars)
  <2>1. ASSUME NEW n \in SendSizes, SendCalled(t, n)
        PROVE  [Outgoing!Next]_(Outgoing!streamVars)
    BY <2>1, SendCalledOutgoing DEF Outgoing!Next
  <2>2. CASE \E n \in Sizes, mine \in BOOLEAN : ReceiveCalled(t, n, mine)
    <3>1. CallsKept /\ UNCHANGED <<sendVars, drained>>
      BY <1>0, <2>2, ReceiveKeepsCalls
    <3> QED
      BY <1>1, <3>1
  <2>3. CASE (\E ends \in ShutdownModes : Shutdown(t, ends)) \/ Close(t)
    <3>1. UNCHANGED <<netVars, callVars, m_nBytesSent, result>>
      BY <2>3 DEF Shutdown, Close
    <3>2. CallsKept /\ UNCHANGED <<sendVars, drained>>
      BY <3>1 DEF CallsKept, sendVars, callVars, netVars
    <3> QED
      BY <1>1, <3>2
  <2> QED
    BY <1>3, <2>1, <2>2, <2>3 DEF Application
<1>4. CASE Network
  <2>1. UNCHANGED <<callVars, m_nBytesSent, result>>
    BY <1>4 DEF Network, objVars
  <2>2. CASE PeerDrains
    BY <2>1, <2>2, PeerDrainsOutgoing DEF Outgoing!Next
  <2>3. CASE PeerSends \/ PeerFinishes \/ PeerResets
    <3>1. UNCHANGED <<wire, drained>>
      BY <2>3 DEF PeerSends, PeerFinishes, PeerResets
    <3>2. CallsKept /\ UNCHANGED <<sendVars, drained>>
      BY <2>1, <3>1 DEF CallsKept, sendVars, callVars
    <3> QED
      BY <1>1, <3>2
  <2> QED
    BY <1>4, <2>2, <2>3 DEF Network
<1>5. CASE UNCHANGED vars
  <2>1. CallsKept /\ UNCHANGED <<sendVars, drained>>
    BY <1>5 DEF CallsKept, sendVars, vars
  <2> QED
    BY <1>1, <2>1
<1> QED
  BY <1>2, <1>3, <1>4, <1>5 DEF Next

(***************************************************************************)
(* Send implements the abstract stream: no byte of a block enters the      *)
(* stream twice or before its turn, and Send tells how many did, for all   *)
(* sizes, capacities, timeouts, shutdowns and resets.                      *)
(***************************************************************************)
THEOREM SendRefines ==
    ASSUME NoInterrupts, HasSender
    PROVE  Spec => SendImplementsStream
<1>1. Init => Outgoing!Init
  BY InitOutgoing
<1>2. SendInv /\ [Next]_vars => [Outgoing!Next]_(Outgoing!streamVars)
  BY StepOutgoing
<1>3. Spec => []SendInv
  BY AlwaysSend DEF HasSender
<1> QED
  BY <1>1, <1>2, <1>3, PTL DEF Spec, SendImplementsStream, Outgoing!Spec
=============================================================================
