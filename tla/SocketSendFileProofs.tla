------------------------ MODULE SocketSendFileProofs ------------------------
(***************************************************************************)
(* Proofs about SocketSendFile: the types and the safety invariants, for   *)
(* any number of threads, any file and block sizes and any counts.         *)
(***************************************************************************)
EXTENDS SocketSendFile, SequenceTheorems, TLAPS

FileBytes == Callers \X (0..FileSize)

Active(c) == pc[c] \in {"read", "send"}

(* A call that is copying has put one byte more than it counts on its      *)
(* socket, has read that and the block it is about to send, and has not    *)
(* moved the offset.                                                       *)
Copying(c) ==
    Active(c) =>
        /\ nOutCount[c] < nCount[c]
        /\ offset[c] = start[c]
        /\ Len(sent[c]) = nOutCount[c] + 1
        /\ pc[c] = "read" => pos[c] = start[c] + nOutCount[c] + 1
        /\ pc[c] = "send" => pos[c] = start[c] + nOutCount[c] + 1 + nInCount(c)

(* The front of szData holds bytes of some file when a block is sent. *)
BlockThere(c) ==
    pc[c] = "send" => \A i \in 0..(nInCount(c) - 1) : szData[i] \in FileBytes

(* A call that no other call has overlapped runs alone. *)
Alone(c) ==
    (Active(c) /\ ~overlapped[c]) => \A d \in Callers \ {c} : ~Active(d)

(* Such a call finds in szData what it has read itself. *)
OwnBlock(c) ==
    (pc[c] = "send" /\ ~overlapped[c])
    => \A i \in 0..(nInCount(c) - 1) :
           szData[i] = <<c, start[c] + nOutCount[c] + 1 + i>>

Contiguous(c) ==
    ~overlapped[c]
    => sent[c] = [i \in 1..Len(sent[c]) |-> <<c, start[c] + i - 1>>]

(* What a call that has returned leaves. *)
Reported(c) ==
    pc[c] = "idle"
    => IF ret[c] = -1 THEN offset[c] = start[c]
       ELSE /\ offset[c] = start[c] + ret[c]
            /\ Len(sent[c]) = ret[c] + 1

CallInv(c) ==
    /\ Copying(c) /\ BlockThere(c) /\ Alone(c) /\ OwnBlock(c)
    /\ Contiguous(c) /\ Reported(c)

CopyInv == TypeOK /\ \A c \in Callers : CallInv(c)

-----------------------------------------------------------------------------
(* The constants and the translation, as the proofs use them. *)
LEMMA ConstantsTyped ==
    /\ FileSize \in Nat /\ BlockSize \in Nat /\ BlockSize > 0
    /\ Counts \subseteq Nat
  BY SendFileAssumption

LEMMA TranslationTyped ==
    \A e \in Errnos : TranslateSocketError(e) \in CSocketError
  BY DEF TranslateSocketError, CSocketError, Errnos

LEMMA NamedErrnos ==
    {"EXIT_SUCCESS", "EPIPE", "EWOULDBLOCK", "EOTHER"} \subseteq Errnos
  BY DEF Errnos

LEMMA CallTyped ==
    ASSUME TypeOK, NEW c \in Callers
    PROVE  /\ offset[c] \in Nat /\ start[c] \in Nat /\ pos[c] \in 0..FileSize
           /\ nCount[c] \in Nat /\ nOutCount[c] \in Int /\ nOutCount[c] >= -1
           /\ ret[c] \in Int /\ ret[c] >= -1
           /\ errno[c] \in Errnos /\ nInCount(c) \in Int
           /\ sent[c] \in Seq(FileBytes) /\ Len(sent[c]) \in Nat
<1>1. nCount[c] \in Counts \cup {0} /\ nOutCount[c] \in -1..FileSize
      /\ ret[c] \in -1..FileSize
  BY DEF TypeOK
<1>2. nCount[c] \in Nat
  <2>1. \A n \in Counts : n \in Nat
    BY ConstantsTyped
  <2> QED
    BY <1>1, <2>1
<1>3. nOutCount[c] \in Int /\ nOutCount[c] >= -1 /\ ret[c] \in Int
      /\ ret[c] >= -1
  BY <1>1, ConstantsTyped
<1>4. nInCount(c) \in Int
  BY <1>2, <1>3, ConstantsTyped DEF nInCount, Lesser
<1> QED
  BY <1>2, <1>3, <1>4, ConstantsTyped DEF TypeOK, FileBytes

(* A block is not empty, fits the buffer and is no more than is left. *)
LEMMA BlockSizes ==
    ASSUME TypeOK, NEW c \in Callers, Active(c), Copying(c)
    PROVE  /\ nInCount(c) \in 1..BlockSize
           /\ nOutCount[c] + nInCount(c) <= nCount[c]
  BY CallTyped, ConstantsTyped DEF Copying, nInCount, Lesser

(***************************************************************************)
(* A call that a step does not touch keeps its part of the invariant.  The *)
(* step may note that it was overlapped, and may put other bytes of files  *)
(* into szData unless the call is alone.                                   *)
(***************************************************************************)
LEMMA OtherCall ==
    ASSUME TypeOK, NEW d \in Callers, CallInv(d),
           /\ pc'[d] = pc[d] /\ offset'[d] = offset[d] /\ start'[d] = start[d]
           /\ nCount'[d] = nCount[d] /\ nOutCount'[d] = nOutCount[d]
           /\ pos'[d] = pos[d] /\ sent'[d] = sent[d] /\ ret'[d] = ret[d],
           overlapped[d] => overlapped'[d],
           \A i \in 0..(BlockSize - 1) :
               szData[i] \in FileBytes => szData'[i] \in FileBytes,
           Active(d) /\ ~overlapped'[d] => szData' = szData,
           Alone(d)'
    PROVE  CallInv(d)'
<1>1. nInCount(d)' = nInCount(d) /\ (Active(d)' <=> Active(d))
  BY DEF nInCount, Active
<1>2. Copying(d)' /\ Reported(d)'
  BY <1>1 DEF CallInv, Copying, Reported
<1>3. BlockThere(d)'
  <2>1. pc[d] = "send" => \A i \in 0..(nInCount(d) - 1) : i \in 0..(BlockSize - 1)
    BY BlockSizes, ConstantsTyped DEF CallInv, Active
  <2> QED
    BY <1>1, <2>1 DEF CallInv, BlockThere
<1>4. OwnBlock(d)' /\ Contiguous(d)'
  BY <1>1 DEF CallInv, OwnBlock, Contiguous, Active
<1> QED
  BY <1>2, <1>3, <1>4 DEF CallInv

(* A step that starts no call and notes no overlap leaves who is alone. *)
LEMMA AloneKept ==
    ASSUME CopyInv, overlapped' = overlapped, NEW c \in Callers,
           Active(c) \/ ~Active(c)',
           \A d \in Callers \ {c} : pc'[d] = pc[d]
    PROVE  \A d \in Callers : Alone(d)'
<1>1. \A d \in Callers : Active(d)' => Active(d)
  BY DEF Active
<1> QED
  BY <1>1 DEF CopyInv, CallInv, Alone

LEMMA InitCopies == Init => CopyInv
<1> SUFFICES ASSUME Init
             PROVE  CopyInv
  OBVIOUS
<1>1. "EXIT_SUCCESS" \in Errnos /\ "SocketInvalidSocket" \in CSocketError
      /\ <<>> \in Seq(FileBytes) /\ 0 \in 0..FileSize /\ -1 \in -1..FileSize
  BY NamedErrnos, ConstantsTyped DEF CSocketError
<1>2. TypeOK
  BY <1>1 DEF Init, TypeOK, FileBytes
<1>3. ASSUME NEW c \in Callers
      PROVE  CallInv(c)
  <2>1. pc[c] = "idle" /\ ret[c] = -1 /\ offset[c] = 0 /\ start[c] = 0
        /\ sent[c] = <<>>
    BY <1>3 DEF Init
  <2>2. Len(sent[c]) = 0 /\ [i \in 1..0 |-> <<c, start[c] + i - 1>>] = <<>>
    BY <2>1
  <2> QED
    BY <2>1, <2>2
       DEF CallInv, Copying, BlockThere, Alone, OwnBlock, Contiguous,
           Reported, Active
<1> QED
  BY <1>2, <1>3 DEF CopyInv

LEMMA CalledKeeps ==
    ASSUME CopyInv, NEW c \in Callers, NEW n \in Counts, SendFileCalled(c, n)
    PROVE  CopyInv'
<1>0. TypeOK /\ pc[c] = "idle" /\ \A d \in Callers : CallInv(d)
  BY DEF CopyInv, SendFileCalled
<1>1. n \in Nat /\ FileSize \in Nat
  BY ConstantsTyped
<1>2. /\ pc' \in [Callers -> {"idle", "read", "send"}]
      /\ pc'[c] \in {"idle", "read"} /\ \A d \in Callers \ {c} : pc'[d] = pc[d]
      /\ pc'[c] = "read" => /\ pos' = [pos EXCEPT ![c] = offset[c]]
                            /\ UNCHANGED <<errno, m_socketErrno, ret>>
      /\ pc'[c] = "idle" => /\ ret' = [ret EXCEPT ![c] = -1] /\ pos' = pos
                            /\ errno' = [errno EXCEPT ![c] = "EOTHER"]
                            /\ UNCHANGED m_socketErrno
      /\ offset' = offset /\ szData' = szData
  BY <1>0 DEF SendFileCalled, At, Fails, Leaves, TypeOK
<1>3. /\ nCount' = [nCount EXCEPT ![c] = n]
      /\ nOutCount' = [nOutCount EXCEPT ![c] = -1]
      /\ start' = [start EXCEPT ![c] = offset[c]]
      /\ sent' = [sent EXCEPT ![c] = <<>>]
  BY DEF SendFileCalled
<1>4. /\ overlapped' \in [Callers -> BOOLEAN]
      /\ ~overlapped'[c] => \A d \in Callers : pc[d] = "idle"
      /\ \A d \in Callers \ {c} :
           overlapped'[d] = (overlapped[d] \/ pc[d] # "idle")
  BY <1>0 DEF SendFileCalled, TypeOK
<1>5. /\ pos' \in [Callers -> 0..FileSize] /\ errno' \in [Callers -> Errnos]
      /\ ret' \in [Callers -> -1..FileSize] /\ m_socketErrno' \in CSocketError
  <2>1. -1 \in -1..FileSize /\ "EOTHER" \in Errnos
    BY <1>1, NamedErrnos
  <2>2. CASE pc'[c] = "read"
    BY <1>0, <1>2, <2>2 DEF TypeOK
  <2>3. CASE pc'[c] = "idle"
    <3>1. /\ ret' = [ret EXCEPT ![c] = -1] /\ pos' = pos
          /\ errno' = [errno EXCEPT ![c] = "EOTHER"]
          /\ m_socketErrno' = m_socketErrno
      BY <1>2, <2>3
    <3>2. /\ pos \in [Callers -> 0..FileSize] /\ errno \in [Callers -> Errnos]
          /\ ret \in [Callers -> -1..FileSize]
          /\ m_socketErrno \in CSocketError
      BY <1>0 DEF TypeOK
    <3>3. ret' \in [Callers -> -1..FileSize]
      BY <2>1, <3>1, <3>2
    <3> QED
      BY <2>1, <3>1, <3>2, <3>3
  <2> QED
    BY <1>2, <2>2, <2>3
<1>6. TypeOK'
  <2>1. -1 \in -1..FileSize /\ <<>> \in Seq(Callers \X (0..FileSize))
    BY <1>1
  <2> QED
    BY <1>0, <1>2, <1>3, <1>4, <1>5, <2>1 DEF TypeOK
<1>7. \A d \in Callers : Alone(d)'
  <2> SUFFICES ASSUME NEW d \in Callers, Active(d)', ~overlapped'[d],
                      NEW e \in Callers \ {d}
               PROVE  ~Active(e)'
    BY DEF Alone
  <2>1. d = c /\ pc[e] = "idle"
    BY <1>2, <1>4 DEF Active
  <2> QED
    BY <1>2, <2>1 DEF Active
<1>8. ASSUME NEW d \in Callers, d # c
      PROVE  CallInv(d)'
  <2>1. /\ pc'[d] = pc[d] /\ offset'[d] = offset[d] /\ start'[d] = start[d]
        /\ nCount'[d] = nCount[d] /\ nOutCount'[d] = nOutCount[d]
        /\ pos'[d] = pos[d] /\ sent'[d] = sent[d] /\ ret'[d] = ret[d]
    BY <1>0, <1>2, <1>3, <1>8 DEF TypeOK
  <2>2. overlapped[d] => overlapped'[d]
    BY <1>4, <1>8
  <2> QED
    BY <1>0, <1>2, <1>7, <1>8, <2>1, <2>2, OtherCall
<1>9. CallInv(c)'
  <2>1. /\ nOutCount'[c] = -1 /\ nCount'[c] = n /\ start'[c] = offset[c]
        /\ offset'[c] = offset[c] /\ sent'[c] = <<>> /\ offset[c] \in Nat
        /\ pc'[c] = "read" => pos'[c] = offset[c]
        /\ pc'[c] = "idle" => ret'[c] = -1
    BY <1>0, <1>2, <1>3, CallTyped DEF TypeOK
  <2>2. Copying(c)'
    <3>1. Len(sent'[c]) = -1 + 1 /\ -1 < n
      BY <1>1, <2>1
    <3>2. pc'[c] = "read" => pos'[c] = start'[c] + -1 + 1
      BY <2>1
    <3> QED
      BY <1>2, <2>1, <3>1, <3>2 DEF Copying
  <2>3. BlockThere(c)' /\ OwnBlock(c)'
    BY <1>2 DEF BlockThere, OwnBlock
  <2>4. Contiguous(c)'
    <3>1. Len(sent'[c]) = 0 /\ [i \in 1..0 |-> <<c, start'[c] + i - 1>>] = <<>>
      BY <2>1
    <3> QED
      BY <2>1, <3>1 DEF Contiguous
  <2>5. Reported(c)'
    BY <2>1 DEF Reported
  <2> QED
    BY <1>7, <2>2, <2>3, <2>4, <2>5 DEF CallInv
<1> QED
  BY <1>6, <1>8, <1>9 DEF CopyInv

(* A call that ends with -1: what it has sent stays, the offset too. *)
LEMMA FailsKeeps ==
    ASSUME CopyInv, NEW c \in Callers, Active(c), Fails(c),
           UNCHANGED <<nCount, nOutCount, start, sent, overlapped>>,
           pos' \in [Callers -> 0..FileSize],
           \A d \in Callers \ {c} : pos'[d] = pos[d],
           errno' \in [Callers -> Errnos],
           szData' \in [0..(BlockSize - 1) -> FileBytes \cup {Unread}],
           \A i \in 0..(BlockSize - 1) :
               szData[i] \in FileBytes => szData'[i] \in FileBytes
    PROVE  CopyInv'
<1>0. TypeOK /\ \A d \in Callers : CallInv(d)
  BY DEF CopyInv
<1>1. /\ pc' \in [Callers -> {"idle", "read", "send"}] /\ pc'[c] = "idle"
      /\ \A d \in Callers \ {c} : pc'[d] = pc[d]
      /\ ret' \in [Callers -> -1..FileSize] /\ ret'[c] = -1
      /\ \A d \in Callers \ {c} : ret'[d] = ret[d]
      /\ offset' = offset /\ m_socketErrno' = m_socketErrno
  <2>1. -1 \in -1..FileSize
    BY ConstantsTyped
  <2> QED
    BY <1>0, <2>1 DEF Fails, At, TypeOK
<1>2. TypeOK'
  BY <1>0, <1>1 DEF TypeOK, FileBytes
<1>3. \A d \in Callers : Alone(d)'
  BY AloneKept, <1>1
<1>4. ASSUME NEW d \in Callers, d # c
      PROVE  CallInv(d)'
  <2>1. ~(Active(d) /\ ~overlapped'[d])
    BY <1>0, <1>4 DEF CallInv, Alone
  <2> QED
    BY <1>0, <1>1, <1>3, <1>4, <2>1, OtherCall
<1>5. CallInv(c)'
  BY <1>0, <1>1, <1>3
     DEF CallInv, Copying, BlockThere, OwnBlock, Contiguous, Reported, Active
<1> QED
  BY <1>2, <1>4, <1>5 DEF CopyInv

LEMMA ReadFailsKeeps ==
    ASSUME CopyInv, NEW c \in Callers, ReadFails(c)
    PROVE  CopyInv'
<1>1. TypeOK /\ Active(c)
  BY DEF CopyInv, ReadFails, Active
<1>2. errno' \in [Callers -> Errnos]
  BY <1>1, NamedErrnos DEF ReadFails, Leaves, TypeOK
<1> QED
  BY <1>1, <1>2, FailsKeeps DEF ReadFails, TypeOK, FileBytes

LEMMA SendFailsKeeps ==
    ASSUME CopyInv, NEW c \in Callers, SendFails(c)
    PROVE  CopyInv'
<1>1. TypeOK /\ Active(c)
  BY DEF CopyInv, SendFails, Active
<1>2. errno' \in [Callers -> Errnos]
  BY <1>1, NamedErrnos DEF SendFails, Leaves, TypeOK
<1> QED
  BY <1>1, <1>2, FailsKeeps DEF SendFails, TypeOK, FileBytes

(* A read() fills the block from the place where the call is in its file. *)
LEMMA FileReadsKeeps ==
    ASSUME CopyInv, NEW c \in Callers, FileReads(c)
    PROVE  CopyInv'
<1> DEFINE k == Lesser(nInCount(c), FileSize - pos[c])
<1>0. /\ TypeOK /\ pc[c] = "read" /\ Active(c) /\ \A d \in Callers : CallInv(d)
      /\ Copying(c)
  BY DEF CopyInv, FileReads, Active, CallInv
<1>1. /\ nInCount(c) \in 1..BlockSize /\ nInCount(c) \in Nat
      /\ k \in Nat /\ k <= nInCount(c) /\ pos[c] + k <= FileSize
      /\ pos[c] \in Nat /\ FileSize \in Nat
      /\ pos[c] = start[c] + nOutCount[c] + 1
  <2>1. nInCount(c) \in 1..BlockSize
    BY <1>0, BlockSizes
  <2>2. pos[c] \in 0..FileSize
    BY <1>0, CallTyped
  <2>3. pos[c] = start[c] + nOutCount[c] + 1
    BY <1>0 DEF Copying
  <2> HIDE DEF nInCount
  <2>4. /\ k = IF nInCount(c) < FileSize - pos[c] THEN nInCount(c)
               ELSE FileSize - pos[c]
    BY DEF Lesser
  <2> HIDE DEF k
  <2> QED
    BY <2>1, <2>2, <2>3, <2>4, ConstantsTyped
<1>2. /\ szData' = [i \in DOMAIN szData |->
                      IF i < k THEN <<c, pos[c] + i>> ELSE szData[i]]
      /\ pos' = [pos EXCEPT ![c] = pos[c] + k]
      /\ k = nInCount(c) => /\ At(c, "send")
                            /\ UNCHANGED <<ret, offset, m_socketErrno>>
      /\ k # nInCount(c) => Fails(c)
      /\ UNCHANGED <<errno, nCount, nOutCount, start, sent, overlapped>>
  BY DEF FileReads
<1> HIDE DEF k
<1>3. /\ pos' \in [Callers -> 0..FileSize] /\ pos'[c] = pos[c] + k
      /\ \A d \in Callers \ {c} : pos'[d] = pos[d]
  <2>1. pos[c] + k \in 0..FileSize
    BY <1>1
  <2> QED
    BY <1>0, <1>2, <2>1 DEF TypeOK
<1>4. \A i \in 0..(BlockSize - 1) : i < k => <<c, pos[c] + i>> \in FileBytes
  BY <1>1 DEF FileBytes
<1>5. /\ szData' \in [0..(BlockSize - 1) -> FileBytes \cup {Unread}]
      /\ \A i \in 0..(BlockSize - 1) :
           /\ i < k => szData'[i] = <<c, pos[c] + i>>
           /\ szData[i] \in FileBytes => szData'[i] \in FileBytes
  BY <1>0, <1>2, <1>4 DEF TypeOK, FileBytes
<1>6. CASE k # nInCount(c)
  BY <1>0, <1>2, <1>3, <1>5, <1>6, FailsKeeps DEF TypeOK
<1>7. CASE k = nInCount(c)
  <2>1. /\ pc' \in [Callers -> {"idle", "read", "send"}] /\ pc'[c] = "send"
        /\ \A d \in Callers \ {c} : pc'[d] = pc[d]
    BY <1>0, <1>2, <1>7 DEF At, TypeOK
  <2>2. TypeOK'
    BY <1>0, <1>2, <1>3, <1>5, <1>7, <2>1 DEF TypeOK, FileBytes
  <2>3. \A d \in Callers : Alone(d)'
    BY <1>0, <1>2, <2>1, AloneKept
  <2>4. ASSUME NEW d \in Callers, d # c
        PROVE  CallInv(d)'
    <3>1. ~(Active(d) /\ ~overlapped'[d])
      BY <1>0, <1>2, <2>4 DEF CallInv, Alone
    <3> QED
      BY <1>0, <1>2, <1>3, <1>5, <1>7, <2>1, <2>3, <2>4, <3>1, OtherCall
  <2>5. CallInv(c)'
    <3>1. nInCount(c)' = nInCount(c)
      BY <1>2 DEF nInCount
    <3>2. Copying(c)'
      BY <1>0, <1>1, <1>2, <1>3, <1>7, <2>1, <3>1 DEF Copying, Active
    <3>3. \A i \in 0..(nInCount(c) - 1) :
            /\ i \in 0..(BlockSize - 1) /\ i < k
            /\ pos[c] + i = start[c] + nOutCount[c] + 1 + i
      BY <1>1, <1>7, ConstantsTyped
    <3>4. BlockThere(c)' /\ OwnBlock(c)'
      BY <1>2, <1>4, <1>5, <3>1, <3>3 DEF BlockThere, OwnBlock
    <3>5. Contiguous(c)' /\ Reported(c)'
      BY <1>0, <1>2, <2>1 DEF CallInv, Contiguous, Reported
    <3> QED
      BY <2>3, <3>2, <3>4, <3>5 DEF CallInv
  <2> QED
    BY <2>2, <2>4, <2>5 DEF CopyInv
<1> QED
  BY <1>6, <1>7

(* The bytes that a SEND puts behind the ones of the call. *)
LEMMA PutsBytes ==
    ASSUME CopyInv, NEW c \in Callers, pc[c] = "send",
           NEW k \in 1..nInCount(c), Puts(c, k), start' = start
    PROVE  /\ sent' \in [Callers -> Seq(FileBytes)]
           /\ \A d \in Callers \ {c} : sent'[d] = sent[d]
           /\ Len(sent'[c]) = nOutCount[c] + 1 + k
           /\ ~overlapped[c]
              => sent'[c] = [i \in 1..Len(sent'[c]) |-> <<c, start'[c] + i - 1>>]
<1> DEFINE more == [i \in 1..k |-> szData[i - 1]]
           m == nOutCount[c] + 1
           old == sent[c]
           new == old \o more
<1>0. /\ TypeOK /\ CallInv(c) /\ Active(c) /\ Copying(c)
      /\ sent \in [Callers -> Seq(FileBytes)]
  BY DEF CopyInv, CallInv, Active, TypeOK, FileBytes
<1>1. /\ k \in Nat /\ m \in Nat /\ start[c] \in Nat
      /\ old \in Seq(FileBytes) /\ Len(old) = m
      /\ \A i \in 1..k : i - 1 \in 0..(nInCount(c) - 1)
  BY <1>0, BlockSizes, CallTyped DEF Copying
<1>2. \A i \in 1..k : szData[i - 1] \in FileBytes
  BY <1>0, <1>1 DEF CallInv, BlockThere
<1>3. more \in Seq(FileBytes) /\ Len(more) = k
      /\ \A i \in 1..k : more[i] = szData[i - 1]
  BY <1>1, <1>2
<1>4. sent' = [sent EXCEPT ![c] = new]
  BY DEF Puts
<1> HIDE DEF more
<1>5. /\ new \in Seq(FileBytes) /\ Len(new) = m + k
      /\ \A i \in 1..(m + k) : new[i] = IF i <= m THEN old[i] ELSE more[i - m]
  <2>1. /\ old \o more \in Seq(FileBytes)
        /\ Len(old \o more) = Len(old) + Len(more)
        /\ \A i \in 1..(Len(old) + Len(more)) :
             (old \o more)[i] = IF i <= Len(old) THEN old[i]
                                ELSE more[i - Len(old)]
    BY <1>1, <1>3, ConcatProperties
  <2> QED
    BY <1>1, <1>3, <2>1
<1> HIDE DEF new
<1>6. /\ sent' \in [Callers -> Seq(FileBytes)] /\ sent'[c] = new
      /\ \A d \in Callers \ {c} : sent'[d] = sent[d]
  BY <1>0, <1>4, <1>5
<1>7. ASSUME ~overlapped[c]
      PROVE  new = [i \in 1..(m + k) |-> <<c, start[c] + i - 1>>]
  <2> HIDE DEF m
  <2>1. \A i \in 1..m : old[i] = <<c, start[c] + i - 1>>
    BY <1>0, <1>1, <1>7 DEF CallInv, Contiguous
  <2>2. ASSUME NEW i \in 1..k
        PROVE  more[i] = <<c, start[c] + m + (i - 1)>>
    <3>1. szData[i - 1] = <<c, start[c] + nOutCount[c] + 1 + (i - 1)>>
      <4>1. PICK j \in 0..(nInCount(c) - 1) : j = i - 1
        BY <1>1, <2>2
      <4>2. szData[j] = <<c, start[c] + nOutCount[c] + 1 + j>>
        BY <1>0, <1>7 DEF CallInv, OwnBlock, Copying
      <4> QED
        BY <4>1, <4>2
    <3>2. start[c] + nOutCount[c] + 1 + (i - 1) = start[c] + m + (i - 1)
      <4>1. nOutCount[c] \in Int /\ start[c] \in Int /\ i \in Int
        BY <1>0, <1>1, CallTyped
      <4>2. m = nOutCount[c] + 1
        BY DEF m
      <4> QED
        BY <4>1, <4>2
    <3> QED
      BY <1>3, <2>2, <3>1, <3>2
  <2>3. ASSUME NEW i \in 1..(m + k)
        PROVE  new[i] = <<c, start[c] + i - 1>>
    <3>1. CASE i <= m
      <4>1. i \in 1..m
        BY <1>1, <3>1
      <4> QED
        BY <1>5, <2>1, <3>1, <4>1
    <3>2. CASE ~(i <= m)
      <4>1. i - m \in 1..k /\ start[c] + m + ((i - m) - 1) = start[c] + i - 1
        BY <1>1, <3>2
      <4>2. new[i] = more[i - m]
        BY <1>5, <3>2
      <4> QED
        BY <2>2, <4>1, <4>2
    <3> QED
      BY <3>1, <3>2
  <2>4. new = [i \in 1..(m + k) |-> new[i]]
    BY <1>1, <1>5
  <2> QED
    BY <2>3, <2>4
<1> QED
  BY <1>5, <1>6, <1>7 DEF m

LEMMA FileSendsKeeps ==
    ASSUME CopyInv, NEW c \in Callers, FileSends(c)
    PROVE  CopyInv'
<1>0. /\ TypeOK /\ pc[c] = "send" /\ Active(c) /\ \A d \in Callers : CallInv(d)
      /\ Copying(c)
  BY DEF CopyInv, FileSends, Active, CallInv
<1>1. PICK k \in 1..nInCount(c) :
        /\ Puts(c, k)
        /\ IF k = nInCount(c)
           THEN Advances(c, nOutCount[c] + nInCount(c))
           ELSE Fails(c) /\ UNCHANGED nOutCount
  BY DEF FileSends
<1>2. UNCHANGED <<szData, pos, errno, nCount, start, overlapped>>
  BY DEF FileSends
<1>3. /\ sent' \in [Callers -> Seq(FileBytes)]
      /\ \A d \in Callers \ {c} : sent'[d] = sent[d]
      /\ Len(sent'[c]) = nOutCount[c] + 1 + k
      /\ Contiguous(c)'
  BY <1>0, <1>1, <1>2, PutsBytes DEF Contiguous
<1> DEFINE total == nOutCount[c] + nInCount(c)
<1>4. /\ nInCount(c) \in Nat /\ nInCount(c) > 0 /\ nOutCount[c] \in Int
      /\ nOutCount[c] >= -1 /\ total \in Nat /\ total <= nCount[c]
      /\ nCount[c] \in Nat /\ start[c] \in Nat /\ offset[c] = start[c]
      /\ pos[c] = start[c] + total + 1 /\ pos[c] <= FileSize
      /\ FileSize \in Nat
  <2>1. nInCount(c) \in 1..BlockSize /\ nOutCount[c] + nInCount(c) <= nCount[c]
    BY <1>0, BlockSizes
  <2>2. /\ offset[c] = start[c]
        /\ pos[c] = start[c] + nOutCount[c] + 1 + nInCount(c)
    BY <1>0 DEF Copying
  <2>3. /\ nOutCount[c] \in Int /\ nOutCount[c] >= -1 /\ nCount[c] \in Nat
        /\ start[c] \in Nat /\ pos[c] \in 0..FileSize
    BY <1>0, CallTyped
  <2> QED
    BY <2>1, <2>2, <2>3, ConstantsTyped
<1>5. ASSUME NEW d \in Callers, d # c,
             pc'[d] = pc[d], offset'[d] = offset[d], ret'[d] = ret[d],
             nOutCount'[d] = nOutCount[d], Alone(d)'
      PROVE  CallInv(d)'
  BY <1>0, <1>2, <1>3, <1>5, OtherCall
<1>6. CASE k # nInCount(c)
  <2>1. /\ pc' \in [Callers -> {"idle", "read", "send"}] /\ pc'[c] = "idle"
        /\ \A d \in Callers \ {c} : pc'[d] = pc[d]
        /\ ret' = [ret EXCEPT ![c] = -1]
        /\ UNCHANGED <<offset, m_socketErrno, nOutCount>>
    BY <1>0, <1>1, <1>6 DEF Fails, At, TypeOK
  <2>2. /\ ret' \in [Callers -> -1..FileSize] /\ ret'[c] = -1
        /\ \A d \in Callers \ {c} : ret'[d] = ret[d]
    <3>1. -1 \in -1..FileSize
      BY <1>4
    <3> QED
      BY <1>0, <2>1, <3>1 DEF TypeOK
  <2>3. TypeOK'
    BY <1>0, <1>2, <1>3, <2>1, <2>2 DEF TypeOK, FileBytes
  <2>4. \A d \in Callers : Alone(d)'
    BY <1>0, <1>2, <2>1, AloneKept
  <2>5. CallInv(c)'
    BY <1>2, <1>3, <1>4, <2>1, <2>2, <2>4
       DEF CallInv, Copying, BlockThere, OwnBlock, Reported, Active
  <2> QED
    BY <1>5, <2>1, <2>2, <2>3, <2>4, <2>5 DEF CopyInv
<1>7. CASE k = nInCount(c)
  <2>1. Advances(c, total)
    BY <1>1, <1>7
  <2> HIDE DEF total
  <2>2. /\ nOutCount' = [nOutCount EXCEPT ![c] = total]
        /\ total < nCount[c] => /\ pc' = [pc EXCEPT ![c] = "read"]
                               /\ UNCHANGED <<ret, offset, m_socketErrno>>
        /\ ~(total < nCount[c])
           => /\ pc' = [pc EXCEPT ![c] = "idle"]
              /\ offset' = [offset EXCEPT ![c] = offset[c] + total]
              /\ m_socketErrno' = TranslateSocketError(errno[c])
              /\ ret' = [ret EXCEPT ![c] = total]
    BY <2>1 DEF Advances, At
  <2>3. /\ total \in -1..FileSize /\ offset[c] + total \in 0..FileSize
        /\ TranslateSocketError(errno[c]) \in CSocketError
    BY <1>0, <1>4, CallTyped, TranslationTyped
  <2>4. /\ nOutCount' \in [Callers -> -1..FileSize] /\ nOutCount'[c] = total
        /\ \A d \in Callers \ {c} : nOutCount'[d] = nOutCount[d]
    BY <1>0, <2>2, <2>3 DEF TypeOK
  <2>5. Len(sent'[c]) = total + 1
    BY <1>3, <1>4, <1>7 DEF total
  <2>6. CASE total < nCount[c]
    <3>1. /\ pc' \in [Callers -> {"idle", "read", "send"}] /\ pc'[c] = "read"
          /\ \A d \in Callers \ {c} : pc'[d] = pc[d]
          /\ UNCHANGED <<ret, offset, m_socketErrno>>
      BY <1>0, <2>2, <2>6 DEF TypeOK
    <3>2. TypeOK'
      BY <1>0, <1>2, <1>3, <2>4, <3>1 DEF TypeOK, FileBytes
    <3>3. \A d \in Callers : Alone(d)'
      BY <1>0, <1>2, <3>1, AloneKept
    <3>4. CallInv(c)'
      BY <1>2, <1>3, <1>4, <2>4, <2>5, <2>6, <3>1, <3>3
         DEF CallInv, Copying, BlockThere, OwnBlock, Reported
    <3> QED
      BY <1>5, <2>4, <3>1, <3>2, <3>3, <3>4 DEF CopyInv
  <2>7. CASE ~(total < nCount[c])
    <3>1. /\ pc' \in [Callers -> {"idle", "read", "send"}] /\ pc'[c] = "idle"
          /\ \A d \in Callers \ {c} : pc'[d] = pc[d]
      BY <1>0, <2>2, <2>7 DEF TypeOK
    <3>2. /\ offset' \in [Callers -> 0..FileSize]
          /\ offset'[c] = offset[c] + total
          /\ \A d \in Callers \ {c} : offset'[d] = offset[d]
          /\ ret' \in [Callers -> -1..FileSize] /\ ret'[c] = total
          /\ \A d \in Callers \ {c} : ret'[d] = ret[d]
          /\ m_socketErrno' \in CSocketError
      BY <1>0, <2>2, <2>3, <2>7 DEF TypeOK
    <3>3. TypeOK'
      BY <1>0, <1>2, <1>3, <2>4, <3>1, <3>2 DEF TypeOK, FileBytes
    <3>4. \A d \in Callers : Alone(d)'
      BY <1>0, <1>2, <3>1, AloneKept
    <3>5. Reported(c)'
      <4>1. total \in Nat
        BY <1>0, <1>4, CallTyped, BlockSizes DEF CopyInv, CallInv, Copying, total
      <4>2. ret'[c] # -1 /\ Len(sent'[c]) = ret'[c] + 1
        BY <2>5, <3>2, <4>1
      <4>3. offset'[c] = start'[c] + ret'[c]
        BY <1>0, <1>2, <3>2 DEF CopyInv, CallInv, Copying
      <4> QED
        BY <4>2, <4>3 DEF Reported
    <3>6. CallInv(c)'
      BY <1>3, <3>1, <3>4, <3>5
         DEF CallInv, Copying, BlockThere, OwnBlock, Active
    <3> QED
      BY <1>5, <2>4, <3>1, <3>2, <3>3, <3>4, <3>6 DEF CopyInv
  <2> QED
    BY <2>6, <2>7
<1> QED
  BY <1>6, <1>7

LEMMA StepCopies ==
    ASSUME CopyInv, [Next]_vars
    PROVE  CopyInv'
<1>1. ASSUME NEW c \in Callers, Copies(c)
      PROVE  CopyInv'
  BY <1>1, FileReadsKeeps, ReadFailsKeeps, FileSendsKeeps, SendFailsKeeps
     DEF Copies
<1>2. ASSUME NEW c \in Callers, NEW n \in Counts, SendFileCalled(c, n)
      PROVE  CopyInv'
  BY <1>2, CalledKeeps
<1>3. CASE UNCHANGED vars
  BY <1>3
     DEF vars, CopyInv, TypeOK, CallInv, Copying, BlockThere, Alone, OwnBlock,
         Contiguous, Reported, Active, nInCount
<1> QED
  BY <1>1, <1>2, <1>3 DEF Next

LEMMA AlwaysCopies == Spec => []CopyInv
  BY InitCopies, StepCopies, PTL DEF Spec

-----------------------------------------------------------------------------
(* The types of SendFile, for any threads that call it. *)
THEOREM SendFileTypes == Spec => []TypeOK
<1>1. CopyInv => TypeOK
  BY DEF CopyInv
<1> QED
  BY <1>1, AlwaysCopies, PTL

(***************************************************************************)
(* What a call of SendFile puts on its socket is one section of its file,  *)
(* from *pOffset on and without a gap, unless another call overlaps it and *)
(* fills the static buffer between its read() and its SEND.                *)
(***************************************************************************)
THEOREM CopiesContiguous == Spec => []CopyContiguous
<1>1. CopyInv => CopyContiguous
  BY DEF CopyInv, CallInv, Contiguous, CopyContiguous
<1> QED
  BY <1>1, AlwaysCopies, PTL

(***************************************************************************)
(* A call that returns n >= 0 has moved the offset by n and put n + 1      *)
(* bytes on its socket, and one that returns -1 has left it, however calls *)
(* interleave.                                                             *)
(***************************************************************************)
THEOREM OffsetsMatch == Spec => []OffsetMatchesResult
<1>1. CopyInv => OffsetMatchesResult
  BY DEF CopyInv, CallInv, Reported, OffsetMatchesResult
<1> QED
  BY <1>1, AlwaysCopies, PTL
=============================================================================
