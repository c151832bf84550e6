------------------------------ MODULE StatTimer ------------------------------
(***************************************************************************)
(* CStatTimer, which times every socket call.  A struct timeval is a       *)
(* record; its fields are wider than the uint32 results, which are the     *)
(* true values modulo WORD.                                                *)
(***************************************************************************)
EXTENDS Integers, TLAPS

MILLISECONDS_CONVERSION == 1000
MICROSECONDS_CONVERSION == 1000000

WORD == 4294967296

Timevals == [tv_sec : Nat, tv_usec : 0..(MICROSECONDS_CONVERSION - 1)]

VARIABLES m_startTime, m_endTime

timerVars == <<m_startTime, m_endTime>>

Microseconds(t) == t.tv_sec * MICROSECONDS_CONVERSION + t.tv_usec

Zeroed == [tv_sec |-> 0, tv_usec |-> 0]

Initialize == m_startTime' = Zeroed /\ m_endTime' = Zeroed

(* gettimeofday() answers now. *)
SetStartTime(now) == m_startTime' = now /\ UNCHANGED m_endTime

SetEndTime(now) == m_endTime' = now /\ UNCHANGED m_startTime

CalcTotalUSec ==
    ((m_endTime.tv_sec - m_startTime.tv_sec) * MICROSECONDS_CONVERSION
     + (m_endTime.tv_usec - m_startTime.tv_usec)) % WORD

GetMicroSeconds == CalcTotalUSec
GetMilliSeconds == CalcTotalUSec \div MILLISECONDS_CONVERSION
GetSeconds == CalcTotalUSec \div MICROSECONDS_CONVERSION

GetCurrentTime(now) == Microseconds(now) % WORD

(* The times a timer holds between calls of its operations. *)
TimerTyped == m_startTime \in Timevals /\ m_endTime \in Timevals

(* The time from start to end in microseconds, as it really was. *)
Elapsed == Microseconds(m_endTime) - Microseconds(m_startTime)

(* uint32 has values. *)
LEMMA WordPositive == WORD \in Nat \ {0}
<1>1. WORD \in Nat
  BY SMT DEF WORD
<1>2. WORD # 0
  BY SMT DEF WORD
<1> QED
  BY <1>1, <1>2, SMT

(***************************************************************************)
(* An interval that is shorter than WORD microseconds (71 minutes) and     *)
(* during which the clock is not set back is told exactly, also when the   *)
(* microseconds of its end are fewer than those of its start.              *)
(***************************************************************************)
THEOREM ElapsedExact ==
    ASSUME TimerTyped, Elapsed \in 0..(WORD - 1)
    PROVE  GetMicroSeconds = Elapsed
<1> DEFINE s  == m_startTime.tv_sec
           su == m_startTime.tv_usec
           e  == m_endTime.tv_sec
           eu == m_endTime.tv_usec
<1>1. s \in Int /\ su \in Int /\ e \in Int /\ eu \in Int
  BY SMT DEF TimerTyped, Timevals
<1>2. Elapsed = (e - s) * MICROSECONDS_CONVERSION + (eu - su)
  BY <1>1, SMT DEF Elapsed, Microseconds, MICROSECONDS_CONVERSION
<1>3. GetMicroSeconds = Elapsed % WORD
  BY <1>2 DEF GetMicroSeconds, CalcTotalUSec
<1>4. WORD \in Nat \ {0}
  BY WordPositive
<1>5. \A n \in 0..(WORD - 1) : n % WORD = n
  BY <1>4, SMT
<1> QED
  BY <1>3, <1>5

(***************************************************************************)
(* A call that returns after SetStartTime, as BindMulticast does, which    *)
(* calls SetEndTime before Initialize, reports no interval at all but      *)
(* minus its starting time.                                                *)
(***************************************************************************)
THEOREM UnfinishedReportsStart ==
    ASSUME NEW now \in Timevals, m_startTime = now, m_endTime = Zeroed
    PROVE  GetMicroSeconds = (-GetCurrentTime(now)) % WORD
<1> DEFINE n == Microseconds(now)
<1>1. /\ now.tv_sec \in Int /\ now.tv_usec \in Int
      /\ Zeroed.tv_sec = 0 /\ Zeroed.tv_usec = 0
  BY SMT DEF Timevals, Zeroed
<1>2. n \in Int
  BY <1>1, SMT DEF Microseconds, MICROSECONDS_CONVERSION
<1>3. (m_endTime.tv_sec - m_startTime.tv_sec) * MICROSECONDS_CONVERSION
        + (m_endTime.tv_usec - m_startTime.tv_usec) = -n
  BY <1>1, SMT DEF Microseconds, MICROSECONDS_CONVERSION
<1>4. GetMicroSeconds = (-n) % WORD
  BY <1>3, SMT DEF GetMicroSeconds, CalcTotalUSec
<1>5. (-n) % WORD = (-(n % WORD)) % WORD
  BY <1>2, Z3 DEF WORD
<1> QED
  BY <1>4, <1>5, SMT DEF GetCurrentTime

=============================================================================
