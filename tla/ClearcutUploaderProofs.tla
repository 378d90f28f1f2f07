----------------------- MODULE ClearcutUploaderProofs -----------------------
(***************************************************************************)
(* Proofs about ClearcutUploader, for every number of retries, backoff,    *)
(* timeout, pause and duration.  The inductive invariant UploaderInv says, *)
(* for each point of UploadEvents' loop, what the clock, the deadline and  *)
(* the pause have to do with each other there.                             *)
(***************************************************************************)
EXTENDS ClearcutUploader, TLAPS

(* The type of hist.                                                       *)
CallHistory == [start : Nat, end : Nat, refused : Nat, late : Nat, accepted : Nat, asked : Nat]

InTry == {"try", "post", "check"}

(* i counts the failed tries, and the backoff has doubled after the first. *)
LoopInv ==
  /\ pc \in InTry \cup {"sleep", "hung"} => i < MaxRetries
  /\ pc \in InTry \cup {"sleep"} => backoff >= InitialBackoff
  /\ pc \in InTry \cup {"sleep"} /\ i > 0 => backoff >= 2 * InitialBackoff

(* After one sleep less than a millisecond of the pause is left, after two *)
(* nothing; only an answer that ends the call sets a new pause.            *)
PauseInv ==
  /\ hist.asked = pause
  /\ pc \in {"post", "hung"} => hist.start >= pause /\ now >= pause
  /\ (pc \in {"try", "post"} \/ (pc = "check" /\ response # "OK")) =>
       /\ i > 0 => now + TicksPerMilli > pause
       /\ i > 1 => now >= pause
  /\ pc = "sleep" => i > 0 /\ wakeAt + TicksPerMilli > pause /\ (i > 1 => wakeAt >= pause)
  /\ pc \in {"try", "post", "sleep", "hung"} => hist.refused <= i
  /\ pc = "check" => hist.refused <= i + 1
  /\ hist.refused <= 2

(* The late POST leads to a check that sees the deadline passed.           *)
LateInv ==
  /\ hist.late <= 1
  /\ pc \in {"try", "sleep"} => hist.late = 0
  /\ pc \in {"post", "check"} /\ hist.late = 1 => deadline # Forever /\ now > deadline
  /\ pc \in {"post", "hung"} /\ deadline # Forever =>
       \/ httpTimeout > 0 /\ hist.start + httpTimeout <= deadline
       \/ httpTimeout = 0 /\ hist.start + TicksPerMilli > deadline

(* The answer 200 and the status OK come together.                         *)
ResultInv ==
  /\ hist.accepted <= 1
  /\ hist.accepted = 1 => pc \in {"check", "idle"} /\ response = "OK"
  /\ pc = "check" /\ response = "OK" => hist.accepted = 1
  /\ pc = "idle" /\ calls > 0 =>
       /\ response = "OK" => hist.accepted = 1
       /\ response \notin Permanent \cup {"OK"} /\ i < MaxRetries =>
            response = "DEADLINE_EXCEEDED" /\ deadline # Forever /\ now > deadline

UploaderInv == UploaderTypeOK /\ LoopInv /\ PauseInv /\ LateInv /\ ResultInv
-----------------------------------------------------------------------------
(* Rounding down to whole milliseconds (std::chrono::duration_cast) loses  *)
(* less than a millisecond.                                                *)
LEMMA RoundingDown ==
  ASSUME NEW T \in Nat \ {0}, NEW x \in Nat
  PROVE  /\ T * (x \div T) \in Nat
         /\ T * (x \div T) <= x
         /\ x < T * (x \div T) + T
<1>1. x = T * (x \div T) + (x % T) /\ x % T \in 0 .. T - 1 /\ x \div T \in Int
  OBVIOUS
<1> QED BY <1>1

(* The timeout of a POST stays within the deadline, and is 0 only within a *)
(* millisecond of it (PostSync).                                           *)
LEMMA TimeoutFits ==
  ASSUME now \in Nat, deadline \in Nat \cup {Forever}
  PROVE  /\ TimeoutMillis \in Nat
         /\ deadline # Forever =>
              \/ TimeoutMillis > 0 /\ now + TimeoutMillis <= deadline
              \/ TimeoutMillis = 0 /\ now + TicksPerMilli > deadline
<1>0. TicksPerMilli \in Nat \ {0} BY UploaderAssumption
<1>1. CASE deadline = Forever \/ deadline <= now
  BY <1>0, <1>1 DEF TimeoutMillis, Forever
<1>2. CASE deadline # Forever /\ deadline > now
  <2>1. deadline - now \in Nat BY <1>2
  <2>2. TimeoutMillis = TicksPerMilli * ((deadline - now) \div TicksPerMilli)
    BY <1>2 DEF TimeoutMillis
  <2>3. /\ TimeoutMillis \in Nat /\ TimeoutMillis <= deadline - now
        /\ deadline - now < TimeoutMillis + TicksPerMilli
    BY <1>0, <2>1, <2>2, RoundingDown
  <2> QED BY <1>0, <1>2, <2>1, <2>3
<1> QED BY <1>1, <1>2

(* A sleep leaves less than a millisecond of the pause, and is never       *)
(* shorter than the backoff where that covers the pause (UploadEvents).    *)
LEMMA SleepIsLongEnough ==
  ASSUME now \in Nat, pause \in Nat, backoff \in Nat
  PROVE  /\ SleepTime \in Nat
         /\ now + SleepTime + TicksPerMilli > pause
         /\ pause - now <= backoff => SleepTime = backoff /\ now + SleepTime >= pause
<1>0. TicksPerMilli \in Nat \ {0} BY UploaderAssumption
<1>1. CASE pause - now > backoff
  <2>1. pause - now \in Nat BY <1>1
  <2>2. SleepTime = TicksPerMilli * ((pause - now) \div TicksPerMilli) BY <1>1 DEF SleepTime
  <2>3. SleepTime \in Nat /\ pause - now < SleepTime + TicksPerMilli
    BY <1>0, <2>1, <2>2, RoundingDown
  <2> QED BY <1>0, <1>1, <2>1, <2>3
<1>2. CASE ~(pause - now > backoff)
  BY <1>0, <1>2 DEF SleepTime
<1> QED BY <1>1, <1>2
-----------------------------------------------------------------------------
LEMMA InvInit == UploaderInit => UploaderInv
BY UploaderAssumption
DEF UploaderInit, UploaderInv, UploaderTypeOK, LoopInv, PauseInv, LateInv, ResultInv,
    NewCall, InTry, Codes, Forever

(* Every step of a call keeps the invariant.                               *)
LEMMA InvNext == UploaderInv /\ [UploaderNext]_uploaderVars => UploaderInv'
<1> SUFFICES ASSUME UploaderInv, [UploaderNext]_uploaderVars
             PROVE  UploaderInv'
  OBVIOUS
<1> USE UploaderAssumption, BackoffAssumption
<1>t. UploaderTypeOK BY DEF UploaderInv
<1>d. deadline \in Nat \cup {Forever} /\ now \in Nat /\ pause \in Nat /\ backoff \in Nat
  BY <1>t DEF UploaderTypeOK
<1>h. hist \in CallHistory
  BY <1>t DEF UploaderTypeOK, CallHistory
<1>1. ASSUME NEW gap \in Gaps, UploadEvents(gap) PROVE UploaderInv'
  BY <1>1 DEF UploadEvents, UploaderInv, UploaderTypeOK, LoopInv, PauseInv, LateInv, ResultInv,
              NewCall, InTry, Codes, Forever
<1>2. ASSUME NEW code \in {"RESOURCE_EXHAUSTED", "INVALID_ARGUMENT"}, TryRefused(code) PROVE UploaderInv'
  <2>1. /\ hist' \in CallHistory
        /\ hist'.refused = IF Paused THEN hist.refused + 1 ELSE hist.refused
        /\ hist'.late = hist.late /\ hist'.accepted = hist.accepted /\ hist'.asked = hist.asked
    <3> DEFINE h == [hist EXCEPT !.start = now]
    <3>1. hist' = [h EXCEPT !.refused = IF Paused THEN hist.refused + 1 ELSE hist.refused]
      BY <1>2 DEF TryRefused
    <3>2. /\ h \in CallHistory /\ h.late = hist.late /\ h.accepted = hist.accepted /\ h.asked = hist.asked
      BY <1>h, <1>d DEF CallHistory
    <3> HIDE DEF h
    <3> QED BY <1>h, <3>1, <3>2 DEF CallHistory
  <2> QED
    BY <1>2, <2>1
    DEF CallHistory, TryRefused, Paused, UploaderInv, UploaderTypeOK, LoopInv, PauseInv, LateInv, ResultInv,
        InTry, Codes, Permanent
<1>3. CASE PostSync
  <2>1. /\ hist' \in CallHistory
        /\ hist'.start = now
        /\ hist'.late = IF deadline # Forever /\ now > deadline THEN hist.late + 1 ELSE hist.late
        /\ hist'.refused = hist.refused /\ hist'.accepted = hist.accepted /\ hist'.asked = hist.asked
    <3> DEFINE h == [hist EXCEPT !.start = now]
    <3>1. hist' = [h EXCEPT !.late = IF deadline # Forever /\ now > deadline THEN hist.late + 1 ELSE hist.late]
      BY <1>3 DEF PostSync
    <3>2. /\ h \in CallHistory /\ h.start = now
          /\ h.refused = hist.refused /\ h.accepted = hist.accepted /\ h.asked = hist.asked
      BY <1>h, <1>d DEF CallHistory
    <3> HIDE DEF h
    <3> QED BY <1>h, <3>1, <3>2 DEF CallHistory
  <2> QED
    BY <1>3, <1>d, <2>1, TimeoutFits
    DEF CallHistory, PostSync, Paused, UploaderInv, UploaderTypeOK, LoopInv, PauseInv, LateInv, ResultInv, InTry
<1>4. ASSUME NEW d \in PostTimes, NEW code \in {200, 400, 401, 404, 500, 503},
             NEW wait \in Waits \cup {-1}, PostAnswered(d, code, wait)
      PROVE  UploaderInv'
  <2> DEFINE asks == code = 200 /\ wait >= 0
  <2>1. now' = now + d /\ now' \in Nat /\ now' >= now /\ pause' \in Nat
    BY <1>4, <1>d DEF PostAnswered
  <2>2. /\ hist' \in CallHistory
        /\ hist'.start = hist.start /\ hist'.late = hist.late /\ hist'.refused = hist.refused
        /\ hist'.accepted = IF code = 200 THEN hist.accepted + 1 ELSE hist.accepted
        /\ hist'.asked = IF asks THEN pause' ELSE hist.asked
        /\ pause' = IF asks THEN pause' ELSE pause
    <3> DEFINE h == [hist EXCEPT !.accepted = IF code = 200 THEN hist.accepted + 1 ELSE hist.accepted]
    <3>1. /\ hist' = [h EXCEPT !.asked = IF asks THEN now' + wait ELSE hist.asked]
          /\ pause' = IF asks THEN now' + wait ELSE pause
      BY <1>4 DEF PostAnswered
    <3>2. /\ h \in CallHistory /\ h.start = hist.start
          /\ h.refused = hist.refused /\ h.late = hist.late
          /\ h.accepted = IF code = 200 THEN hist.accepted + 1 ELSE hist.accepted
      BY <1>h DEF CallHistory
    <3> HIDE DEF h
    <3> QED BY <1>h, <2>1, <3>1, <3>2 DEF CallHistory
  <2>3. response' = HttpStatus(code) BY <1>4 DEF PostAnswered
  <2>4. response' \in Codes /\ (response' = "OK" <=> code = 200)
    BY <2>3 DEF HttpStatus, Codes, Permanent
  <2> QED
    BY <1>4, <2>1, <2>2, <2>4
    DEF CallHistory, PostAnswered, UploaderInv, UploaderTypeOK, LoopInv, PauseInv, LateInv, ResultInv,
        InTry, Codes, Permanent
<1>5. ASSUME NEW d \in PostTimes, PostFails(d) PROVE UploaderInv'
  BY <1>5 DEF PostFails, UploaderInv, UploaderTypeOK, LoopInv, PauseInv, LateInv, ResultInv,
              InTry, Codes
<1>6. CASE PostTimesOut
  BY <1>6 DEF PostTimesOut, UploaderInv, UploaderTypeOK, LoopInv, PauseInv, LateInv, ResultInv,
              InTry, Codes
<1>7. CASE PostHangs
  BY <1>7 DEF PostHangs, UploaderInv, UploaderTypeOK, LoopInv, PauseInv, LateInv, ResultInv, InTry
<1>8. CASE CheckResponse
  BY <1>8, <1>d, SleepIsLongEnough
  DEF CheckResponse, Return, UploaderInv, UploaderTypeOK, LoopInv, PauseInv, LateInv, ResultInv,
      InTry, Codes
<1>9. ASSUME NEW over \in Overshoots, WakeUp(over) PROVE UploaderInv'
  BY <1>9 DEF WakeUp, UploaderInv, UploaderTypeOK, LoopInv, PauseInv, LateInv, ResultInv, InTry
<1>10. CASE UNCHANGED uploaderVars
  BY <1>10 DEF uploaderVars, UploaderInv, UploaderTypeOK, LoopInv, PauseInv, LateInv, ResultInv
<1> QED BY <1>1, <1>2, <1>3, <1>4, <1>5, <1>6, <1>7, <1>8, <1>9, <1>10 DEF UploaderNext
-----------------------------------------------------------------------------
LEMMA InvAlways == UploaderSpec => []UploaderInv
BY InvInit, InvNext, PTL DEF UploaderSpec

(* What a call of UploadEvents keeps to, for every retry limit, deadline,  *)
(* pause and duration.  No POST is sent during a pause the server asked    *)
(* for, and a pause costs a call at most two tries.  At most one POST is   *)
(* sent after the deadline, and only a POST that begins within a milli-    *)
(* second of the deadline or later is unbounded.  OK is returned exactly   *)
(* when the server accepted the request, which it then sent once; the call *)
(* gives up early only for a permanent error or for the deadline.          *)
THEOREM UploadEventsKeepsToIt == UploaderSpec => []UploadEventsIsTrue
<1>1. UploaderInv => PauseIsHonoured
  BY DEF UploaderInv, PauseInv, PauseIsHonoured
<1>2. UploaderInv => LateAtMostOnce
  BY DEF UploaderInv, LateInv, LateAtMostOnce
<1>3. UploaderInv => ResultIsTrue
  BY DEF UploaderInv, ResultInv, ResultIsTrue
<1>4. UploaderInv => UploadEventsIsTrue
  BY <1>1, <1>2, <1>3 DEF UploadEventsIsTrue
<1> QED BY <1>4, InvAlways, PTL
=============================================================================
