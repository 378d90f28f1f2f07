-------------------------- MODULE ClearcutUploader --------------------------
(***************************************************************************)
(* src/src/lib/clearcut: UploadEvents sends one request to the Clearcut    *)
(* server with retries, an exponential backoff, an overall deadline, and   *)
(* the pause the server asks for in its answers; PostSync and CurlHandle   *)
(* make the HTTP request.                                                  *)
(*                                                                         *)
(* The steady clock is a number of ticks, TicksPerMilli to a millisecond,  *)
(* because sleeps and HTTP timeouts are rounded down to milliseconds.      *)
(* Time passes in a POST, in a sleep and between two calls; the other      *)
(* steps take none.  Only control is kept of a request and of an answer.   *)
(***************************************************************************)
EXTENDS Integers

CONSTANTS
  MaxRetries,       (* max_retries                                         *)
  UploadTimeouts,   (* values of upload_timeout_, in ticks; 0 is none      *)
  InitialBackoff,   (* initial_backoff_, in ticks                          *)
  TicksPerMilli,
  Waits,            (* next_request_wait_millis of an answer, in ticks     *)
  PostTimes,        (* how long a POST that is answered may take           *)
  Overshoots,       (* how much longer than asked a sleep may last         *)
  Gaps,             (* time between two calls                              *)
  MaxCalls          (* bound on the calls of UploadEvents                  *)

ASSUME UploaderAssumption ==
  /\ MaxRetries \in Nat \ {0} /\ TicksPerMilli \in Nat \ {0} /\ MaxCalls \in Nat
  /\ UploadTimeouts \subseteq Nat /\ InitialBackoff \in Nat
  /\ Waits \subseteq Nat /\ PostTimes \subseteq Nat
  /\ Overshoots \subseteq Nat /\ Gaps \subseteq Nat

(* initial_backoff_ is a number of milliseconds, 250 unless a caller says  *)
(* otherwise; all that matters is that twice it is a millisecond or more.  *)
ASSUME BackoffAssumption == 2 * InitialBackoff >= TicksPerMilli

VARIABLES
  timeout,          (* upload_timeout_, fixed by the constructor           *)
  now,              (* steady_clock_->now()                                *)
  pause,            (* pause_uploads_until_                                *)
  pc,               (* "idle", "try", "post", "check", "sleep" or "hung"   *)
  i, deadline, backoff,   (* the locals of UploadEvents                    *)
  httpTimeout,      (* CURLOPT_TIMEOUT_MS of the POST, in ticks; 0 is none *)
  response,         (* the status TryUploadEvents returned                 *)
  wakeAt,           (* when the sleep asked for is over                    *)
  calls,            (* calls made so far                                   *)
  hist              (* history of the call: see NewCall                    *)

uploaderVars == <<timeout, now, pause, pc, i, deadline, backoff, httpTimeout, response, wakeAt, calls, hist>>

Permanent == {"INVALID_ARGUMENT", "NOT_FOUND", "PERMISSION_DENIED"}
Codes == Permanent \cup {"OK", "RESOURCE_EXHAUSTED", "DEADLINE_EXCEEDED", "INTERNAL", "UNKNOWN"}
Forever == -1

(* When the current try began, when the last one ended, how many tries were*)
(* refused because of a pause, how many POSTs began after the deadline, how*)
(* many were answered 200, and when the server wants the next request.     *)
NewCall(asked) == [start |-> 0, end |-> 0, refused |-> 0, late |-> 0, accepted |-> 0, asked |-> asked]

UploaderInit ==
  /\ timeout \in UploadTimeouts
  /\ now = 0 /\ pause = 0 /\ pc = "idle" /\ calls = 0
  /\ i = 0 /\ deadline = Forever /\ backoff = 0 /\ httpTimeout = 0 /\ response = "OK" /\ wakeAt = 0
  /\ hist = NewCall(0)
-----------------------------------------------------------------------------
UploadEvents(gap) ==
  /\ pc = "idle" /\ calls < MaxCalls
  /\ now' = now + gap
  /\ i' = 0 /\ backoff' = InitialBackoff
  /\ deadline' = IF timeout > 0 THEN now' + timeout ELSE Forever
  /\ pc' = "try" /\ calls' = calls + 1 /\ hist' = NewCall(hist.asked)
  /\ UNCHANGED <<timeout, pause, httpTimeout, response, wakeAt>>

Paused == now < pause

(* TryUploadEvents, up to the POST: a pause refuses the try, and so does a *)
(* request that cannot be serialized.                                      *)
TryRefused(code) ==
  /\ pc = "try"
  /\ IF Paused THEN code = "RESOURCE_EXHAUSTED" ELSE code = "INVALID_ARGUMENT"
  /\ response' = code /\ pc' = "check"
  /\ hist' = [hist EXCEPT !.start = now, !.refused = IF Paused THEN @ + 1 ELSE @]
  /\ UNCHANGED <<timeout, now, pause, i, deadline, backoff, httpTimeout, wakeAt, calls>>

(* PostSync: the time left, rounded down to milliseconds.  SetTimeout sets *)
(* no timeout when that is not positive.                                   *)
TimeoutMillis ==
  IF deadline = Forever \/ deadline <= now THEN 0
  ELSE TicksPerMilli * ((deadline - now) \div TicksPerMilli)

PostSync ==
  /\ pc = "try" /\ ~Paused
  /\ httpTimeout' = TimeoutMillis
  /\ pc' = "post"
  /\ hist' = [hist EXCEPT !.start = now,
                          !.late = IF deadline # Forever /\ now > deadline THEN @ + 1 ELSE @]
  /\ UNCHANGED <<timeout, now, pause, i, deadline, backoff, response, wakeAt, calls>>

HttpStatus(code) ==
  CASE code = 200 -> "OK"
    [] code = 400 -> "INVALID_ARGUMENT"
    [] code \in {401, 403} -> "PERMISSION_DENIED"
    [] code = 404 -> "NOT_FOUND"
    [] code = 503 -> "RESOURCE_EXHAUSTED"
    [] OTHER -> "UNKNOWN"

(* The POST takes d, within its timeout, and is answered.  `wait' is what a*)
(* 200 answer asks for; -1 asks for nothing, as does one that does not     *)
(* parse.                                                                  *)
PostAnswered(d, code, wait) ==
  /\ pc = "post"
  /\ httpTimeout > 0 => d <= httpTimeout
  /\ now' = now + d
  /\ response' = HttpStatus(code) /\ pc' = "check"
  /\ pause' = IF code = 200 /\ wait >= 0 THEN now' + wait ELSE pause
  /\ hist' = [hist EXCEPT !.accepted = IF code = 200 THEN @ + 1 ELSE @,
                          !.asked = IF code = 200 /\ wait >= 0 THEN now' + wait ELSE @]
  /\ UNCHANGED <<timeout, i, deadline, backoff, httpTimeout, wakeAt, calls>>

(* CurlHandle::Init, an option or the transfer fails.                      *)
PostFails(d) ==
  /\ pc = "post"
  /\ httpTimeout > 0 => d <= httpTimeout
  /\ now' = now + d
  /\ response' = "INTERNAL" /\ pc' = "check"
  /\ UNCHANGED <<timeout, pause, i, deadline, backoff, httpTimeout, wakeAt, calls, hist>>

PostTimesOut ==
  /\ pc = "post" /\ httpTimeout > 0
  /\ now' = now + httpTimeout
  /\ response' = "DEADLINE_EXCEEDED" /\ pc' = "check"
  /\ UNCHANGED <<timeout, pause, i, deadline, backoff, httpTimeout, wakeAt, calls, hist>>

(* Nothing bounds a POST without a timeout to a server that never answers. *)
PostHangs ==
  /\ pc = "post" /\ httpTimeout = 0
  /\ pc' = "hung"
  /\ UNCHANGED <<timeout, now, pause, i, deadline, backoff, httpTimeout, response, wakeAt, calls, hist>>

(* Mutant: the sleep follows the pause only.                               *)
SleepTimeOfPause == IF pause > now THEN pause - now ELSE 0

(* The rest of the pause, in whole milliseconds, if it is longer than the  *)
(* backoff.                                                                *)
SleepTime ==
  IF pause - now > backoff THEN TicksPerMilli * ((pause - now) \div TicksPerMilli) ELSE backoff

Return(code) ==
  /\ pc' = "idle" /\ response' = code
  /\ UNCHANGED <<backoff, wakeAt>>

(* Mutant: the deadline is not looked at between two tries.                *)
CheckResponseNoDeadline ==
  /\ pc = "check"
  /\ i' = IF response = "OK" THEN i ELSE i + 1
  /\ IF response = "OK" \/ i' = MaxRetries \/ response \in Permanent THEN Return(response)
     ELSE /\ wakeAt' = now + SleepTime
          /\ backoff' = backoff * 2 /\ pc' = "sleep" /\ UNCHANGED response
  /\ hist' = [hist EXCEPT !.end = now]
  /\ UNCHANGED <<timeout, now, pause, deadline, httpTimeout, calls>>

(* The loop of UploadEvents after a try.                                   *)
CheckResponse ==
  /\ pc = "check"
  /\ i' = IF response = "OK" THEN i ELSE i + 1
  /\ IF response = "OK" \/ i' = MaxRetries \/ response \in Permanent THEN Return(response)
     ELSE IF deadline # Forever /\ now > deadline THEN Return("DEADLINE_EXCEEDED")
     ELSE /\ wakeAt' = now + SleepTime
          /\ backoff' = backoff * 2 /\ pc' = "sleep" /\ UNCHANGED response
  /\ hist' = [hist EXCEPT !.end = now]
  /\ UNCHANGED <<timeout, now, pause, deadline, httpTimeout, calls>>

WakeUp(over) ==
  /\ pc = "sleep"
  /\ now' = wakeAt + over
  /\ pc' = "try"
  /\ UNCHANGED <<timeout, pause, i, deadline, backoff, httpTimeout, response, wakeAt, calls, hist>>

UploaderNext ==
  \/ \E gap \in Gaps : UploadEvents(gap)
  \/ \E code \in {"RESOURCE_EXHAUSTED", "INVALID_ARGUMENT"} : TryRefused(code)
  \/ PostSync
  \/ \E d \in PostTimes, code \in {400, 401, 404, 500, 503} : PostAnswered(d, code, -1)
  \/ \E d \in PostTimes, wait \in Waits \cup {-1} : PostAnswered(d, 200, wait)
  \/ \E d \in PostTimes : PostFails(d)
  \/ PostTimesOut
  \/ PostHangs
  \/ CheckResponse
  \/ \E over \in Overshoots : WakeUp(over)

UploaderSpec == UploaderInit /\ [][UploaderNext]_uploaderVars
-----------------------------------------------------------------------------
UploaderTypeOK ==
  /\ timeout \in UploadTimeouts /\ now \in Nat /\ pause \in Nat /\ i \in 0 .. MaxRetries /\ backoff \in Nat
  /\ pc \in {"idle", "try", "post", "check", "sleep", "hung"}
  /\ deadline \in Nat \cup {Forever} /\ httpTimeout \in Nat /\ response \in Codes
  /\ wakeAt \in Nat /\ calls \in Nat
  /\ hist \in [start : Nat, end : Nat, refused : Nat, late : Nat, accepted : Nat, asked : Nat]

(* The try after k failed ones begins at least InitialBackoff * 2^(k-1)    *)
(* after the last of them ended (UploadEvents, "Exponential backoff"), even*)
(* where the server's pause, rounded down, replaces the backoff, and there *)
(* are at most MaxRetries tries.                                           *)
TriesAreSpaced ==
  /\ i <= MaxRetries
  /\ pc \in {"post", "check"} /\ i > 0 => hist.start - hist.end >= InitialBackoff * 2 ^ (i - 1)

(* No POST is sent before the time the last accepted answer asked for,     *)
(* whichever call got that answer, and waiting for that time costs a call  *)
(* at most two of its tries, even though the sleep can end a fraction of a *)
(* millisecond early (TryUploadEvents, pause_uploads_until_).              *)
PauseIsHonoured ==
  /\ pc \in {"post", "hung"} => hist.start >= hist.asked
  /\ hist.refused <= 2

(* A call sends at most one POST after its deadline.  A POST that is not   *)
(* bounded by the deadline, and so the only kind that can block the sender *)
(* for good, began less than a millisecond before the deadline or later.   *)
LateAtMostOnce ==
  /\ hist.late <= 1
  /\ pc \in {"post", "hung"} /\ deadline # Forever =>
       \/ httpTimeout > 0 /\ hist.start + httpTimeout <= deadline
       \/ httpTimeout = 0 /\ hist.start + TicksPerMilli > deadline

(* UploadEvents says OK exactly when the server accepted the request, and  *)
(* does not send it again then.  It gives up early only for a permanent    *)
(* error of the last try or because the deadline passed.                   *)
ResultIsTrue ==
  /\ hist.accepted <= 1 /\ (hist.accepted = 1 => pc \in {"check", "idle"} /\ response = "OK")
  /\ pc = "idle" /\ calls > 0 =>
       /\ response = "OK" => hist.accepted = 1
       /\ response \notin Permanent \cup {"OK"} /\ i < MaxRetries =>
            response = "DEADLINE_EXCEEDED" /\ deadline # Forever /\ now > deadline

(* What the header of uploader.h promises of a call, whatever the times:   *)
(* the server's pause and the caller's deadline are kept to, and the status*)
(* says what became of the request.                                        *)
UploadEventsIsTrue == PauseIsHonoured /\ LateAtMostOnce /\ ResultIsTrue
=============================================================================
