--------------------------- MODULE UploadScheduler ---------------------------
(***************************************************************************)
(* src/src/uploader/upload_scheduler.cc: how long the ShippingManager waits*)
(* between two scheduled sends.  Durations are in seconds.                 *)
(***************************************************************************)
EXTENDS Integers

(* What the constructor's CHECKs let through.                               *)
SchedulerConfig(target, min, initial) ==
  /\ min >= 0
  /\ initial <= target
  /\ min <= target

(* Interval() returns the current interval and leaves this one behind.      *)
NextInterval(current, target) ==
  IF current >= target THEN current
  ELSE IF current * 2 >= target THEN target
  ELSE current * 2
=============================================================================
