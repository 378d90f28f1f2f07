-------------------------- MODULE AtomicProtoStore --------------------------
(***************************************************************************)
(* What a ConsistentProtoStore promises its callers: a register holding    *)
(* one protocol buffer.  A Write takes effect at one instant, the commit,  *)
(* or not at all.  A failure or a crash before the commit leaves the old   *)
(* value, after the commit it leaves the new one, and nothing else ever    *)
(* changes what Read returns.                                              *)
(***************************************************************************)
CONSTANTS Protos,    \* the messages that may be written
          NotFound   \* what the register holds before the first commit

VARIABLES stored,    \* the value Read returns
          pending,   \* the message of the Write in progress, or NotFound
          result     \* how the last Write ended

avars == <<stored, pending, result>>

Results == {"none", "busy", "ok", "error", "crashed"}

Init ==
  /\ stored = NotFound
  /\ pending = NotFound
  /\ result = "none"

Begin(p) ==
  /\ pending = NotFound
  /\ pending' = p
  /\ result' = "busy"
  /\ UNCHANGED stored

Commit ==
  /\ pending # NotFound
  /\ stored' = pending
  /\ UNCHANGED <<pending, result>>

ReturnOk ==
  /\ pending # NotFound
  /\ stored = pending
  /\ pending' = NotFound
  /\ result' = "ok"
  /\ UNCHANGED stored

ReturnError ==
  /\ pending # NotFound
  /\ pending' = NotFound
  /\ result' \in {"error", "crashed"}
  /\ UNCHANGED stored

Next ==
  \/ \E p \in Protos : Begin(p)
  \/ Commit
  \/ ReturnOk
  \/ ReturnError

Spec == Init /\ [][Next]_avars
=============================================================================
