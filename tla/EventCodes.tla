----------------------------- MODULE EventCodes -----------------------------
(***************************************************************************)
(* src/src/registry: how a list of event codes becomes one integer         *)
(* (packed_event_codes) and how an integer finds its histogram bucket      *)
(* (buckets_config).  The widths are parameters, so that the boundaries    *)
(* lie within TLC's reach: in the code they are 5 codes of 10 bits, 4      *)
(* codes of 15 bits, a version above bit 60, and words of 32 bits.         *)
(***************************************************************************)
EXTENDS Integers, Sequences, FiniteSetsExt

CONSTANTS kV0EventCodeSize, kV0NumEventCodes,
          kV1EventCodeSize, kV1NumEventCodes,
          kVersionHeaderOffset, kVersionHeaderSize,
          kUint32Size

ASSUME PackingAssumption ==
  /\ {kV0EventCodeSize, kV1EventCodeSize, kVersionHeaderSize, kUint32Size} \subseteq Nat \ {0}
  /\ {kV0NumEventCodes, kV1NumEventCodes} \subseteq Nat \ {0}
  /\ kV0EventCodeSize * kV0NumEventCodes <= kVersionHeaderOffset
  /\ kV1EventCodeSize * kV1NumEventCodes <= kVersionHeaderOffset
  /\ kV0EventCodeSize <= kV1EventCodeSize

kV0MaxEventCode == 2 ^ kV0EventCodeSize
kV1MaxEventCode == 2 ^ kV1EventCodeSize
Uint32 == 2 ^ kUint32Size
-----------------------------------------------------------------------------
(* The codes that have a place, each masked and shifted into it.            *)
Placed(codes, size, num) ==
  MapThenSumSet(LAMBDA i : (codes[i] % 2 ^ size) * 2 ^ (size * (i - 1)), 1 .. Min({Len(codes), num}))

PackEventCodes_v1(codes) ==
  2 ^ kVersionHeaderOffset + Placed(codes, kV1EventCodeSize, kV1NumEventCodes)

(* A code too large for version 0, among those it has a place for, makes    *)
(* the whole list version 1; the code after the last place ends the loop.   *)
PackEventCodes(codes) ==
  IF \E i \in 1 .. Min({Len(codes), kV0NumEventCodes}) : codes[i] >= kV0MaxEventCode
  THEN PackEventCodes_v1(codes)
  ELSE Placed(codes, kV0EventCodeSize, kV0NumEventCodes)

ReadVersion(packed) == (packed \div 2 ^ kVersionHeaderOffset) % 2 ^ kVersionHeaderSize

UnpackEventCodes(packed) ==
  LET at(i, size) == (packed \div 2 ^ (size * (i - 1))) % 2 ^ size
  IN  CASE ReadVersion(packed) = 0 -> [i \in 1 .. kV0NumEventCodes |-> at(i, kV0EventCodeSize)]
        [] ReadVersion(packed) = 1 -> [i \in 1 .. kV1NumEventCodes |-> at(i, kV1EventCodeSize)]
        [] OTHER -> [i \in 1 .. kV0NumEventCodes |-> 0]
-----------------------------------------------------------------------------
(* Buckets are [kind, floor, num_buckets, step], with mult if exponential.  *)
(* The floors of the buckets after the underflow bucket.  The product of a  *)
(* linear bucket is computed in 32 bits; everything else is in 64 and taken *)
(* as unbounded.                                                            *)
CreateLinear(b) == [i \in 1 .. b.num_buckets + 1 |-> b.floor + (((i - 1) * b.step) % Uint32)]

CreateExponential(b) ==
  LET offset[i \in 0 .. b.num_buckets] == IF i = 0 THEN b.step ELSE offset[i - 1] * b.mult
  IN  [i \in 1 .. b.num_buckets + 1 |-> IF i = 1 THEN b.floor ELSE b.floor + offset[i - 2]]

(* << >> if there is no configuration: not set, or a parameter is 0.        *)
CreateFromProto(b) ==
  CASE b.kind = "linear" /\ b.num_buckets > 0 /\ b.step > 0 -> CreateLinear(b)
    [] b.kind = "exponential" /\ b.num_buckets > 0 /\ b.step > 0 /\ b.mult > 0 -> CreateExponential(b)
    [] OTHER -> << >>

(* 0 is the underflow bucket, Len(floors) the overflow bucket.              *)
BucketIndex(floors, val) ==
  LET in(i) == floors[i] <= val /\ val < floors[i + 1]
  IN  IF val < floors[1] THEN 0
      ELSE IF \E i \in 1 .. Len(floors) - 1 : in(i) THEN Min({i \in 1 .. Len(floors) - 1 : in(i)})
      ELSE Len(floors)
=============================================================================
