--------------------- MODULE ConsistentProtoStoreProofs ---------------------
(***************************************************************************)
(* Proofs about ConsistentProtoStore for every set of messages, every      *)
(* assignment of encoded sizes and every set of possible faults.           *)
(***************************************************************************)
EXTENDS ConsistentProtoStore, TLAPS

(* NewProtoOutputStream followed by writing n bytes leaves a file.          *)
LEMMA OverwriteType ==
  ASSUME NEW file \in Files \cup {NoFile}, NEW p \in Protos \cup {Torn}, NEW n \in Nat
  PROVE  /\ Overwrite(file, p, n) \in Files
         /\ Overwrite(file, p, n) # NoFile
         /\ Overwrite(file, p, n).proto = p
  BY NoFileAssumption DEF Overwrite, Files, SizeOf, Larger

(* Cutting the writing of a message short leaves a torn file.               *)
LEMMA TornType ==
  ASSUME NEW file \in Files \cup {NoFile}, NEW w \in Protos,
         NEW n \in 0 .. Size[w] - 1
  PROVE  Overwrite(file, Torn, n) \in Files
  <1>1. Size[w] \in Nat
    BY ProtoStoreAssumption
  <1>2. n \in Nat
    BY <1>1
  <1> QED
    BY <1>2, OverwriteType

(* Read returns a message, or says that there is none or that it is bad.    *)
LEMMA ReadType ==
  ASSUME TypeOK
  PROVE  Read \in Protos \cup {NotFound, Corrupt}
  BY DEF TypeOK, Read, Parses

(* Every state of every behaviour of the store is crash consistent: the     *)
(* invariant of the calls Write makes holds after any number of Writes,     *)
(* failures and crashes.                                                    *)
THEOREM CrashConsistency == Spec => []Inv
<1> USE ProtoStoreAssumption, NoFileAssumption
<1>1. Init => Inv
  BY DEF Init, Inv, TypeOK, StepInv, OldOrNew, Steps, Read, Parses
<1>2. Inv /\ [Next]_vars => Inv'
  <2> SUFFICES ASSUME Inv, [Next]_vars PROVE Inv'
    OBVIOUS
  <2> USE DEF Inv
  <2>1. ASSUME NEW p \in Protos, Write(p) PROVE Inv'
    BY <2>1, ReadType DEF Write, TypeOK, StepInv, OldOrNew, Steps, Read, Parses, files
  <2>2. CASE CheckOverride
    BY <2>2 DEF CheckOverride, TypeOK, StepInv, OldOrNew, Steps, Read, Parses, files
  <2>3. CASE RecoverDeletePrimary
    BY <2>3 DEF RecoverDeletePrimary, TypeOK, StepInv, OldOrNew, Steps, Read, Parses
  <2>4. CASE RecoverMoveOverride
    BY <2>4 DEF RecoverMoveOverride, Return, TypeOK, StepInv, OldOrNew, Steps, Read, Parses
  <2>5. CASE WriteToTmp
    <3>1. writing \in Protos /\ Size[writing] \in Nat /\ override = NoFile
      BY <2>5 DEF WriteToTmp, StepInv
    <3>0. LET f == Overwrite(tmp, writing, Size[writing])
          IN  f \in Files /\ f # NoFile /\ f.proto = writing
      <4>1. tmp \in Files \cup {NoFile} /\ writing \in Protos \cup {Torn}
        BY <3>1 DEF TypeOK
      <4> QED
        BY <3>1, <4>1, OverwriteType
    <3>2. Read' = Read
      BY <2>5 DEF WriteToTmp, Read, Parses
    <3>3. TypeOK'
      <4>1. tmp' \in Files \cup {NoFile}
        <5>1. CASE tmp' = Overwrite(tmp, writing, Size[writing])
          BY <3>0, <5>1
        <5>2. CASE \E n \in 0 .. Size[writing] - 1 : tmp' = Overwrite(tmp, Torn, n)
          BY <3>1, <5>2, TornType DEF TypeOK
        <5>3. CASE UNCHANGED tmp
          BY <5>3 DEF TypeOK
        <5> QED
          BY <2>5, <5>1, <5>2, <5>3 DEF WriteToTmp
      <4> QED
        BY <2>5, <4>1 DEF WriteToTmp, Return, TypeOK, Steps
    <3>4. pc' = "tmp_to_override" /\ ~damaged' => Whole(tmp, writing)'
      <4> SUFFICES ASSUME pc' = "tmp_to_override", ~damaged' PROVE Whole(tmp, writing)'
        OBVIOUS
      <4>1. /\ tmp' = Overwrite(tmp, writing, Size[writing])
            /\ damaged' = (damaged \/ tmp'.size # Size[writing])
            /\ writing' = writing
        BY <2>5 DEF WriteToTmp, Return
      <4>2. tmp'.size = Size[writing]
        BY <4>1
      <4> QED
        <5>1. tmp' # NoFile /\ tmp'.proto = writing
          BY <3>0, <4>1
        <5> QED
          BY <4>1, <4>2, <5>1 DEF Whole
    <3>9. pc' = "tmp_to_override" => tmp' # NoFile
      <4>1. ASSUME NEW n \in 0 .. Size[writing] - 1 PROVE Overwrite(tmp, Torn, n) # NoFile
        BY <3>1, TornType DEF TypeOK
      <4> QED
        BY <2>5, <3>0, <4>1 DEF WriteToTmp, Return
    <3>5. pc' \in {"tmp_to_override", "idle"} /\ (pc' = "idle" => result' = "error")
          /\ (pc' # "idle" => result' = result)
      BY <2>5 DEF WriteToTmp, Return
    <3>6. ~damaged' => ~damaged
      BY <2>5 DEF WriteToTmp
    <3>7. StepInv'
      BY <2>5, <3>1, <3>2, <3>4, <3>5, <3>6, <3>9 DEF WriteToTmp, StepInv, Parses
    <3>8. OldOrNew'
      BY <2>5, <3>2, <3>5, <3>6 DEF WriteToTmp, OldOrNew, StepInv
    <3> QED
      BY <3>3, <3>7, <3>8
  <2>6. CASE MoveTmpToOverride
    <3>1. CASE Return("error") /\ UNCHANGED <<override, tmp>>
      <4>1. TypeOK'
        BY <2>6, <3>1 DEF MoveTmpToOverride, Return, TypeOK, Steps
      <4>2. Read' = Read /\ (Parses(primary)' <=> Parses(primary)) /\ (Parses(override)' <=> Parses(override))
        BY <2>6, <3>1 DEF MoveTmpToOverride, Read, Parses
      <4>3. StepInv'
        BY <2>6, <3>1, <4>2 DEF MoveTmpToOverride, Return, StepInv
      <4>4. OldOrNew'
        BY <2>6, <3>1, <4>2 DEF MoveTmpToOverride, Return, OldOrNew, StepInv
      <4> QED
        BY <4>1, <4>3, <4>4
    <3>2. CASE override' = tmp /\ tmp' = NoFile /\ pc' = "delete_primary" /\ UNCHANGED result
      <4>1. TypeOK'
        BY <2>6, <3>2 DEF MoveTmpToOverride, TypeOK, Steps
      <4>2. writing \in Protos /\ (~damaged => Whole(tmp, writing))
        BY <2>6 DEF MoveTmpToOverride, StepInv
      <4>3. ~damaged => Whole(override, writing)' /\ Parses(override)' /\ Read' = writing
        BY <2>6, <3>2, <4>2 DEF MoveTmpToOverride, Read, Parses, Whole
      <4>4. StepInv'
        BY <2>6, <3>2, <4>2, <4>3 DEF MoveTmpToOverride, StepInv, Parses, Whole
      <4>5. OldOrNew'
        BY <2>6, <3>2, <4>2, <4>3 DEF MoveTmpToOverride, OldOrNew, StepInv
      <4> QED
        BY <4>1, <4>4, <4>5
    <3> QED
      BY <2>6, <3>1, <3>2 DEF MoveTmpToOverride
  <2>7. CASE DeletePrimary
    BY <2>7 DEF DeletePrimary, Return, TypeOK, StepInv, OldOrNew, Steps, Read, Parses, Whole
  <2>8. CASE MoveOverrideToPrimary
    BY <2>8 DEF MoveOverrideToPrimary, Return, TypeOK, StepInv, OldOrNew, Steps, Read, Parses, Whole
  <2>9. CASE Crash
    BY <2>9, TornType DEF Crash, Return, TypeOK, StepInv, OldOrNew, Steps, Read, Parses, Whole
  <2>10. CASE UNCHANGED vars
    BY <2>10 DEF vars, TypeOK, StepInv, OldOrNew, Steps, Read, Parses, Whole
  <2> QED
    BY <2>1, <2>2, <2>3, <2>4, <2>5, <2>6, <2>7, <2>8, <2>9, <2>10 DEF Next
<1> QED
  BY <1>1, <1>2, PTL DEF Spec

(* The hypotheses of the refinement keep every file whole.                  *)
LEMMA NoDamage ==
  ASSUME OneSizeNoSilentLoss
  PROVE  Spec => []NeverDamaged
<1> USE ProtoStoreAssumption, NoFileAssumption
<1>1. Init => NeverDamaged
  BY DEF Init, NeverDamaged, SizeOf
<1>2. Inv /\ NeverDamaged /\ [Next]_vars => NeverDamaged'
  <2> SUFFICES ASSUME Inv, NeverDamaged, [Next]_vars PROVE NeverDamaged'
    OBVIOUS
  <2>1. ASSUME NEW w \in Protos, NEW n \in 0 .. Size[w], NEW p \in Protos \cup {Torn},
               NEW q \in Protos
        PROVE  SizeOf(Overwrite(tmp, p, n)) <= Size[q]
    <3>1. Size[q] = Size[w] /\ Size[q] \in Nat /\ SizeOf(tmp) <= Size[q] /\ n \in Nat
      BY DEF OneSizeNoSilentLoss, NeverDamaged
    <3>2. SizeOf(tmp) \in Nat /\ Overwrite(tmp, p, n) # NoFile
      BY <3>1, OverwriteType DEF Inv, TypeOK, SizeOf, Files
    <3> QED
      BY <3>1, <3>2 DEF SizeOf, Overwrite, Larger
  <2>2. CASE WriteToTmp
    <3>1. writing \in Protos /\ Size[writing] \in Nat
      BY <2>2 DEF WriteToTmp, Inv, StepInv
    <3>2. CASE /\ tmp' = Overwrite(tmp, writing, Size[writing])
               /\ damaged' = (damaged \/ tmp'.size # Size[writing])
      <4>1. SizeOf(tmp) <= Size[writing] /\ SizeOf(tmp) \in Nat
        BY <3>1 DEF NeverDamaged, Inv, TypeOK, SizeOf, Files
      <4>2. tmp'.size = Size[writing]
        BY <3>1, <3>2, <4>1 DEF Overwrite, Larger
      <4>3. ~damaged'
        BY <3>2, <4>2 DEF NeverDamaged
      <4> QED
        BY <2>1, <3>1, <3>2, <4>3 DEF NeverDamaged
    <3>3. CASE /\ \E n \in 0 .. Size[writing] - 1 : tmp' = Overwrite(tmp, Torn, n)
               /\ UNCHANGED damaged
      BY <2>1, <3>1, <3>3 DEF NeverDamaged
    <3>4. CASE UNCHANGED <<tmp, damaged>>
      BY <3>4 DEF NeverDamaged, SizeOf
    <3> QED
      BY <2>2, <3>2, <3>3, <3>4 DEF WriteToTmp, OneSizeNoSilentLoss
  <2>3. CASE Crash
    <3>1. writing \in Protos /\ Size[writing] \in Nat
      BY <2>3 DEF Crash, Inv, StepInv
    <3> QED
      BY <2>1, <2>3, <3>1 DEF Crash, NeverDamaged, SizeOf
  <2>4. CASE MoveTmpToOverride
    BY <2>4 DEF MoveTmpToOverride, NeverDamaged, SizeOf
  <2>5. CASE UNCHANGED <<tmp, damaged>>
    BY <2>5 DEF NeverDamaged, SizeOf
  <2> QED
    BY <2>2, <2>3, <2>4, <2>5 DEF Next, Write, CheckOverride, RecoverDeletePrimary,
       RecoverMoveOverride, DeletePrimary, MoveOverrideToPrimary, vars, files
<1> QED
  BY <1>1, <1>2, CrashConsistency, PTL DEF Spec

(* Under those hypotheses the store implements the atomic register: every   *)
(* file system call of Write, failed or not, and every crash is a step of   *)
(* the register or leaves it unchanged.                                     *)
THEOREM Refinement ==
  ASSUME OneSizeNoSilentLoss
  PROVE  Spec => RegisterSpec
<1> USE ProtoStoreAssumption, NoFileAssumption
<1> DEFINE Pending == IF pc = "idle" THEN NotFound ELSE writing
<1>1. Init => Register!Init
  BY DEF Init, Register!Init, Read, Parses
<1>2. Inv /\ Inv' /\ ~damaged /\ ~damaged' /\ [Next]_vars => [Register!Next]_<<Read, Pending, result>>
  <2> SUFFICES ASSUME Inv, Inv', ~damaged, ~damaged', [Next]_vars
               PROVE  [Register!Next]_<<Read, Pending, result>>
    OBVIOUS
  <2>1. pc # "idle" => writing \in Protos /\ writing # NotFound
    BY DEF Inv, StepInv
  <2>2. ASSUME NEW p \in Protos, Write(p) PROVE Register!Next
    <3>1. Read' = Read
      BY <2>2 DEF Write, Read, Parses, files
    <3>2. Pending = NotFound /\ Pending' = p /\ result' = "busy"
      BY <2>2 DEF Write
    <3> QED
      BY <3>1, <3>2 DEF Register!Next, Register!Begin
  <2>3. CASE CheckOverride
    BY <2>3 DEF CheckOverride, Read, Parses, files
  <2>4. ASSUME pc # "idle", Return("error") \/ Return("crashed"), Read' = Read
        PROVE  Register!Next
    <3>1. Pending # NotFound /\ Pending' = NotFound /\ result' \in {"error", "crashed"}
      BY <2>1, <2>4 DEF Return
    <3> QED
      BY <2>4, <3>1 DEF Register!Next, Register!ReturnError
  <2>5. CASE RecoverDeletePrimary
    <3>1. Parses(override) /\ Parses(override)'
      BY <2>5 DEF RecoverDeletePrimary, Inv, StepInv, Parses
    <3> QED
      BY <2>5, <3>1 DEF RecoverDeletePrimary, Read
  <2>6. CASE RecoverMoveOverride
    <3>1. Parses(override) /\ override # NoFile
      BY <2>6 DEF RecoverMoveOverride, Inv, StepInv
    <3>2. CASE primary' = override /\ override' = NoFile /\ pc' = "write_tmp" /\ UNCHANGED result
      BY <2>6, <3>1, <3>2 DEF RecoverMoveOverride, Read, Parses
    <3>3. CASE Return("error") /\ UNCHANGED <<primary, override>>
      <4>1. Read' = Read
        BY <3>3 DEF Read, Parses
      <4> QED
        BY <2>4, <2>6, <3>3, <4>1 DEF RecoverMoveOverride
    <3> QED
      BY <2>6, <3>2, <3>3 DEF RecoverMoveOverride
  <2>7. CASE WriteToTmp
    <3>1. Read' = Read
      BY <2>7 DEF WriteToTmp, Read, Parses
    <3> QED
      BY <2>4, <2>7, <3>1 DEF WriteToTmp
  <2>8. CASE MoveTmpToOverride
    <3>1. CASE override' = tmp /\ pc' = "delete_primary" /\ UNCHANGED result
      <4>1. Read' = writing
        BY <2>8, <3>1, <2>1 DEF MoveTmpToOverride, Inv, StepInv, Whole, Read, Parses
      <4>2. Pending # NotFound /\ Pending' = Pending /\ Pending = writing
        BY <2>1, <2>8, <3>1 DEF MoveTmpToOverride
      <4> QED
        BY <3>1, <4>1, <4>2 DEF Register!Next, Register!Commit
    <3>2. CASE Return("error") /\ UNCHANGED <<override, tmp>>
      <4>1. Read' = Read
        BY <2>8, <3>2 DEF MoveTmpToOverride, Read, Parses
      <4> QED
        BY <2>4, <2>8, <3>2, <4>1 DEF MoveTmpToOverride
    <3> QED
      BY <2>8, <3>1, <3>2 DEF MoveTmpToOverride
  <2>9. CASE DeletePrimary
    <3>1. Parses(override) /\ Parses(override)' /\ override' = override
      BY <2>9 DEF DeletePrimary, Inv, StepInv, Parses
    <3>2. Read' = Read
      BY <3>1 DEF Read
    <3> QED
      BY <2>4, <2>9, <3>2 DEF DeletePrimary
  <2>10. CASE MoveOverrideToPrimary
    <3>1. Whole(override, writing) /\ writing \in Protos
      BY <2>1, <2>10 DEF MoveOverrideToPrimary, Inv, StepInv
    <3>2. Read = writing
      BY <3>1 DEF Whole, Read, Parses
    <3>3. CASE primary' = override /\ override' = NoFile /\ Return("ok")
      <4>1. Read' = writing
        BY <2>10, <3>1, <3>3 DEF MoveOverrideToPrimary, Read, Parses, Whole
      <4>2. Pending # NotFound /\ Pending = writing /\ Pending' = NotFound /\ result' = "ok"
        BY <2>1, <2>10, <3>3 DEF MoveOverrideToPrimary, Return
      <4> QED
        BY <3>2, <4>1, <4>2 DEF Register!Next, Register!ReturnOk
    <3>4. CASE Return("error") /\ UNCHANGED <<primary, override>>
      <4>1. Read' = Read
        BY <3>4 DEF Read, Parses
      <4> QED
        BY <2>4, <2>10, <3>4, <4>1 DEF MoveOverrideToPrimary
    <3> QED
      BY <2>10, <3>3, <3>4 DEF MoveOverrideToPrimary
  <2>11. CASE Crash
    <3>1. Read' = Read
      BY <2>11 DEF Crash, Read, Parses
    <3> QED
      BY <2>4, <2>11, <3>1 DEF Crash
  <2>12. CASE UNCHANGED vars
    BY <2>12 DEF vars, Read, Parses
  <2> QED
    BY <2>2, <2>3, <2>5, <2>6, <2>7, <2>8, <2>9, <2>10, <2>11, <2>12 DEF Next
<1>3. NeverDamaged => ~damaged
  BY DEF NeverDamaged
<1> QED
  BY <1>1, <1>2, <1>3, CrashConsistency, NoDamage, PTL
     DEF Spec, RegisterSpec, Register!Spec, Register!avars
=============================================================================
