------------------------ MODULE ConsistentProtoStore ------------------------
(***************************************************************************)
(* src/src/lib/util/consistent_proto_store.cc on top of                    *)
(* src/src/lib/util/posix_file_system.cc.                                  *)
(*                                                                         *)
(* A Write is the sequence of file system calls the code makes, one action *)
(* per call, so that a crash may fall between any two of them.  Each call  *)
(* may also fail, when the constant Faults lets it, as the real call may.  *)
(* A file is abstracted to the message whose complete encoding is at its   *)
(* front (Torn if there is none) and the file's size: enough to tell a     *)
(* file that parses from one that does not.                                *)
(***************************************************************************)
EXTENDS Integers

CONSTANTS Protos,     \* the messages that may be written
          Size,       \* encoded size of each message
          NotFound,   \* Read: there is no file
          Corrupt,    \* Read: the file does not hold a message that was written
          Torn,       \* front of a file whose writing was cut short
          NoFile,     \* the file does not exist
          Faults      \* which calls may fail

FaultKinds == {"open", "serialize", "flush", "rename", "delete", "crash"}

ASSUME ProtoStoreAssumption ==
  /\ Size \in [Protos -> Nat]
  /\ NotFound \notin Protos /\ Corrupt \notin Protos /\ Torn \notin Protos
  /\ NotFound # Corrupt
  /\ Faults \subseteq FaultKinds

VARIABLES primary, override, tmp,   \* the three files
          pc,                       \* the next step of the Write in progress
          writing,                  \* the message of the last Write, or NotFound
          result,                   \* how the last Write ended
          previous,                 \* history: what Read returned before it
          damaged                   \* history: a WriteToTmp reported success
                                    \* but tmp was not exactly the message
files == <<primary, override, tmp>>
vars == <<primary, override, tmp, pc, writing, result, previous, damaged>>

Files == [proto : Protos \cup {Torn}, size : Nat]

ASSUME NoFileAssumption == NoFile \notin Files

Steps == {"idle", "check_override", "recover_delete", "recover_move", "write_tmp",
          "tmp_to_override", "delete_primary", "override_to_primary"}

TypeOK ==
  /\ primary \in Files \cup {NoFile}
  /\ override \in Files \cup {NoFile}
  /\ tmp \in Files \cup {NoFile}
  /\ pc \in Steps
  /\ writing \in Protos \cup {NotFound}
  /\ result \in {"none", "busy", "ok", "error", "crashed"}
  /\ previous \in Protos \cup {NotFound, Corrupt}
  /\ damaged \in BOOLEAN
-----------------------------------------------------------------------------
SizeOf(file) == IF file = NoFile THEN 0 ELSE file.size

Larger(m, n) == IF m > n THEN m ELSE n

(* NewProtoOutputStream opens with O_WRONLY | O_CREAT, without O_TRUNC: the *)
(* bytes of a longer file that was already there stay behind the new ones.  *)
Overwrite(file, proto, n) == [proto |-> proto, size |-> Larger(SizeOf(file), n)]

Parses(file) ==
  /\ file # NoFile
  /\ file.proto \in Protos
  /\ file.size = Size[file.proto]

Read ==
  IF Parses(override) THEN override.proto
  ELSE IF primary = NoFile THEN NotFound
  ELSE IF Parses(primary) THEN primary.proto
  ELSE Corrupt

Return(r) ==
  /\ pc' = "idle"
  /\ result' = r
-----------------------------------------------------------------------------
Init ==
  /\ primary = NoFile /\ override = NoFile /\ tmp = NoFile
  /\ pc = "idle"
  /\ writing = NotFound
  /\ result = "none"
  /\ previous = NotFound
  /\ damaged = FALSE

Write(p) ==
  /\ pc = "idle"
  /\ pc' = "check_override"
  /\ writing' = p
  /\ result' = "busy"
  /\ previous' = Read
  /\ UNCHANGED <<files, damaged>>

(* A file at override is a Write that did not finish: clean it up first.    *)
CheckOverride ==
  /\ pc = "check_override"
  /\ pc' = IF override = NoFile THEN "write_tmp" ELSE "recover_delete"
  /\ UNCHANGED <<files, writing, result, previous, damaged>>

(* Errors of this DeletePrimary are ignored.                                *)
RecoverDeletePrimary ==
  /\ pc = "recover_delete"
  /\ pc' = "recover_move"
  /\ \/ primary' = NoFile
     \/ "delete" \in Faults /\ UNCHANGED primary
  /\ UNCHANGED <<override, tmp, writing, result, previous, damaged>>

RecoverMoveOverride ==
  /\ pc = "recover_move"
  /\ \/ /\ primary' = override
        /\ override' = NoFile
        /\ pc' = "write_tmp"
        /\ UNCHANGED result
     \/ /\ "rename" \in Faults
        /\ Return("error")
        /\ UNCHANGED <<primary, override>>
  /\ UNCHANGED <<tmp, writing, previous, damaged>>

(* Mutant: the result of SerializeToZeroCopyStream is not looked at.        *)
WriteToTmpUnchecked ==
  /\ pc = "write_tmp"
  /\ \/ tmp' = Overwrite(tmp, writing, Size[writing])
     \/ /\ "serialize" \in Faults
        /\ \E n \in 0 .. Size[writing] - 1 : tmp' = Overwrite(tmp, Torn, n)
  /\ pc' = "tmp_to_override"
  /\ UNCHANGED <<primary, override, writing, result, previous, damaged>>

(* The stream is flushed when it is destroyed, after the status of          *)
(* SerializeToZeroCopyStream has been taken: a failure to write the last    *)
(* block then goes unreported.                                              *)
WriteToTmp ==
  /\ pc = "write_tmp"
  /\ \/ /\ tmp' = Overwrite(tmp, writing, Size[writing])
        /\ damaged' = (damaged \/ tmp'.size # Size[writing])
        /\ pc' = "tmp_to_override"
        /\ UNCHANGED result
     \/ /\ "flush" \in Faults
        /\ \E n \in 0 .. Size[writing] - 1 : tmp' = Overwrite(tmp, Torn, n)
        /\ damaged' = TRUE
        /\ pc' = "tmp_to_override"
        /\ UNCHANGED result
     \/ /\ "serialize" \in Faults
        /\ \E n \in 0 .. Size[writing] - 1 : tmp' = Overwrite(tmp, Torn, n)
        /\ Return("error")
        /\ UNCHANGED damaged
     \/ /\ "open" \in Faults
        /\ Return("error")
        /\ UNCHANGED <<tmp, damaged>>
  /\ UNCHANGED <<primary, override, writing, previous>>

MoveTmpToOverride ==
  /\ pc = "tmp_to_override"
  /\ \/ /\ override' = tmp
        /\ tmp' = NoFile
        /\ pc' = "delete_primary"
        /\ UNCHANGED result
     \/ /\ "rename" \in Faults
        /\ Return("error")
        /\ UNCHANGED <<override, tmp>>
  /\ UNCHANGED <<primary, writing, previous, damaged>>

DeletePrimary ==
  /\ pc = "delete_primary"
  /\ \/ /\ primary' = NoFile
        /\ pc' = "override_to_primary"
        /\ UNCHANGED result
     \/ /\ "delete" \in Faults /\ primary # NoFile
        /\ Return("error")
        /\ UNCHANGED primary
  /\ UNCHANGED <<override, tmp, writing, previous, damaged>>

MoveOverrideToPrimary ==
  /\ pc = "override_to_primary"
  /\ \/ /\ primary' = override
        /\ override' = NoFile
        /\ Return("ok")
     \/ /\ "rename" \in Faults
        /\ Return("error")
        /\ UNCHANGED <<primary, override>>
  /\ UNCHANGED <<tmp, writing, previous, damaged>>

(* The process dies: the files stay, and a tmp being written is torn.       *)
Crash ==
  /\ "crash" \in Faults
  /\ pc # "idle"
  /\ Return("crashed")
  /\ \/ UNCHANGED tmp
     \/ /\ pc = "write_tmp"
        /\ \E n \in 0 .. Size[writing] - 1 : tmp' = Overwrite(tmp, Torn, n)
  /\ UNCHANGED <<primary, override, writing, previous, damaged>>

Next ==
  \/ \E p \in Protos : Write(p)
  \/ CheckOverride
  \/ RecoverDeletePrimary
  \/ RecoverMoveOverride
  \/ WriteToTmp
  \/ MoveTmpToOverride
  \/ DeletePrimary
  \/ MoveOverrideToPrimary
  \/ Crash

Spec == Init /\ [][Next]_vars
-----------------------------------------------------------------------------
Whole(file, p) == file # NoFile /\ file.proto = p /\ file.size = Size[p]

(* Crash consistency, for every interleaving of calls, failures and crashes *)
(* of Write: as long as WriteToTmp never reported success for a tmp that is *)
(* not exactly the message, Read returns the message of the last Write or   *)
(* what it returned before that Write, and the former once Write returned   *)
(* OK.  The store is never seen without a file, nor with a partial one.     *)
OldOrNew ==
  ~damaged =>
    /\ Read \in {previous, writing}
    /\ Read # Corrupt
    /\ result = "ok" => Read = writing

(* What makes OldOrNew inductive: whatever is not tmp holds a whole message,*)
(* and each step of Write finds the files as the step before left them.     *)
StepInv ==
  /\ pc = "idle" <=> result # "busy"
  /\ pc # "idle" => writing \in Protos
  /\ pc = "recover_move" => override # NoFile
  /\ pc = "recover_delete" => override # NoFile
  /\ pc = "write_tmp" => override = NoFile
  /\ pc = "tmp_to_override" => tmp # NoFile
  /\ pc \in {"delete_primary", "override_to_primary"} => override # NoFile
  /\ pc = "override_to_primary" => primary = NoFile
  /\ ~damaged =>
       /\ primary = NoFile \/ Parses(primary)
       /\ override = NoFile \/ Parses(override)
       /\ pc \in {"check_override", "recover_delete", "recover_move", "write_tmp",
                  "tmp_to_override"} => Read = previous
       /\ pc = "tmp_to_override" => Whole(tmp, writing) /\ override = NoFile
       /\ pc \in {"delete_primary", "override_to_primary"} => Whole(override, writing)

Inv == TypeOK /\ StepInv /\ OldOrNew

(* The comment on Write: "this temp file is guaranteed never to be read, so *)
(* if the write is not finished, it is not an issue".                       *)
UnfinishedTmpIsHarmless == Read # Corrupt

(* When the messages all have one size, and the last block of a stream is   *)
(* never lost silently, no tmp is ever taken for whole that is not.         *)
OneSizeNoSilentLoss ==
  /\ \A p, q \in Protos : Size[p] = Size[q]
  /\ "flush" \notin Faults

NeverDamaged ==
  /\ ~damaged
  /\ \A p \in Protos : SizeOf(tmp) <= Size[p]

(* Refinement: the three files together are one atomic register that Write  *)
(* changes at one instant, the renaming of tmp to override.                 *)
Register == INSTANCE AtomicProtoStore WITH
  stored <- Read,
  pending <- IF pc = "idle" THEN NotFound ELSE writing

RegisterSpec == Register!Spec
=============================================================================
