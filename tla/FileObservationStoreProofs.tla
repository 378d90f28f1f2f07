--------------------- MODULE FileObservationStoreProofs ---------------------
(***************************************************************************)
(* Whatever file system call fails and wherever the process crashes, the   *)
(* file observation store never leaves a file in which an Observation      *)
(* comes before any metadata, and never forgets a file it has marked as    *)
(* taken.                                                                  *)
(***************************************************************************)
EXTENDS FileObservationStore, SequenceTheorems, TLAPS

-----------------------------------------------------------------------------
(* Files that start with metadata, and what may be done to them.            *)

(* A part of such a file, as a crash may leave of a stream, is one too.     *)
LEMMA PrefixOpen ==
  ASSUME NEW c \in OpenFiles, NEW p \in Prefixes(c)
  PROVE  p \in OpenFiles
<1>1. PICK n \in 0 .. Len(c) : p = SubSeq(c, 1, n)
  BY DEF Prefixes
<1>2. c \in Seq(FileCells) /\ Len(c) \in Nat
  BY DEF OpenFiles
<1>3. /\ p \in Seq(FileCells) /\ Len(p) = n
      /\ \A i \in 1 .. n : p[i] = c[i]
  BY <1>1, <1>2
<1>4. CASE n = 0
  BY <1>3, <1>4 DEF OpenFiles
<1>5. CASE n > 0
  <2>1. c # << >> /\ p[1] = c[1]
    BY <1>2, <1>3, <1>5
  <2>2. QED
    BY <1>3, <2>1 DEF OpenFiles
<1>6. QED
  BY <1>4, <1>5

(* So is what remains when one is written over the start of another.        *)
LEMMA OverwriteOpen ==
  ASSUME NEW old \in OpenFiles, NEW new \in OpenFiles
  PROVE  Overwrite(old, new) \in OpenFiles
<1>1. /\ old \in Seq(FileCells) /\ Len(old) \in Nat
      /\ new \in Seq(FileCells) /\ Len(new) \in Nat
  BY DEF OpenFiles
<1>2. CASE Len(new) >= Len(old)
  BY <1>2 DEF Overwrite
<1>3. CASE Len(new) < Len(old)
  <2> DEFINE tail == SubSeq(old, Len(new) + 1, Len(old))
  <2>1. \A i \in Len(new) + 1 .. Len(old) : old[i] \in FileCells
    BY <1>1, <1>3
  <2>2. /\ tail \in Seq(FileCells)
        /\ Len(tail) = Len(old) - Len(new)
        /\ \A i \in 1 .. Len(old) - Len(new) : tail[i] = old[Len(new) + i]
    BY <1>1, <1>3, <2>1
  <2>3. Overwrite(old, new) = new \o tail
    BY <1>1, <1>3 DEF Overwrite
  <2> HIDE DEF tail
  <2>4. new \o tail \in Seq(FileCells)
    BY <1>1, <2>2
  <2>5. CASE Len(new) = 0
    <3>1. (new \o tail)[1] = tail[1] /\ tail[1] = old[1]
      BY <1>1, <1>3, <2>2, <2>5
    <3>2. old # << >>
      BY <1>3, <2>5, <1>1
    <3>3. QED
      BY <3>1, <3>2, <2>3, <2>4 DEF OpenFiles
  <2>6. CASE Len(new) > 0
    <3>1. (new \o tail)[1] = new[1]
      BY <1>1, <2>2, <2>6
    <3>2. new # << >>
      BY <2>6
    <3>3. QED
      BY <3>1, <3>2, <2>3, <2>4 DEF OpenFiles
  <2>7. QED
    BY <2>5, <2>6, <1>1
<1>4. QED
  BY <1>1, <1>2, <1>3

LEMMA CellsAreCells ==
  ASSUME NEW o \in Obs
  PROVE  Cells(o) \in Seq(FileCells) /\ Len(Cells(o)) = ObsSize[o]
<1>1. ObsSize[o] \in Nat /\ \A k \in 1 .. ObsSize[o] : <<o, k>> \in FileCells
  BY FileStoreAssumption DEF FileCells
<1>2. QED
  BY <1>1 DEF Cells

LEMMA AppendCell ==
  ASSUME NEW s \in Seq(FileCells), NEW c \in FileCells
  PROVE  s \o <<c>> \in Seq(FileCells) /\ Len(s \o <<c>>) = Len(s) + 1
OBVIOUS

(* The stream StoreObservation leaves starts with metadata, also when the   *)
(* metadata of the previous Observation is taken to have been written.      *)
LEMMA WithRecordsOpen ==
  ASSUME StreamInv, ~failed, NEW o \in Obs
  PROVE  WithRecords(o) \in OpenFiles /\ WithRecords(o) # << >>
<1> DEFINE m == <<MetaCell(Meta[o])>>
<1>1. opened \in OpenFiles /\ opened \in Seq(FileCells) /\ Len(opened) \in Nat
  BY DEF StreamInv, StreamOK, opened, OpenFiles
<1>2. Meta[o] \in Metadata /\ Meta[o] # NoMeta
  BY FileStoreAssumption
<1>3. MetaCell(Meta[o]) \in FileCells /\ MetaCell(Meta[o]) \in Metadata \X {1}
  BY <1>2 DEF MetaCell, FileCells
<1>4. m \in Seq(FileCells) /\ Len(m) = 1 /\ m[1] = MetaCell(Meta[o])
  BY <1>3
<1>5. Cells(o) \in Seq(FileCells) /\ Len(Cells(o)) \in Nat \ {0}
  BY CellsAreCells, FileStoreAssumption
<1> HIDE DEF m
<1>6. CASE NeedsMetadata(o)
  <2>1. opened \o m \in Seq(FileCells) /\ Len(opened \o m) = Len(opened) + 1
    BY <1>1, <1>3, AppendCell DEF m
  <2>2. (opened \o m)[1] \in Metadata \X {1}
    <3>1. CASE opened = << >>
      BY <3>1, <1>3, <1>4
    <3>2. CASE opened # << >>
      BY <3>2, <1>1, <1>4 DEF OpenFiles
    <3>3. QED
      BY <3>1, <3>2
  <2>3. /\ (opened \o m) \o Cells(o) \in Seq(FileCells)
        /\ Len((opened \o m) \o Cells(o)) > 0
        /\ ((opened \o m) \o Cells(o))[1] = (opened \o m)[1]
    BY <2>1, <1>1, <1>5
  <2>4. WithRecords(o) = (opened \o m) \o Cells(o)
    BY <1>6 DEF WithRecords, m
  <2>5. WithRecords(o) # << >>
    BY <2>3, <2>4
  <2>6. QED
    BY <2>2, <2>3, <2>4, <2>5 DEF OpenFiles
<1>7. CASE ~NeedsMetadata(o)
  <2>1. current_meta # NoMeta
    BY <1>7, <1>2 DEF NeedsMetadata
  <2>2. opened # << >>
    BY <2>1 DEF StreamInv, StreamOK, opened
  <2>3. opened[1] \in Metadata \X {1}
    BY <2>2, <1>1 DEF OpenFiles
  <2>4. WithRecords(o) = (opened \o << >>) \o Cells(o)
    BY <1>7 DEF WithRecords
  <2>5. opened \o << >> = opened
    BY <1>1
  <2>6. /\ opened \o Cells(o) \in Seq(FileCells)
        /\ Len(opened \o Cells(o)) > 0
        /\ (opened \o Cells(o))[1] = opened[1]
    BY <2>2, <1>1, <1>5
  <2>7. WithRecords(o) = opened \o Cells(o)
    BY <2>4, <2>5
  <2>8. WithRecords(o) # << >>
    BY <2>6, <2>7
  <2>9. QED
    BY <2>3, <2>6, <2>7, <2>8 DEF OpenFiles
<1>8. QED
  BY <1>6, <1>7

(* What a stream holds after StoreObservation, and what it has dropped.     *)
LEMMA NowWrittenOpen ==
  ASSUME StreamInv, NEW o \in Obs
  PROVE  /\ NowWritten(o) \in OpenFiles
         /\ ~failed => NowWritten(o) # << >> /\ NewByteCount(o) - Len(NowWritten(o)) = 0
         /\ NewByteCount(o) - Len(NowWritten(o)) \in Nat
<1>1. CASE ~failed
  <2>1. WithRecords(o) \in OpenFiles /\ WithRecords(o) # << >> /\ dropped = 0
    BY <1>1, WithRecordsOpen DEF StreamInv, StreamOK
  <2>2. Len(WithRecords(o)) \in Nat
    BY <2>1 DEF OpenFiles
  <2> QED
    BY <1>1, <2>1, <2>2 DEF NowWritten, NewByteCount
<1>2. CASE failed
  <2> DEFINE m == IF NeedsMetadata(o) THEN <<MetaCell(Meta[o])>> ELSE << >>
  <2>1. /\ stream \in OpenFiles /\ stream \in Seq(FileCells) /\ Len(stream) \in Nat
        /\ opened = stream /\ dropped \in Nat
    BY <1>2 DEF StreamInv, StreamOK, opened, OpenFiles
  <2>2. m \in Seq(FileCells) /\ Len(m) \in Nat
    <3>1. MetaCell(Meta[o]) \in FileCells
      BY FileStoreAssumption DEF MetaCell, FileCells
    <3> QED
      BY <3>1
  <2>3. Cells(o) \in Seq(FileCells) /\ Len(Cells(o)) \in Nat
    BY CellsAreCells, FileStoreAssumption
  <2>4. WithRecords(o) = (stream \o m) \o Cells(o)
    BY <2>1 DEF WithRecords
  <2> HIDE DEF m
  <2>5. Len(WithRecords(o)) = Len(stream) + Len(m) + Len(Cells(o))
    BY <2>1, <2>2, <2>3, <2>4
  <2> QED
    BY <1>2, <2>1, <2>2, <2>3, <2>5 DEF NowWritten, NewByteCount
<1> QED
  BY <1>1, <1>2
-----------------------------------------------------------------------------
(* What closing and finalizing the active file may leave.                   *)
LEMMA WrittenOpen ==
  ASSUME NEW base, NEW s,
         base = NoFile \/ base \in OpenFiles,
         s = NoStream \/ s \in OpenFiles,
         s # NoStream => base # NoFile,
         NEW c \in Written(base, s)
  PROVE  c = NoFile \/ c \in OpenFiles
<1>1. CASE s = NoStream
  BY <1>1 DEF Written
<1>2. CASE s # NoStream
  <2>1. PICK p \in Prefixes(s) : c = Overwrite(base, p)
    BY <1>2 DEF Written
  <2>2. QED
    BY <1>2, <2>1, PrefixOpen, OverwriteOpen
<1>3. QED
  BY <1>1, <1>2

LEMMA ClosedOpen ==
  ASSUME NEW base, NEW s,
         base = NoFile \/ base \in OpenFiles,
         s = NoStream \/ s \in OpenFiles,
         s # NoStream => base # NoFile,
         NEW c \in Closed(base, s)
  PROVE  c = NoFile \/ c \in OpenFiles
<1>1. CASE c \in Written(base, s)
  BY <1>1, WrittenOpen
<1>2. CASE c = FullyWritten(base, s)
  BY <1>2, OverwriteOpen DEF FullyWritten
<1>3. QED
  BY <1>1, <1>2 DEF Closed

(* Finalizing adds at most one file, under a name that is not in use, and   *)
(* every file still starts with metadata.                                   *)
LEMMA FinalizeOpen ==
  ASSUME NEW base, NEW s, NEW files, NEW bytes,
         base = NoFile \/ base \in OpenFiles,
         s = NoStream \/ s \in OpenFiles,
         s # NoStream => base # NoFile,
         DOMAIN files \subseteq FileNames,
         \A f \in DOMAIN files : files[f] \in OpenFiles,
         NEW r \in FinalizeActiveFile(base, s, files, bytes)
  PROVE  /\ r.active = NoFile \/ r.active \in OpenFiles
         /\ DOMAIN r.finalized \subseteq FileNames
         /\ \A f \in DOMAIN r.finalized : r.finalized[f] \in OpenFiles
         /\ r.faults \subseteq FaultKinds
         /\ DOMAIN r.finalized \subseteq DOMAIN files \cup GenerateFilename(files)
<1> DEFINE late(c) == IF c = FullyWritten(base, s) THEN {} ELSE {"flush"}
           out(c, ok, a, fs, b, why) ==
             [ok |-> ok, active |-> a, finalized |-> fs, bytes |-> b,
              faults |-> late(c) \cup why]
           renamed(c, n) == [f \in DOMAIN files \cup {n} |-> IF f = n THEN c ELSE files[f]]
<1>1. PICK c \in Closed(base, s) :
        \/ r = out(c, FALSE, NoFile, files, bytes, {})
        \/ \E k \in {"delete", "rename"} : r = out(c, FALSE, c, files, bytes, {k})
        \/ /\ c # NoFile
           /\ \E n \in GenerateFilename(files) :
                r = out(c, TRUE, NoFile, renamed(c, n), (bytes + Len(c)) % Word, {})
  <2> HIDE DEF out
  <2>1. PICK c \in Closed(base, s) :
          r \in IF c = NoFile THEN {out(c, FALSE, NoFile, files, bytes, {})}
                ELSE IF c = << >>
                THEN {out(c, FALSE, NoFile, files, bytes, {})}
                     \cup {out(c, FALSE, c, files, bytes, {k}) : k \in {"delete"} \cap Possible}
                ELSE {out(c, TRUE, NoFile, renamed(c, n), (bytes + Len(c)) % Word, {}) :
                        n \in GenerateFilename(files)}
                     \cup {out(c, FALSE, c, files, bytes, {k}) : k \in {"rename"} \cap Possible}
    BY Zenon DEF FinalizeActiveFile, out, late, renamed
  <2>2. QED
    BY <2>1
<1>2. c = NoFile \/ c \in OpenFiles
  BY ClosedOpen
<1>3. late(c) \subseteq FaultKinds
  BY DEF FaultKinds
<1> HIDE DEF late
<1>4. CASE r = out(c, FALSE, NoFile, files, bytes, {})
  BY <1>3, <1>4
<1>5. CASE \E k \in {"delete", "rename"} : r = out(c, FALSE, c, files, bytes, {k})
  <2>1. {"delete"} \subseteq FaultKinds /\ {"rename"} \subseteq FaultKinds
    BY DEF FaultKinds
  <2>2. PICK k \in {"delete", "rename"} : r = out(c, FALSE, c, files, bytes, {k})
    BY <1>5
  <2>3. QED
    BY <1>2, <1>3, <2>1, <2>2
<1>6. ASSUME c # NoFile, NEW n \in GenerateFilename(files),
             r = out(c, TRUE, NoFile, renamed(c, n), (bytes + Len(c)) % Word, {})
      PROVE  /\ r.active = NoFile \/ r.active \in OpenFiles
             /\ DOMAIN r.finalized \subseteq FileNames
             /\ \A f \in DOMAIN r.finalized : r.finalized[f] \in OpenFiles
             /\ r.faults \subseteq FaultKinds
             /\ DOMAIN r.finalized \subseteq DOMAIN files \cup GenerateFilename(files)
  <2>1. n \in FileNames
    BY DEF GenerateFilename
  <2>2. /\ r.active = NoFile /\ r.faults = late(c)
        /\ r.finalized = renamed(c, n)
    BY <1>6
  <2>3. DOMAIN renamed(c, n) = DOMAIN files \cup {n}
    OBVIOUS
  <2>4. \A f \in DOMAIN files \cup {n} : renamed(c, n)[f] \in OpenFiles
    BY <1>2, <1>6
  <2>5. QED
    BY <1>3, <2>1, <2>2, <2>3, <2>4
<1>7. QED
  BY <1>1, <1>4, <1>5, <1>6
-----------------------------------------------------------------------------
LEMMA InitStream == Init => StreamInv
<1> SUFFICES ASSUME Init PROVE StreamInv
  OBVIOUS
<1>1. DOMAIN finalized = {}
  BY DEF Init
<1>2. uploads \in [Obs -> 0 .. 2]
  BY DEF Init
<1>3. QED
  BY <1>1, <1>2 DEF Init, StreamInv, DiskOK, StreamOK, HolderOK, HistoryOK

(* An empty active file, or the one on disk, is there once it is opened.    *)
LEMMA ActiveOpened ==
  ASSUME StreamInv, GetActiveFile
  PROVE  active' \in OpenFiles /\ active' # NoFile
<1>1. << >> \in OpenFiles
  BY DEF OpenFiles
<1>2. active' \in OpenFiles
  BY <1>1 DEF StreamInv, DiskOK, GetActiveFile
<1>3. QED
  BY <1>2, FileStoreAssumption DEF OpenFiles

LEMMA OpenIsNotNone ==
  ASSUME NEW c \in OpenFiles
  PROVE  c # NoFile /\ c # NoStream
BY FileStoreAssumption DEF OpenFiles

(* The state after FinalizeActiveFile.                                      *)
LEMMA FinalizedOK ==
  ASSUME NEW base, NEW s, NEW files, NEW bytes,
         base = NoFile \/ base \in OpenFiles,
         s = NoStream \/ s \in OpenFiles,
         s # NoStream => base # NoFile,
         DOMAIN files \subseteq FileNames,
         \A f \in DOMAIN files : files[f] \in OpenFiles,
         NEW r \in FinalizeActiveFile(base, s, files, bytes),
         Finalized(r)
  PROVE  DiskOK' /\ StreamOK'
<1>1. /\ r.active = NoFile \/ r.active \in OpenFiles
      /\ DOMAIN r.finalized \subseteq FileNames
      /\ \A f \in DOMAIN r.finalized : r.finalized[f] \in OpenFiles
  BY FinalizeOpen
<1>2. DiskOK'
  BY <1>1 DEF Finalized, DiskOK
<1>3. StreamOK'
  BY DEF Finalized, StreamOK
<1>4. QED
  BY <1>2, <1>3

LEMMA StoreStep ==
  ASSUME StreamInv, NEW o \in Obs,
         \/ StoreDisabled(o) \/ StoreCannotOpen(o) \/ StoreRefused(o)
         \/ StoreWriteFails(o) \/ StoreObservation(o)
  PROVE  StreamInv'
<1>0. DiskOK /\ StreamOK /\ HolderOK /\ HistoryOK
  BY DEF StreamInv
<1>1. CASE StoreDisabled(o) \/ StoreCannotOpen(o)
  BY <1>0, <1>1
     DEF StreamInv, StoreDisabled, StoreCannotOpen, Try, disk, fields, DiskOK, StreamOK, HolderOK, HistoryOK
<1>2. CASE StoreRefused(o)
  <2>1. active' \in OpenFiles /\ active' # NoFile
    BY <1>2, ActiveOpened DEF StoreRefused
  <2>2. DiskOK'
    BY <1>0, <1>2, <2>1 DEF StoreRefused, DiskOK
  <2>3. opened \in OpenFiles
    BY <1>0 DEF StreamOK, opened, OpenFiles
  <2>4. /\ stream' = opened /\ failed' = failed /\ dropped' = dropped
        /\ current_meta' = current_meta
    BY <1>2 DEF StoreRefused
  <2>5. current_meta # NoMeta /\ ~failed => opened # << >>
    BY <1>0 DEF StreamOK, opened
  <2>6. StreamOK'
    BY <1>0, <2>1, <2>3, <2>4, <2>5, OpenIsNotNone DEF StreamOK
  <2>7. HolderOK' /\ HistoryOK'
    BY <1>0, <1>2 DEF StoreRefused, Try, HolderOK, HistoryOK
  <2>8. QED
    BY <2>2, <2>6, <2>7 DEF StreamInv
<1>3. CASE StoreWriteFails(o)
  <2>1. active' \in OpenFiles /\ active' # NoFile
    BY <1>3, ActiveOpened DEF StoreWriteFails
  <2>2. DiskOK'
    BY <1>0, <1>3, <2>1 DEF StoreWriteFails, DiskOK
  <2>3. stream' = NoStream \/ stream' \in OpenFiles
    <3>1. CASE failed /\ UNCHANGED <<stream, owed, faulted, current_meta>>
      BY <1>0, <3>1 DEF StreamOK
    <3>2. CASE ~failed /\ stream' \in Prefixes(WithRecords(o))
      BY <3>2, WithRecordsOpen, PrefixOpen
    <3>3. QED
      BY <1>3, <3>1, <3>2 DEF StoreWriteFails
  <2>4. failed' = TRUE /\ current_meta' \in Metadata \cup {NoMeta}
    BY <1>0, <1>3, FileStoreAssumption DEF StoreWriteFails, StreamOK
  <2>41. stream' # NoStream /\ dropped' \in Nat
    <3>1. CASE failed /\ UNCHANGED <<stream, owed, faulted, current_meta>>
      BY <1>0, <1>3, <3>1 DEF StreamOK, StoreWriteFails
    <3>2. CASE ~failed /\ stream' \in Prefixes(WithRecords(o))
      BY <1>0, <1>3, <3>2, WithRecordsOpen, PrefixOpen, OpenIsNotNone DEF StreamOK, StoreWriteFails
    <3>3. QED
      BY <1>3, <3>1, <3>2 DEF StoreWriteFails
  <2>5. StreamOK'
    BY <2>1, <2>3, <2>4, <2>41 DEF StreamOK
  <2>6. HolderOK' /\ tried' \subseteq Obs /\ tried \subseteq tried' /\ uploads' = uploads
    BY <1>0, <1>3 DEF StoreWriteFails, Accepts, Try, HolderOK, HistoryOK
  <2>7. owed' \subseteq owed /\ faulted' \subseteq faulted \cup {"write"}
    BY <1>3 DEF StoreWriteFails, Note
  <2>8. HistoryOK'
    BY <1>0, <2>6, <2>7 DEF HistoryOK, FaultKinds
  <2>9. QED
    BY <2>2, <2>5, <2>6, <2>8 DEF StreamInv
<1>4. CASE StoreObservation(o)
  <2>1. /\ NowWritten(o) \in OpenFiles
        /\ ~failed => NowWritten(o) # << >> /\ NewByteCount(o) - Len(NowWritten(o)) = 0
        /\ NewByteCount(o) - Len(NowWritten(o)) \in Nat
    BY NowWrittenOpen
  <2>2. HolderOK' /\ tried' = tried \cup {o} /\ uploads' = uploads
    BY <1>0, <1>4 DEF StoreObservation, Accepts, Try, HolderOK
  <2>3. CASE /\ GetActiveFile /\ stream' = NowWritten(o) /\ current_meta' = Meta[o]
             /\ dropped' = NewByteCount(o) - Len(NowWritten(o))
             /\ owed' = NowAcked(o)
             /\ UNCHANGED <<finalized, failed, finalized_bytes, faulted>>
    <3>1. active' \in OpenFiles /\ active' # NoFile
      BY <2>3, ActiveOpened
    <3>2. DiskOK'
      BY <1>0, <2>3, <3>1 DEF DiskOK
    <3>3. StreamOK'
      BY <1>0, <2>1, <2>3, <3>1, OpenIsNotNone, FileStoreAssumption DEF StreamOK
    <3>4. HistoryOK'
      BY <1>0, <2>2, <2>3 DEF HistoryOK, NowAcked
    <3>5. QED
      BY <2>2, <3>2, <3>3, <3>4 DEF StreamInv
  <2>4. ASSUME NEW r \in FinalizeActiveFile(IF active = NoFile THEN << >> ELSE active,
                                            NowWritten(o), finalized, finalized_bytes),
               Finalized(r),
               Note(r.faults, IF r.ok THEN NowAcked(o) ELSE owed, ActiveCells \cup {o})
        PROVE  StreamInv'
    <3> DEFINE base == IF active = NoFile THEN << >> ELSE active
    <3>0. << >> \in OpenFiles
      BY DEF OpenFiles
    <3>1. base \in OpenFiles /\ base # NoFile
      BY <1>0, <3>0, OpenIsNotNone DEF DiskOK
    <3>2. DOMAIN finalized \subseteq FileNames /\ \A f \in DOMAIN finalized : finalized[f] \in OpenFiles
      BY <1>0 DEF DiskOK
    <3> HIDE DEF base
    <3>3. r \in FinalizeActiveFile(base, NowWritten(o), finalized, finalized_bytes)
      BY <2>4 DEF base
    <3>4. DiskOK' /\ StreamOK' /\ r.faults \subseteq FaultKinds
      BY <2>1, <2>4, <3>1, <3>2, <3>3, FinalizedOK, FinalizeOpen
    <3>5. HistoryOK'
      BY <1>0, <2>2, <2>4, <3>4 DEF HistoryOK, Note, NowAcked
    <3>6. QED
      BY <2>2, <3>4, <3>5 DEF StreamInv
  <2>5. QED
    BY <1>4, <2>3, <2>4 DEF StoreObservation
<1>5. QED
  BY <1>1, <1>2, <1>3, <1>4

LEMMA TakeStep ==
  ASSUME StreamInv, TakeNextEnvelopeHolder
  PROVE  StreamInv'
<1>0. DiskOK /\ StreamOK /\ HolderOK /\ HistoryOK
  BY DEF StreamInv
<1>1. ASSUME NEW n \in FileNames, Take(n)
      PROVE  HolderOK'
  BY <1>0, <1>1 DEF Take, HolderOK, TakeNextEnvelopeHolder
<1>2. CASE /\ \E n \in GetOldestFinalizedFile(finalized) : Take(n)
           /\ UNCHANGED <<disk, stream, failed, dropped, current_meta, finalized_bytes, owed,
                          faulted>>
  <2>1. HolderOK'
    BY <1>0, <1>1, <1>2 DEF GetOldestFinalizedFile, Untaken, DiskOK
  <2>2. DiskOK' /\ StreamOK' /\ HistoryOK'
    BY <1>0, <1>2 DEF disk, DiskOK, StreamOK, HistoryOK, TakeNextEnvelopeHolder
  <2>3. QED
    BY <2>1, <2>2 DEF StreamInv
<1>3. ASSUME NEW r \in FinalizeActiveFile(active, stream, finalized, finalized_bytes),
             Finalized(r), Note(r.faults, owed, ActiveCells),
             \/ r.ok /\ \E n \in GetOldestFinalizedFile(r.finalized) : Take(n)
             \/ ~r.ok /\ UNCHANGED <<files_taken, holder>>
      PROVE  StreamInv'
  <2>1. /\ DiskOK' /\ StreamOK' /\ r.faults \subseteq FaultKinds
        /\ DOMAIN r.finalized \subseteq FileNames
    BY <1>0, <1>3, FinalizedOK, FinalizeOpen DEF DiskOK, StreamOK
  <2>2. HistoryOK'
    BY <1>0, <1>3, <2>1 DEF HistoryOK, Note, TakeNextEnvelopeHolder
  <2>3. HolderOK'
    BY <1>0, <1>1, <1>3, <2>1 DEF GetOldestFinalizedFile, Untaken, HolderOK, TakeNextEnvelopeHolder
  <2>4. QED
    BY <2>1, <2>2, <2>3 DEF StreamInv
<1>4. QED
  BY <1>2, <1>3 DEF TakeNextEnvelopeHolder

LEMMA HolderStep ==
  ASSUME StreamInv, Upload \/ ReturnEnvelopeHolder \/ DestroyHolder \/ \E b \in BOOLEAN : Disable(b)
  PROVE  StreamInv'
<1>0. DiskOK /\ StreamOK /\ HolderOK /\ HistoryOK
  BY DEF StreamInv
<1>1. CASE Upload
  <2>1. DiskOK' /\ StreamOK'
    BY <1>0, <1>1 DEF Upload, disk, fields, DiskOK, StreamOK
  <2>2. HolderOK'
    BY <1>0, <1>1 DEF Upload, fields, HolderOK
  <2>3. uploads' \in [Obs -> 0 .. 2]
    BY <1>0, <1>1 DEF Upload, HistoryOK
  <2>4. HistoryOK'
    BY <1>0, <1>1, <2>3 DEF Upload, HistoryOK
  <2>5. QED
    BY <2>1, <2>2, <2>4 DEF StreamInv
<1>2. CASE ReturnEnvelopeHolder
  BY <1>0, <1>2 DEF StreamInv, ReturnEnvelopeHolder, disk, history, DiskOK, StreamOK, HolderOK, HistoryOK
<1>3. CASE DestroyHolder
  <2>1. /\ DOMAIN finalized' \subseteq DOMAIN finalized
        /\ \A f \in DOMAIN finalized' : finalized'[f] = finalized[f]
        /\ faulted' \subseteq faulted \cup {"delete"}
    BY <1>3 DEF DestroyHolder, DeleteHeldFile, Without
  <2>2. DiskOK' /\ HistoryOK'
    BY <1>0, <1>3, <2>1 DEF DestroyHolder, DiskOK, HistoryOK, FaultKinds
  <2>3. StreamOK' /\ HolderOK'
    BY <1>0, <1>3 DEF DestroyHolder, StreamOK, HolderOK
  <2>4. QED
    BY <2>2, <2>3 DEF StreamInv
<1>4. CASE \E b \in BOOLEAN : Disable(b)
  BY <1>0, <1>4 DEF StreamInv, Disable, disk, fields, history, DiskOK, StreamOK, HolderOK, HistoryOK
<1>5. QED
  BY <1>1, <1>2, <1>3, <1>4

LEMMA WithoutKeeps ==
  ASSUME NEW files, NEW gone,
         DOMAIN files \subseteq FileNames,
         \A f \in DOMAIN files : files[f] \in OpenFiles
  PROVE  /\ DOMAIN Without(files, gone) \subseteq FileNames
         /\ \A f \in DOMAIN Without(files, gone) : Without(files, gone)[f] \in OpenFiles
BY DEF Without

LEMMA DeleteStep ==
  ASSUME StreamInv, DeleteData
  PROVE  StreamInv'
<1>0. DiskOK /\ StreamOK /\ HolderOK /\ HistoryOK
  BY DEF StreamInv
<1>1. PICK r \in FinalizeActiveFile(active, stream, finalized, finalized_bytes) :
        \E kept \in SUBSET DOMAIN r.finalized, keep \in BOOLEAN :
          /\ finalized' = Without(r.finalized, DOMAIN r.finalized \ kept)
          /\ active' = IF keep THEN r.active ELSE NoFile
          /\ Note(r.faults \cup (IF kept # {} \/ keep THEN {"undeleted"} ELSE {}), {}, {})
  BY DEF DeleteData, Undeleted
<1>2. /\ r.active = NoFile \/ r.active \in OpenFiles
      /\ DOMAIN r.finalized \subseteq FileNames
      /\ \A f \in DOMAIN r.finalized : r.finalized[f] \in OpenFiles
      /\ r.faults \subseteq FaultKinds
  BY <1>0, FinalizeOpen DEF DiskOK, StreamOK
<1>3. DiskOK'
  BY <1>1, <1>2, WithoutKeeps DEF DiskOK
<1>4. StreamOK' /\ HolderOK'
  BY <1>0 DEF DeleteData, StreamOK, HolderOK
<1>5. faulted' \subseteq FaultKinds /\ owed' = {}
  BY <1>0, <1>1, <1>2 DEF Note, HistoryOK, FaultKinds
<1>6. HistoryOK'
  BY <1>0, <1>5 DEF DeleteData, HistoryOK
<1>7. QED
  BY <1>3, <1>4, <1>6 DEF StreamInv

LEMMA ConstructStep ==
  ASSUME StreamInv, NEW base, NEW files, NEW acked,
         base = NoFile \/ base \in OpenFiles,
         DOMAIN files \subseteq FileNames,
         \A f \in DOMAIN files : files[f] \in OpenFiles,
         acked \subseteq owed,
         Construct(base, files, acked), UNCHANGED <<tried, uploads>>
  PROVE  StreamInv'
<1>0. HistoryOK
  BY DEF StreamInv
<1>1. PICK r \in FinalizeActiveFile(base, NoStream, files, TotalSize(files) % Word) :
        Finalized(r) /\ Note(r.faults \cup {"crash"}, acked, ActiveCells)
  BY DEF Construct
<1>2. DiskOK' /\ StreamOK' /\ r.faults \subseteq FaultKinds
  BY <1>1, FinalizedOK, FinalizeOpen
<1>3. HolderOK'
  BY DEF Construct, HolderOK
<1>4. faulted' \subseteq FaultKinds /\ owed' \subseteq owed
  BY <1>0, <1>1, <1>2 DEF Note, HistoryOK, FaultKinds
<1>5. HistoryOK'
  BY <1>0, <1>4 DEF HistoryOK
<1>6. QED
  BY <1>2, <1>3, <1>5 DEF StreamInv

LEMMA CrashStep ==
  ASSUME StreamInv, Crash \/ CrashInDeleteData
  PROVE  StreamInv'
<1>0. DiskOK /\ StreamOK
  BY DEF StreamInv
<1>1. CASE Crash
  <2>1. PICK base \in Written(active, stream) : Construct(base, finalized, owed)
    BY <1>1 DEF Crash
  <2>2. base = NoFile \/ base \in OpenFiles
    BY <1>0, <2>1, WrittenOpen DEF DiskOK, StreamOK
  <2>3. UNCHANGED <<tried, uploads>>
    BY <1>1 DEF Crash
  <2>4. QED
    BY <1>0, <2>1, <2>2, <2>3, ConstructStep DEF DiskOK
<1>2. CASE CrashInDeleteData
  <2>0. PICK r \in FinalizeActiveFile(active, stream, finalized, finalized_bytes) :
          \E gone \in SUBSET DOMAIN r.finalized : \E base \in {r.active, NoFile} :
            Construct(base, Without(r.finalized, gone),
                      owed \ InFiles([f \in gone |-> r.finalized[f]]))
    BY <1>2 DEF CrashInDeleteData
  <2>1. PICK gone \in SUBSET DOMAIN r.finalized, base \in {r.active, NoFile} :
          Construct(base, Without(r.finalized, gone),
                    owed \ InFiles([f \in gone |-> r.finalized[f]]))
    BY <2>0
  <2>2. /\ r.active = NoFile \/ r.active \in OpenFiles
        /\ DOMAIN r.finalized \subseteq FileNames
        /\ \A f \in DOMAIN r.finalized : r.finalized[f] \in OpenFiles
    BY <1>0, FinalizeOpen DEF DiskOK, StreamOK
  <2>3. /\ DOMAIN Without(r.finalized, gone) \subseteq FileNames
        /\ \A f \in DOMAIN Without(r.finalized, gone) : Without(r.finalized, gone)[f] \in OpenFiles
    BY <2>2, WithoutKeeps
  <2>4. UNCHANGED <<tried, uploads>>
    BY <1>2 DEF CrashInDeleteData
  <2>5. owed \ InFiles([f \in gone |-> r.finalized[f]]) \subseteq owed
    OBVIOUS
  <2>6. base = NoFile \/ base \in OpenFiles
    BY <2>2
  <2>7. QED
    BY <2>1, <2>3, <2>4, <2>5, <2>6, ConstructStep
<1>3. QED
  BY <1>1, <1>2

LEMMA StreamStep ==
  ASSUME StreamInv, [Next]_vars
  PROVE  StreamInv'
<1>1. CASE UNCHANGED vars
  BY <1>1 DEF vars, disk, fields, history, StreamInv, DiskOK, StreamOK, HolderOK, HistoryOK
<1>2. CASE Next
  <2>1. ASSUME NEW o \in Obs,
               \/ StoreDisabled(o) \/ StoreCannotOpen(o) \/ StoreRefused(o)
               \/ StoreWriteFails(o) \/ StoreObservation(o)
        PROVE  StreamInv'
    BY <2>1, StoreStep
  <2>2. CASE TakeNextEnvelopeHolder
    BY <2>2, TakeStep
  <2>3. CASE Upload \/ ReturnEnvelopeHolder \/ DestroyHolder \/ \E b \in BOOLEAN : Disable(b)
    BY <2>3, HolderStep
  <2>4. CASE DeleteData
    BY <2>4, DeleteStep
  <2>5. CASE Crash \/ CrashInDeleteData
    BY <2>5, CrashStep
  <2>6. QED
    BY <1>2, <2>1, <2>2, <2>3, <2>4, <2>5 DEF Next
<1>3. QED
  BY <1>1, <1>2

(* A file that starts with metadata has an open batch at each Observation.  *)
LEMMA OpenHasBatch ==
  ASSUME NEW c \in OpenFiles, NEW i \in ObsPositions(c)
  PROVE  MetaPositions(c, i) # {}
<1>1. c \in Seq(FileCells) /\ i \in 1 .. Len(c) /\ c[i][1] \in Obs /\ Len(c) \in Nat
  BY DEF ObsPositions, Readable, OpenFiles
<1>2. c[1] \in Metadata \X {1}
  BY <1>1 DEF OpenFiles
<1>3. c[1][1] \in Metadata /\ c[1][2] = 1
  BY <1>2
<1>4. i # 1 /\ 1 < i /\ 1 \in 1 .. Len(c)
  BY <1>1, <1>3, FileStoreAssumption
<1>5. RecordSize(c[1][1]) = 1
  BY <1>3 DEF RecordSize
<1>6. \A j \in 1 .. 1 : FollowsOn(c, j)
  BY <1>3 DEF FollowsOn
<1>7. 1 \in Readable(c)
  BY <1>1, <1>3, <1>4, <1>5, <1>6 DEF Readable
<1>8. QED
  BY <1>3, <1>4, <1>7 DEF MetaPositions

(* StreamInv holds in every state, whatever fails and wherever a crash      *)
(* falls: the cached metadata of StoreObservation agrees with the file.     *)
THEOREM StreamInvariant == Spec => []StreamInv
<1>1. Init => StreamInv
  BY InitStream
<1>2. StreamInv /\ [Next]_vars => StreamInv'
  BY StreamStep
<1>3. QED
  BY <1>1, <1>2, PTL DEF Spec

(* GetEnvelope never reaches an Observation with current_batch still        *)
(* uninitialized, for any Observations, sizes, limits and faults.           *)
THEOREM NeverUninitialized == Spec => []BatchIsOpen
<1>1. StreamInv => BatchIsOpen
  BY OpenHasBatch DEF StreamInv, DiskOK, BatchIsOpen
<1>2. QED
  BY <1>1, StreamInvariant, PTL
-----------------------------------------------------------------------------
(* A step that finalizes the active file adds no file whose name is taken.  *)
LEMMA FinalizedUntaken ==
  ASSUME StreamInv, NEW base, NEW s,
         base = NoFile \/ base \in OpenFiles,
         s = NoStream \/ s \in OpenFiles,
         s # NoStream => base # NoFile,
         NEW r \in FinalizeActiveFile(base, s, finalized, finalized_bytes)
  PROVE  files_taken \cap DOMAIN r.finalized \subseteq files_taken \cap DOMAIN finalized
<1>1. DOMAIN r.finalized \subseteq DOMAIN finalized \cup GenerateFilename(finalized)
  BY FinalizeOpen DEF StreamInv, DiskOK
<1>2. GenerateFilename(finalized) \cap files_taken = {}
  BY DEF GenerateFilename
<1>3. QED
  BY <1>1, <1>2

LEMMA TakenStep ==
  ASSUME StreamInv, TakenIsHeld, [Next]_vars
  PROVE  TakenIsHeld'
<1> DEFINE bad == {"delete", "undeleted"}
<1>0. DiskOK /\ StreamOK /\ HolderOK
  BY DEF StreamInv
<1>1. ASSUME files_taken' = files_taken, holder' = holder, faulted \subseteq faulted',
             files_taken \cap DOMAIN finalized' \subseteq files_taken \cap DOMAIN finalized
      PROVE  TakenIsHeld'
  BY <1>1 DEF TakenIsHeld
<1>2. ASSUME files_taken' = {} PROVE TakenIsHeld'
  BY <1>2 DEF TakenIsHeld
<1>3. CASE UNCHANGED vars
  BY <1>1, <1>3 DEF vars, disk, fields, history
<1>4. ASSUME NEW o \in Obs,
             StoreDisabled(o) \/ StoreCannotOpen(o) \/ StoreRefused(o) \/ StoreWriteFails(o)
      PROVE  TakenIsHeld'
  BY <1>1, <1>4 DEF StoreDisabled, StoreCannotOpen, StoreRefused, StoreWriteFails, Note, disk, fields
<1>5. ASSUME NEW o \in Obs, StoreObservation(o)
      PROVE  TakenIsHeld'
  <2>1. files_taken' = files_taken /\ holder' = holder
    BY <1>5 DEF StoreObservation
  <2>2. CASE finalized' = finalized /\ faulted' = faulted
    BY <1>1, <2>1, <2>2
  <2>3. ASSUME NEW r \in FinalizeActiveFile(IF active = NoFile THEN << >> ELSE active,
                                            NowWritten(o), finalized, finalized_bytes),
               Finalized(r), faulted' = faulted \cup r.faults
        PROVE  TakenIsHeld'
    <3> DEFINE base == IF active = NoFile THEN << >> ELSE active
    <3>1. << >> \in OpenFiles
      BY DEF OpenFiles
    <3>2. base \in OpenFiles /\ base # NoFile
      BY <1>0, <3>1, OpenIsNotNone DEF DiskOK
    <3>3. NowWritten(o) \in OpenFiles
      BY <1>1, NowWrittenOpen
    <3>4. r \in FinalizeActiveFile(base, NowWritten(o), finalized, finalized_bytes)
      BY <2>3
    <3> HIDE DEF base
    <3>5. files_taken \cap DOMAIN r.finalized \subseteq files_taken \cap DOMAIN finalized
      BY <3>2, <3>3, <3>4, FinalizedUntaken
    <3>6. QED
      BY <1>1, <2>1, <2>3, <3>5 DEF Finalized
  <2>4. QED
    BY <1>5, <2>2, <2>3 DEF StoreObservation, Note
<1>6. CASE TakeNextEnvelopeHolder
  <2>1. TakenIsHeld => (faulted \cap bad = {} => files_taken \cap DOMAIN finalized = {})
    BY <1>6 DEF TakenIsHeld, TakeNextEnvelopeHolder
  <2>2. ASSUME NEW n \in FileNames, Take(n), faulted \subseteq faulted',
               files_taken \cap DOMAIN finalized' \subseteq files_taken \cap DOMAIN finalized
        PROVE  TakenIsHeld'
    <3>0. holder' \in [file : FileNames, sent : BOOLEAN]
      BY <2>2 DEF Take
    <3>1. holder' # NoHolder /\ holder'.file = n
      BY <2>2, <3>0, FileStoreAssumption DEF Take
    <3>2. faulted' \cap bad = {} => files_taken' \cap DOMAIN finalized' \subseteq {n}
      BY <2>1, <2>2 DEF Take
    <3>3. QED
      BY <3>1, <3>2 DEF TakenIsHeld
  <2>3. CASE \E n \in GetOldestFinalizedFile(finalized) : Take(n) /\ UNCHANGED <<disk, faulted>>
    <3>1. PICK n \in GetOldestFinalizedFile(finalized) : Take(n) /\ UNCHANGED <<disk, faulted>>
      BY <2>3
    <3>2. n \in FileNames
      BY <1>0 DEF GetOldestFinalizedFile, Untaken, DiskOK
    <3>3. QED
      BY <2>2, <3>1, <3>2 DEF disk
  <2>4. ASSUME NEW r \in FinalizeActiveFile(active, stream, finalized, finalized_bytes),
               Finalized(r), faulted' = faulted \cup r.faults,
               \/ \E n \in GetOldestFinalizedFile(r.finalized) : Take(n)
               \/ UNCHANGED <<files_taken, holder>>
        PROVE  TakenIsHeld'
    <3>1. /\ files_taken \cap DOMAIN r.finalized \subseteq files_taken \cap DOMAIN finalized
          /\ DOMAIN r.finalized \subseteq FileNames /\ finalized' = r.finalized
      BY <1>0, <2>4, FinalizedUntaken, FinalizeOpen DEF DiskOK, StreamOK, Finalized
    <3>2. CASE UNCHANGED <<files_taken, holder>>
      BY <1>1, <2>4, <3>1, <3>2
    <3>3. ASSUME NEW n \in GetOldestFinalizedFile(r.finalized), Take(n)
          PROVE  TakenIsHeld'
      BY <2>2, <2>4, <3>1, <3>3 DEF GetOldestFinalizedFile, Untaken
    <3>4. QED
      BY <2>4, <3>2, <3>3
  <2>5. QED
    BY <1>6, <2>3, <2>4 DEF TakeNextEnvelopeHolder, Note
<1>7. CASE Upload
  <2>1. holder' # NoHolder /\ holder'.file = holder.file
    BY <1>0, <1>7, FileStoreAssumption DEF Upload, HolderOK
  <2>2. QED
    BY <1>7, <2>1 DEF Upload, TakenIsHeld, disk, fields
<1>8. CASE ReturnEnvelopeHolder
  BY <1>8 DEF ReturnEnvelopeHolder, TakenIsHeld, disk, history
<1>9. CASE DestroyHolder
  <2>1. CASE finalized' = Without(finalized, {holder.file}) /\ UNCHANGED faulted
    <3>1. DOMAIN finalized' = DOMAIN finalized \ {holder.file}
      BY <2>1 DEF Without
    <3>2. QED
      BY <1>9, <2>1, <3>1 DEF DestroyHolder, TakenIsHeld
  <2>2. CASE "delete" \in faulted'
    BY <2>2 DEF TakenIsHeld
  <2>3. QED
    BY <1>9, <2>1, <2>2 DEF DestroyHolder, DeleteHeldFile
<1>10. CASE DeleteData \/ Crash \/ CrashInDeleteData
  BY <1>2, <1>10 DEF DeleteData, Crash, CrashInDeleteData, Construct
<1>11. CASE \E b \in BOOLEAN : Disable(b)
  BY <1>1, <1>11 DEF Disable, disk, fields, history
<1>12. QED
  BY <1>3, <1>4, <1>5, <1>6, <1>7, <1>8, <1>9, <1>10, <1>11 DEF Next

(* As long as every file that is to be deleted is deleted, a finalized file *)
(* marked as taken is in the hands of the holder that is out.               *)
THEOREM TakenFilesAreHeld == Spec => []TakenIsHeld
<1>1. Init => TakenIsHeld
  BY DEF Init, TakenIsHeld
<1>2. StreamInv /\ TakenIsHeld /\ [Next]_vars => TakenIsHeld'
  BY TakenStep
<1>3. QED
  BY <1>1, <1>2, StreamInvariant, PTL DEF Spec
=============================================================================
