------------------------ MODULE FileObservationStore ------------------------
(***************************************************************************)
(* src/src/observation_store/file_observation_store.cc: Observations are   *)
(* appended to an active file, which is finalized (renamed) when it is big *)
(* enough, and finalized files are taken one at a time to be uploaded.     *)
(*                                                                         *)
(* Every operation holds the store's lock from start to end, so it is one  *)
(* action; its file system calls may fail when Faults lets them, and the   *)
(* process may crash.  A file is a sequence of cells: a metadata record is *)
(* one cell, an Observation ObsSize[o] cells, so that a cell stands for    *)
(* one unit of size, a record may be torn and an old file may be partly    *)
(* overwritten.                                                            *)
(***************************************************************************)
EXTENDS Integers, Sequences, FiniteSetsExt

CONSTANTS Obs, Metadata,
          Meta,             \* metadata of each Observation
          ObsSize,          \* size of each Observation
          max_bytes_per_observation, max_bytes_per_envelope, max_bytes_total,
          MaxFile,          \* names of finalized files: 1 .. MaxFile
          Word,             \* size_t counts modulo Word
          Faults,           \* what may go wrong
          MaxFaults,        \* bound: how many kinds of fault one run may meet
          NoFile, NoStream, NoMeta, NoHolder

FaultKinds == {"open", "write", "flush", "rename", "delete", "undeleted", "crash"}
FileNames == 1 .. MaxFile
FileCells == (Obs \cup Metadata) \X (Nat \ {0})

ASSUME FileStoreAssumption ==
  /\ Meta \in [Obs -> Metadata]
  /\ ObsSize \in [Obs -> Nat \ {0}]
  /\ Faults \subseteq FaultKinds
  /\ Obs \cap Metadata = {} /\ NoMeta \notin Metadata
  /\ NoFile \notin Seq(FileCells) /\ NoStream \notin Seq(FileCells)
  /\ NoHolder \notin [file : FileNames, sent : BOOLEAN]
  /\ MaxFile \in Nat /\ Word \in Nat \ {0}
  /\ max_bytes_per_observation <= max_bytes_per_envelope
  /\ max_bytes_per_envelope <= max_bytes_total

VARIABLES
  finalized,        \* finalized files on disk: name -> cells
  active,           \* in_progress.data on disk, without what `stream` wrote
  stream,           \* cells written through active_file, or NoStream
  failed,           \* a write through active_file has failed
  dropped,          \* cells that active_file took since, and will not write
  current_meta,     \* last_written_metadata, NoMeta if ~metadata_written
  files_taken,
  finalized_bytes,
  holder,           \* the FileEnvelopeHolder that is out, or NoHolder
  is_disabled,
  tried,            \* history: Observations passed to StoreObservation
  owed,             \* history: those that got kOk and must still be there
  uploads,          \* history: how often each was uploaded, up to 2
  faulted           \* history: what has gone wrong, a failed open apart

disk == <<finalized, active>>
fields == <<stream, failed, dropped, current_meta, files_taken, finalized_bytes>>
history == <<tried, owed, uploads, faulted>>
vars == <<disk, fields, holder, is_disabled, history>>
-----------------------------------------------------------------------------
(* Cells and files.                                                         *)
Cells(o) == [k \in 1 .. ObsSize[o] |-> <<o, k>>]
MetaCell(m) == <<m, 1>>
RecordSize(r) == IF r \in Metadata THEN 1 ELSE ObsSize[r]

(* Writing cells over a file from its start, as the stream does: the file   *)
(* is opened without O_TRUNC.                                               *)
Overwrite(old, new) ==
  IF Len(new) >= Len(old) THEN new ELSE new \o SubSeq(old, Len(new) + 1, Len(old))

Prefixes(cells) == {SubSeq(cells, 1, n) : n \in 0 .. Len(cells)}

(* Cell i continues, or follows the end of, the record before it.           *)
FollowsOn(cells, i) ==
  IF cells[i][2] = 1
  THEN i = 1 \/ cells[i - 1][2] = RecordSize(cells[i - 1][1])
  ELSE i > 1 /\ cells[i - 1] = <<cells[i][1], cells[i][2] - 1>>

(* GetEnvelope reads records until the first one that does not parse.       *)
Readable(cells) ==
  {i \in 1 .. Len(cells) :
     /\ cells[i][2] = 1
     /\ LET end == i + RecordSize(cells[i][1]) - 1
        IN  end <= Len(cells) /\ \A j \in 1 .. end : FollowsOn(cells, j)}

MetaPositions(cells, i) == {j \in Readable(cells) : j < i /\ cells[j][1] \in Metadata}

ObsPositions(cells) == {i \in Readable(cells) : cells[i][1] \in Obs}

(* The Observations of the Envelope, each with the metadata of its batch:   *)
(* the last metadata record read before it, NoMeta if there was none.       *)
GetEnvelope(cells) ==
  {<<cells[i][1], IF MetaPositions(cells, i) = {} THEN NoMeta
                  ELSE cells[Max(MetaPositions(cells, i))][1]>> : i \in ObsPositions(cells)}

ObsIn(cells) == {cells[i][1] : i \in ObsPositions(cells)}

(* Observations any of whose cells are in the file.                         *)
Touched(cells) == {cells[i][1] : i \in 1 .. Len(cells)} \cap Obs

ByteCount == IF stream = NoStream THEN 0 ELSE Len(stream) + dropped
Size == (finalized_bytes + ByteCount) % Word
Empty == Size = 0

(* The faults that may happen next.                                         *)
Possible == {k \in Faults : k \in faulted \/ Cardinality(faulted) < MaxFaults}

ActiveCells == (IF active = NoFile THEN {} ELSE Touched(active))
               \cup (IF stream = NoStream THEN {} ELSE Touched(stream))

TotalSize(files) == MapThenSumSet(LAMBDA f : Len(files[f]), DOMAIN files)

(* What in_progress.data may hold after the stream is gone: everything the  *)
(* stream wrote if its last flush worked, otherwise some part of it.        *)
Written(base, s) == IF s = NoStream THEN {base} ELSE {Overwrite(base, p) : p \in Prefixes(s)}
FullyWritten(base, s) == IF s = NoStream THEN base ELSE Overwrite(base, s)

Closed(base, s) ==
  IF "flush" \in Possible THEN Written(base, s) ELSE {FullyWritten(base, s)}
-----------------------------------------------------------------------------
Init ==
  /\ finalized = << >> /\ active = NoFile
  /\ stream = NoStream /\ failed = FALSE /\ dropped = 0 /\ current_meta = NoMeta
  /\ files_taken = {} /\ finalized_bytes = 0
  /\ holder = NoHolder /\ is_disabled = FALSE
  /\ tried = {} /\ owed = {}
  /\ uploads = [o \in Obs |-> 0] /\ faulted = {}

(* A file name is a timestamp and a random number: any name that is not in  *)
(* use, older or newer than the others since the clock may be set back.     *)
GenerateFilename(files) ==
  {n \in FileNames \ (DOMAIN files \cup files_taken) : holder = NoHolder \/ holder.file # n}

(* FinalizeActiveFile on the store with in_progress.data `base`, stream `s`,*)
(* finalized files `files` and finalized_bytes `bytes`: the possible        *)
(* outcomes.  A file whose name was not changed stays where it is.          *)
FinalizeActiveFile(base, s, files, bytes) ==
  UNION {LET late == IF c = FullyWritten(base, s) THEN {} ELSE {"flush"}
             out(ok, a, fs, b, why) ==
               [ok |-> ok, active |-> a, finalized |-> fs, bytes |-> b,
                faults |-> late \cup why]
             renamed(n) == [f \in DOMAIN files \cup {n} |-> IF f = n THEN c ELSE files[f]]
         IN  IF c = NoFile THEN {out(FALSE, NoFile, files, bytes, {})}
             ELSE IF c = << >>
             THEN {out(FALSE, NoFile, files, bytes, {})}
                  \cup {out(FALSE, c, files, bytes, {k}) : k \in {"delete"} \cap Possible}
             ELSE {out(TRUE, NoFile, renamed(n), (bytes + Len(c)) % Word, {}) :
                     n \in GenerateFilename(files)}
                  \cup {out(FALSE, c, files, bytes, {k}) : k \in {"rename"} \cap Possible}
         : c \in Closed(base, s)}

(* Mutant: metadata_written stays true.                                     *)
FinalizedKeepingMetadata(r) ==
  /\ active' = r.active /\ finalized' = r.finalized /\ finalized_bytes' = r.bytes
  /\ stream' = NoStream /\ failed' = FALSE /\ dropped' = 0 /\ UNCHANGED current_meta

(* The store after FinalizeActiveFile had outcome r: active_file is null    *)
(* and metadata_written false whatever happened to the file.                *)
Finalized(r) ==
  /\ active' = r.active /\ finalized' = r.finalized /\ finalized_bytes' = r.bytes
  /\ stream' = NoStream /\ failed' = FALSE /\ dropped' = 0 /\ current_meta' = NoMeta

(* A fault costs at most what was in the active file.                       *)
Note(faults, acked, atRisk) ==
  /\ faulted' = faulted \cup faults
  /\ owed' = IF faults \ {"delete"} = {} THEN acked ELSE acked \ atRisk
-----------------------------------------------------------------------------
(* StoreObservation, one action per way out.                                *)
(* Mutant: every call opens the active file again.                          *)
openedAnew == << >>

opened == IF stream = NoStream THEN << >> ELSE stream
GetActiveFile == active' = IF active = NoFile THEN << >> ELSE active

WouldOverflow(o) == (finalized_bytes + Len(opened) + dropped + ObsSize[o]) % Word > max_bytes_total

(* Mutant: a file gets one metadata record.                                 *)
NeedsMetadataOnce(o) == current_meta = NoMeta

NeedsMetadata(o) == current_meta # Meta[o]

WithRecords(o) ==
  opened \o (IF NeedsMetadata(o) THEN <<MetaCell(Meta[o])>> ELSE << >>) \o Cells(o)

Try(o) == o \notin tried /\ tried' = tried \cup {o}

StoreDisabled(o) ==
  /\ Try(o) /\ is_disabled
  /\ UNCHANGED <<disk, fields, holder, is_disabled, owed, uploads, faulted>>

StoreCannotOpen(o) ==
  /\ Try(o) /\ ~is_disabled
  /\ stream = NoStream /\ "open" \in Faults
  /\ UNCHANGED <<disk, fields, holder, is_disabled, owed, uploads, faulted>>

(* kObservationTooBig or kStoreFull: the active file has been opened.       *)
StoreRefused(o) ==
  /\ Try(o) /\ ~is_disabled
  /\ ObsSize[o] > max_bytes_per_observation \/ WouldOverflow(o)
  /\ GetActiveFile /\ stream' = opened
  /\ UNCHANGED <<finalized, failed, dropped, current_meta, files_taken, finalized_bytes,
                 holder, is_disabled, owed, uploads, faulted>>

Accepts(o) ==
  /\ Try(o) /\ ~is_disabled
  /\ ObsSize[o] <= max_bytes_per_observation /\ ~WouldOverflow(o)

(* kWriteFailed: once a write has failed the stream drops what it had not   *)
(* flushed, and later writes may fail too.  metadata_written is set if it   *)
(* was the Observation's write that failed.                                 *)
StoreWriteFails(o) ==
  /\ Accepts(o)
  /\ GetActiveFile /\ failed' = TRUE
  /\ \/ failed /\ UNCHANGED <<stream, owed, faulted, current_meta>>
     \/ /\ ~failed /\ "write" \in Possible
        /\ stream' \in Prefixes(WithRecords(o)) \ {WithRecords(o)}
        /\ current_meta' \in {current_meta, Meta[o]}
        /\ Note({"write"}, owed, ActiveCells)
  /\ UNCHANGED <<finalized, dropped, files_taken, finalized_bytes, holder, is_disabled,
                 uploads>>

(* What has been written after both writes succeeded: a stream that failed  *)
(* before may still take records into its buffer, and never writes them.    *)
NowWritten(o) == IF failed THEN stream ELSE WithRecords(o)
NewByteCount(o) == Len(WithRecords(o)) + dropped
NowAcked(o) == IF failed THEN owed ELSE owed \cup {o}

(* Both writes succeed: kOk, unless the file is due and cannot be finalized.*)
StoreObservation(o) ==
  /\ Accepts(o)
  /\ \/ /\ NewByteCount(o) < max_bytes_per_envelope
        /\ GetActiveFile /\ stream' = NowWritten(o) /\ current_meta' = Meta[o]
        /\ dropped' = NewByteCount(o) - Len(NowWritten(o))
        /\ owed' = NowAcked(o)
        /\ UNCHANGED <<finalized, failed, finalized_bytes, faulted>>
     \/ /\ NewByteCount(o) >= max_bytes_per_envelope
        /\ \E r \in FinalizeActiveFile(IF active = NoFile THEN << >> ELSE active,
                                       NowWritten(o), finalized, finalized_bytes) :
             /\ Finalized(r)
             /\ Note(r.faults, IF r.ok THEN NowAcked(o) ELSE owed, ActiveCells \cup {o})
  /\ UNCHANGED <<files_taken, holder, is_disabled, uploads>>
-----------------------------------------------------------------------------
Untaken(files) == DOMAIN files \ files_taken

GetOldestFinalizedFile(files) == {n \in Untaken(files) : \A k \in Untaken(files) : n <= k}

Take(n) ==
  /\ files_taken' = files_taken \cup {n}
  /\ holder' = [file |-> n, sent |-> FALSE]

(* TakeNextEnvelopeHolder: the oldest finalized file that is not taken, or  *)
(* the active file, finalized now.  ShippingManager, the one caller, has at *)
(* most one holder.                                                         *)
TakeNextEnvelopeHolder ==
  /\ holder = NoHolder
  /\ \/ /\ \E n \in GetOldestFinalizedFile(finalized) : Take(n)
        /\ UNCHANGED <<disk, stream, failed, dropped, current_meta, finalized_bytes, owed,
                       faulted>>
     \/ /\ Untaken(finalized) = {} /\ ByteCount > 0
        /\ \E r \in FinalizeActiveFile(active, stream, finalized, finalized_bytes) :
             /\ Finalized(r)
             /\ Note(r.faults, owed, ActiveCells)
             /\ \/ r.ok /\ \E n \in GetOldestFinalizedFile(r.finalized) : Take(n)
                \/ ~r.ok /\ UNCHANGED <<files_taken, holder>>
  /\ UNCHANGED <<is_disabled, tried, uploads>>

(* The shipping manager uploads the holder's Envelope.  A file that was     *)
(* deleted meanwhile reads as an empty Envelope.                            *)
Upload ==
  /\ holder # NoHolder /\ ~holder.sent
  /\ holder' = [holder EXCEPT !.sent = TRUE]
  /\ LET sent == IF holder.file \in DOMAIN finalized THEN ObsIn(finalized[holder.file]) ELSE {}
     IN  /\ uploads' = [o \in Obs |-> IF o \in sent /\ uploads[o] < 2 THEN uploads[o] + 1
                                      ELSE uploads[o]]
         /\ owed' = owed \ sent
  /\ UNCHANGED <<disk, fields, is_disabled, tried, faulted>>

(* Mutant: the file stays taken.                                            *)
ReturnEnvelopeHolderTaken ==
  /\ holder # NoHolder /\ ~holder.sent
  /\ holder' = NoHolder
  /\ UNCHANGED <<disk, fields, is_disabled, history>>

ReturnEnvelopeHolder ==
  /\ holder # NoHolder /\ ~holder.sent
  /\ holder' = NoHolder /\ files_taken' = files_taken \ {holder.file}
  /\ UNCHANGED <<disk, stream, failed, dropped, current_meta, finalized_bytes, is_disabled,
                 history>>

Without(files, gone) == [f \in DOMAIN files \ gone |-> files[f]]

(* Mutant: finalized_bytes is not reduced.                                  *)
HolderBytesForgotten == 0

HolderBytes == IF holder.file \in DOMAIN finalized THEN Len(finalized[holder.file]) ELSE 0

DeleteHeldFile ==
  \/ finalized' = Without(finalized, {holder.file}) /\ UNCHANGED faulted
  \/ /\ holder.file \in DOMAIN finalized /\ "delete" \in Possible
     /\ faulted' = faulted \cup {"delete"} /\ UNCHANGED finalized

(* Mutant: the name is free again.                                          *)
DestroyHolderUntaking ==
  /\ holder # NoHolder /\ holder.sent
  /\ holder' = NoHolder
  /\ finalized_bytes' = (finalized_bytes - HolderBytes) % Word
  /\ DeleteHeldFile /\ files_taken' = files_taken \ {holder.file}
  /\ UNCHANGED <<active, stream, failed, dropped, current_meta, is_disabled,
                 tried, owed, uploads>>

(* ~FileEnvelopeHolder: the file's size is taken off finalized_bytes, then  *)
(* the file is deleted.  files_taken keeps its name.                        *)
DestroyHolder ==
  /\ holder # NoHolder /\ holder.sent
  /\ holder' = NoHolder
  /\ finalized_bytes' = (finalized_bytes - HolderBytes) % Word
  /\ DeleteHeldFile
  /\ UNCHANGED <<active, stream, failed, dropped, current_meta, files_taken, is_disabled,
                 tried, owed, uploads>>

InFiles(files) == UNION {ObsIn(files[f]) : f \in DOMAIN files}

(* The files that DeleteData may fail to delete.                            *)
Undeleted(names) == IF "undeleted" \in Possible THEN SUBSET names ELSE {{}}

(* DeleteData: finalizes the active file, resets the fields and deletes     *)
(* every file of the directory that lets itself be deleted.                 *)
DeleteData ==
  /\ \E r \in FinalizeActiveFile(active, stream, finalized, finalized_bytes) :
       \E kept \in Undeleted(DOMAIN r.finalized), keep \in BOOLEAN :
         /\ keep => r.active # NoFile /\ "undeleted" \in Possible
         /\ finalized' = Without(r.finalized, DOMAIN r.finalized \ kept)
         /\ active' = IF keep THEN r.active ELSE NoFile
         /\ Note(r.faults \cup (IF kept # {} \/ keep THEN {"undeleted"} ELSE {}), {}, {})
  /\ stream' = NoStream /\ failed' = FALSE /\ dropped' = 0 /\ current_meta' = NoMeta
  /\ files_taken' = {} /\ finalized_bytes' = 0
  /\ UNCHANGED <<holder, is_disabled, tried, uploads>>

Disable(b) ==
  /\ is_disabled # b /\ is_disabled' = b
  /\ UNCHANGED <<disk, fields, holder, history>>

(* The process dies and the store is constructed again on what is on disk:  *)
(* finalized_bytes is counted anew and the active file, if any, finalized.  *)
Construct(base, files, acked) ==
  /\ files_taken' = {} /\ holder' = NoHolder /\ is_disabled' = FALSE
  /\ \E r \in FinalizeActiveFile(base, NoStream, files, TotalSize(files) % Word) :
       Finalized(r) /\ Note(r.faults \cup {"crash"}, acked, ActiveCells)

Crash ==
  /\ "crash" \in Possible
  /\ \E base \in Written(active, stream) : Construct(base, finalized, owed)
  /\ UNCHANGED <<tried, uploads>>

(* The process dies in DeleteData: some of the files are gone.              *)
CrashInDeleteData ==
  /\ "crash" \in Possible
  /\ \E r \in FinalizeActiveFile(active, stream, finalized, finalized_bytes) :
       \E gone \in SUBSET DOMAIN r.finalized :
         \E base \in {r.active, NoFile} :
           Construct(base, Without(r.finalized, gone),
                     owed \ InFiles([f \in gone |-> r.finalized[f]]))
  /\ UNCHANGED <<tried, uploads>>

Next ==
  /\ \/ \E o \in Obs : \/ StoreDisabled(o) \/ StoreCannotOpen(o) \/ StoreRefused(o)
                       \/ StoreWriteFails(o) \/ StoreObservation(o)
     \/ TakeNextEnvelopeHolder \/ Upload \/ ReturnEnvelopeHolder \/ DestroyHolder
     \/ DeleteData \/ Crash \/ CrashInDeleteData
     \/ \E b \in BOOLEAN : Disable(b)
  /\ Cardinality(faulted') <= MaxFaults

Spec == Init /\ [][Next]_vars
-----------------------------------------------------------------------------
(* Files that are empty or start with a metadata record.                    *)
OpenFiles == {c \in Seq(FileCells) : c = << >> \/ c[1] \in Metadata \X {1}}

DiskOK ==
  /\ DOMAIN finalized \subseteq FileNames
  /\ \A f \in DOMAIN finalized : finalized[f] \in OpenFiles
  /\ active = NoFile \/ active \in OpenFiles

StreamOK ==
  /\ stream = NoStream \/ stream \in OpenFiles
  /\ stream # NoStream => active # NoFile
  /\ failed \in BOOLEAN /\ dropped \in Nat
  /\ failed => stream # NoStream
  /\ ~failed => dropped = 0
  /\ current_meta \in Metadata \cup {NoMeta}
  /\ current_meta # NoMeta /\ ~failed => stream # NoStream /\ stream # << >>

HolderOK ==
  /\ files_taken \subseteq FileNames
  /\ holder \in {NoHolder} \cup [file : FileNames, sent : BOOLEAN]
  /\ is_disabled \in BOOLEAN

HistoryOK ==
  /\ owed \subseteq tried /\ tried \subseteq Obs
  /\ uploads \in [Obs -> 0 .. 2] /\ faulted \subseteq FaultKinds

(* Types, and what StoreObservation's caching of the last metadata rests on:*)
(* every file, and whatever a stream has written, starts with a metadata    *)
(* record, and metadata counts as written only while the stream it was      *)
(* written to is open and has not dropped it.                               *)
StreamInv == DiskOK /\ StreamOK /\ HolderOK /\ HistoryOK

(* Whatever fails, GetEnvelope never meets an Observation before the first  *)
(* metadata record of its file: it would append to the uninitialized        *)
(* current_batch.  StoreObservation's caching of the last metadata must     *)
(* start over with every file, whichever call closed the previous one.      *)
BatchIsOpen ==
  \A f \in DOMAIN finalized : \A i \in ObsPositions(finalized[f]) :
    MetaPositions(finalized[f], i) # {}

(* Every Observation is uploaded with its own metadata, unless a failed     *)
(* rename left an old active file for the next stream to write over.        *)
OwnMetadata ==
  "rename" \notin faulted =>
    \A f \in DOMAIN finalized : \A e \in GetEnvelope(finalized[f]) : e[2] = Meta[e[1]]

(* An Observation StoreObservation has said kOk to is in the store until it *)
(* is uploaded or DeleteData is called.  A crash or a failed call costs at  *)
(* most the Observations in the active file, the ones that a stream with a  *)
(* failed write went on to take included.                                   *)
AckedIsKept ==
  \A o \in owed :
    \/ o \in InFiles(finalized)
    \/ stream # NoStream /\ o \in ObsIn(stream)

(* finalized_bytes is the total size of the finalized files, taken ones     *)
(* included, as long as every file that was to be deleted was deleted; so   *)
(* with TakenIsHeld the shipping manager, which asks Empty(), always finds  *)
(* something to take.  The store outgrows max_bytes_total by at most the    *)
(* metadata record that the check of StoreObservation does not count.       *)
AccountingIsExact ==
  /\ finalized_bytes \in 0 .. Word - 1
  /\ faulted \cap {"delete", "undeleted"} = {} => finalized_bytes = TotalSize(finalized)
  /\ faulted \cap {"rename", "delete", "undeleted"} = {} => Size <= max_bytes_total + 1

(* A finalized file is free, or held by the one holder that is out: no path *)
(* through TakeNextEnvelopeHolder, ReturnEnvelopeHolder and DeleteData      *)
(* leaves a file that nobody holds marked as taken.                         *)
TakenIsHeld ==
  faulted \cap {"delete", "undeleted"} = {} =>
    \A f \in files_taken \cap DOMAIN finalized : holder # NoHolder /\ holder.file = f

(* No Observation is uploaded twice by one process, also when the file of   *)
(* an uploaded Envelope could not be deleted: its name stays taken.         *)
UploadedOnce ==
  faulted \cap {"crash", "undeleted"} = {} => \A o \in Obs : uploads[o] <= 1
=============================================================================
