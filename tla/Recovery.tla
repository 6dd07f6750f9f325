------------------------------ MODULE Recovery -------------------------------
(***************************************************************************)
(* A matcher behind a write-ahead log with group commit and snapshots. The *)
(* discipline is that of the tests and benches, the only callers of the    *)
(* writer: append a batch, commit it, then run it through the matcher;     *)
(* snapshot between batches. After a crash the snapshot is loaded and the  *)
(* tail of the log replayed as in bourse-replay, over the directory with   *)
(* for_each_record_dir (bourse-replay itself reads one segment file), and  *)
(* open_dir opens the directory for writing again.                         *)
(***************************************************************************)
EXTENDS Wal, Snapshot

CONSTANTS
  Commands,    \* commands that may arrive
  MaxAppends,  \* bound: commands appended, over all lives
  MaxOpens     \* bound: starts of the engine, the first included

ASSUME RecoveryAssumption == MaxAppends \in Nat /\ MaxOpens \in Nat

VARIABLES
  segs,            \* the segments on disk
  writer,          \* WalWriter
  snapshot, tmp,   \* the snapshot file and path.tmp
  phase,           \* "down", "running", "snapshotting", or "failed": the
                   \* recovery returned an error
  book, seq,       \* the matcher
  pending,         \* the record append holds while rotate creates a file
  batch,           \* records appended, not yet through the matcher
  committed,       \* whether the batch is committed
  applied,         \* observer: records through the matcher, in all lives
  appends, opens

disk == <<segs, snapshot, tmp>>
matcher == <<book, seq, applied>>
vars == <<disk, writer, phase, matcher, pending, batch, committed, appends, opens>>

NoFile == [orders |-> "no file"]
PartFile == [orders |-> "incomplete"]
NoRecord == [type |-> "none"]

Init ==
  /\ segs = << >> /\ snapshot = NoFile /\ tmp = NoFile
  /\ writer = OpenedWriter
  /\ phase = "down"
  /\ book = NewBook /\ seq = 1 /\ applied = << >>
  /\ pending = NoRecord
  /\ batch = << >> /\ committed = FALSE
  /\ appends = 0 /\ opens = 0

-----------------------------------------------------------------------------
(* The running engine.                                                     *)

(* append, with the rotation it may need first.                            *)
AppendRecord(rec) ==
  /\ phase = "running" /\ writer.file /\ ~committed
  /\ appends < MaxAppends
  /\ appends' = appends + 1
  /\ IF NeedsRotation(writer, rec)
     THEN /\ segs' = Rotated(segs)
          /\ writer' = [writer EXCEPT !.bytes = HeaderBytes, !.file = FALSE]
          /\ pending' = rec
          /\ UNCHANGED batch
     ELSE /\ segs' = FrameAppended(segs, writer, rec)
          /\ writer' = AfterAppend(writer, rec)
          /\ batch' = Append(batch, rec)
          /\ UNCHANGED pending
  /\ UNCHANGED <<snapshot, tmp, phase, matcher, committed, opens>>

(* create_segment returns; the append that rotated goes on.                *)
SegmentCreated ==
  /\ phase = "running" /\ ~writer.file
  /\ IF pending = NoRecord
     THEN /\ segs' = HeaderSynced(segs)
          /\ writer' = [writer EXCEPT !.file = TRUE]
          /\ UNCHANGED batch
     ELSE /\ segs' = FrameAppended(HeaderSynced(segs), writer, pending)
          /\ writer' = AfterAppend([writer EXCEPT !.file = TRUE], pending)
          /\ batch' = Append(batch, pending)
  /\ pending' = NoRecord
  /\ UNCHANGED <<snapshot, tmp, phase, matcher, committed, appends, opens>>

Commit ==
  /\ phase = "running" /\ writer.file
  /\ batch # << >> /\ ~committed
  /\ segs' = Committed(segs)
  /\ committed' = TRUE
  /\ UNCHANGED <<snapshot, tmp, writer, phase, matcher, pending, batch, appends, opens>>

(* One record of the committed batch goes through the matcher, and its     *)
(* events to the clients.                                                  *)
Apply ==
  /\ phase = "running" /\ committed
  /\ LET call == Process(book, seq, Head(batch))
     IN  book' = call.book /\ seq' = call.seq
  /\ applied' = Append(applied, Head(batch))
  /\ batch' = Tail(batch)
  /\ committed' = (Len(batch) > 1)
  /\ UNCHANGED <<disk, writer, phase, pending, appends, opens>>

(* snapshot::write removes a stale path.tmp and fills a new one; the       *)
(* matcher waits.                                                          *)
SnapshotBegin ==
  /\ phase = "running" /\ writer.file /\ batch = << >>
  /\ phase' = "snapshotting"
  /\ tmp' = PartFile
  /\ UNCHANGED <<segs, snapshot, writer, matcher, pending, batch, committed, appends, opens>>

(* The marker: the last wal_seq whose record the book contains.            *)
WalMarker == writer.nextSeq - 1

SnapshotSync ==
  /\ phase = "snapshotting" /\ tmp = PartFile
  /\ tmp' = SnapshotOf(book, seq, WalMarker)
  /\ UNCHANGED <<segs, snapshot, writer, phase, matcher, pending, batch, committed, appends, opens>>

SnapshotRename ==
  /\ phase = "snapshotting" /\ tmp # PartFile
  /\ snapshot' = tmp
  /\ tmp' = NoFile
  /\ phase' = "running"
  /\ UNCHANGED <<segs, writer, matcher, pending, batch, committed, appends, opens>>

-----------------------------------------------------------------------------
(* A crash at any point; only what is on disk remains.                     *)
Crash ==
  /\ phase \in {"running", "snapshotting"}
  /\ phase' = "down"
  /\ \E n \in 0 .. MaxAppends, torn, header \in BOOLEAN :
       segs' = [i \in DOMAIN segs |-> Survivor(segs[i], n, torn, header)]
  /\ book' = NewBook /\ seq' = 1
  /\ pending' = NoRecord /\ batch' = << >> /\ committed' = FALSE
  /\ writer' = OpenedWriter
  /\ UNCHANGED <<snapshot, tmp, applied, appends, opens>>

(* As bourse-replay: a matcher from the snapshot, or a new one.               *)
Loaded ==
  IF snapshot = NoFile THEN [book |-> NewBook, seq |-> 1]
  ELSE [book |-> SnapshotBook(snapshot), seq |-> StartingAt(snapshot.matcherSeq)]

SkipMarker == IF snapshot = NoFile THEN 0 ELSE snapshot.walSeq

ReplayRecord(m, rec) ==
  LET call == Process(m.book, m.seq, rec) IN [book |-> call.book, seq |-> call.seq]

(* Faulty: the record the marker names is replayed again.                  *)
SkippedBefore(frame, marker) == frame.seq < marker

Skipped(frame, marker) == frame.seq <= marker

ReplayFrame(m, frame, marker) ==
  IF Skipped(frame, marker) THEN m ELSE ReplayRecord(m, frame.rec)

Replayed(m, frames, marker) ==
  LET After[n \in Nat] == IF n = 0 THEN m
                          ELSE ReplayFrame(After[n - 1], frames[n], marker)
  IN  After[Len(frames)]

(* for_each_record_dir into the loaded matcher, then open_dir.             *)
Recover ==
  /\ phase = "down" /\ opens < MaxOpens
  /\ opens' = opens + 1
  /\ IF Readable(segs)
     THEN LET m == Replayed(Loaded, Frames(segs), SkipMarker)
          IN  /\ phase' = "running"
              /\ book' = m.book /\ seq' = m.seq
              /\ segs' = Append(segs, EmptySegment)
              /\ applied' = RecordsOf(Frames(segs))
     ELSE /\ phase' = "failed"
          /\ UNCHANGED <<segs, matcher>>
  /\ UNCHANGED <<snapshot, tmp, writer, pending, batch, committed, appends>>

Next ==
  \/ \E rec \in Commands : AppendRecord(rec)
  \/ SegmentCreated \/ Commit \/ Apply
  \/ SnapshotBegin \/ SnapshotSync \/ SnapshotRename
  \/ Crash \/ Recover

Spec == Init /\ [][Next]_vars

-----------------------------------------------------------------------------
(* Properties                                                              *)

(* "Every state-changing op is durable in the WAL before it is             *)
(* acknowledged": what went through the matcher, in this life or an        *)
(* earlier one, is in the synced part of the log, in order, whatever       *)
(* rotations and crashes came between.                                     *)
AckedIsDurable ==
  LET durable == RecordsOf(Frames(segs))
  IN  Len(applied) <= Len(durable) /\ applied = SubSeq(durable, 1, Len(applied))

(* A fresh matcher after these records.                                   *)
FullReplay(recs) ==
  LET After[n \in Nat] == IF n = 0 THEN [book |-> NewBook, seq |-> 1]
                          ELSE ReplayRecord(After[n - 1], recs[n])
  IN  After[Len(recs)]

(* Byte-exact recovery: the matcher that runs, live or recovered from a    *)
(* snapshot and the tail, is in the state of a fresh matcher that replays  *)
(* every record, sequence numbers included ("a snapshot at sequence S plus *)
(* the WAL records with sequence > S together fully reconstruct the        *)
(* engine's state").                                                       *)
LiveIsReplay ==
  phase = "running" => [book |-> book, seq |-> seq] = FullReplay(applied)

(* append rolls over in time: no segment outgrows its limit.               *)
SegmentsBounded ==
  \A i \in DOMAIN segs :
    SegmentBytes(segs[i].synced \o segs[i].unsynced) <= SegmentLimit

(* The module documentation: "a partial trailing write (from a crash       *)
(* mid-append) is tolerated as truncation rather than corrupting the whole *)
(* segment". A crash in an append that rotates is one too: a replay fails  *)
(* only if there is no record to replay.                                   *)
CrashTolerated == phase = "failed" => Frames(segs) = << >>
=============================================================================
