--------------------------------- MODULE Wal ---------------------------------
(***************************************************************************)
(* The write-ahead log of wal.rs as operators on a directory of segments   *)
(* and a writer.                                                           *)
(*                                                                         *)
(* A segment is [header, synced, unsynced, torn]: whether its header is on *)
(* disk; the frames an fsync covers; the frames that are in the BufWriter  *)
(* or the page cache; whether part of a further frame follows. A frame is  *)
(* [seq, rec], rec a command. The position in the sequence of segments is  *)
(* the index in the file name. A writer is [nextSeq, bytes, file], file    *)
(* being FALSE while its segment is being created.                         *)
(***************************************************************************)
EXTENDS Matching

CONSTANT MaxSegmentBytes

ASSUME SegmentAssumption == MaxSegmentBytes \in Nat

HeaderBytes == 8

(* Length and crc, wal_seq, version and type, then the fields of the       *)
(* record: id; side, quantity, kind, timestamp; the price of a priced kind.*)
FrameBytes(rec) ==
  LET common == 8 + 8 + 2 + 8
  IN  IF rec.type = "Cancel" THEN common
      ELSE common + 1 + 8 + 1 + 8 + (IF rec.order.kind = "Market" THEN 0 ELSE 8)

(* The bytes of a segment with these frames.                               *)
SegmentBytes(frames) ==
  LET Upto[n \in Nat] == IF n = 0 THEN HeaderBytes
                         ELSE Upto[n - 1] + FrameBytes(frames[n].rec)
  IN  Upto[Len(frames)]

SegmentLimit == Max({MaxSegmentBytes, 64})

-----------------------------------------------------------------------------
(* Writing                                                                 *)

(* The file exists, its header is not written yet.                         *)
EmptySegment == [header |-> FALSE, synced |-> << >>, unsynced |-> << >>, torn |-> FALSE]

(* commit: flush and fsync the current segment.                            *)
Committed(segs) ==
  [segs EXCEPT ![Len(segs)] =
     [@ EXCEPT !.synced = @ \o segs[Len(segs)].unsynced, !.unsynced = << >>]]

(* Faulty: the record itself is not counted.                               *)
NeedsRotationLate(w, rec) == w.bytes > HeaderBytes /\ w.bytes > SegmentLimit

NeedsRotation(w, rec) ==
  w.bytes > HeaderBytes /\ w.bytes + FrameBytes(rec) > SegmentLimit

(* Faulty: the old segment is left without an fsync.                       *)
RotatedUnsynced(segs) == Append(segs, EmptySegment)

(* rotate: commit, then create the next file.                              *)
Rotated(segs) == Append(Committed(segs), EmptySegment)

(* create_segment: header written and fsynced.                             *)
HeaderSynced(segs) == [segs EXCEPT ![Len(segs)].header = TRUE]

(* append, once the segment is there.                                      *)
FrameAppended(segs, w, rec) ==
  [segs EXCEPT ![Len(segs)].unsynced = Append(@, [seq |-> w.nextSeq, rec |-> rec])]

AfterAppend(w, rec) ==
  [w EXCEPT !.nextSeq = @ + 1, !.bytes = @ + FrameBytes(rec)]

(* open_dir: a new segment after the existing ones, wal_seq starting at 1. *)
OpenedWriter == [nextSeq |-> 1, bytes |-> HeaderBytes, file |-> FALSE]

-----------------------------------------------------------------------------
(* What may be on disk after a crash: the synced frames, up to n of the    *)
(* others, perhaps part of one more, and perhaps a header being written.   *)
Survivor(seg, n, torn, header) ==
  LET kept == Min({n, Len(seg.unsynced)})
  IN  [header   |-> seg.header \/ header,
       synced   |-> seg.synced \o SubSeq(seg.unsynced, 1, kept),
       unsynced |-> << >>,
       torn     |-> seg.torn \/ (torn /\ kept < Len(seg.unsynced))]

-----------------------------------------------------------------------------
(* Reading                                                                 *)

(* WalReader::open fails on a segment without a complete header.           *)
Readable(segs) == \A i \in DOMAIN segs : segs[i].header

(* read_record returns the frames of a segment and takes a torn frame for  *)
(* the end; for_each_record_dir goes on with the next segment.             *)
Frames(segs) ==
  LET Upto[n \in Nat] == IF n = 0 THEN << >> ELSE Upto[n - 1] \o segs[n].synced
  IN  Upto[Len(segs)]

RecordsOf(frames) == [i \in DOMAIN frames |-> frames[i].rec]
=============================================================================
