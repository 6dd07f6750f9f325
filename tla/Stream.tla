------------------------------- MODULE Stream -------------------------------
(***************************************************************************)
(* A stream of encoded messages and its reader, byte by byte. One medium   *)
(* is chosen at the start:                                                 *)
(*   "client"  commands on a socket, read by reader_loop;                  *)
(*   "server"  execution events on a socket, written by writer_loop, read  *)
(*             by read_one_server_message;                                 *)
(*   "wal"     a segment file, appended to and committed by WalWriter,     *)
(*             read by WalReader after a crash.                            *)
(* A socket delivers its bytes in pieces of any size and may be closed     *)
(* with any suffix missing. A crash keeps of a file at least the committed *)
(* bytes and any prefix of the others, and may leave zeros after them; in  *)
(* a file without such zeros a byte may be found damaged.                  *)
(***************************************************************************)
EXTENDS Codec, FiniteSets

CONSTANTS
  ClientMessages, ServerMessages,  \* the messages that are sent
  MaxMessages,                     \* bound on the messages of a stream
  ZeroTails,                       \* numbers of zeros a crash may leave
  Flips                            \* what damage may add to a byte

VARIABLES
  medium,
  sent,        \* the messages encoded so far
  ends,        \* ends[i]: the stream's length when message i was encoded
  stream,      \* the bytes
  synced,      \* the bytes commit has made durable
  arrived,     \* the bytes the reader can see
  closed,      \* no byte will follow
  intact,      \* the bytes of the original stream that are left
  damagedAt,   \* the position of the damaged byte, 0 if there is none
  pos,         \* the bytes the reader has consumed
  delivered,   \* the messages the reader has handed on
  state        \* "opening", "reading", "ended" (Ok) or "failed" (Err)

vars == <<medium, sent, ends, stream, synced, arrived, closed, intact, damagedAt,
          pos, delivered, state>>

writerVars == <<sent, ends, stream, synced>>
mediumVars == <<arrived, closed, intact, damagedAt>>
readerVars == <<pos, delivered, state>>

-----------------------------------------------------------------------------
(* WAL frames                                                              *)

Magic == <<77, 88, 67, 87>>
SegmentVersion == 2
SegmentHeader == Magic \o <<SegmentVersion, 0, 0, 0>>

(* External: crc32c. Any function that tells the sequences apart that one  *)
(* fault can confuse will do; of no bytes it is 0, as CRC32C is.           *)
Crc(bytes) == FoldLeft(LAMBDA c, b : (c * 31 + b + 1) % 65521, 0, bytes)

Payload(r) == U64(r.seq) \o EncodeRecord(r.record)

Frame(r) == U32(Len(Payload(r))) \o U32(Crc(Payload(r))) \o Payload(r)

FrameHeader == 2 * LenBytes

-----------------------------------------------------------------------------
Init ==
  /\ medium \in {"client", "server", "wal"}
  /\ sent = << >> /\ ends = << >> /\ delivered = << >>
  /\ stream = IF medium = "wal" THEN SegmentHeader ELSE << >>
  /\ synced = Len(stream)
  /\ arrived = 0 /\ pos = 0
  /\ closed = FALSE
  /\ intact = 0 /\ damagedAt = 0
  /\ state = IF medium = "wal" THEN "opening" ELSE "reading"

(* Writing: a message encoded at the end of the stream.                    *)
Put(message, bytes) ==
  /\ ~closed /\ Len(sent) < MaxMessages
  /\ sent' = Append(sent, message)
  /\ stream' = stream \o bytes
  /\ ends' = Append(ends, Len(stream'))
  /\ UNCHANGED <<medium, synced, mediumVars, readerVars>>

SendCommand(m) == medium = "client" /\ Put(m, EncodeClient(m))

SendEvent(e) == medium = "server" /\ Put(e, EncodeServer(e))

AppendRecord(m) ==
  LET r == [seq |-> Len(sent) + 1, record |-> m]
  IN  medium = "wal" /\ Put(r, Frame(r))

Commit ==
  /\ medium = "wal" /\ ~closed /\ synced < Len(stream)
  /\ synced' = Len(stream)
  /\ UNCHANGED <<medium, sent, ends, stream, mediumVars, readerVars>>

(* The medium.                                                             *)
Arrive ==
  /\ medium # "wal" /\ arrived < Len(stream)
  /\ arrived' \in arrived + 1 .. Len(stream)
  /\ UNCHANGED <<medium, writerVars, closed, intact, damagedAt, readerVars>>

Close ==
  /\ medium # "wal" /\ ~closed
  /\ closed' = TRUE
  /\ intact' \in arrived .. Len(stream)
  /\ stream' = SubSeq(stream, 1, intact')
  /\ UNCHANGED <<medium, sent, ends, synced, arrived, damagedAt, readerVars>>

Crash ==
  /\ medium = "wal" /\ ~closed
  /\ closed' = TRUE
  /\ intact' \in synced .. Len(stream)
  /\ \E zeros \in ZeroTails :
       stream' = SubSeq(stream, 1, intact') \o [i \in 1 .. zeros |-> 0]
  /\ arrived' = Len(stream')
  /\ UNCHANGED <<medium, sent, ends, synced, damagedAt, readerVars>>

Damage ==
  /\ medium = "wal" /\ closed /\ state = "opening" /\ damagedAt = 0
  /\ Len(stream) = intact
  /\ \E i \in 1 .. intact, flip \in Flips :
       /\ damagedAt' = i
       /\ stream' = [stream EXCEPT ![i] = (@ + flip) % ByteBase]
  /\ UNCHANGED <<medium, sent, ends, synced, arrived, closed, intact, readerVars>>

-----------------------------------------------------------------------------
(* Reading. read_exact waits for its bytes, or for the end of the stream.  *)

Left == arrived - pos

(* Faulty: read_exact waits for a byte too many.                           *)
ReadyBeyond(n) == Left > n

Ready(n) == Left >= n
AtEof == closed /\ arrived = Len(stream)
Piece(from, n) == SubSeq(stream, from + 1, from + n)

Finish(how) == state' = how /\ UNCHANGED <<pos, delivered>>

Deliver(message, next) ==
  /\ delivered' = Append(delivered, message)
  /\ pos' = next
  /\ UNCHANGED state

(* The client's frames are commands, the server's are events.              *)
Decoded(body) ==
  IF medium = "client" THEN DecodeClient(body) ELSE DecodeServer(body)

(* One frame of a socket: the end of the stream is clean between frames    *)
(* and within a length, an error within a body.                            *)
ReadFrame ==
  /\ state = "reading"
  /\ \/ ~Ready(LenBytes) /\ AtEof /\ Finish("ended")
     \/ /\ Ready(LenBytes)
        /\ \E len \in {FromLeBytes(Piece(pos, LenBytes))} :
             \/ ~Ready(LenBytes + len) /\ AtEof /\ Finish("failed")
             \/ /\ Ready(LenBytes + len)
                /\ \E m \in {Decoded(Piece(pos + LenBytes, len))} :
                     IF m = Malformed THEN Finish("failed")
                     ELSE Deliver(m, pos + LenBytes + len)
  /\ UNCHANGED <<medium, writerVars, mediumVars>>

ReadCommand == medium = "client" /\ ReadFrame

ReadEvent == medium = "server" /\ ReadFrame

OpenSegment ==
  /\ closed /\ state = "opening"
  /\ IF /\ Ready(Len(SegmentHeader))
        /\ Piece(0, Len(Magic)) = Magic
        /\ stream[Len(Magic) + 1] = SegmentVersion
     THEN state' = "reading" /\ pos' = Len(SegmentHeader) /\ UNCHANGED delivered
     ELSE Finish("failed")
  /\ UNCHANGED <<medium, writerVars, mediumVars>>

(* Faulty: a file that ends within a payload is an error; no checksum is   *)
(* compared.                                                               *)
TornPayloadFails == "failed"
CrcUnchecked(payload, crc) == TRUE

(* read_record at the end of the file within a payload: Ok(None).          *)
TornPayload == "ended"
CrcMatches(payload, crc) == Crc(payload) = crc

ReadRecord ==
  /\ medium = "wal" /\ state = "reading"
  /\ IF ~Ready(FrameHeader) THEN Finish("ended") ELSE
     \E len \in {FromLeBytes(Piece(pos, LenBytes))} :
       IF ~Ready(FrameHeader + len) THEN Finish(TornPayload) ELSE
       \E payload \in {Piece(pos + FrameHeader, len)} :
       \E record \in {DecodeRecord(From(payload, WordBytes))} :
         IF /\ CrcMatches(payload, FromLeBytes(Piece(pos + LenBytes, LenBytes)))
            /\ len >= WordBytes
            /\ record # Malformed
         THEN Deliver([seq |-> ReadU64(payload, 0), record |-> record],
                      pos + FrameHeader + len)
         ELSE Finish("failed")
  /\ UNCHANGED <<medium, writerVars, mediumVars>>

Reader == ReadCommand \/ ReadEvent \/ OpenSegment \/ ReadRecord

Next ==
  \/ \E m \in ClientMessages : SendCommand(m) \/ AppendRecord(m)
  \/ \E e \in ServerMessages : SendEvent(e)
  \/ Commit \/ Arrive \/ Close \/ Crash \/ Damage
  \/ Reader

Spec == Init /\ [][Next]_vars

(* The reading task runs whenever read_exact can return.                   *)
FairSpec == Spec /\ WF_vars(Reader)

-----------------------------------------------------------------------------
(* Properties                                                              *)

(* Whatever the pieces the bytes arrive in, wherever the stream is cut,    *)
(* zeros follow it or a byte of it is damaged, a reader hands on a prefix  *)
(* of what was encoded, field for field: the decoders invert the encoders  *)
(* at the limits of every integer, frames do not run into each other, and  *)
(* damage is never taken for a record.                                     *)
DeliveredIsPrefix == IsPrefix(delivered, sent)

(* A reader that stops, with Ok or with an error, has handed on every      *)
(* message whose last byte reached it.                                     *)
WholeFramesRead ==
  state \in {"ended", "failed"} /\ damagedAt = 0 =>
    Len(delivered) >= Cardinality({i \in DOMAIN ends : ends[i] <= intact})

(* A partial trailing write is tolerated: a log that a crash cut off       *)
(* anywhere after what was committed is read without an error.             *)
TornTailTolerated ==
  medium = "wal" /\ closed /\ damagedAt = 0 /\ Len(stream) = intact =>
    state # "failed"

FrameStart(i) == IF i = 1 THEN Len(SegmentHeader) ELSE ends[i - 1]

(* Damage to a checksum or a payload of a whole record is an error, not a  *)
(* short log. (Damage to a length is not: a length past the end of the     *)
(* file is taken for a torn tail.)                                         *)
DamageDetected ==
  (\E i \in DOMAIN ends : /\ ends[i] <= intact
                          /\ damagedAt \in FrameStart(i) + LenBytes + 1 .. ends[i])
    => state # "ended"

(* Reading goes on: a message that has arrived whole is handed on in the   *)
(* end, and a closed stream is read to its end.                            *)
FramesRead ==
  /\ \A n \in 1 .. MaxMessages :
       (medium # "wal" /\ Len(ends) >= n /\ arrived >= ends[n])
         ~> (Len(delivered) >= n)
  /\ AtEof ~> (state \in {"ended", "failed"})
=============================================================================
