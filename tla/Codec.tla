-------------------------------- MODULE Codec --------------------------------
(***************************************************************************)
(* The byte layouts of the wire protocol (bourse-protocol) and of the      *)
(* records of the write-ahead log (wal.rs): encoders, and decoders that    *)
(* read with a cursor and give up at the first byte they do not expect.    *)
(*                                                                         *)
(* Integers are little endian; u64 and i64 are words of WordBytes bytes in *)
(* two's complement. Commands and events have the shapes of module         *)
(* Matching, an order also its timestamp. The kinds of decoding errors are *)
(* one value, Malformed: every caller treats them alike.                   *)
(***************************************************************************)
EXTENDS Integers, Sequences, SequencesExt

CONSTANTS
  ByteBase,    \* 256 in the code
  WordBytes,   \* bytes of a u64 or i64: 8 in the code
  LenBytes     \* bytes of a u32: 4 in the code

ASSUME CodecAssumption ==
  /\ ByteBase \in Nat /\ ByteBase > 88
  /\ WordBytes \in Nat \ {0} /\ LenBytes \in Nat \ {0}

WordModulus == ByteBase ^ WordBytes

ToLeBytes(n, width) ==
  [i \in 1 .. width |-> (n \div ByteBase ^ (i - 1)) % ByteBase]

FromLeBytes(bytes) == FoldRight(LAMBDA b, rest : b + ByteBase * rest, bytes, 0)

U64(n) == ToLeBytes(n, WordBytes)
I64(n) == ToLeBytes(n % WordModulus, WordBytes)
U32(n) == ToLeBytes(n, LenBytes)

-----------------------------------------------------------------------------
(* Tags                                                                    *)

Version == 1
MsgTag == [New |-> 1, Cancel |-> 2, Execution |-> 16]
SideTag == [Buy |-> 1, Sell |-> 2]
KindTag == [Limit |-> 1, Market |-> 2, Ioc |-> 3, PostOnly |-> 4, Fok |-> 5]
ExecTag == [Accepted |-> 1, Trade |-> 2, Done |-> 3]
ReasonTag == [Filled |-> 1, Cancelled |-> 2, Expired |-> 3, NoLiquidity |-> 4,
              Rejected |-> 5]

Known(tags, byte) == \E name \in DOMAIN tags : tags[name] = byte
NameOf(tags, byte) == CHOOSE name \in DOMAIN tags : tags[name] = byte

-----------------------------------------------------------------------------
(* Encoding                                                                *)

EncodeNewOrder(o) ==
  U64(o.id) \o <<SideTag[o.side]>> \o U64(o.qty) \o <<KindTag[o.kind]>>
    \o (IF o.kind = "Market" THEN << >> ELSE I64(o.price))
    \o I64(o.timestamp)

EncodeEvent(e) ==
  <<ExecTag[e.type]>> \o
    CASE e.type = "Accepted" -> U64(e.id) \o U64(e.qty) \o U64(e.seq)
      [] e.type = "Trade" -> U64(e.taker) \o U64(e.maker) \o I64(e.price)
                               \o U64(e.qty) \o U64(e.seq)
      [] e.type = "Done" -> U64(e.id) \o U64(e.leaves)
                              \o <<ReasonTag[e.reason]>> \o U64(e.seq)

CommandBody(m) ==
  <<Version, MsgTag[m.type]>>
    \o (IF m.type = "New" THEN EncodeNewOrder(m.order) ELSE U64(m.id))

(* A length, then the body.                                                *)
Framed(body) == U32(Len(body)) \o body

EncodeClient(m) == Framed(CommandBody(m))

EncodeServer(e) ==
  Framed(<<Version, MsgTag["Execution"]>> \o EncodeEvent(e))

EncodeRecord(m) == CommandBody(m)

-----------------------------------------------------------------------------
(* Decoding. A cursor is the bytes still to read; the fields of a message  *)
(* stand at fixed offsets once its tags are known.                         *)

Malformed == [type |-> "Malformed"]

From(bytes, at) == SubSeq(bytes, at + 1, Len(bytes))

ReadU64(bytes, at) == FromLeBytes(SubSeq(bytes, at + 1, at + WordBytes))

(* Faulty: the bits are not taken as signed.                               *)
ReadI64Unsigned(bytes, at) == ReadU64(bytes, at)

ReadI64(bytes, at) ==
  LET n == ReadU64(bytes, at)
  IN  IF 2 * n >= WordModulus THEN n - WordModulus ELSE n

W == WordBytes

(* Faulty: every order is expected to carry a price.                       *)
PricedOrderLen(kind) == 4 * W + 2

OrderLen(kind) == 3 * W + 2 + (IF kind = "Market" THEN 0 ELSE W)

IsOrder(b) ==
  /\ Len(b) >= 2 * W + 2
  /\ Known(SideTag, b[W + 1]) /\ Known(KindTag, b[2 * W + 2])
  /\ Len(b) >= OrderLen(NameOf(KindTag, b[2 * W + 2]))

DecodeNewOrder(b) ==
  LET kind == NameOf(KindTag, b[2 * W + 2])
      order == [id |-> ReadU64(b, 0), side |-> NameOf(SideTag, b[W + 1]),
                qty |-> ReadU64(b, W + 1), kind |-> kind,
                timestamp |-> ReadI64(b, OrderLen(kind) - W)]
  IN  IF kind = "Market" THEN order
      ELSE order @@ [price |-> ReadI64(b, 2 * W + 2)]

(* A command starts here; the bytes it takes; the command.                 *)
IsCommand(b) ==
  /\ Len(b) >= 2 /\ b[1] = Version
  /\ \/ b[2] = MsgTag["New"] /\ IsOrder(From(b, 2))
     \/ b[2] = MsgTag["Cancel"] /\ Len(b) >= 2 + W

CommandLen(b) ==
  2 + IF b[2] = MsgTag["Cancel"] THEN W
      ELSE OrderLen(NameOf(KindTag, b[2 * W + 4]))

CommandOf(b) ==
  IF b[2] = MsgTag["Cancel"] THEN [type |-> "Cancel", id |-> ReadU64(b, 2)]
  ELSE [type |-> "New", order |-> DecodeNewOrder(From(b, 2))]

(* decode_client refuses trailing bytes, decode_record ignores them.       *)
DecodeClient(b) ==
  IF IsCommand(b) /\ Len(b) = CommandLen(b) THEN CommandOf(b) ELSE Malformed

DecodeRecord(b) == IF IsCommand(b) THEN CommandOf(b) ELSE Malformed

EventLen(type) ==
  CASE type = "Accepted" -> 1 + 3 * W
    [] type = "Trade" -> 1 + 5 * W
    [] type = "Done" -> 2 + 3 * W

DecodeEvent(b) ==
  LET type == NameOf(ExecTag, b[1])
  IN  CASE type = "Accepted" ->
             [type |-> type, id |-> ReadU64(b, 1), qty |-> ReadU64(b, 1 + W),
              seq |-> ReadU64(b, 1 + 2 * W)]
        [] type = "Trade" ->
             [type |-> type, taker |-> ReadU64(b, 1), maker |-> ReadU64(b, 1 + W),
              price |-> ReadI64(b, 1 + 2 * W), qty |-> ReadU64(b, 1 + 3 * W),
              seq |-> ReadU64(b, 1 + 4 * W)]
        [] type = "Done" ->
             [type |-> type, id |-> ReadU64(b, 1), leaves |-> ReadU64(b, 1 + W),
              reason |-> NameOf(ReasonTag, b[2 + 2 * W]),
              seq |-> ReadU64(b, 2 + 2 * W)]

DecodeServer(b) ==
  IF /\ Len(b) >= 3 /\ b[1] = Version /\ b[2] = MsgTag["Execution"]
     /\ Known(ExecTag, b[3])
     /\ Len(b) = 2 + EventLen(NameOf(ExecTag, b[3]))
     /\ b[3] = ExecTag["Done"] => Known(ReasonTag, b[4 + 2 * W])
  THEN DecodeEvent(From(b, 2)) ELSE Malformed
=============================================================================
