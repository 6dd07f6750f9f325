-------------------------------- MODULE Spsc ---------------------------------
(***************************************************************************)
(* The lock-free ring buffer of spsc.rs, one action per access to shared   *)
(* memory, under the release/acquire memory model:                         *)
(*                                                                         *)
(*  - tail and head are atomics. tailLog and headLog are their             *)
(*    modification orders: the values stored, oldest first, each with what *)
(*    the Release store publishes (how many slot accesses of the storing   *)
(*    thread come before it). A load by the other side returns any value   *)
(*    not older than one it has seen before, or, in the behaviours that    *)
(*    have stale = FALSE, the newest; if it is an Acquire load it also     *)
(*    learns what the store published. A thread sees its own atomic's      *)
(*    newest value.                                                        *)
(*  - the slots are plain memory. An access is a data race unless the      *)
(*    other side's last conflicting access to the slot is published to it. *)
(*                                                                         *)
(* Indices are usize and wrap at IndexModulus. The value of the n-th       *)
(* successful push is n, which makes order and identity visible.           *)
(***************************************************************************)
EXTENDS Integers, Sequences, FiniteSetsExt

CONSTANTS
  MinCapacity,    \* the argument of channel()
  IndexModulus,   \* 2^64 in the code
  MaxItems        \* bound: successful pushes

PowerOfTwo[k \in Nat] == IF k = 0 THEN 1 ELSE 2 * PowerOfTwo[k - 1]

PowersOfTwo == {PowerOfTwo[k] : k \in 1 .. MinCapacity + 1}

(* min_capacity.max(2).next_power_of_two()                                 *)
Capacity == Min({c \in PowersOfTwo : c >= MinCapacity})

ASSUME SpscAssumption ==
  /\ MinCapacity \in Nat /\ IndexModulus \in Nat /\ MaxItems \in Nat
  /\ IndexModulus % Capacity = 0
  /\ IndexModulus >= 2 * Capacity

VARIABLES
  tailLog, headLog,   \* modification orders of the two atomics
  slots,              \* ring storage: [val, written, read], see InitSlot
  prod,               \* Producer: [pc, tail, cachedHead, seen, learnt, result]
  cons,               \* Consumer: [pc, head, cachedTail, seen, learnt, result]
  delivered,          \* values try_pop returned
  dropped,            \* values Inner::drop dropped
  halves,             \* the halves that still exist
  stale               \* whether loads of the other side's atomic may be stale

vars == <<tailLog, headLog, slots, prod, cons, delivered, dropped, halves, stale>>

WrappingAdd1(i) == (i + 1) % IndexModulus
WrappingSub(i, j) == (i - j) % IndexModulus

(* index & mask                                                            *)
SlotOf(i) == i % Capacity

(* A slot: its value, 0 while uninitialised, and, for the memory model,    *)
(* which of the producer's writes and of the consumer's reads was its last.*)
InitSlot == [val |-> 0, written |-> 0, read |-> 0]

Init ==
  /\ tailLog = <<[val |-> 0, published |-> 0]>>
  /\ headLog = <<[val |-> 0, published |-> 0]>>
  /\ slots = [i \in 0 .. Capacity - 1 |-> InitSlot]
  /\ prod = [pc |-> "idle", tail |-> 0, cachedHead |-> 0, seen |-> 1,
             learnt |-> 0, result |-> "none"]
  /\ cons = [pc |-> "idle", head |-> 0, cachedTail |-> 0, seen |-> 1,
             learnt |-> 0, result |-> "none"]
  /\ delivered = << >>
  /\ dropped = << >>
  /\ halves = {"producer", "consumer"}
  /\ stale \in BOOLEAN

(* The store that a load of its own atomic by a thread reads from.         *)
Newest(log) == log[Len(log)]

(* Positions of the modification order that a load may return.             *)
Loadable(log, seen) == IF stale THEN seen .. Len(log) ELSE {Len(log)}

(* Faulty: the load is Relaxed and learns nothing.                         *)
Relaxed(learnt, store) == learnt

(* What an Acquire load learns from the store it reads from.               *)
Acquire(learnt, store) == Max({learnt, store.published})

(* A Release store publishes all slot accesses its thread has made.        *)
Release(log, val, accesses) == Append(log, [val |-> val, published |-> accesses])

Pushed == Len(tailLog) - 1    \* successful pushes, and pops, so far
Popped == Len(headLog) - 1

-----------------------------------------------------------------------------
(* try_push                                                                *)

CachedFull(tail, cachedHead) == WrappingSub(tail, cachedHead) >= Capacity

(* Load tail (Relaxed) and look at the cached head.                        *)
PushStart ==
  /\ "producer" \in halves /\ prod.pc = "idle" /\ Pushed < MaxItems
  /\ LET tail == Newest(tailLog).val
     IN  prod' = [prod EXCEPT
           !.tail = tail,
           !.pc = IF CachedFull(tail, prod.cachedHead) THEN "refresh" ELSE "write"]
  /\ UNCHANGED <<tailLog, headLog, slots, cons, delivered, dropped, halves>>

(* Faulty: the cached head is trusted.                                     *)
PushWithoutRefresh ==
  /\ prod.pc = "refresh"
  /\ prod' = [prod EXCEPT !.pc = "idle", !.result = "full"]
  /\ UNCHANGED <<tailLog, headLog, slots, cons, delivered, dropped, halves>>

(* The cache says full: load head (Acquire); still full is Err.            *)
PushRefresh ==
  /\ prod.pc = "refresh"
  /\ \E k \in Loadable(headLog, prod.seen) :
       LET head == headLog[k].val
           full == CachedFull(prod.tail, head)
       IN  prod' = [prod EXCEPT
             !.cachedHead = head,
             !.seen = k,
             !.learnt = Acquire(@, headLog[k]),
             !.pc = IF full THEN "idle" ELSE "write",
             !.result = IF full THEN "full" ELSE @]
  /\ UNCHANGED <<tailLog, headLog, slots, cons, delivered, dropped, halves>>

PushWrite ==
  /\ prod.pc = "write"
  /\ slots' = [slots EXCEPT ![SlotOf(prod.tail)] =
                 [@ EXCEPT !.val = Pushed + 1, !.written = Pushed + 1]]
  /\ prod' = [prod EXCEPT !.pc = "publish"]
  /\ UNCHANGED <<tailLog, headLog, cons, delivered, dropped, halves>>

PushPublish ==
  /\ prod.pc = "publish"
  /\ tailLog' = Release(tailLog, WrappingAdd1(prod.tail), Pushed + 1)
  /\ prod' = [prod EXCEPT !.pc = "idle", !.result = "ok"]
  /\ UNCHANGED <<headLog, slots, cons, delivered, dropped, halves>>

-----------------------------------------------------------------------------
(* try_pop                                                                 *)

CachedEmpty(head, cachedTail) == head = cachedTail

PopStart ==
  /\ "consumer" \in halves /\ cons.pc = "idle"
  /\ LET head == Newest(headLog).val
     IN  cons' = [cons EXCEPT
           !.head = head,
           !.pc = IF CachedEmpty(head, cons.cachedTail) THEN "refresh" ELSE "read"]
  /\ UNCHANGED <<tailLog, headLog, slots, prod, delivered, dropped, halves>>

(* Faulty: the cached tail is trusted.                                     *)
PopWithoutRefresh ==
  /\ cons.pc = "refresh"
  /\ cons' = [cons EXCEPT !.pc = "idle", !.result = "none"]
  /\ UNCHANGED <<tailLog, headLog, slots, prod, delivered, dropped, halves>>

PopRefresh ==
  /\ cons.pc = "refresh"
  /\ \E k \in Loadable(tailLog, cons.seen) :
       LET tail  == tailLog[k].val
           empty == CachedEmpty(cons.head, tail)
       IN  cons' = [cons EXCEPT
             !.cachedTail = tail,
             !.seen = k,
             !.learnt = Acquire(@, tailLog[k]),
             !.pc = IF empty THEN "idle" ELSE "read",
             !.result = IF empty THEN "none" ELSE @]
  /\ UNCHANGED <<tailLog, headLog, slots, prod, delivered, dropped, halves>>

(* The value read is held in a local until it is returned.                 *)
PopRead ==
  /\ cons.pc = "read"
  /\ slots' = [slots EXCEPT ![SlotOf(cons.head)].read = Popped + 1]
  /\ cons' = [cons EXCEPT !.pc = "publish"]
  /\ delivered' = Append(delivered, slots[SlotOf(cons.head)].val)
  /\ UNCHANGED <<tailLog, headLog, prod, dropped, halves>>

PopPublish ==
  /\ cons.pc = "publish"
  /\ headLog' = Release(headLog, WrappingAdd1(cons.head), Popped + 1)
  /\ cons' = [cons EXCEPT !.pc = "idle", !.result = "some"]
  /\ UNCHANGED <<tailLog, slots, prod, delivered, dropped, halves>>
-----------------------------------------------------------------------------
(* Dropping the halves; the last one drops Inner, which drops the values   *)
(* left between head and tail.                                             *)

(* Faulty: the number of values left is taken without wrapping.            *)
LeftWithoutWrapping ==
  LET head == Newest(headLog).val
      tail == Newest(tailLog).val
  IN  [i \in 1 .. tail - head |-> slots[SlotOf(head + i - 1)].val]

LeftInQueue ==
  LET head == Newest(headLog).val
      tail == Newest(tailLog).val
  IN  [i \in 1 .. WrappingSub(tail, head) |->
         slots[SlotOf((head + i - 1) % IndexModulus)].val]

DropHalf(half) ==
  /\ half \in halves
  /\ IF half = "producer" THEN prod.pc = "idle" ELSE cons.pc = "idle"
  /\ halves' = halves \ {half}
  /\ dropped' = IF halves' = {} THEN LeftInQueue ELSE dropped
  /\ UNCHANGED <<tailLog, headLog, slots, prod, cons, delivered>>

-----------------------------------------------------------------------------
TryPush == PushStart \/ PushRefresh \/ PushWrite \/ PushPublish

TryPop == PopStart \/ PopRefresh \/ PopRead \/ PopPublish

Next ==
  /\ TryPush \/ TryPop \/ \E half \in halves : DropHalf(half)
  /\ UNCHANGED stale

Spec == Init /\ [][Next]_vars

(* The consumer keeps polling, as the matcher threads do until they stop.  *)
FairSpec == Spec /\ WF_vars(TryPop /\ UNCHANGED stale)

-----------------------------------------------------------------------------
(* Properties                                                              *)

(* The SAFETY comments of try_push and try_pop: a slot is owned by exactly *)
(* one side at a time. When the producer writes a slot, the consumer's     *)
(* last read of it happens before; when the consumer reads a slot, it is   *)
(* initialised and the producer's last write of it happens before.         *)
NoDataRace ==
  /\ prod.pc = "write" => slots[SlotOf(prod.tail)].read <= prod.learnt
  /\ cons.pc = "read" => /\ slots[SlotOf(cons.head)].val # 0
                         /\ slots[SlotOf(cons.head)].written <= cons.learnt

(* When both halves are gone, every value that was pushed was either       *)
(* returned by try_pop or dropped by Inner::drop, exactly once.            *)
NoLeakNoDoubleDrop ==
  halves = {} => delivered \o dropped = [i \in 1 .. Pushed |-> i]

Queue == INSTANCE BoundedQueue WITH
  queue <- IF halves = {} THEN << >> ELSE LeftInQueue,
  delivered <- SubSeq(delivered, 1, Popped),
  pushResult <- prod.result,
  popResult <- cons.result,
  spurious <- stale

(* The ring is a bounded queue, and the cached indices are never visible   *)
(* to the callers: try_push fails only when it is full and try_pop only    *)
(* when it is empty, or when a load returned a stale value.                *)
ImplementsQueue == Queue!BQSpec

(* A published value is delivered as long as the consumer polls and its    *)
(* loads return newest values: a cached tail never hides it for good.      *)
EventuallyDelivered ==
  ~stale /\ Pushed > Len(delivered)
    ~> Pushed = Len(delivered) \/ "consumer" \notin halves
=============================================================================
