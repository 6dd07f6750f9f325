----------------------------- MODULE SpscProofs ------------------------------
(***************************************************************************)
(* The ring buffer of spsc.rs, for every capacity, every index width that  *)
(* is a multiple of it and every number of items: no data race, nothing    *)
(* leaked or dropped twice, and the ring implements the bounded queue.     *)
(***************************************************************************)
EXTENDS Spsc, Induction

(* The provers of a leaf that names none, and their time in seconds.        *)
USE SMTT(60), ZenonT(60)

-----------------------------------------------------------------------------
(* Arithmetic of the indices.                                              *)

(* What quotient and remainder are.                                        *)
LEMMA ModDiv ==
  ASSUME NEW a \in Int, NEW n \in Nat \ {0}
  PROVE  /\ a \div n \in Int
         /\ a % n \in 0 .. n - 1
         /\ a = n * (a \div n) + (a % n)
OBVIOUS

(* The remainder is unique.                                                *)
LEMMA ModUnique ==
  ASSUME NEW n \in Nat \ {0}, NEW q \in Int, NEW r \in 0 .. n - 1
  PROVE  (n * q + r) % n = r
OBVIOUS

(* A number below the modulus is its own remainder.                        *)
LEMMA ModSmall ==
  ASSUME NEW n \in Nat \ {0}, NEW r \in 0 .. n - 1
  PROVE  r % n = r
OBVIOUS

(* Multiples of the modulus do not count.                                  *)
LEMMA ModPlus ==
  ASSUME NEW n \in Nat \ {0}, NEW q \in Int, NEW a \in Int
  PROVE  (n * q + a) % n = a % n
<1> DEFINE k == a \div n
           r == a % n
<1>1. k \in Int /\ r \in 0 .. n - 1 /\ a = n * k + r
  BY ModDiv
<1> HIDE DEF k
<1>2. n * q + a = n * (q + k) + r /\ q + k \in Int
  BY <1>1
<1>3. (n * (q + k) + r) % n = r
  BY <1>1, <1>2, ModUnique, ZenonT(60)
<1> QED BY <1>2, <1>3

(* index & mask of a wrapped index is that of the index, as the capacity   *)
(* divides the range of the indices.                                       *)
LEMMA ModMod ==
  ASSUME NEW a \in Int, NEW m \in Nat \ {0}, NEW n \in Nat \ {0}, m % n = 0
  PROVE  (a % m) % n = a % n
<1> DEFINE k == m \div n
           q == a \div m
           r == a % m
<1>1. k \in Int /\ m = n * k
  BY ModDiv
<1>2. q \in Int /\ r \in Int /\ a = m * q + r
  BY ModDiv
<1> HIDE DEF k, q
<1>3. a = n * (k * q) + r /\ k * q \in Int
  BY <1>1, <1>2
<1> HIDE DEF r
<1>4. (n * (k * q) + r) % n = r % n
  BY <1>2, <1>3, ModPlus, ZenonT(60)
<1> QED BY <1>3, <1>4 DEF r

(* wrapping_add of a wrapped index.                                        *)
LEMMA ModAdd ==
  ASSUME NEW a \in Int, NEW b \in Int, NEW n \in Nat \ {0}
  PROVE  ((a % n) + b) % n = (a + b) % n
<1> DEFINE q == a \div n
           r == a % n
<1>1. q \in Int /\ r \in Int /\ a = n * q + r
  BY ModDiv
<1> HIDE DEF q, r
<1>2. a + b = n * q + (r + b) /\ r + b \in Int
  BY <1>1
<1>3. (n * q + (r + b)) % n = (r + b) % n
  BY <1>1, <1>2, ModPlus, ZenonT(60)
<1> QED BY <1>2, <1>3 DEF r

(* wrapping_sub of two wrapped indices.                                    *)
LEMMA ModSub ==
  ASSUME NEW a \in Int, NEW b \in Int, NEW n \in Nat \ {0}
  PROVE  ((a % n) - (b % n)) % n = (a - b) % n
<1> DEFINE p == a \div n
           r == a % n
           q == b \div n
           s == b % n
<1>1. p \in Int /\ r \in Int /\ a = n * p + r
  BY ModDiv
<1>2. q \in Int /\ s \in Int /\ b = n * q + s
  BY ModDiv
<1> HIDE DEF p, q, r, s
<1>3. a - b = n * (p - q) + (r - s) /\ p - q \in Int /\ r - s \in Int
  BY <1>1, <1>2
<1>4. (n * (p - q) + (r - s)) % n = (r - s) % n
  BY <1>3, ModPlus, ZenonT(60)
<1> QED BY <1>3, <1>4 DEF r, s

(* Two numbers with the same remainder are at least a modulus apart.       *)
LEMMA SameMod ==
  ASSUME NEW a \in Int, NEW b \in Int, NEW n \in Nat \ {0},
         a % n = b % n, a < b
  PROVE  b - a >= n
<1> DEFINE p == a \div n
           q == b \div n
<1>1. p \in Int /\ a = n * p + (a % n) /\ a % n \in Int
  BY ModDiv
<1>2. q \in Int /\ b = n * q + (b % n) /\ b % n \in Int
  BY ModDiv
<1> HIDE DEF p, q
<1>3. b - a = n * (q - p)
  BY <1>1, <1>2
<1>4. q - p >= 1
  BY <1>1, <1>2, <1>3
<1> QED BY <1>1, <1>2, <1>3, <1>4

-----------------------------------------------------------------------------
(* The inductive invariant. Positions of the modification orders count the *)
(* operations: the n-th store to tail publishes n - 1 pushes. Each side's  *)
(* cached index is what it loaded last, and what it learnt by that load.   *)

(* The usize that the n-th index is.                                       *)
Index(n) == n % IndexModulus

Stores == [val : Nat, published : Nat]

Counts(log) ==
  /\ log \in Seq(Stores) /\ Len(log) > 0
  /\ \A k \in 1 .. Len(log) :
       log[k].val = Index(k - 1) /\ log[k].published = k - 1

Producers ==
  [pc : {"idle", "refresh", "write", "publish"}, tail : Nat,
   cachedHead : Nat, seen : Nat, learnt : Nat,
   result : {"none", "ok", "full"}]

ProducerOK ==
  /\ prod \in Producers
  /\ prod.seen \in 1 .. Len(headLog)
  /\ prod.cachedHead = Index(prod.seen - 1)
  /\ prod.learnt = prod.seen - 1
  /\ prod.learnt <= Pushed /\ Pushed - prod.learnt <= Capacity
  /\ prod.pc # "idle" => prod.tail = Index(Pushed)
  /\ prod.pc \in {"write", "publish"} => Pushed - prod.learnt < Capacity

Consumers ==
  [pc : {"idle", "refresh", "read", "publish"}, head : Nat,
   cachedTail : Nat, seen : Nat, learnt : Nat,
   result : {"none", "some"}]

ConsumerOK ==
  /\ cons \in Consumers
  /\ cons.seen \in 1 .. Len(tailLog)
  /\ cons.cachedTail = Index(cons.seen - 1)
  /\ cons.learnt = cons.seen - 1
  /\ Popped <= cons.learnt
  /\ cons.pc # "idle" => cons.head = Index(Popped)
  /\ cons.pc \in {"read", "publish"} => Popped < cons.learnt

DeliveredOK ==
  /\ delivered \in Seq(Nat)
  /\ Len(delivered) = IF cons.pc = "publish" THEN Popped + 1 ELSE Popped
  /\ \A i \in 1 .. Len(delivered) : delivered[i] = i

(* The last Capacity values written are in their slots; a slot was last    *)
(* read by a read that has been made, and that was a read of this slot.    *)
Written == IF prod.pc = "publish" THEN Pushed + 1 ELSE Pushed

SlotsOK ==
  /\ slots \in [0 .. Capacity - 1 -> [val : Nat, written : Nat, read : Nat]]
  /\ \A n \in 1 .. Written : n > Written - Capacity =>
       /\ slots[SlotOf(n - 1)].val = n
       /\ slots[SlotOf(n - 1)].written = n
  /\ \A j \in 0 .. Capacity - 1 :
       /\ slots[j].read <= Len(delivered)
       /\ slots[j].read # 0 => SlotOf(slots[j].read - 1) = j

HalvesOK ==
  /\ halves \subseteq {"producer", "consumer"} /\ stale \in BOOLEAN
  /\ "producer" \notin halves => prod.pc = "idle"
  /\ "consumer" \notin halves => cons.pc = "idle"
  /\ dropped = IF halves = {} THEN [i \in 1 .. Pushed - Popped |-> Popped + i]
               ELSE << >>

RingIInv ==
  /\ Counts(tailLog) /\ Counts(headLog)
  /\ ProducerOK /\ ConsumerOK /\ DeliveredOK /\ SlotsOK /\ HalvesOK

-----------------------------------------------------------------------------
(* next_power_of_two                                                       *)

(* The defining equation of PowerOfTwo, which a recursive definition has   *)
(* only once a solution is known to exist.                                 *)
LEMMA PowerOfTwoDef ==
  /\ PowerOfTwo \in [Nat -> Nat]
  /\ PowerOfTwo[0] = 1
  /\ \A k \in Nat : PowerOfTwo[k + 1] = 2 * PowerOfTwo[k]
<1> DEFINE Eq(f) == f = [k \in Nat |-> IF k = 0 THEN 1 ELSE 2 * f[k - 1]]
           step == [p \in Nat \X Nat |-> 2 * p[2]]
<1>1. step \in [Nat \X Nat -> Nat]
  OBVIOUS
<1>2. \A i, v \in Nat : step[<<i, v>>] = 2 * v
  OBVIOUS
<1> HIDE DEF step
<1>3. PICK f : Iterates(f, Nat, 1, step)
  BY <1>1, NatRecursion, ZenonT(60)
<1>4. \A n \in Nat : f[n + 1] = 2 * f[n]
  BY <1>2, <1>3, ZenonT(60) DEF Iterates
<1>5. \A n \in Nat : n # 0 => n - 1 \in Nat /\ (n - 1) + 1 = n
  OBVIOUS
<1>6. Eq(f)
  <2>1. \A n \in Nat : f[n] = IF n = 0 THEN 1 ELSE 2 * f[n - 1]
    BY <1>3, <1>4, <1>5 DEF Iterates
  <2>2. f = [n \in Nat |-> f[n]]
    BY <1>3 DEF Iterates
  <2> QED BY <2>1, <2>2, ZenonT(60)
<1>7. Eq(PowerOfTwo)
  BY <1>6 DEF PowerOfTwo
<1>8. \A n \in Nat : PowerOfTwo[n] = IF n = 0 THEN 1 ELSE 2 * PowerOfTwo[n - 1]
  BY <1>7
<1>9. PowerOfTwo[0] = 1 /\ \A k \in Nat : PowerOfTwo[k + 1] = 2 * PowerOfTwo[k]
  BY <1>8
<1>10. PowerOfTwo \in [Nat -> Nat]
  <2> DEFINE T == {n \in Nat : PowerOfTwo[n] \in Nat}
  <2>1. 0 \in T /\ \A n \in Nat : n \in T => n + 1 \in T
    BY <1>9
  <2> HIDE DEF T
  <2>2. Nat \subseteq T
    BY <2>1, SetInduction
  <2>3. \A n \in Nat : PowerOfTwo[n] \in Nat
    BY <2>2 DEF T
  <2> QED BY <1>7, <2>3
<1> QED BY <1>9, <1>10

(* The capacity is a power of two that is not below what was asked for.    *)
LEMMA CapacityOK ==
  Capacity \in Nat /\ Capacity >= 2 /\ Capacity >= MinCapacity
<1> DEFINE S == {c \in PowersOfTwo : c >= MinCapacity}
           T == {n \in Nat : PowerOfTwo[n] > n}
<1>1. 0 \in T /\ \A n \in Nat : n \in T => n + 1 \in T
  BY PowerOfTwoDef
<1>2. \A n \in Nat : PowerOfTwo[n] > n
  <2> HIDE DEF T
  <2>1. Nat \subseteq T
    BY <1>1, SetInduction
  <2> QED BY <2>1 DEF T
<1>3. MinCapacity + 1 \in 1 .. MinCapacity + 1 /\ MinCapacity + 1 \in Nat
  BY SpscAssumption
<1>4. PowerOfTwo[MinCapacity + 1] \in S
  BY <1>2, <1>3, SpscAssumption, PowerOfTwoDef DEF PowersOfTwo
<1>5. \A c \in S : c \in Nat /\ c >= 2
  <2> TAKE c \in S
  <2>1. PICK k \in 1 .. MinCapacity + 1 : c = PowerOfTwo[k]
    BY DEF PowersOfTwo
  <2>2. k \in Nat /\ k - 1 \in Nat /\ (k - 1) + 1 = k /\ k >= 1
    BY SpscAssumption
  <2>3. PowerOfTwo[k] \in Nat /\ PowerOfTwo[k] > k
    BY <1>2, <2>2, PowerOfTwoDef
  <2> QED BY <2>1, <2>2, <2>3
<1>6. S \in SUBSET Nat /\ S # {}
  BY <1>4, <1>5
<1> HIDE DEF S
<1>7. \E x \in S : \A y \in S : x <= y
  BY <1>6, Least
<1>8. Min(S) \in S
  BY <1>7 DEF Min
<1>9. Capacity = Min(S)
  BY DEF Capacity, S
<1>10. Capacity \in S
  BY <1>8, <1>9
<1> QED BY <1>5, <1>10 DEF S

(* What the proofs below use of the constants.                             *)
LEMMA Constants ==
  /\ Capacity \in Nat \ {0} /\ IndexModulus \in Nat \ {0}
  /\ IndexModulus % Capacity = 0 /\ IndexModulus > Capacity
BY CapacityOK, SpscAssumption

(* There is at least one slot.                                             *)
LEMMA CapacityType ==
  Capacity \in Nat \ {0}
BY Constants

-----------------------------------------------------------------------------
(* The indices as the two sides see them.                                  *)

(* tail - head, wrapping, is the number of values in the ring.             *)
LEMMA Occupancy ==
  ASSUME NEW a \in Nat, NEW b \in Nat, b <= a, a - b <= Capacity
  PROVE  WrappingSub(Index(a), Index(b)) = a - b
<1>a. a \in Int /\ b \in Int /\ IndexModulus \in Nat \ {0}
  BY Constants
<1>1. ((a % IndexModulus) - (b % IndexModulus)) % IndexModulus = (a - b) % IndexModulus
  BY <1>a, ModSub, Zenon
<1>2. a - b \in 0 .. IndexModulus - 1
  BY Constants
<1>3. (a - b) % IndexModulus = a - b
  BY <1>2, Constants, ModSmall
<1> QED BY <1>1, <1>3 DEF WrappingSub, Index

(* Wrapped indices of one ring are equal only if the indices are.          *)
LEMMA SameIndex ==
  ASSUME NEW a \in Nat, NEW b \in Nat, a <= b, b - a <= Capacity,
         Index(a) = Index(b)
  PROVE  a = b
<1> SUFFICES ASSUME a < b PROVE FALSE
  OBVIOUS
<1>a. a \in Int /\ b \in Int /\ IndexModulus \in Nat \ {0}
  BY Constants
<1>1. b - a >= IndexModulus
  BY <1>a, SameMod, Zenon DEF Index
<1> QED BY <1>1, Constants

(* wrapping_add(1) of an index is the index of the next access.            *)
LEMMA WrappedSuccessor ==
  ASSUME NEW a \in Nat
  PROVE  WrappingAdd1(Index(a)) = Index(a + 1)
<1>1. a \in Int /\ 1 \in Int /\ IndexModulus \in Nat \ {0}
  BY Constants
<1>2. ((a % IndexModulus) + 1) % IndexModulus = (a + 1) % IndexModulus
  BY <1>1, ModAdd, Zenon
<1> QED BY <1>2 DEF WrappingAdd1, Index

(* index & mask gives the same slot before and after the index wrapped.    *)
LEMMA SlotOfWrapped ==
  ASSUME NEW a \in Nat
  PROVE  SlotOf(Index(a)) = SlotOf(a) /\ SlotOf(a) \in 0 .. Capacity - 1
<1>a. a \in Int
  OBVIOUS
<1>1. (a % IndexModulus) % Capacity = a % Capacity
  BY <1>a, Constants, ModMod, Zenon
<1>2. a % Capacity \in 0 .. Capacity - 1
  BY Constants, ModDiv
<1> QED BY <1>1, <1>2 DEF SlotOf, Index

(* Less than a capacity apart, two indices use different slots.            *)
LEMMA DistinctSlots ==
  ASSUME NEW a \in Nat, NEW b \in Nat, a < b, b - a < Capacity
  PROVE  SlotOf(a) # SlotOf(b)
<1> SUFFICES ASSUME a % Capacity = b % Capacity PROVE FALSE
  BY DEF SlotOf
<1>a. a \in Int /\ b \in Int
  OBVIOUS
<1>1. b - a >= Capacity
  BY <1>a, Constants, SameMod, Zenon
<1> QED BY <1>1, Constants

(* An index is a number, as usize is unsigned.                             *)
LEMMA IndexType ==
  ASSUME NEW a \in Nat
  PROVE  Index(a) \in Nat
BY Constants DEF Index

(* An atomic's newest value, and the modification order after a store.     *)
LEMMA NewestStore ==
  ASSUME NEW log, Counts(log)
  PROVE  /\ Len(log) \in Nat /\ Len(log) - 1 \in Nat
         /\ Newest(log).val = Index(Len(log) - 1)
BY DEF Counts, Newest

(* A Release store of the next index continues the modification order.     *)
LEMMA CountsRelease ==
  ASSUME NEW log, Counts(log), NEW val \in Nat,
         val = Index(Len(log))
  PROVE  /\ Counts(Release(log, val, Len(log)))
         /\ Len(Release(log, val, Len(log))) = Len(log) + 1
<1> DEFINE store == [val |-> val, published |-> Len(log)]
           new == Append(log, store)
<1>1. Len(log) \in Nat /\ store \in Stores /\ log \in Seq(Stores)
  BY DEF Counts, Stores
<1>2. store.val = val /\ store.published = Len(log)
  OBVIOUS
<1> HIDE DEF store
<1>3. new \in Seq(Stores) /\ Len(new) = Len(log) + 1
  BY <1>1
<1>4. new[Len(log) + 1] = store /\ \A k \in 1 .. Len(log) : new[k] = log[k]
  BY <1>1
<1>5. Release(log, val, Len(log)) = new
  BY DEF Release, store
<1> HIDE DEF new
<1>6. \A k \in 1 .. Len(new) :
        new[k].val = Index(k - 1) /\ new[k].published = k - 1
  <2> TAKE k \in 1 .. Len(new)
  <2>1. CASE k \in 1 .. Len(log)
    BY <1>4, <2>1 DEF Counts
  <2>2. CASE k = Len(log) + 1
    <3>1. k - 1 = Len(log)
      BY <1>1, <2>2
    <3> QED BY <1>2, <1>4, <2>2, <3>1
  <2> QED BY <1>1, <1>3, <2>1, <2>2
<1> QED BY <1>1, <1>3, <1>5, <1>6 DEF Counts

(* An Acquire load of a store at or after the last one seen.               *)
LEMMA AcquireLoad ==
  ASSUME NEW log, Counts(log), NEW seen \in 1 .. Len(log),
         NEW k \in Loadable(log, seen)
  PROVE  /\ k \in 1 .. Len(log) /\ k >= seen /\ k - 1 \in Nat
         /\ log[k].val = Index(k - 1)
         /\ Acquire(seen - 1, log[k]) = k - 1
<1>1. Len(log) \in Nat /\ k \in 1 .. Len(log) /\ k >= seen
  BY DEF Loadable, Counts
<1>2. log[k].val = Index(k - 1) /\ log[k].published = k - 1
  BY <1>1 DEF Counts
<1>3. Max({seen - 1, k - 1}) = k - 1
  <2> DEFINE S == {seen - 1, k - 1}
  <2>1. k - 1 \in S /\ \A y \in S : k - 1 >= y
    BY <1>1
  <2>2. \A x \in S : (\A y \in S : x >= y) => x = k - 1
    BY <1>1
  <2> HIDE DEF S
  <2>3. Max(S) = k - 1
    BY <2>1, <2>2 DEF Max
  <2> QED BY <2>3 DEF S
<1> QED BY <1>1, <1>2, <1>3 DEF Acquire

-----------------------------------------------------------------------------
(* The invariant is inductive: one lemma per action.                       *)

(* channel() starts with an empty ring that satisfies the invariant.       *)
LEMMA RingInit ==
  Init => RingIInv
<1> SUFFICES ASSUME Init PROVE RingIInv
  OBVIOUS
<1> DEFINE store == [val |-> 0, published |-> 0]
<1>1. Index(0) = 0
  BY Constants DEF Index
<1>2. Counts(<<store>>) /\ Len(<<store>>) = 1
  BY <1>1 DEF Counts, Stores
<1> HIDE DEF store
<1>3. Counts(tailLog) /\ Counts(headLog) /\ Pushed = 0 /\ Popped = 0
      /\ Len(tailLog) = 1 /\ Len(headLog) = 1
  BY <1>2 DEF Init, store, Pushed, Popped
<1>4. ProducerOK /\ ConsumerOK
  BY <1>1, <1>3, CapacityType DEF Init, ProducerOK, ConsumerOK, Producers, Consumers
<1>5. DeliveredOK
  BY <1>3 DEF Init, DeliveredOK
<1>6. SlotsOK
  BY <1>3, CapacityType DEF Init, SlotsOK, InitSlot, Written
<1>7. HalvesOK
  BY DEF Init, HalvesOK
<1> QED BY <1>3, <1>4, <1>5, <1>6, <1>7 DEF RingIInv

(* Facts about the counters that every step uses.                          *)
LEMMA RingCounts ==
  ASSUME RingIInv
  PROVE  /\ Pushed \in Nat /\ Popped \in Nat
         /\ Len(tailLog) = Pushed + 1 /\ Len(headLog) = Popped + 1
         /\ Newest(tailLog).val = Index(Pushed)
         /\ Newest(headLog).val = Index(Popped)
         /\ Popped <= Pushed /\ Pushed - Popped <= Capacity
         /\ prod.learnt \in Nat /\ prod.learnt <= Popped
         /\ cons.learnt \in Nat /\ cons.learnt <= Pushed
<1>1. /\ Len(tailLog) \in Nat /\ Len(headLog) \in Nat
      /\ Pushed \in Nat /\ Popped \in Nat
      /\ Newest(tailLog).val = Index(Pushed)
      /\ Newest(headLog).val = Index(Popped)
  BY NewestStore DEF RingIInv, Pushed, Popped
<1>2. Len(tailLog) = Pushed + 1 /\ Len(headLog) = Popped + 1
  BY <1>1 DEF Pushed, Popped
<1>3. prod.learnt \in Nat /\ prod.learnt <= Popped /\ Pushed - prod.learnt <= Capacity
  BY <1>1, <1>2 DEF RingIInv, ProducerOK
<1>4. cons.learnt \in Nat /\ cons.learnt <= Pushed /\ Popped <= cons.learnt
  BY <1>1, <1>2 DEF RingIInv, ConsumerOK
<1> QED BY <1>1, <1>2, <1>3, <1>4, CapacityType

(* The steps that only change the producer's own record, and do not write. *)
LEMMA ProducerStep ==
  ASSUME RingIInv, ProducerOK', prod'.pc # "publish", prod.pc # "publish",
         "producer" \notin halves => prod'.pc = "idle",
         UNCHANGED <<tailLog, headLog, slots, cons, delivered, dropped, halves, stale>>
  PROVE  RingIInv'
<1>1. Pushed' = Pushed /\ Popped' = Popped /\ Written' = Written
  BY DEF Pushed, Popped, Written
<1>2. Counts(tailLog)' /\ Counts(headLog)'
  BY DEF RingIInv, Counts
<1>3. ConsumerOK' /\ DeliveredOK'
  BY <1>1 DEF RingIInv, ConsumerOK, DeliveredOK
<1>4. SlotsOK'
  BY <1>1 DEF RingIInv, SlotsOK
<1>5. HalvesOK'
  BY <1>1 DEF RingIInv, HalvesOK
<1> QED BY <1>2, <1>3, <1>4, <1>5 DEF RingIInv

(* try_push loads its tail and finds the cached head full or not.          *)
LEMMA PushStartInv ==
  ASSUME RingIInv, PushStart, UNCHANGED stale
  PROVE  RingIInv'
<1> DEFINE full == CachedFull(Newest(tailLog).val, prod.cachedHead)
<1>1. full <=> Pushed - prod.learnt >= Capacity
  <2>1. WrappingSub(Index(Pushed), Index(prod.learnt)) = Pushed - prod.learnt
    BY RingCounts, Occupancy DEF RingIInv, ProducerOK
  <2>2. prod.cachedHead = Index(prod.learnt)
    BY DEF RingIInv, ProducerOK
  <2> QED BY <2>1, <2>2, RingCounts DEF CachedFull
<1> HIDE DEF full
<1>2. prod' = [prod EXCEPT !.tail = Index(Pushed),
                           !.pc = IF full THEN "refresh" ELSE "write"]
  BY RingCounts, ZenonT(60) DEF PushStart, full
<1>3. Index(Pushed) \in Nat
  BY RingCounts, IndexType
<1>4. UNCHANGED <<tailLog, headLog>> /\ Pushed' = Pushed
  BY DEF PushStart, Pushed
<1>5. ProducerOK'
  <2>1. /\ prod'.seen = prod.seen /\ prod'.cachedHead = prod.cachedHead
        /\ prod'.learnt = prod.learnt /\ prod'.tail = Index(Pushed)
        /\ prod'.pc = IF full THEN "refresh" ELSE "write"
        /\ prod' \in Producers
    BY <1>2, <1>3, ZenonT(60) DEF RingIInv, ProducerOK, Producers
  <2>2. /\ prod.seen \in 1 .. Len(headLog) /\ prod.learnt \in Nat
        /\ prod.learnt = prod.seen - 1 /\ prod.cachedHead = Index(prod.seen - 1)
        /\ prod.learnt <= Pushed /\ Pushed - prod.learnt <= Capacity
    BY RingCounts DEF RingIInv, ProducerOK
  <2>3. prod'.pc \in {"write", "publish"} => Pushed - prod.learnt < Capacity
    BY <1>1, <2>1, <2>2, RingCounts, CapacityType
  <2> QED BY <1>4, <2>1, <2>2, <2>3 DEF ProducerOK
<1>6. prod'.pc # "publish" /\ prod.pc # "publish" /\ "producer" \in halves
  BY <1>2 DEF PushStart, RingIInv, ProducerOK
<1> QED BY <1>5, <1>6, ProducerStep DEF PushStart

(* try_push loads head, with what the consumer published.                  *)
LEMMA PushRefreshInv ==
  ASSUME RingIInv, PushRefresh, UNCHANGED stale
  PROVE  RingIInv'
<1>1. PICK k \in Loadable(headLog, prod.seen) :
        LET head == headLog[k].val
            full == CachedFull(prod.tail, head)
        IN  prod' = [prod EXCEPT
              !.cachedHead = head,
              !.seen = k,
              !.learnt = Acquire(@, headLog[k]),
              !.pc = IF full THEN "idle" ELSE "write",
              !.result = IF full THEN "full" ELSE @]
  BY ZenonT(60) DEF PushRefresh
<1> DEFINE full == CachedFull(prod.tail, headLog[k].val)
<1>2. /\ k \in 1 .. Len(headLog) /\ k >= prod.seen /\ k - 1 \in Nat
      /\ headLog[k].val = Index(k - 1)
      /\ Acquire(prod.learnt, headLog[k]) = k - 1
  BY AcquireLoad DEF RingIInv, ProducerOK
<1>3. prod.pc = "refresh" /\ prod.tail = Index(Pushed)
  BY DEF PushRefresh, RingIInv, ProducerOK
<1>4. k - 1 <= Popped /\ k - 1 >= prod.learnt
  <2>1. prod.seen \in Nat /\ prod.learnt = prod.seen - 1
    BY DEF RingIInv, ProducerOK
  <2> QED BY <1>2, <2>1, RingCounts
<1>5. k - 1 <= Pushed /\ Pushed - (k - 1) <= Capacity
  <2>1. Pushed - prod.learnt <= Capacity
    BY DEF RingIInv, ProducerOK
  <2> QED BY <1>2, <1>4, <2>1, RingCounts, CapacityType
<1>6. full <=> Pushed - (k - 1) >= Capacity
  <2>1. WrappingSub(Index(Pushed), Index(k - 1)) = Pushed - (k - 1)
    BY <1>2, <1>5, RingCounts, Occupancy
  <2> QED BY <1>2, <1>3, <2>1 DEF CachedFull
<1>7. prod' = [prod EXCEPT
                 !.cachedHead = Index(k - 1),
                 !.seen = k,
                 !.learnt = k - 1,
                 !.pc = IF full THEN "idle" ELSE "write",
                 !.result = IF full THEN "full" ELSE @]
  BY <1>1, <1>2, ZenonT(60) DEF RingIInv, ProducerOK
<1> HIDE DEF full
<1>8. Index(k - 1) \in Nat
  BY <1>2, IndexType
<1>9. UNCHANGED <<tailLog, headLog>> /\ Pushed' = Pushed
  BY DEF PushRefresh, Pushed
<1>10. ProducerOK'
  <2>1. /\ prod'.seen = k /\ prod'.cachedHead = Index(k - 1)
        /\ prod'.learnt = k - 1 /\ prod'.tail = Index(Pushed)
        /\ prod'.pc = IF full THEN "idle" ELSE "write"
        /\ prod' \in Producers
    <3>1. k \in Nat /\ prod \in Producers
      BY <1>2 DEF RingIInv, ProducerOK
    <3>2. CASE full
      BY <1>2, <1>3, <1>7, <1>8, <3>1, <3>2, ZenonT(60) DEF Producers
    <3>3. CASE ~ full
      BY <1>2, <1>3, <1>7, <1>8, <3>1, <3>3, ZenonT(60) DEF Producers
    <3> QED BY <3>2, <3>3
  <2>2. prod'.pc \in {"write", "publish"} => Pushed - (k - 1) < Capacity
    BY <1>2, <1>6, <2>1, RingCounts, CapacityType
  <2> QED BY <1>2, <1>5, <1>9, <2>1, <2>2 DEF ProducerOK
<1>11. prod'.pc # "publish" /\ prod.pc # "publish" /\ "producer" \in halves
  BY <1>3, <1>7 DEF RingIInv, ProducerOK, HalvesOK
<1> QED BY <1>10, <1>11, ProducerStep DEF PushRefresh

(* The values written and not yet released by the consumer fit the ring.   *)
LEMMA Window ==
  ASSUME RingIInv
  PROVE  /\ Written \in Nat /\ Pushed <= Written /\ Written - Popped <= Capacity
         /\ \A n \in 1 .. Written : n > Popped =>
              /\ slots[SlotOf(n - 1)].val = n
              /\ slots[SlotOf(n - 1)].written = n
<1>1. Written \in Nat /\ Pushed <= Written /\ Written - Popped <= Capacity
  <2>1. CASE prod.pc = "publish"
    <3>1. Pushed - prod.learnt < Capacity
      BY <2>1 DEF RingIInv, ProducerOK
    <3> QED BY <2>1, <3>1, RingCounts, CapacityType DEF Written
  <2>2. CASE prod.pc # "publish"
    BY <2>2, RingCounts, CapacityType DEF Written
  <2> QED BY <2>1, <2>2
<1>2. \A n \in 1 .. Written : n > Written - Capacity =>
        /\ slots[SlotOf(n - 1)].val = n
        /\ slots[SlotOf(n - 1)].written = n
  BY DEF RingIInv, SlotsOK
<1>3. \A n \in 1 .. Written : n > Popped => n > Written - Capacity
  BY <1>1, RingCounts, CapacityType
<1> QED BY <1>1, <1>2, <1>3

(* try_push writes a slot the consumer has left for good.                  *)
LEMMA PushWriteInv ==
  ASSUME RingIInv, PushWrite, UNCHANGED stale
  PROVE  RingIInv'
<1> DEFINE at == SlotOf(Pushed)
<1>1. prod.pc = "write" /\ prod.tail = Index(Pushed) /\ "producer" \in halves
  BY DEF PushWrite, RingIInv, ProducerOK, HalvesOK
<1>2. SlotOf(prod.tail) = at /\ at \in 0 .. Capacity - 1
  BY <1>1, SlotOfWrapped, RingCounts
<1>3. /\ Pushed' = Pushed /\ Popped' = Popped
      /\ UNCHANGED <<tailLog, headLog, cons, delivered, dropped, halves, stale>>
  BY DEF PushWrite, Pushed, Popped
<1>4. Counts(tailLog)' /\ Counts(headLog)'
  BY <1>3 DEF RingIInv, Counts
<1>5. ConsumerOK' /\ DeliveredOK'
  BY <1>3 DEF RingIInv, ConsumerOK, DeliveredOK
<1>6. prod' = [prod EXCEPT !.pc = "publish"] /\ prod \in Producers
  BY DEF PushWrite, RingIInv, ProducerOK
<1>7. /\ prod' \in Producers /\ prod'.pc = "publish" /\ prod'.tail = prod.tail
      /\ prod'.seen = prod.seen /\ prod'.cachedHead = prod.cachedHead
      /\ prod'.learnt = prod.learnt
  BY <1>6 DEF Producers
<1>8. ProducerOK'
  BY <1>1, <1>3, <1>7 DEF RingIInv, ProducerOK
<1>9. HalvesOK'
  BY <1>1, <1>3, <1>7 DEF RingIInv, HalvesOK
<1>10. Written' = Pushed + 1 /\ Written = Pushed
  BY <1>1, <1>3, <1>7 DEF Written
<1>11. SlotsOK'
  <2>1. slots \in [0 .. Capacity - 1 -> [val : Nat, written : Nat, read : Nat]]
    BY DEF RingIInv, SlotsOK
  <2>2. slots' = [slots EXCEPT ![at] =
                    [@ EXCEPT !.val = Pushed + 1, !.written = Pushed + 1]]
    BY <1>2 DEF PushWrite
  <2> HIDE DEF at
  <2>3. /\ slots' \in [0 .. Capacity - 1 -> [val : Nat, written : Nat, read : Nat]]
        /\ slots'[at].val = Pushed + 1 /\ slots'[at].written = Pushed + 1
        /\ \A j \in 0 .. Capacity - 1 : slots'[j].read = slots[j].read
        /\ \A j \in 0 .. Capacity - 1 : j # at => slots'[j] = slots[j]
    <3> DEFINE new == [slots[at] EXCEPT !.val = Pushed + 1, !.written = Pushed + 1]
    <3>1. slots[at] \in [val : Nat, written : Nat, read : Nat]
      BY <1>2, <2>1
    <3>2. /\ new \in [val : Nat, written : Nat, read : Nat] /\ new.read = slots[at].read
          /\ new.val = Pushed + 1 /\ new.written = Pushed + 1
      <4>1. Pushed + 1 \in Nat
        BY RingCounts
      <4> QED BY <3>1, <4>1, ZenonT(60)
    <3>3. slots' = [slots EXCEPT ![at] = new]
      BY <1>2, <2>1, <2>2
    <3> HIDE DEF new
    <3>4. slots'[at] = new /\ \A j \in 0 .. Capacity - 1 : j # at => slots'[j] = slots[j]
      BY <1>2, <2>1, <3>3
    <3>5. slots' \in [0 .. Capacity - 1 -> [val : Nat, written : Nat, read : Nat]]
      BY <1>2, <2>1, <3>2, <3>3
    <3> QED BY <3>2, <3>4, <3>5
  <2>4. ASSUME NEW n \in 1 .. Pushed + 1, n > Pushed + 1 - Capacity
        PROVE  slots'[SlotOf(n - 1)].val = n /\ slots'[SlotOf(n - 1)].written = n
    <3>1. CASE n = Pushed + 1
      <4>1. n - 1 = Pushed
        BY <3>1, RingCounts
      <4>2. slots'[SlotOf(n - 1)] = slots'[at]
        BY <4>1 DEF at
      <4> QED BY <2>3, <3>1, <4>2
    <3>2. CASE n # Pushed + 1
      <4>1. /\ n \in 1 .. Written /\ n > Written - Capacity /\ n - 1 \in Nat
            /\ n - 1 < Pushed /\ Pushed - (n - 1) < Capacity
        BY <1>10, <2>4, <3>2, RingCounts, CapacityType
      <4>2. SlotOf(n - 1) # at /\ SlotOf(n - 1) \in 0 .. Capacity - 1
        BY <4>1, RingCounts, DistinctSlots, SlotOfWrapped DEF at
      <4>3. slots[SlotOf(n - 1)].val = n /\ slots[SlotOf(n - 1)].written = n
        BY <4>1 DEF RingIInv, SlotsOK
      <4> QED BY <2>3, <4>2, <4>3
    <3> QED BY <3>1, <3>2
  <2>5. \A j \in 0 .. Capacity - 1 :
          /\ slots'[j].read <= Len(delivered')
          /\ slots'[j].read # 0 => SlotOf(slots'[j].read - 1) = j
    BY <1>3, <2>3 DEF RingIInv, SlotsOK
  <2>6. \A n \in 1 .. Written' : n > Written' - Capacity =>
          slots'[SlotOf(n - 1)].val = n /\ slots'[SlotOf(n - 1)].written = n
    BY <1>10, <2>4, RingCounts, CapacityType
  <2> QED BY <2>3, <2>5, <2>6 DEF SlotsOK
<1> QED BY <1>4, <1>5, <1>8, <1>9, <1>11 DEF RingIInv

(* try_push publishes the slot it wrote.                                   *)
LEMMA PushPublishInv ==
  ASSUME RingIInv, PushPublish, UNCHANGED stale
  PROVE  RingIInv'
<1>1. prod.pc = "publish" /\ prod.tail = Index(Pushed) /\ "producer" \in halves
  BY DEF PushPublish, RingIInv, ProducerOK, HalvesOK
<1>2. UNCHANGED <<headLog, slots, cons, delivered, dropped, halves, stale>>
  BY DEF PushPublish
<1>3. /\ WrappingAdd1(prod.tail) = Index(Len(tailLog)) /\ Pushed + 1 = Len(tailLog)
      /\ Index(Len(tailLog)) \in Nat
  BY <1>1, RingCounts, WrappedSuccessor, IndexType
<1>4. Counts(tailLog) /\ tailLog' = Release(tailLog, Index(Len(tailLog)), Len(tailLog))
  BY <1>3 DEF PushPublish, RingIInv
<1>5. Counts(tailLog') /\ Len(tailLog') = Len(tailLog) + 1
  BY <1>3, <1>4, CountsRelease
<1>6. Pushed' = Pushed + 1 /\ Popped' = Popped
  BY <1>2, <1>5, RingCounts DEF Pushed, Popped
<1>7. Counts(tailLog)' /\ Counts(headLog)'
  BY <1>2, <1>5 DEF RingIInv, Counts
<1>8. prod' = [prod EXCEPT !.pc = "idle", !.result = "ok"] /\ prod \in Producers
  BY DEF PushPublish, RingIInv, ProducerOK
<1>9. /\ prod' \in Producers /\ prod'.pc = "idle"
      /\ prod'.seen = prod.seen /\ prod'.cachedHead = prod.cachedHead
      /\ prod'.learnt = prod.learnt
  BY <1>8, ZenonT(60) DEF Producers
<1>10. ProducerOK'
  <2>1. /\ prod.seen \in 1 .. Len(headLog) /\ prod.cachedHead = Index(prod.seen - 1)
        /\ prod.learnt = prod.seen - 1 /\ Pushed - prod.learnt < Capacity
    BY <1>1 DEF RingIInv, ProducerOK
  <2>2. prod.learnt <= Pushed + 1 /\ Pushed + 1 - prod.learnt <= Capacity
    BY <2>1, RingCounts, CapacityType
  <2>3. prod'.learnt <= Pushed' /\ Pushed' - prod'.learnt <= Capacity
    BY <1>6, <1>9, <2>2, RingCounts, CapacityType
  <2>4. /\ prod'.seen \in 1 .. Len(headLog') /\ prod'.learnt = prod'.seen - 1
        /\ prod'.cachedHead = Index(prod'.seen - 1)
    BY <1>2, <1>9, <2>1
  <2> QED BY <1>9, <2>3, <2>4 DEF ProducerOK
<1>11. ConsumerOK'
  <2>1. cons.seen \in 1 .. Len(tailLog')
    BY <1>5, RingCounts DEF RingIInv, ConsumerOK
  <2> QED BY <1>2, <1>6, <2>1 DEF RingIInv, ConsumerOK
<1>12. DeliveredOK'
  BY <1>2, <1>6 DEF RingIInv, DeliveredOK
<1>13. Written' = Written
  BY <1>1, <1>6, <1>9 DEF Written
<1>14. SlotsOK'
  BY <1>2, <1>13 DEF RingIInv, SlotsOK
<1>15. HalvesOK'
  BY <1>1, <1>2, <1>9 DEF RingIInv, HalvesOK
<1> QED BY <1>7, <1>10, <1>11, <1>12, <1>14, <1>15 DEF RingIInv

(* The steps that only change the consumer's own record, and do not read.  *)
LEMMA ConsumerStep ==
  ASSUME RingIInv, ConsumerOK', cons'.pc # "publish", cons.pc # "publish",
         "consumer" \notin halves => cons'.pc = "idle",
         UNCHANGED <<tailLog, headLog, slots, prod, delivered, dropped, halves, stale>>
  PROVE  RingIInv'
<1>1. Pushed' = Pushed /\ Popped' = Popped /\ Written' = Written
  BY DEF Pushed, Popped, Written
<1>2. Counts(tailLog)' /\ Counts(headLog)'
  BY DEF RingIInv, Counts
<1>3. ProducerOK' /\ DeliveredOK'
  BY <1>1 DEF RingIInv, ProducerOK, DeliveredOK
<1>4. SlotsOK'
  BY <1>1 DEF RingIInv, SlotsOK
<1>5. HalvesOK'
  BY <1>1 DEF RingIInv, HalvesOK
<1> QED BY <1>2, <1>3, <1>4, <1>5 DEF RingIInv

(* try_pop loads its head and finds the cached tail empty or not.          *)
LEMMA PopStartInv ==
  ASSUME RingIInv, PopStart, UNCHANGED stale
  PROVE  RingIInv'
<1> DEFINE empty == CachedEmpty(Newest(headLog).val, cons.cachedTail)
<1>1. /\ cons.seen \in 1 .. Len(tailLog) /\ cons.learnt = cons.seen - 1
      /\ cons.cachedTail = Index(cons.seen - 1) /\ Popped <= cons.learnt
      /\ cons \in Consumers
  BY DEF RingIInv, ConsumerOK
<1>2. ~ empty => Popped < cons.learnt
  <2> SUFFICES ASSUME Popped = cons.learnt PROVE empty
    BY <1>1, RingCounts
  <2> QED BY <1>1, RingCounts DEF CachedEmpty
<1>3. cons' = [cons EXCEPT !.head = Index(Popped),
                           !.pc = IF empty THEN "refresh" ELSE "read"]
  BY RingCounts, ZenonT(60) DEF PopStart
<1> HIDE DEF empty
<1>4. Index(Popped) \in Nat
  BY RingCounts, IndexType
<1>5. UNCHANGED <<tailLog, headLog>> /\ Popped' = Popped
  BY DEF PopStart, Popped
<1>6. /\ cons'.seen = cons.seen /\ cons'.cachedTail = cons.cachedTail
      /\ cons'.learnt = cons.learnt /\ cons'.head = Index(Popped)
      /\ cons'.pc = IF empty THEN "refresh" ELSE "read"
      /\ cons' \in Consumers
  BY <1>1, <1>3, <1>4, ZenonT(60) DEF Consumers
<1>7. ConsumerOK'
  BY <1>1, <1>2, <1>5, <1>6 DEF ConsumerOK
<1>8. cons'.pc # "publish" /\ cons.pc # "publish" /\ "consumer" \in halves
  BY <1>6 DEF PopStart
<1> QED BY <1>7, <1>8, ConsumerStep DEF PopStart

(* try_pop loads tail, with what the producer published.                   *)
LEMMA PopRefreshInv ==
  ASSUME RingIInv, PopRefresh, UNCHANGED stale
  PROVE  RingIInv'
<1>1. PICK k \in Loadable(tailLog, cons.seen) :
        LET tail  == tailLog[k].val
            empty == CachedEmpty(cons.head, tail)
        IN  cons' = [cons EXCEPT
              !.cachedTail = tail,
              !.seen = k,
              !.learnt = Acquire(@, tailLog[k]),
              !.pc = IF empty THEN "idle" ELSE "read",
              !.result = IF empty THEN "none" ELSE @]
  BY ZenonT(60) DEF PopRefresh
<1> DEFINE empty == CachedEmpty(cons.head, tailLog[k].val)
<1>2. /\ k \in 1 .. Len(tailLog) /\ k >= cons.seen /\ k - 1 \in Nat
      /\ tailLog[k].val = Index(k - 1)
      /\ Acquire(cons.learnt, tailLog[k]) = k - 1
  BY AcquireLoad DEF RingIInv, ConsumerOK
<1>3. /\ cons.pc = "refresh" /\ cons.head = Index(Popped) /\ cons \in Consumers
      /\ cons.learnt = cons.seen - 1 /\ cons.seen \in Nat /\ Popped <= cons.learnt
  BY DEF PopRefresh, RingIInv, ConsumerOK, Consumers
<1>4. Popped <= k - 1
  BY <1>2, <1>3, RingCounts
<1>5. ~ empty => Popped < k - 1
  <2> SUFFICES ASSUME Popped = k - 1 PROVE empty
    BY <1>2, <1>4, RingCounts
  <2> QED BY <1>2, <1>3 DEF CachedEmpty
<1>6. cons' = [cons EXCEPT
                 !.cachedTail = Index(k - 1),
                 !.seen = k,
                 !.learnt = k - 1,
                 !.pc = IF empty THEN "idle" ELSE "read",
                 !.result = IF empty THEN "none" ELSE @]
  BY <1>1, <1>2, <1>3 DEF Consumers
<1> HIDE DEF empty
<1>7. Index(k - 1) \in Nat /\ k \in Nat
  BY <1>2, IndexType
<1>8. UNCHANGED <<tailLog, headLog>> /\ Popped' = Popped
  BY DEF PopRefresh, Popped
<1>9. /\ cons'.seen = k /\ cons'.cachedTail = Index(k - 1)
      /\ cons'.learnt = k - 1 /\ cons'.head = Index(Popped)
      /\ cons'.pc = IF empty THEN "idle" ELSE "read"
      /\ cons' \in Consumers
  <2>1. CASE empty
    BY <1>2, <1>3, <1>6, <1>7, <2>1, ZenonT(60) DEF Consumers
  <2>2. CASE ~ empty
    BY <1>2, <1>3, <1>6, <1>7, <2>2, ZenonT(60) DEF Consumers
  <2> QED BY <2>1, <2>2
<1>10. ConsumerOK'
  BY <1>2, <1>4, <1>5, <1>8, <1>9 DEF ConsumerOK
<1>11. cons'.pc # "publish" /\ cons.pc # "publish" /\ "consumer" \in halves
  BY <1>3, <1>9 DEF RingIInv, HalvesOK
<1> QED BY <1>10, <1>11, ConsumerStep DEF PopRefresh

(* try_pop reads the oldest value of the ring.                             *)
LEMMA PopReadInv ==
  ASSUME RingIInv, PopRead, UNCHANGED stale
  PROVE  RingIInv'
<1> DEFINE at == SlotOf(Popped)
<1>1. /\ cons.pc = "read" /\ cons.head = Index(Popped) /\ "consumer" \in halves
      /\ Popped < cons.learnt /\ cons \in Consumers
  BY DEF PopRead, RingIInv, ConsumerOK, HalvesOK
<1>2. SlotOf(cons.head) = at /\ at \in 0 .. Capacity - 1
  BY <1>1, SlotOfWrapped, RingCounts
<1>3. /\ Pushed' = Pushed /\ Popped' = Popped /\ Written' = Written
      /\ UNCHANGED <<tailLog, headLog, prod, dropped, halves, stale>>
  BY DEF PopRead, Pushed, Popped, Written
<1>4. Counts(tailLog)' /\ Counts(headLog)'
  BY <1>3 DEF RingIInv, Counts
<1>5. ProducerOK'
  BY <1>3 DEF RingIInv, ProducerOK
<1>6. /\ cons' \in Consumers /\ cons'.pc = "publish" /\ cons'.head = cons.head
      /\ cons'.seen = cons.seen /\ cons'.cachedTail = cons.cachedTail
      /\ cons'.learnt = cons.learnt
  BY <1>1 DEF PopRead, Consumers
<1>7. ConsumerOK'
  BY <1>1, <1>3, <1>6 DEF RingIInv, ConsumerOK
<1>8. HalvesOK'
  BY <1>1, <1>3, <1>6 DEF RingIInv, HalvesOK
<1>9. slots[at].val = Popped + 1
  <2>1. Popped + 1 \in 1 .. Written /\ Popped + 1 > Popped /\ (Popped + 1) - 1 = Popped
    BY <1>1, Window, RingCounts
  <2> QED BY <2>1, Window
<1>10. /\ delivered \in Seq(Nat) /\ Len(delivered) = Popped
       /\ \A i \in 1 .. Len(delivered) : delivered[i] = i
  BY <1>1 DEF RingIInv, DeliveredOK
<1>11. delivered' = Append(delivered, Popped + 1) /\ Popped \in Nat
  BY <1>2, <1>9, RingCounts DEF PopRead
<1>12. /\ delivered' \in Seq(Nat) /\ Len(delivered') = Popped + 1
       /\ \A i \in 1 .. Len(delivered') : delivered'[i] = i
  BY <1>10, <1>11
<1>13. DeliveredOK'
  BY <1>3, <1>6, <1>12 DEF DeliveredOK
<1>14. SlotsOK'
  <2>1. slots \in [0 .. Capacity - 1 -> [val : Nat, written : Nat, read : Nat]]
    BY DEF RingIInv, SlotsOK
  <2>2. slots' = [slots EXCEPT ![at].read = Popped + 1]
    BY <1>2 DEF PopRead
  <2>3. /\ slots' \in [0 .. Capacity - 1 -> [val : Nat, written : Nat, read : Nat]]
        /\ slots'[at].read = Popped + 1
        /\ \A j \in 0 .. Capacity - 1 :
             slots'[j].val = slots[j].val /\ slots'[j].written = slots[j].written
        /\ \A j \in 0 .. Capacity - 1 : j # at => slots'[j] = slots[j]
    <3> HIDE DEF at
    <3> DEFINE new == [slots[at] EXCEPT !.read = Popped + 1]
    <3>1. slots[at] \in [val : Nat, written : Nat, read : Nat] /\ Popped + 1 \in Nat
      BY <1>2, <1>11, <2>1
    <3>2. /\ new \in [val : Nat, written : Nat, read : Nat] /\ new.read = Popped + 1
          /\ new.val = slots[at].val /\ new.written = slots[at].written
      BY <3>1
    <3>3. slots' = [slots EXCEPT ![at] = new]
      BY <1>2, <2>1, <2>2
    <3> HIDE DEF new
    <3>4. slots'[at] = new /\ \A j \in 0 .. Capacity - 1 : j # at => slots'[j] = slots[j]
      BY <1>2, <2>1, <3>3
    <3>5. slots' \in [0 .. Capacity - 1 -> [val : Nat, written : Nat, read : Nat]]
      BY <1>2, <2>1, <3>2, <3>3
    <3> QED BY <3>2, <3>4, <3>5
  <2>4. \A n \in 1 .. Written' : n > Written' - Capacity =>
          slots'[SlotOf(n - 1)].val = n /\ slots'[SlotOf(n - 1)].written = n
    <3> SUFFICES ASSUME NEW n \in 1 .. Written, n > Written - Capacity
                 PROVE  slots'[SlotOf(n - 1)].val = n /\ slots'[SlotOf(n - 1)].written = n
      BY <1>3
    <3>1. n - 1 \in Nat
      BY Window
    <3>2. SlotOf(n - 1) \in 0 .. Capacity - 1
      BY <3>1, SlotOfWrapped
    <3>3. slots[SlotOf(n - 1)].val = n /\ slots[SlotOf(n - 1)].written = n
      BY DEF RingIInv, SlotsOK
    <3> QED BY <2>3, <3>2, <3>3
  <2>5. ASSUME NEW j \in 0 .. Capacity - 1
        PROVE  /\ slots'[j].read <= Len(delivered')
               /\ slots'[j].read # 0 => SlotOf(slots'[j].read - 1) = j
    <3>1. CASE j = at
      BY <1>11, <1>12, <2>3, <3>1
    <3>2. CASE j # at
      <4>1. slots[j].read \in Nat /\ slots[j].read <= Len(delivered)
            /\ (slots[j].read # 0 => SlotOf(slots[j].read - 1) = j)
        BY <2>1 DEF RingIInv, SlotsOK
      <4> QED BY <1>10, <1>11, <1>12, <2>3, <3>2, <4>1
    <3> QED BY <3>1, <3>2
  <2> QED BY <2>3, <2>4, <2>5 DEF SlotsOK
<1> QED BY <1>4, <1>5, <1>7, <1>8, <1>13, <1>14 DEF RingIInv

(* try_pop gives the slot it read back to the producer.                    *)
LEMMA PopPublishInv ==
  ASSUME RingIInv, PopPublish, UNCHANGED stale
  PROVE  RingIInv'
<1>1. /\ cons.pc = "publish" /\ cons.head = Index(Popped) /\ "consumer" \in halves
      /\ Popped < cons.learnt /\ cons \in Consumers
  BY DEF PopPublish, RingIInv, ConsumerOK, HalvesOK
<1>2. UNCHANGED <<tailLog, slots, prod, delivered, dropped, halves, stale>>
  BY DEF PopPublish
<1>3. /\ WrappingAdd1(cons.head) = Index(Len(headLog)) /\ Popped + 1 = Len(headLog)
      /\ Index(Len(headLog)) \in Nat
  BY <1>1, RingCounts, WrappedSuccessor, IndexType
<1>4. Counts(headLog) /\ headLog' = Release(headLog, Index(Len(headLog)), Len(headLog))
  BY <1>3 DEF PopPublish, RingIInv
<1>5. Counts(headLog') /\ Len(headLog') = Len(headLog) + 1
  BY <1>3, <1>4, CountsRelease
<1>6. Popped' = Popped + 1 /\ Pushed' = Pushed /\ Written' = Written
  BY <1>2, <1>5, RingCounts DEF Pushed, Popped, Written
<1>7. Counts(tailLog)' /\ Counts(headLog)'
  BY <1>2, <1>5 DEF RingIInv, Counts
<1>8. /\ cons' \in Consumers /\ cons'.pc = "idle"
      /\ cons'.seen = cons.seen /\ cons'.cachedTail = cons.cachedTail
      /\ cons'.learnt = cons.learnt
  BY <1>1, ZenonT(60) DEF PopPublish, Consumers
<1>9. ConsumerOK'
  <2>1. /\ cons.seen \in 1 .. Len(tailLog) /\ cons.cachedTail = Index(cons.seen - 1)
        /\ cons.learnt = cons.seen - 1
    BY DEF RingIInv, ConsumerOK
  <2>2. Popped' <= cons'.learnt
    BY <1>1, <1>6, <1>8, RingCounts
  <2> QED BY <1>2, <1>8, <2>1, <2>2 DEF ConsumerOK
<1>10. ProducerOK'
  <2>1. prod.seen \in 1 .. Len(headLog')
    BY <1>5, RingCounts DEF RingIInv, ProducerOK
  <2> QED BY <1>2, <1>6, <2>1 DEF RingIInv, ProducerOK
<1>11. DeliveredOK'
  BY <1>1, <1>2, <1>6, <1>8 DEF RingIInv, DeliveredOK
<1>12. SlotsOK'
  BY <1>2, <1>6 DEF RingIInv, SlotsOK
<1>13. HalvesOK'
  BY <1>1, <1>2, <1>8 DEF RingIInv, HalvesOK
<1> QED BY <1>7, <1>9, <1>10, <1>11, <1>12, <1>13 DEF RingIInv

(* The values q + 1 .. p in order: what the ring holds after p pushes and  *)
(* q pops.                                                                 *)
Items(p, q) == [i \in 1 .. p - q |-> q + i]

(* What Inner::drop finds between head and tail.                           *)
LEMMA LeftIsItems ==
  ASSUME RingIInv
  PROVE  LeftInQueue = Items(Pushed, Popped)
<1> DEFINE head == Newest(headLog).val
           tail == Newest(tailLog).val
<1>1. head = Index(Popped) /\ tail = Index(Pushed)
  BY RingCounts
<1>2. WrappingSub(tail, head) = Pushed - Popped
  BY <1>1, RingCounts, Occupancy
<1>3. ASSUME NEW i \in 1 .. Pushed - Popped
      PROVE  slots[SlotOf((head + i - 1) % IndexModulus)].val = Popped + i
  <2>1. i \in Nat /\ i >= 1 /\ Popped \in Nat
    BY RingCounts
  <2>2. (head + i - 1) % IndexModulus = Index(Popped + (i - 1))
    <3>1. Popped \in Int /\ i - 1 \in Int /\ IndexModulus \in Nat \ {0}
      BY <2>1, Constants
    <3>2. ((Popped % IndexModulus) + (i - 1)) % IndexModulus
            = (Popped + (i - 1)) % IndexModulus
      BY <3>1, ModAdd, Zenon
    <3>3. head \in Nat
      BY <1>1, <2>1, IndexType
    <3>4. head + i - 1 = head + (i - 1)
      BY <2>1, <3>3
    <3>5. head = Popped % IndexModulus
      BY <1>1 DEF Index
    <3> QED BY <3>2, <3>4, <3>5 DEF Index
  <2>3. Popped + (i - 1) \in Nat /\ Popped + (i - 1) = (Popped + i) - 1
    BY <2>1
  <2>4. SlotOf(Index(Popped + (i - 1))) = SlotOf((Popped + i) - 1)
    BY <2>3, SlotOfWrapped
  <2>5. Popped + i \in 1 .. Written /\ Popped + i > Popped
    BY <2>1, Window, RingCounts
  <2>6. slots[SlotOf((Popped + i) - 1)].val = Popped + i
    BY <2>5, Window
  <2> QED BY <2>2, <2>4, <2>6
<1>4. LeftInQueue = [i \in 1 .. Pushed - Popped |->
                       slots[SlotOf((head + i - 1) % IndexModulus)].val]
  BY <1>2 DEF LeftInQueue
<1> HIDE DEF head
<1> QED BY <1>3, <1>4 DEF Items

(* Dropping a half, and with the last one Inner::drop.                     *)
LEMMA DropHalfInv ==
  ASSUME RingIInv, NEW half \in halves, DropHalf(half), UNCHANGED stale
  PROVE  RingIInv'
<1>1. /\ Pushed' = Pushed /\ Popped' = Popped /\ Written' = Written
      /\ UNCHANGED <<tailLog, headLog, slots, prod, cons, delivered, stale>>
  BY DEF DropHalf, Pushed, Popped, Written
<1>2. Counts(tailLog)' /\ Counts(headLog)'
  BY <1>1 DEF RingIInv, Counts
<1>3. ProducerOK' /\ ConsumerOK'
  BY <1>1 DEF RingIInv, ProducerOK, ConsumerOK
<1>4. DeliveredOK' /\ SlotsOK'
  BY <1>1 DEF RingIInv, DeliveredOK, SlotsOK
<1>5. HalvesOK'
  <2>1. /\ halves' \subseteq {"producer", "consumer"} /\ stale' \in BOOLEAN
        /\ "producer" \notin halves' => prod'.pc = "idle"
        /\ "consumer" \notin halves' => cons'.pc = "idle"
    BY <1>1 DEF RingIInv, HalvesOK, DropHalf
  <2>2. halves # {} /\ dropped = << >>
    BY DEF RingIInv, HalvesOK
  <2>3. dropped' = IF halves' = {} THEN Items(Pushed, Popped) ELSE << >>
    BY <2>2, LeftIsItems DEF DropHalf
  <2> QED BY <1>1, <2>1, <2>3 DEF HalvesOK, Items
<1> QED BY <1>2, <1>3, <1>4, <1>5 DEF RingIInv

(* Every step of either side preserves the invariant.                      *)
LEMMA RingNext ==
  RingIInv /\ [Next]_vars => RingIInv'
<1> SUFFICES ASSUME RingIInv, [Next]_vars PROVE RingIInv'
  OBVIOUS
<1>1. CASE PushStart /\ UNCHANGED stale
  BY <1>1, PushStartInv
<1>2. CASE PushRefresh /\ UNCHANGED stale
  BY <1>2, PushRefreshInv
<1>3. CASE PushWrite /\ UNCHANGED stale
  BY <1>3, PushWriteInv
<1>4. CASE PushPublish /\ UNCHANGED stale
  BY <1>4, PushPublishInv
<1>5. CASE PopStart /\ UNCHANGED stale
  BY <1>5, PopStartInv
<1>6. CASE PopRefresh /\ UNCHANGED stale
  BY <1>6, PopRefreshInv
<1>7. CASE PopRead /\ UNCHANGED stale
  BY <1>7, PopReadInv
<1>8. CASE PopPublish /\ UNCHANGED stale
  BY <1>8, PopPublishInv
<1>9. CASE (\E half \in halves : DropHalf(half)) /\ UNCHANGED stale
  BY <1>9, DropHalfInv
<1>10. CASE UNCHANGED vars
  <2>1. /\ Pushed' = Pushed /\ Popped' = Popped /\ Written' = Written
        /\ UNCHANGED <<tailLog, headLog, slots, prod, cons, delivered, dropped,
                       halves, stale>>
    BY <1>10 DEF vars, Pushed, Popped, Written
  <2>2. Counts(tailLog)' /\ Counts(headLog)'
    BY <2>1 DEF RingIInv, Counts
  <2>3. ProducerOK' /\ ConsumerOK'
    BY <2>1 DEF RingIInv, ProducerOK, ConsumerOK
  <2>4. DeliveredOK' /\ SlotsOK' /\ HalvesOK'
    BY <2>1 DEF RingIInv, DeliveredOK, SlotsOK, HalvesOK
  <2> QED BY <2>2, <2>3, <2>4 DEF RingIInv
<1> QED BY <1>1, <1>2, <1>3, <1>4, <1>5, <1>6, <1>7, <1>8, <1>9, <1>10
     DEF Next, TryPush, TryPop

(* The invariant holds in every reachable state.                           *)
THEOREM RingInvariant ==
  Spec => []RingIInv
BY RingInit, RingNext, PTL DEF Spec

-----------------------------------------------------------------------------
(* What the invariant says of the ring.                                    *)

(* Under the invariant the slot about to be accessed is published.         *)
LEMMA InvImpliesNoDataRace ==
  RingIInv => NoDataRace
<1> SUFFICES ASSUME RingIInv PROVE NoDataRace
  OBVIOUS
<1>1. ASSUME prod.pc = "write"
      PROVE  slots[SlotOf(prod.tail)].read <= prod.learnt
  <2> DEFINE at == SlotOf(Pushed)
             r == slots[at].read
  <2>1. prod.tail = Index(Pushed) /\ Pushed - prod.learnt < Capacity
    BY <1>1 DEF RingIInv, ProducerOK
  <2>2. SlotOf(prod.tail) = at /\ at \in 0 .. Capacity - 1
    BY <2>1, SlotOfWrapped, RingCounts
  <2>3. Len(delivered) <= Pushed /\ Len(delivered) \in Nat
    <3>1. cons.pc = "publish" => Popped < cons.learnt
      BY DEF RingIInv, ConsumerOK
    <3>2. Len(delivered) = IF cons.pc = "publish" THEN Popped + 1 ELSE Popped
      BY DEF RingIInv, DeliveredOK
    <3> QED BY <3>1, <3>2, RingCounts
  <2>4. r \in Nat /\ r <= Len(delivered) /\ (r # 0 => SlotOf(r - 1) = at)
    BY <2>2 DEF RingIInv, SlotsOK
  <2> HIDE DEF r
  <2>5. CASE r = 0
    BY <2>2, <2>5, RingCounts DEF r
  <2>6. CASE r # 0
    <3>1. r - 1 \in Nat /\ r - 1 < Pushed /\ SlotOf(r - 1) = SlotOf(Pushed)
      BY <2>3, <2>4, <2>6, RingCounts
    <3>2. ~ (Pushed - (r - 1) < Capacity)
      BY <3>1, RingCounts, DistinctSlots
    <3>3. r <= prod.learnt
      BY <2>1, <2>4, <3>2, RingCounts, CapacityType
    <3> QED BY <2>2, <3>3 DEF r
  <2> QED BY <2>5, <2>6
<1>2. ASSUME cons.pc = "read"
      PROVE  /\ slots[SlotOf(cons.head)].val # 0
             /\ slots[SlotOf(cons.head)].written <= cons.learnt
  <2>1. cons.head = Index(Popped) /\ Popped < cons.learnt
    BY <1>2 DEF RingIInv, ConsumerOK
  <2>2. SlotOf(cons.head) = SlotOf(Popped)
    BY <2>1, SlotOfWrapped, RingCounts
  <2>3. Popped + 1 \in 1 .. Written /\ Popped + 1 > Popped /\ (Popped + 1) - 1 = Popped
    BY <2>1, Window, RingCounts
  <2>4. slots[SlotOf(Popped)].val = Popped + 1 /\ slots[SlotOf(Popped)].written = Popped + 1
    BY <2>3, Window
  <2> QED BY <2>1, <2>2, <2>4, RingCounts
<1> QED BY <1>1, <1>2 DEF NoDataRace

(* Under release and acquire, with loads that may return stale values and  *)
(* indices that wrap, no slot is ever accessed by both sides at once.      *)
THEOREM RingRaceFree ==
  Spec => []NoDataRace
BY RingInvariant, InvImpliesNoDataRace, PTL

(* After Inner::drop, returned and dropped values are all there were.      *)
LEMMA InvImpliesNoLeak ==
  RingIInv => NoLeakNoDoubleDrop
<1> SUFFICES ASSUME RingIInv, halves = {}
             PROVE  delivered \o dropped = [i \in 1 .. Pushed |-> i]
  BY DEF NoLeakNoDoubleDrop
<1>1. /\ delivered \in Seq(Nat) /\ Len(delivered) = Popped
      /\ \A i \in 1 .. Popped : delivered[i] = i
  BY DEF RingIInv, DeliveredOK, HalvesOK
<1>2. dropped = [i \in 1 .. Pushed - Popped |-> Popped + i]
  BY DEF RingIInv, HalvesOK
<1>3. Popped \in Nat /\ Pushed \in Nat /\ Pushed - Popped \in Nat
  BY RingCounts
<1>4. dropped \in Seq(Nat) /\ Len(dropped) = Pushed - Popped
  BY <1>2, <1>3
<1>5. /\ delivered \o dropped \in Seq(Nat)
      /\ Len(delivered \o dropped) = Pushed
  BY <1>1, <1>3, <1>4
<1>6. ASSUME NEW i \in 1 .. Pushed PROVE (delivered \o dropped)[i] = i
  <2>1. CASE i <= Popped
    BY <1>1, <1>3, <1>4, <2>1
  <2>2. CASE i > Popped
    <3>1. (delivered \o dropped)[i] = dropped[i - Popped]
      BY <1>1, <1>3, <1>4, <2>2
    <3>2. i - Popped \in 1 .. Pushed - Popped /\ Popped + (i - Popped) = i
      BY <1>3, <2>2
    <3> QED BY <1>2, <3>1, <3>2, ZenonT(60)
  <2>3. i <= Popped \/ i > Popped
    BY <1>3
  <2> QED BY <2>1, <2>2, <2>3, Zenon
<1>7. DOMAIN (delivered \o dropped) = 1 .. Pushed
  BY <1>5
<1>8. \A S, f : f \in Seq(S) => f = [i \in DOMAIN f |-> f[i]]
  OBVIOUS
<1> QED BY <1>5, <1>6, <1>7, <1>8, Zenon

(* Whatever interleaving the halves were used and dropped in, Inner::drop  *)
(* drops exactly the values that try_pop did not return.                   *)
THEOREM RingNoLeak ==
  Spec => []NoLeakNoDoubleDrop
BY RingInvariant, InvImpliesNoLeak, PTL

-----------------------------------------------------------------------------
(* The ring implements the bounded queue.                                  *)

(* The values in the ring between q pops and p pushes are q + 1, ..., p.   *)
LEMMA ItemsSeq ==
  ASSUME NEW p \in Nat, NEW q \in Nat, q <= p
  PROVE  /\ Items(p, q) \in Seq(Nat) /\ Len(Items(p, q)) = p - q
         /\ \A i \in 1 .. p - q : Items(p, q)[i] = q + i
<1>1. p - q \in Nat /\ \A i \in 1 .. p - q : q + i \in Nat
  OBVIOUS
<1> QED BY <1>1 DEF Items

(* A push appends the next value to them.                                  *)
LEMMA ItemsPush ==
  ASSUME NEW p \in Nat, NEW q \in Nat, q <= p
  PROVE  Items(p + 1, q) = Append(Items(p, q), p + 1)
<1> DEFINE s == Items(p, q)
           t == Items(p + 1, q)
           u == Append(s, p + 1)
<1>1. s \in Seq(Nat) /\ Len(s) = p - q /\ \A i \in 1 .. p - q : s[i] = q + i
  BY ItemsSeq
<1>2. /\ t \in Seq(Nat) /\ Len(t) = (p + 1) - q
      /\ \A i \in 1 .. (p + 1) - q : t[i] = q + i
  BY ItemsSeq
<1> HIDE DEF s, t
<1>3. u \in Seq(Nat) /\ Len(u) = (p + 1) - q
  BY <1>1
<1>4. \A i \in 1 .. (p + 1) - q : u[i] = q + i
  <2> SUFFICES ASSUME NEW i \in 1 .. (p + 1) - q PROVE u[i] = q + i
    OBVIOUS
  <2>1. u[i] = IF i <= Len(s) THEN s[i] ELSE p + 1
    BY <1>1
  <2> HIDE DEF u
  <2>2. CASE i <= p - q
    BY <1>1, <2>1, <2>2
  <2>3. CASE i = p + 1 - q
    BY <1>1, <2>1, <2>3
  <2> QED BY <2>2, <2>3
<1> HIDE DEF u
<1>5. t = u
  BY <1>2, <1>3, <1>4
<1> QED BY <1>5 DEF s, t, u

(* A pop removes the first of them.                                        *)
LEMMA ItemsPop ==
  ASSUME NEW p \in Nat, NEW q \in Nat, q < p
  PROVE  /\ Items(p, q) # << >> /\ Head(Items(p, q)) = q + 1
         /\ Tail(Items(p, q)) = Items(p, q + 1)
<1> DEFINE s == Items(p, q)
           t == Items(p, q + 1)
           u == Tail(s)
<1>1. s \in Seq(Nat) /\ Len(s) = p - q /\ \A i \in 1 .. p - q : s[i] = q + i
  BY ItemsSeq
<1>2. /\ t \in Seq(Nat) /\ Len(t) = p - (q + 1)
      /\ \A i \in 1 .. p - (q + 1) : t[i] = (q + 1) + i
  BY ItemsSeq
<1> HIDE DEF s, t
<1>3. s # << >> /\ Head(s) = q + 1
  BY <1>1
<1>4. u \in Seq(Nat) /\ Len(u) = p - (q + 1)
  BY <1>1, <1>3
<1>5. \A i \in 1 .. p - (q + 1) : u[i] = (q + 1) + i
  BY <1>1, <1>3, <1>4
<1> HIDE DEF u
<1>6. t = u
  BY <1>2, <1>4, <1>5
<1> QED BY <1>3, <1>6 DEF s, t, u

(* What was returned by p pops is 1, ..., p.                               *)
LEMMA ItemsFromZero ==
  ASSUME NEW p \in Nat
  PROVE  /\ Items(p, 0) \in Seq(Nat) /\ Len(Items(p, 0)) = p
         /\ \A i \in 1 .. p : Items(p, 0)[i] = i
         /\ Items(p + 1, 0) = Append(Items(p, 0), p + 1)
<1> DEFINE q == 0
<1>1. q \in Nat /\ q <= p
  OBVIOUS
<1> HIDE DEF q
<1>2. /\ Items(p, q) \in Seq(Nat) /\ Len(Items(p, q)) = p - q
      /\ \A i \in 1 .. p - q : Items(p, q)[i] = q + i
  BY <1>1, ItemsSeq
<1>3. Items(p + 1, q) = Append(Items(p, q), p + 1)
  BY <1>1, ItemsPush, ZenonT(60)
<1> QED BY <1>2, <1>3 DEF q

(* What the abstract queue sees of a state of the ring.                    *)
Mapped ==
  /\ LeftInQueue = Items(Pushed, Popped)
  /\ SubSeq(delivered, 1, Popped) = Items(Popped, 0)

(* The refinement mapping in terms of the numbers of pushes and pops.      *)
LEMMA Mapping ==
  RingIInv => Mapped
<1> SUFFICES ASSUME RingIInv PROVE Mapped
  OBVIOUS
<1>1. LeftInQueue = Items(Pushed, Popped)
  BY LeftIsItems
<1>2. SubSeq(delivered, 1, Popped) = Items(Popped, 0)
  <2> DEFINE s == SubSeq(delivered, 1, Popped)
             t == Items(Popped, 0)
  <2>1. Popped \in Nat
    BY RingCounts
  <2>2. /\ delivered \in Seq(Nat) /\ Popped <= Len(delivered)
        /\ \A i \in 1 .. Popped : delivered[i] = i
    BY <2>1 DEF RingIInv, DeliveredOK
  <2>3. s \in Seq(Nat) /\ Len(s) = Popped /\ \A i \in 1 .. Popped : s[i] = i
    BY <2>1, <2>2
  <2>4. t \in Seq(Nat) /\ Len(t) = Popped /\ \A i \in 1 .. Popped : t[i] = i
    BY <2>1, ItemsFromZero
  <2> HIDE DEF s, t
  <2>5. s = t
    BY <2>1, <2>3, <2>4
  <2> QED BY <2>5 DEF s, t
<1> QED BY <1>1, <1>2 DEF Mapped

(* The same of the next state.                                             *)
LEMMA MappingNext ==
  RingIInv' => Mapped'
BY Mapping, PTL

(* The steps that change neither index and no result are invisible.        *)
LEMMA Invisible ==
  ASSUME RingIInv, RingIInv', Pushed' = Pushed, Popped' = Popped,
         prod'.result = prod.result, cons'.result = cons.result,
         UNCHANGED <<dropped, halves, stale>>
  PROVE  UNCHANGED Queue!queueVars
<1>1. Mapped /\ Mapped'
  BY Mapping, MappingNext
<1>2. /\ LeftInQueue' = LeftInQueue
      /\ SubSeq(delivered, 1, Popped)' = SubSeq(delivered, 1, Popped)
  BY <1>1, ZenonT(60) DEF Mapped
<1> QED BY <1>2, ZenonT(60) DEF Queue!queueVars

(* The store of tail is the moment of a push of the bounded queue.         *)
LEMMA PushPublishIsPush ==
  ASSUME RingIInv, RingIInv', PushPublish, UNCHANGED stale
  PROVE  Queue!BQNext
<1>1. Mapped /\ Mapped'
  BY Mapping, MappingNext
<1>2. prod.pc = "publish" /\ "producer" \in halves /\ Pushed - prod.learnt < Capacity
  BY DEF PushPublish, RingIInv, ProducerOK, HalvesOK
<1>3. /\ UNCHANGED <<headLog, cons, delivered, dropped, halves>> /\ Popped' = Popped
      /\ prod'.result = "ok"
  BY DEF PushPublish, Popped, RingIInv, ProducerOK, Producers
<1>4. Pushed' = Pushed + 1
  <2>1. tailLog' = Append(tailLog, [val |-> WrappingAdd1(prod.tail),
                                    published |-> Pushed + 1])
    BY DEF PushPublish, Release
  <2>2. tailLog \in Seq(Stores)
    BY DEF RingIInv, Counts
  <2>3. Len(tailLog') = Len(tailLog) + 1
    BY <2>1, <2>2
  <2> QED BY <2>2, <2>3 DEF Pushed
<1>5. /\ Len(Items(Pushed, Popped)) = Pushed - Popped
      /\ Len(Items(Popped, 0)) = Popped
      /\ Items(Pushed + 1, Popped) = Append(Items(Pushed, Popped), Pushed + 1)
  BY RingCounts, ItemsSeq, ItemsPush, ItemsFromZero, ZenonT(60)
<1>6. /\ Pushed - Popped < Capacity
      /\ Popped + (Pushed - Popped) + 1 = Pushed + 1
  BY <1>2, RingCounts, CapacityType
<1>7. /\ Len(LeftInQueue) < Capacity
      /\ LeftInQueue' = Append(LeftInQueue,
                               Len(SubSeq(delivered, 1, Popped)) + Len(LeftInQueue) + 1)
  BY <1>1, <1>3, <1>4, <1>5, <1>6 DEF Mapped
<1>8. SubSeq(delivered, 1, Popped)' = SubSeq(delivered, 1, Popped)
  BY <1>1, <1>3 DEF Mapped
<1>9. Queue!BQPush
  BY <1>2, <1>3, <1>7, <1>8, ZenonT(60) DEF Queue!BQPush
<1> QED BY <1>9 DEF Queue!BQNext

(* The store of head is the moment of a pop of the bounded queue.          *)
LEMMA PopPublishIsPop ==
  ASSUME RingIInv, RingIInv', PopPublish, UNCHANGED stale
  PROVE  Queue!BQNext
<1>1. Mapped /\ Mapped'
  BY Mapping, MappingNext
<1>2. cons.pc = "publish" /\ "consumer" \in halves /\ Popped < cons.learnt
  BY DEF PopPublish, RingIInv, ConsumerOK, HalvesOK
<1>3. /\ UNCHANGED <<tailLog, prod, dropped, halves>> /\ Pushed' = Pushed
      /\ cons'.result = "some"
  BY DEF PopPublish, Pushed, RingIInv, ConsumerOK, Consumers
<1>4. Popped' = Popped + 1
  <2>1. headLog' = Append(headLog, [val |-> WrappingAdd1(cons.head),
                                    published |-> Popped + 1])
    BY DEF PopPublish, Release
  <2>2. headLog \in Seq(Stores)
    BY DEF RingIInv, Counts
  <2>3. Len(headLog') = Len(headLog) + 1
    BY <2>1, <2>2
  <2> QED BY <2>2, <2>3 DEF Popped
<1>5. Popped < Pushed
  BY <1>2, RingCounts
<1>6. /\ Items(Pushed, Popped) # << >> /\ Head(Items(Pushed, Popped)) = Popped + 1
      /\ Tail(Items(Pushed, Popped)) = Items(Pushed, Popped + 1)
      /\ Items(Popped + 1, 0) = Append(Items(Popped, 0), Popped + 1)
  BY <1>5, RingCounts, ItemsPop, ItemsFromZero, ZenonT(60)
<1>7. LeftInQueue # << >> /\ LeftInQueue' = Tail(LeftInQueue)
  BY <1>1, <1>3, <1>4, <1>6 DEF Mapped
<1>8. SubSeq(delivered, 1, Popped)'
        = Append(SubSeq(delivered, 1, Popped), Head(LeftInQueue))
  BY <1>1, <1>4, <1>6, ZenonT(60) DEF Mapped
<1>9. Queue!BQPop
  BY <1>2, <1>3, <1>7, <1>8, ZenonT(60) DEF Queue!BQPop
<1> QED BY <1>9 DEF Queue!BQNext

(* try_push fails: a load that may not be stale saw the newest head.       *)
LEMMA PushRefreshIsFull ==
  ASSUME RingIInv, RingIInv', PushRefresh, UNCHANGED stale
  PROVE  Queue!BQNext \/ UNCHANGED Queue!queueVars
<1>1. PICK k \in Loadable(headLog, prod.seen) :
        LET head == headLog[k].val
            full == CachedFull(prod.tail, head)
        IN  prod' = [prod EXCEPT
              !.cachedHead = head,
              !.seen = k,
              !.learnt = Acquire(@, headLog[k]),
              !.pc = IF full THEN "idle" ELSE "write",
              !.result = IF full THEN "full" ELSE @]
  BY ZenonT(60) DEF PushRefresh
<1> DEFINE full == CachedFull(prod.tail, headLog[k].val)
<1>2. prod \in Producers /\ prod.pc = "refresh" /\ prod.tail = Index(Pushed)
      /\ "producer" \in halves
  BY DEF PushRefresh, RingIInv, ProducerOK, HalvesOK
<1>3. prod'.result = IF full THEN "full" ELSE prod.result
  BY <1>1, <1>2 DEF Producers
<1>4. /\ UNCHANGED <<tailLog, headLog, cons, delivered, dropped, halves>>
      /\ Pushed' = Pushed /\ Popped' = Popped
  BY DEF PushRefresh, Pushed, Popped
<1>5. CASE ~ full
  BY <1>3, <1>4, <1>5, Invisible
<1>6. CASE full
  <2>1. Mapped /\ Mapped'
    BY Mapping, MappingNext
  <2>2. ~ stale => Pushed - Popped = Capacity
    <3> SUFFICES ASSUME ~ stale PROVE Pushed - Popped = Capacity
      OBVIOUS
    <3>1. k = Len(headLog)
      BY DEF Loadable
    <3>2. headLog[k].val = Index(Popped)
      BY <3>1, RingCounts DEF Newest
    <3>3. WrappingSub(Index(Pushed), Index(Popped)) = Pushed - Popped
      BY RingCounts, Occupancy
    <3>4. Pushed - Popped >= Capacity
      BY <1>2, <1>6, <3>2, <3>3 DEF CachedFull
    <3> QED BY <3>4, RingCounts, CapacityType
  <2>3. stale \in BOOLEAN /\ Len(Items(Pushed, Popped)) = Pushed - Popped
    BY RingCounts, ItemsSeq, ZenonT(60) DEF RingIInv, HalvesOK
  <2>4. Len(LeftInQueue) = Capacity \/ stale
    BY <2>1, <2>2, <2>3 DEF Mapped
  <2>5. /\ LeftInQueue' = LeftInQueue
        /\ SubSeq(delivered, 1, Popped)' = SubSeq(delivered, 1, Popped)
    BY <1>4, <2>1 DEF Mapped
  <2>6. Queue!BQPushFull
    BY <1>2, <1>3, <1>4, <1>6, <2>4, <2>5 DEF Queue!BQPushFull
  <2> QED BY <2>6 DEF Queue!BQNext
<1> QED BY <1>5, <1>6

(* try_pop finds nothing: likewise for the tail.                           *)
LEMMA PopRefreshIsEmpty ==
  ASSUME RingIInv, RingIInv', PopRefresh, UNCHANGED stale
  PROVE  Queue!BQNext \/ UNCHANGED Queue!queueVars
<1>1. PICK k \in Loadable(tailLog, cons.seen) :
        LET tail  == tailLog[k].val
            empty == CachedEmpty(cons.head, tail)
        IN  cons' = [cons EXCEPT
              !.cachedTail = tail,
              !.seen = k,
              !.learnt = Acquire(@, tailLog[k]),
              !.pc = IF empty THEN "idle" ELSE "read",
              !.result = IF empty THEN "none" ELSE @]
  BY ZenonT(60) DEF PopRefresh
<1> DEFINE empty == CachedEmpty(cons.head, tailLog[k].val)
<1>2. cons \in Consumers /\ cons.pc = "refresh" /\ cons.head = Index(Popped)
      /\ "consumer" \in halves
  BY DEF PopRefresh, RingIInv, ConsumerOK, HalvesOK
<1>3. cons'.result = IF empty THEN "none" ELSE cons.result
  BY <1>1, <1>2 DEF Consumers
<1>4. /\ UNCHANGED <<tailLog, headLog, prod, delivered, dropped, halves>>
      /\ Pushed' = Pushed /\ Popped' = Popped
  BY DEF PopRefresh, Pushed, Popped
<1>5. CASE ~ empty
  BY <1>3, <1>4, <1>5, Invisible
<1>6. CASE empty
  <2>1. Mapped /\ Mapped'
    BY Mapping, MappingNext
  <2>2. ~ stale => Pushed = Popped
    <3> SUFFICES ASSUME ~ stale PROVE Pushed = Popped
      OBVIOUS
    <3>1. k = Len(tailLog)
      BY DEF Loadable
    <3>2. tailLog[k].val = Index(Pushed)
      BY <3>1, RingCounts DEF Newest
    <3>3. Index(Popped) = Index(Pushed)
      BY <1>2, <1>6, <3>2 DEF CachedEmpty
    <3> QED BY <3>3, RingCounts, SameIndex
  <2>3. stale \in BOOLEAN /\ (Pushed = Popped => Items(Pushed, Popped) = << >>)
    <3>1. stale \in BOOLEAN
      BY DEF RingIInv, HalvesOK
    <3>2. /\ Items(Pushed, Popped) \in Seq(Nat)
          /\ Len(Items(Pushed, Popped)) = Pushed - Popped
      BY RingCounts, ItemsSeq, ZenonT(60)
    <3>3. Pushed = Popped => Pushed - Popped = 0
      BY RingCounts
    <3> QED BY <3>1, <3>2, <3>3
  <2>4. LeftInQueue = << >> \/ stale
    BY <2>1, <2>2, <2>3 DEF Mapped
  <2>5. /\ LeftInQueue' = LeftInQueue
        /\ SubSeq(delivered, 1, Popped)' = SubSeq(delivered, 1, Popped)
    BY <1>4, <2>1 DEF Mapped
  <2>6. Queue!BQPopEmpty
    BY <1>2, <1>3, <1>4, <1>6, <2>4, <2>5 DEF Queue!BQPopEmpty
  <2> QED BY <2>6 DEF Queue!BQNext
<1> QED BY <1>5, <1>6

(* Dropping a half of the ring drops the half of the bounded queue.        *)
LEMMA DropHalfIsDrop ==
  ASSUME RingIInv, RingIInv', NEW half \in halves, DropHalf(half), UNCHANGED stale
  PROVE  Queue!BQNext
<1>1. Mapped /\ Mapped'
  BY Mapping, MappingNext
<1>2. /\ UNCHANGED <<tailLog, headLog, prod, cons, delivered>>
      /\ Pushed' = Pushed /\ Popped' = Popped
  BY DEF DropHalf, Pushed, Popped
<1>3. /\ LeftInQueue' = LeftInQueue
      /\ SubSeq(delivered, 1, Popped)' = SubSeq(delivered, 1, Popped)
  BY <1>1, <1>2 DEF Mapped
<1>4. halves # {} /\ half \in {"producer", "consumer"} /\ halves' = halves \ {half}
      /\ dropped' = IF halves' = {} THEN LeftInQueue ELSE dropped
  BY ZenonT(60) DEF DropHalf, RingIInv, HalvesOK
<1>5. Queue!BQDrop(half)
  BY <1>2, <1>3, <1>4 DEF Queue!BQDrop
<1> QED BY <1>4, <1>5 DEF Queue!BQNext

(* Every step of the ring is a step of the bounded queue or invisible.     *)
LEMMA RingStepRefines ==
  RingIInv /\ RingIInv' /\ [Next]_vars => [Queue!BQNext]_(Queue!queueVars)
<1> SUFFICES ASSUME RingIInv, RingIInv', [Next]_vars
             PROVE  Queue!BQNext \/ UNCHANGED Queue!queueVars
  OBVIOUS
<1>1. prod \in Producers /\ cons \in Consumers
  BY DEF RingIInv, ProducerOK, ConsumerOK
<1>2. CASE (PushStart \/ PushWrite) /\ UNCHANGED stale
  BY <1>1, <1>2, Invisible, ZenonT(60) DEF PushStart, PushWrite, Pushed, Popped, Producers
<1>3. CASE (PopStart \/ PopRead) /\ UNCHANGED stale
  BY <1>1, <1>3, Invisible, ZenonT(60) DEF PopStart, PopRead, Pushed, Popped, Consumers
<1>4. CASE PushRefresh /\ UNCHANGED stale
  BY <1>4, PushRefreshIsFull
<1>5. CASE PushPublish /\ UNCHANGED stale
  BY <1>5, PushPublishIsPush
<1>6. CASE PopRefresh /\ UNCHANGED stale
  BY <1>6, PopRefreshIsEmpty
<1>7. CASE PopPublish /\ UNCHANGED stale
  BY <1>7, PopPublishIsPop
<1>8. CASE (\E half \in halves : DropHalf(half)) /\ UNCHANGED stale
  BY <1>8, DropHalfIsDrop
<1>9. CASE UNCHANGED vars
  BY <1>9, Invisible DEF vars, Pushed, Popped
<1> QED BY <1>2, <1>3, <1>4, <1>5, <1>6, <1>7, <1>8, <1>9
     DEF Next, TryPush, TryPop

(* The empty ring is the empty bounded queue.                              *)
LEMMA RingInitRefines ==
  Init => Queue!BQInit
<1> SUFFICES ASSUME Init PROVE Queue!BQInit
  OBVIOUS
<1>1. RingIInv
  BY RingInit
<1>2. Mapped
  BY <1>1, Mapping
<1>3. Pushed = 0 /\ Popped = 0
  BY DEF Init, Pushed, Popped
<1>4. LeftInQueue = << >> /\ SubSeq(delivered, 1, Popped) = << >>
  BY <1>2, <1>3 DEF Mapped, Items
<1> QED BY <1>4 DEF Init, Queue!BQInit

(* The lock-free ring of spsc.rs is a bounded first-in first-out queue:    *)
(* every behaviour of its loads, stores and slot accesses is one of the    *)
(* queue, whatever the capacity and wherever the indices wrap.             *)
THEOREM RingImplementsQueue ==
  Spec => ImplementsQueue
<1>1. RingIInv /\ RingIInv' /\ [Next]_vars => [Queue!BQNext]_(Queue!queueVars)
  BY RingStepRefines
<1> QED BY <1>1, RingInvariant, RingInitRefines, PTL
     DEF Spec, ImplementsQueue, Queue!BQSpec
=============================================================================
