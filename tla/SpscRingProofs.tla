--------------------------- MODULE SpscRingProofs ---------------------------
(***************************************************************************)
(* Proofs about SpscRing for every capacity, every index width the         *)
(* capacity divides and every set of frames.                               *)
(***************************************************************************)
EXTENDS SpscRing, SequenceTheorems, TLAPS

(* The loads that a size() in progress has made stay consistent.  The      *)
(* producer cannot move write_index_ while it is inside size(); under the  *)
(* consumer it can, but the older value is still within one ring of        *)
(* read_index_, which the consumer itself holds still.                     *)
PendingSizes ==
  /\ pushAt = "size" => sizeWrite["producer"] = writeIndex
  /\ popAt = "size" => Distance(sizeWrite["consumer"], readIndex) <= Capacity

(* The inductive invariant: the test each end made before it began to copy *)
(* still holds while it copies.                                            *)
IndexInvariant ==
  /\ TypeOK
  /\ BoundedOccupancy
  /\ Writing => HasSpace(writeIndex, readIndex)
  /\ Reading => writeIndex # readIndex
  /\ RoomObservationHolds
  /\ PendingSizes
  /\ SizeWithinCapacity

-----------------------------------------------------------------------------
(* Unsigned index arithmetic.                                              *)

(* The increment of an index wraps to zero at the end of the word.         *)
LEMMA AdvanceWraps ==
  ASSUME NEW i \in Indices
  PROVE  /\ Advance(i) \in Indices
         /\ Advance(i) = IF i + 1 = IndexModulus THEN 0 ELSE i + 1
  BY ModulusAssumption, SMTT(20) DEF Advance, Indices

(* The difference of two indices is exact when write is ahead and adds one *)
(* turn of the word when it has wrapped and read has not.                  *)
LEMMA DistanceWraps ==
  ASSUME NEW w \in Indices, NEW r \in Indices
  PROVE  /\ Distance(w, r) \in Indices
         /\ Distance(w, r) = IF w >= r THEN w - r ELSE w - r + IndexModulus
  BY ModulusAssumption, SMTT(20) DEF Distance, Indices

(* A push increases the distance by one, unless it is already a full turn. *)
LEMMA DistanceAfterPublish ==
  ASSUME NEW w \in Indices, NEW r \in Indices,
         Distance(w, r) < Capacity
  PROVE  Distance(Advance(w), r) = Distance(w, r) + 1
<1>1. Advance(w) \in Indices /\ Advance(w) = IF w + 1 = IndexModulus THEN 0 ELSE w + 1
  BY AdvanceWraps
<1>2. Distance(w, r) = IF w >= r THEN w - r ELSE w - r + IndexModulus
  BY DistanceWraps
<1>3. Distance(Advance(w), r) = IF Advance(w) >= r THEN Advance(w) - r
                                ELSE Advance(w) - r + IndexModulus
  BY <1>1, DistanceWraps
<1> QED
  BY <1>1, <1>2, <1>3, ModulusAssumption, CapacityAssumption, SMTT(20) DEF Indices

(* A pop from a ring that is not empty decreases the distance by one.      *)
LEMMA DistanceAfterRelease ==
  ASSUME NEW w \in Indices, NEW r \in Indices, w # r
  PROVE  Distance(w, Advance(r)) = Distance(w, r) - 1
<1>1. Advance(r) \in Indices /\ Advance(r) = IF r + 1 = IndexModulus THEN 0 ELSE r + 1
  BY AdvanceWraps
<1>2. Distance(w, r) = IF w >= r THEN w - r ELSE w - r + IndexModulus
  BY DistanceWraps
<1>3. Distance(w, Advance(r)) = IF w >= Advance(r) THEN w - Advance(r)
                                ELSE w - Advance(r) + IndexModulus
  BY <1>1, DistanceWraps
<1> QED
  BY <1>1, <1>2, <1>3, ModulusAssumption, SMTT(20) DEF Indices

(* Equal indices, and only those, are at distance zero.                    *)
LEMMA DistanceZero ==
  ASSUME NEW w \in Indices, NEW r \in Indices
  PROVE  (Distance(w, r) = 0) <=> (w = r)
<1>1. Distance(w, r) = IF w >= r THEN w - r ELSE w - r + IndexModulus
  BY DistanceWraps
<1> QED
  BY <1>1, ModulusAssumption, SMTT(20) DEF Indices

(* Every index selects a slot.                                             *)
LEMMA SlotInRange ==
  ASSUME NEW i \in Indices
  PROVE  Slot(i) \in SlotIds
  BY CapacityAssumption, SMTT(20) DEF Slot, SlotIds, Indices

(* Two indices less than a ring apart select different slots, also across  *)
(* the wrap of the word: this is why the capacity must divide it.          *)
LEMMA SlotsDiffer ==
  ASSUME NEW w \in Indices, NEW r \in Indices,
         0 < Distance(w, r), Distance(w, r) < Capacity
  PROVE  Slot(w) # Slot(r)
<1> DEFINE a == w \div Capacity
           b == r \div Capacity
           k == IndexModulus \div Capacity
           s == Slot(w)
<1>1. /\ a \in Int /\ b \in Int /\ k \in Int
      /\ w \in Int /\ r \in Int /\ Capacity \in Int /\ Capacity > 0
  BY CapacityAssumption, ModulusAssumption, SMTT(20) DEF Indices
<1>2. SUFFICES ASSUME Slot(w) = Slot(r) PROVE FALSE
  OBVIOUS
<1>3. w = Capacity * a + s /\ r = Capacity * b + s
  BY <1>1, <1>2, SMTT(20) DEF Slot
<1>4. IndexModulus = Capacity * k
  BY ModulusAssumption, CapacityAssumption, SMTT(20)
<1>5. s \in Int
  BY SlotInRange, CapacityAssumption, SMTT(20) DEF SlotIds
<1>6. ASSUME NEW q \in Int, Distance(w, r) = Capacity * q PROVE FALSE
  BY <1>1, <1>6, SMTT(20)
<1> HIDE DEF a, b, k, s
<1>7. CASE w >= r
  <2>1. Distance(w, r) = Capacity * a - Capacity * b
    BY <1>1, <1>3, <1>5, <1>7, DistanceWraps, SMTT(20)
  <2>2. Capacity * a - Capacity * b = Capacity * (a - b)
    BY <1>1, SMTT(20)
  <2> QED
    BY <2>1, <2>2, <1>1, <1>6, SMTT(20)
<1>8. CASE w < r
  <2>1. Distance(w, r) = Capacity * a - Capacity * b + Capacity * k
    BY <1>1, <1>3, <1>4, <1>5, <1>8, DistanceWraps, SMTT(20)
  <2>2. Capacity * a - Capacity * b + Capacity * k = Capacity * (a - b + k)
    BY <1>1, SMTT(20)
  <2> QED
    BY <2>1, <2>2, <1>1, <1>6, SMTT(20)
<1> QED
  BY <1>1, <1>7, <1>8, SMTT(20)
-----------------------------------------------------------------------------
(* The invariant.                                                          *)

(* The zeroed indices of a new ring satisfy it.                            *)
LEMMA InitialIndices == Init => IndexInvariant
<1> SUFFICES ASSUME Init PROVE IndexInvariant
  OBVIOUS
<1>1. 0 \in Indices
  BY ModulusAssumption DEF Indices
<1>2. TypeOK
  BY <1>1 DEF Init, TypeOK, Fields, Blank
<1>3. Occupancy = 0
  BY <1>1, DistanceZero DEF Init, Occupancy
<1> QED
  BY <1>2, <1>3, CapacityAssumption
     DEF Init, IndexInvariant, BoundedOccupancy, Writing, Reading, RoomObservationHolds,
         PendingSizes, SizeWithinCapacity

(* No step of either end takes a variable out of its range.                *)
LEMMA TypeOKStep == TypeOK /\ [Next]_vars => TypeOK'
<1> SUFFICES ASSUME TypeOK, [Next]_vars PROVE TypeOK'
  OBVIOUS
<1>1. \A i \in Indices : Advance(i) \in Indices /\ Slot(i) \in SlotIds
  BY AdvanceWraps, SlotInRange
<1>2. \A w, r \in Indices : Distance(w, r) \in Indices
  BY DistanceWraps
<1>3. 0 \in Indices
  BY ModulusAssumption DEF Indices
<1> USE DEF TypeOK, producerVars, consumerVars, sizeVars
<1>4. CASE RefusePush
  BY <1>4 DEF RefusePush
<1>5. ASSUME NEW e \in Elements, BeginPush(e) PROVE TypeOK'
  BY <1>5 DEF BeginPush
<1>6. CASE CopyCountIn
  BY <1>1, <1>6 DEF CopyCountIn, Fields
<1>7. CASE CopyWordsIn
  BY <1>1, <1>7 DEF CopyWordsIn, Fields
<1>8. CASE Publish
  BY <1>1, <1>8 DEF Publish
<1>9. CASE ProducerLoadsWrite
  BY <1>9 DEF ProducerLoadsWrite, Ends
<1>10. CASE ProducerLoadsRead
  BY <1>2, <1>3, <1>10 DEF ProducerLoadsRead, Ends
<1>11. CASE FindEmpty
  BY <1>11 DEF FindEmpty, Fields, Blank
<1>12. CASE BeginPop
  BY <1>12 DEF BeginPop
<1>13. CASE CopyCountOut
  BY <1>1, <1>13 DEF CopyCountOut, Fields
<1>14. CASE CopyWordsOut
  BY <1>1, <1>14 DEF CopyWordsOut, Fields
<1>15. CASE Release
  BY <1>1, <1>15 DEF Release, Fields, Blank
<1>16. CASE ConsumerLoadsWrite
  BY <1>16 DEF ConsumerLoadsWrite, Ends
<1>17. CASE ConsumerLoadsRead
  BY <1>2, <1>3, <1>17 DEF ConsumerLoadsRead, Ends
<1>18. CASE UNCHANGED vars
  BY <1>18 DEF vars
<1> QED
  BY <1>4, <1>5, <1>6, <1>7, <1>8, <1>9, <1>10, <1>11, <1>12, <1>13, <1>14, <1>15, <1>16,
     <1>17, <1>18 DEF Next, ProducerStep, ConsumerStep

(* What the steps that move an index do to the distance: a push inside the *)
(* copy it began, and a pop inside the copy it began.                      *)
LEMMA IndexMoves ==
  ASSUME IndexInvariant
  PROVE  /\ Publish => /\ Distance(writeIndex', readIndex') = Occupancy + 1
                       /\ Occupancy + 1 <= Capacity
         /\ Release => /\ Distance(writeIndex', readIndex') = Occupancy - 1
                       /\ 0 < Occupancy
         /\ (Release /\ Writing) => Occupancy < Capacity
<1>1. writeIndex \in Indices /\ readIndex \in Indices /\ Occupancy \in Nat
  BY DistanceWraps DEF IndexInvariant, TypeOK, Occupancy, Indices
<1>2. ASSUME Publish PROVE Distance(writeIndex', readIndex') = Occupancy + 1 /\ Occupancy < Capacity
  BY <1>1, <1>2, DistanceAfterPublish DEF IndexInvariant, Publish, Writing, HasSpace, Occupancy
<1>3. ASSUME Release PROVE Distance(writeIndex', readIndex') = Occupancy - 1 /\ Occupancy # 0
  BY <1>1, <1>3, DistanceAfterRelease, DistanceZero
     DEF IndexInvariant, Release, Reading, Occupancy
<1>4. Writing => Occupancy < Capacity
  BY DEF IndexInvariant, HasSpace, Occupancy
<1> QED
  BY <1>1, <1>2, <1>3, <1>4, CapacityAssumption

(* Every step of either end preserves the invariant.                       *)
LEMMA IndexInvariantStep == IndexInvariant /\ [Next]_vars => IndexInvariant'
<1> SUFFICES ASSUME IndexInvariant, [Next]_vars PROVE IndexInvariant'
  OBVIOUS
<1>1. TypeOK /\ TypeOK'
  BY TypeOKStep DEF IndexInvariant
<1>2. /\ writeIndex \in Indices /\ readIndex \in Indices
      /\ Occupancy \in Nat /\ Capacity \in Nat
      /\ Occupancy <= Capacity
  BY <1>1, DistanceWraps, CapacityAssumption
     DEF IndexInvariant, BoundedOccupancy, TypeOK, Occupancy, Indices
<1> USE DEF producerVars, consumerVars, sizeVars
(* Steps that leave the indices and the sizes alone. *)
<1>3. ASSUME UNCHANGED <<writeIndex, readIndex, room, sizeVars>>,
             pushAt' = "size" => pushAt = "size", popAt' = "size" => popAt = "size",
             Writing' => Writing \/ HasSpace(writeIndex, readIndex),
             Reading' => Reading \/ readIndex # writeIndex
      PROVE  IndexInvariant'
  BY <1>1, <1>3
     DEF IndexInvariant, BoundedOccupancy, Occupancy, RoomObservationHolds, PendingSizes,
         SizeWithinCapacity
<1>4. CASE RefusePush \/ (\E e \in Elements : BeginPush(e)) \/ CopyCountIn \/ CopyWordsIn
  <2>1. UNCHANGED <<writeIndex, readIndex, room, sizeVars, popAt>>
    BY <1>4 DEF RefusePush, BeginPush, CopyCountIn, CopyWordsIn
  <2>2. pushAt' = "size" => pushAt = "size"
    BY <1>4 DEF RefusePush, BeginPush, CopyCountIn, CopyWordsIn
  <2>3. Writing' => Writing \/ HasSpace(writeIndex, readIndex)
    BY <1>4 DEF RefusePush, BeginPush, CopyCountIn, CopyWordsIn, Writing
  <2>4. Reading' => Reading
    BY <2>1 DEF Reading
  <2> QED
    BY <1>3, <2>1, <2>2, <2>3, <2>4
<1>5. CASE FindEmpty \/ BeginPop \/ CopyCountOut \/ CopyWordsOut
  <2>1. UNCHANGED <<writeIndex, readIndex, room, sizeVars, pushAt>>
    BY <1>5 DEF FindEmpty, BeginPop, CopyCountOut, CopyWordsOut
  <2>2. popAt' = "size" => popAt = "size"
    BY <1>5 DEF FindEmpty, BeginPop, CopyCountOut, CopyWordsOut
  <2>3. Reading' => Reading \/ readIndex # writeIndex
    BY <1>5 DEF FindEmpty, BeginPop, CopyCountOut, CopyWordsOut, Reading
  <2>4. Writing' => Writing
    BY <2>1 DEF Writing
  <2> QED
    BY <1>3, <2>1, <2>2, <2>3, <2>4
<1>6. CASE Publish
  <2>1. Distance(writeIndex', readIndex') = Occupancy + 1 /\ Occupancy + 1 <= Capacity
    BY <1>6, IndexMoves
  <2>2. writeIndex' # readIndex'
    BY <1>1, <1>2, <2>1, DistanceZero DEF TypeOK
  <2>3. PendingSizes'
    BY <1>6 DEF Publish, IndexInvariant, PendingSizes
  <2> QED
    BY <1>1, <1>6, <2>1, <2>2, <2>3
       DEF Publish, IndexInvariant, BoundedOccupancy, Occupancy, Writing, Reading,
           RoomObservationHolds, SizeWithinCapacity
(* A pop makes room; a size() of the consumer is not in progress. *)
<1>7. CASE Release
  <2>1. Distance(writeIndex', readIndex') = Occupancy - 1
    BY <1>7, IndexMoves
  <2>2. (Writing \/ room) => Distance(writeIndex', readIndex') < Capacity
    BY <1>2, <2>1 DEF IndexInvariant, RoomObservationHolds, HasSpace, Occupancy
  <2>3. PendingSizes'
    BY <1>7 DEF Release, IndexInvariant, PendingSizes
  <2> QED
    BY <1>1, <1>2, <1>7, <2>1, <2>2, <2>3
       DEF Release, IndexInvariant, BoundedOccupancy, Occupancy, Writing, Reading, HasSpace,
           RoomObservationHolds, SizeWithinCapacity
<1>8. CASE ProducerLoadsWrite
  BY <1>1, <1>8
     DEF ProducerLoadsWrite, TypeOK, IndexInvariant, BoundedOccupancy, Occupancy, Writing, Reading,
         RoomObservationHolds, PendingSizes, SizeWithinCapacity, Ends
<1>9. CASE ProducerLoadsRead
  <2>1. sizeWrite["producer"] = writeIndex
    BY <1>9 DEF ProducerLoadsRead, IndexInvariant, PendingSizes
  <2>2. SizeWithinCapacity'
    BY <1>1, <1>2, <1>9, <2>1
       DEF ProducerLoadsRead, TypeOK, IndexInvariant, SizeWithinCapacity, Occupancy, Ends
  <2>3. RoomObservationHolds'
    BY <1>9, <2>1 DEF ProducerLoadsRead, RoomObservationHolds, AvailableCapacity
  <2>4. PendingSizes'
    BY <1>1, <1>9 DEF ProducerLoadsRead, TypeOK, IndexInvariant, PendingSizes, Ends
  <2> QED
    BY <1>1, <1>9, <2>2, <2>3, <2>4
       DEF ProducerLoadsRead, IndexInvariant, BoundedOccupancy, Occupancy, Writing, Reading
<1>10. CASE ConsumerLoadsWrite
  BY <1>1, <1>10
     DEF ConsumerLoadsWrite, TypeOK, IndexInvariant, BoundedOccupancy, Occupancy, Writing, Reading,
         RoomObservationHolds, PendingSizes, SizeWithinCapacity, Ends
<1>11. CASE ConsumerLoadsRead
  <2>1. SizeWithinCapacity'
    BY <1>1, <1>11
       DEF ConsumerLoadsRead, TypeOK, IndexInvariant, PendingSizes, SizeWithinCapacity, Ends
  <2>2. PendingSizes'
    BY <1>1, <1>11 DEF ConsumerLoadsRead, TypeOK, IndexInvariant, PendingSizes, Ends
  <2> QED
    BY <1>1, <1>11, <2>1, <2>2
       DEF ConsumerLoadsRead, IndexInvariant, BoundedOccupancy, Occupancy, Writing, Reading,
           RoomObservationHolds
<1>12. CASE UNCHANGED vars
  BY <1>3, <1>12 DEF vars, Writing, Reading
<1> QED
  BY <1>4, <1>5, <1>6, <1>7, <1>8, <1>9, <1>10, <1>11, <1>12 DEF Next, ProducerStep, ConsumerStep

-----------------------------------------------------------------------------
(* The theorems.                                                           *)

(* Whatever the two ends do and wherever either is interrupted, the        *)
(* invariant holds.                                                        *)
THEOREM IndexInvariantHolds == Spec => []IndexInvariant
  BY InitialIndices, IndexInvariantStep, PTL DEF Spec

(* Every index stays in the word, every slot written is a slot of frames_, *)
(* and the out-parameter and results stay frames.                          *)
THEOREM TypeCorrect == Spec => []TypeOK
<1>1. IndexInvariant => TypeOK
  BY DEF IndexInvariant
<1> QED
  BY <1>1, IndexInvariantHolds, PTL

(* try_push and try_pop never stand in the same slot, so no frame is torn, *)
(* although the indices wrap.                                              *)
THEOREM SlotsNeverShared == Spec => []NoSlotShared
<1>1. IndexInvariant => NoSlotShared
  <2> SUFFICES ASSUME IndexInvariant, Writing, Reading PROVE Slot(writeIndex) # Slot(readIndex)
    BY DEF NoSlotShared
  <2>1. writeIndex \in Indices /\ readIndex \in Indices
    BY DEF IndexInvariant, TypeOK
  <2>2. Distance(writeIndex, readIndex) \in Nat /\ Distance(writeIndex, readIndex) # 0
    BY <2>1, DistanceWraps, DistanceZero DEF IndexInvariant, Indices
  <2>3. Distance(writeIndex, readIndex) < Capacity
    BY DEF IndexInvariant, HasSpace
  <2> QED
    BY <2>1, <2>2, <2>3, SlotsDiffer
<1> QED
  BY <1>1, IndexInvariantHolds, PTL

(* size(), called from either end while the other one moves, never returns *)
(* more than the ring holds.                                               *)
THEOREM SizesAreFillLevels == Spec => []SizeWithinCapacity
<1>1. IndexInvariant => SizeWithinCapacity
  BY DEF IndexInvariant
<1> QED
  BY <1>1, IndexInvariantHolds, PTL

(* A push after available_capacity() # 0 is never refused: the branch of   *)
(* run_input that calls it a violated SPSC observation cannot be reached   *)
(* through the ring.                                                       *)
THEOREM ObservedRoomIsKept == Spec => []RoomObservationHolds
<1>1. IndexInvariant => RoomObservationHolds
  BY DEF IndexInvariant
<1> QED
  BY <1>1, IndexInvariantHolds, PTL

-----------------------------------------------------------------------------
(* The ring implements the bounded queue.                                  *)

(* The index k places after another one.                                   *)
LEMMA IndexAhead ==
  ASSUME NEW r \in Indices, NEW k \in Indices
  PROVE  /\ (r + k) % IndexModulus \in Indices
         /\ (r + k) % IndexModulus = IF r + k < IndexModulus THEN r + k ELSE r + k - IndexModulus
  BY ModulusAssumption, SMTT(20) DEF Indices

(* Walking from read towards write shortens the distance by as much.       *)
LEMMA DistanceAhead ==
  ASSUME NEW w \in Indices, NEW r \in Indices, NEW k \in 0 .. Distance(w, r)
  PROVE  /\ (r + k) % IndexModulus \in Indices
         /\ Distance(w, (r + k) % IndexModulus) = Distance(w, r) - k
<1> DEFINE j == (r + k) % IndexModulus
<1>1. Distance(w, r) \in Indices /\ Distance(w, r) = IF w >= r THEN w - r ELSE w - r + IndexModulus
  BY DistanceWraps
<1>2. k \in Indices
  BY <1>1, ModulusAssumption, SMTT(20) DEF Indices
<1>3. j \in Indices /\ j = IF r + k < IndexModulus THEN r + k ELSE r + k - IndexModulus
  BY <1>2, IndexAhead
<1>4. Distance(w, j) = IF w >= j THEN w - j ELSE w - j + IndexModulus
  BY <1>3, DistanceWraps
<1> HIDE DEF j
<1>5. Distance(w, j) = Distance(w, r) - k
  BY <1>1, <1>2, <1>3, <1>4, ModulusAssumption, SMTT(20) DEF Indices
<1> QED
  BY <1>3, <1>5 DEF j

(* Walking the whole distance arrives at write.                            *)
LEMMA WriteAhead ==
  ASSUME NEW w \in Indices, NEW r \in Indices
  PROVE  (r + Distance(w, r)) % IndexModulus = w
<1>1. Distance(w, r) \in 0 .. Distance(w, r)
  BY DistanceWraps DEF Indices
<1>2. /\ (r + Distance(w, r)) % IndexModulus \in Indices
      /\ Distance(w, (r + Distance(w, r)) % IndexModulus) = 0
  <2>1. Distance(w, r) \in Int
    BY DistanceWraps DEF Indices
  <2>2. /\ (r + Distance(w, r)) % IndexModulus \in Indices
        /\ Distance(w, (r + Distance(w, r)) % IndexModulus) = Distance(w, r) - Distance(w, r)
    BY <1>1, DistanceAhead
  <2> QED
    BY <2>1, <2>2
<1> QED
  BY <1>2, DistanceZero

(* One pop further, one place less to walk.                                *)
LEMMA AheadAfterRelease ==
  ASSUME NEW r \in Indices, NEW k \in Indices, k + 1 \in Indices
  PROVE  (Advance(r) + k) % IndexModulus = (r + (k + 1)) % IndexModulus
<1>1. Advance(r) \in Indices /\ Advance(r) = IF r + 1 = IndexModulus THEN 0 ELSE r + 1
  BY AdvanceWraps
<1>2. (Advance(r) + k) % IndexModulus = IF Advance(r) + k < IndexModulus THEN Advance(r) + k
                                        ELSE Advance(r) + k - IndexModulus
  BY <1>1, IndexAhead
<1>3. (r + (k + 1)) % IndexModulus = IF r + (k + 1) < IndexModulus THEN r + (k + 1)
                                     ELSE r + (k + 1) - IndexModulus
  BY IndexAhead
<1> QED
  BY <1>1, <1>2, <1>3, ModulusAssumption, SMTT(20) DEF Indices

(* The slot of the k-th queued frame.                                      *)
Place(k) == Slot((readIndex + k) % IndexModulus)

(* The inductive invariant about the data: queued slots hold whole frames, *)
(* and a copy in progress has copied what its step says.                   *)
DataInvariant ==
  /\ IndexInvariant
  /\ \A k \in 0 .. Occupancy - 1 : slots[Place(k)] \in Whole
  /\ Writing => pushFrame \in Elements
  /\ pushAt \in {"words", "publish"} => slots[Slot(writeIndex)].count = pushFrame
  /\ pushAt = "publish" => slots[Slot(writeIndex)].words = pushFrame
  /\ popAt \in {"words", "release"} => popFrame.count = slots[Slot(readIndex)].count
  /\ popAt = "release" => popFrame.words = slots[Slot(readIndex)].words

(* What the index invariant says of the queued slots: they are slots, none *)
(* is the one being filled, and the first is the one being copied out.     *)
LEMMA QueuedSlots ==
  ASSUME IndexInvariant
  PROVE  /\ writeIndex \in Indices /\ readIndex \in Indices
         /\ Slot(writeIndex) \in SlotIds /\ Slot(readIndex) \in SlotIds
         /\ Occupancy \in Indices /\ Occupancy \in Nat /\ Occupancy <= Capacity
         /\ Place(0) = Slot(readIndex)
         /\ Place(Occupancy) = Slot(writeIndex)
         /\ Reading => Occupancy > 0
         /\ \A k \in 0 .. Occupancy - 1 : Place(k) \in SlotIds
         /\ Writing => \A k \in 0 .. Occupancy - 1 : Place(k) # Slot(writeIndex)
<1>1. writeIndex \in Indices /\ readIndex \in Indices
  BY DEF IndexInvariant, TypeOK
<1>2. Occupancy \in Indices /\ Occupancy \in Nat /\ Occupancy <= Capacity
  BY <1>1, DistanceWraps DEF IndexInvariant, BoundedOccupancy, Occupancy, Indices
<1>3. Place(0) = Slot(readIndex)
  <2>1. 0 \in Indices /\ readIndex + 0 = readIndex /\ readIndex < IndexModulus
    BY <1>1, ModulusAssumption DEF Indices
  <2>2. (readIndex + 0) % IndexModulus = readIndex
    BY <1>1, <2>1, IndexAhead
  <2> QED
    BY <2>2 DEF Place
<1>4. Place(Occupancy) = Slot(writeIndex)
  BY <1>1, WriteAhead DEF Place, Occupancy
<1>5. Reading => Occupancy > 0
  BY <1>1, <1>2, DistanceZero DEF IndexInvariant, Occupancy
<1>6. ASSUME NEW k \in 0 .. Occupancy - 1
      PROVE  Place(k) \in SlotIds /\ (Writing => Place(k) # Slot(writeIndex))
  <2>1. k \in 0 .. Distance(writeIndex, readIndex)
    BY <1>2 DEF Occupancy
  <2>2. /\ (readIndex + k) % IndexModulus \in Indices
        /\ Distance(writeIndex, (readIndex + k) % IndexModulus) = Occupancy - k
    BY <1>1, <2>1, DistanceAhead DEF Occupancy
  <2>3. Writing => Occupancy < Capacity
    BY DEF IndexInvariant, HasSpace, Occupancy
  <2>4. Writing => /\ 0 < Distance(writeIndex, (readIndex + k) % IndexModulus)
                   /\ Distance(writeIndex, (readIndex + k) % IndexModulus) < Capacity
    BY <1>2, <2>2, <2>3, CapacityAssumption
  <2> QED
    BY <1>1, <2>2, <2>4, SlotInRange, SlotsDiffer DEF Place
<1> QED
  BY <1>1, <1>2, <1>3, <1>4, <1>5, <1>6, SlotInRange

(* An empty ring holds no data.                                            *)
LEMMA InitialData == Init => DataInvariant
<1> SUFFICES ASSUME Init PROVE DataInvariant
  OBVIOUS
<1>1. IndexInvariant
  BY InitialIndices
<1>2. Occupancy = 0
  BY <1>1, QueuedSlots, DistanceZero DEF Init, Occupancy
<1> QED
  BY <1>1, <1>2 DEF Init, DataInvariant, Writing

(* After a pop every queued slot is one place nearer.                      *)
LEMMA PlaceAfterRelease ==
  ASSUME IndexInvariant, Release
  PROVE  \A k \in 0 .. Occupancy - 2 : Place(k)' = Place(k + 1)
<1> SUFFICES ASSUME NEW k \in 0 .. Occupancy - 2 PROVE Place(k)' = Place(k + 1)
  OBVIOUS
<1>1. readIndex \in Indices /\ Occupancy \in Indices
  BY QueuedSlots
<1>2. k \in Indices /\ k + 1 \in Indices
  BY <1>1, ModulusAssumption, SMTT(20) DEF Indices
<1>3. (Advance(readIndex) + k) % IndexModulus = (readIndex + (k + 1)) % IndexModulus
  BY <1>1, <1>2, AheadAfterRelease
<1>4. readIndex' = Advance(readIndex)
  BY DEF Release
<1> QED
  BY <1>3, <1>4 DEF Place

(* Every step of either end keeps the data of the queue whole.             *)
LEMMA DataInvariantStep == DataInvariant /\ [Next]_vars => DataInvariant'
<1> SUFFICES ASSUME DataInvariant, [Next]_vars PROVE DataInvariant'
  OBVIOUS
<1>1. IndexInvariant /\ IndexInvariant' /\ TypeOK /\ TypeOK'
  BY IndexInvariantStep DEF DataInvariant, IndexInvariant
<1> USE DEF producerVars, consumerVars, sizeVars
<1>2. ASSUME UNCHANGED <<writeIndex, readIndex, slots>>
      PROVE  (\A k \in 0 .. Occupancy - 1 : slots[Place(k)] \in Whole)'
  BY <1>2 DEF DataInvariant, Occupancy, Place
<1>3. CASE RefusePush \/ ProducerLoadsWrite \/ ProducerLoadsRead \/ UNCHANGED vars
  <2>1. UNCHANGED <<writeIndex, readIndex, slots, popAt, popFrame, pushFrame>>
    BY <1>3 DEF RefusePush, ProducerLoadsWrite, ProducerLoadsRead, vars
  <2>2. Writing' => Writing /\ pushAt' = pushAt
    BY <1>3 DEF RefusePush, ProducerLoadsWrite, ProducerLoadsRead, Writing, vars
  <2> QED
    BY <1>1, <1>2, <2>1, <2>2 DEF DataInvariant, Writing
<1>4. ASSUME NEW e \in Elements, BeginPush(e) PROVE DataInvariant'
  BY <1>1, <1>2, <1>4 DEF BeginPush, DataInvariant, Writing
<1>5. CASE CopyCountIn \/ CopyWordsIn
  <2>1. /\ UNCHANGED <<writeIndex, readIndex, popAt, popFrame, pushFrame>>
        /\ Writing
        /\ \A s \in SlotIds \ {Slot(writeIndex)} : slots'[s] = slots[s]
    BY <1>1, <1>5 DEF CopyCountIn, CopyWordsIn, TypeOK, Writing
  <2>2. \A k \in 0 .. Occupancy - 1 : slots'[Place(k)] = slots[Place(k)]
    BY <1>1, <2>1, QueuedSlots
  <2>3. (\A k \in 0 .. Occupancy - 1 : slots[Place(k)] \in Whole)'
    BY <2>1, <2>2 DEF DataInvariant, Occupancy, Place
  <2>4. Reading => slots'[Slot(readIndex)] = slots[Slot(readIndex)]
    <3>1. Reading => 0 \in 0 .. Occupancy - 1
      BY <1>1, QueuedSlots
    <3> QED
      BY <1>1, <2>2, <3>1, QueuedSlots
  <2>5. /\ pushAt' \in {"words", "publish"}
        /\ slots'[Slot(writeIndex)].count = pushFrame
        /\ pushAt' = "publish" => slots'[Slot(writeIndex)].words = pushFrame
    <3>1. Slot(writeIndex) \in SlotIds /\ slots[Slot(writeIndex)] \in Fields
      BY <1>1, QueuedSlots DEF TypeOK
    <3>2. CASE CopyCountIn
      BY <1>1, <3>1, <3>2 DEF CopyCountIn, TypeOK, Fields
    <3>3. CASE CopyWordsIn
      BY <1>1, <3>1, <3>3 DEF CopyWordsIn, TypeOK, Fields, DataInvariant
    <3> QED
      BY <1>5, <3>2, <3>3
  <2> QED
    BY <1>1, <2>1, <2>3, <2>4, <2>5 DEF DataInvariant, Writing, Reading
<1>6. CASE Publish
  <2>1. Occupancy' = Occupancy + 1
    BY <1>1, <1>6, IndexMoves DEF Occupancy
  <2>2. slots[Slot(writeIndex)] \in Whole
    <3>1. slots[Slot(writeIndex)] \in Fields
      BY <1>1, QueuedSlots DEF TypeOK
    <3>2. slots[Slot(writeIndex)].count = pushFrame /\ slots[Slot(writeIndex)].words = pushFrame
      BY <1>6 DEF Publish, DataInvariant
    <3>3. slots[Slot(writeIndex)] = [count |-> pushFrame, words |-> pushFrame]
      BY <3>1, <3>2 DEF Fields
    <3>4. pushFrame \in Elements
      BY <1>6 DEF Publish, DataInvariant, Writing
    <3> QED
      BY <3>3, <3>4 DEF Whole
  <2>3. \A k \in 0 .. Occupancy : slots[Place(k)] \in Whole
    <3>1. \A k \in 0 .. Occupancy : k \in 0 .. Occupancy - 1 \/ k = Occupancy
      BY <1>1, QueuedSlots
    <3> QED
      BY <1>1, <2>2, <3>1, QueuedSlots DEF DataInvariant
  <2>4. (\A k \in 0 .. Occupancy - 1 : slots[Place(k)] \in Whole)'
    <3>1. Occupancy' - 1 = Occupancy
      BY <1>1, <2>1, QueuedSlots
    <3> QED
      BY <1>6, <2>3, <3>1 DEF Publish, Place
  <2> QED
    BY <1>1, <1>6, <2>4 DEF Publish, DataInvariant, Writing
<1>7. CASE FindEmpty \/ BeginPop \/ ConsumerLoadsWrite \/ ConsumerLoadsRead
  <2>1. UNCHANGED <<writeIndex, readIndex, slots, pushAt, pushFrame>>
    BY <1>7 DEF FindEmpty, BeginPop, ConsumerLoadsWrite, ConsumerLoadsRead
  <2>2. popAt' \notin {"words", "release"}
    BY <1>7 DEF FindEmpty, BeginPop, ConsumerLoadsWrite, ConsumerLoadsRead
  <2> QED
    BY <1>1, <1>2, <2>1, <2>2 DEF DataInvariant, Writing
<1>8. CASE CopyCountOut
  BY <1>1, <1>2, <1>8 DEF CopyCountOut, DataInvariant, Writing, TypeOK, Fields
<1>9. CASE CopyWordsOut
  BY <1>1, <1>2, <1>9 DEF CopyWordsOut, DataInvariant, Writing, TypeOK, Fields
<1>10. CASE Release
  <2>1. Occupancy' = Occupancy - 1 /\ 0 < Occupancy
    BY <1>1, <1>10, IndexMoves DEF Occupancy
  <2>2. \A k \in 0 .. Occupancy - 2 : Place(k)' = Place(k + 1)
    BY <1>1, <1>10, QueuedSlots, PlaceAfterRelease
  <2>3. (\A k \in 0 .. Occupancy - 1 : slots[Place(k)] \in Whole)'
    <3>1. \A k \in 0 .. Occupancy' - 1 : k \in 0 .. Occupancy - 2 /\ k + 1 \in 0 .. Occupancy - 1
      BY <1>1, <2>1, QueuedSlots
    <3>2. slots' = slots
      BY <1>10 DEF Release
    <3> QED
      BY <2>2, <3>1, <3>2 DEF DataInvariant
  <2> QED
    BY <1>1, <1>10, <2>3 DEF Release, DataInvariant, Writing
<1> QED
  BY <1>3, <1>4, <1>5, <1>6, <1>7, <1>8, <1>9, <1>10 DEF Next, ProducerStep, ConsumerStep

-----------------------------------------------------------------------------
(* The queue behind the indices.                                           *)

(* Content is the sequence of the queued slots.                            *)
LEMMA ContentIsQueue ==
  DataInvariant => /\ Content \in Seq(Whole)
                   /\ Len(Content) = Occupancy
                   /\ \A i \in 1 .. Occupancy : Content[i] = slots[Place(i - 1)]
<1> SUFFICES ASSUME DataInvariant
             PROVE  /\ Content \in Seq(Whole)
                    /\ Len(Content) = Occupancy
                    /\ \A i \in 1 .. Occupancy : Content[i] = slots[Place(i - 1)]
  OBVIOUS
<1>1. Occupancy \in Nat /\ readIndex \in Int
  BY QueuedSlots DEF DataInvariant, Indices
<1>2. ASSUME NEW i \in 1 .. Occupancy
      PROVE  /\ i - 1 \in 0 .. Occupancy - 1
             /\ Slot((readIndex + i - 1) % IndexModulus) = Place(i - 1)
  <2>1. readIndex + i - 1 = readIndex + (i - 1)
    BY <1>1
  <2> QED
    BY <1>1, <2>1 DEF Place
<1>3. \A i \in 1 .. Occupancy : slots[Slot((readIndex + i - 1) % IndexModulus)] \in Whole
  BY <1>2 DEF DataInvariant
<1>4. Content \in [1 .. Occupancy -> Whole]
  BY <1>3 DEF Content
<1>5. Content \in Seq(Whole) /\ Len(Content) = Occupancy
  BY <1>1, <1>4
<1>6. \A i \in 1 .. Occupancy : Content[i] = slots[Place(i - 1)]
  BY <1>2 DEF Content
<1> QED
  BY <1>5, <1>6

(* What the queue holds, before and after a step.                          *)
QueueShape ==
  /\ Content \in Seq(Whole)
  /\ Len(Content) = Occupancy
  /\ \A i \in 1 .. Occupancy : Content[i] = slots[Place(i - 1)]

(* Content has that shape on both sides of a step.                         *)
LEMMA QueueShapeHolds ==
  /\ DataInvariant => QueueShape
  /\ DataInvariant' => QueueShape'
<1>1. DataInvariant => QueueShape
  BY ContentIsQueue DEF QueueShape
<1> QED
  BY <1>1, PTL

(* Two queues of the same length and elements are one.                     *)
LEMMA SameQueue ==
  ASSUME QueueShape, QueueShape', Occupancy \in Nat, Occupancy' = Occupancy,
         \A k \in 0 .. Occupancy - 1 : (slots[Place(k)])' = slots[Place(k)]
  PROVE  Content' = Content
<1>1. \A i \in 1 .. Occupancy : Content'[i] = Content[i]
  BY DEF QueueShape
<1> QED
  BY <1>1, SeqEqual DEF QueueShape

(* The store of write_index_ appends the frame being pushed.               *)
LEMMA PublishAppends ==
  ASSUME DataInvariant, QueueShape, QueueShape', Publish
  PROVE  \E frame \in Whole : Len(Content) < Capacity /\ Content' = Append(Content, frame)
<1> DEFINE frame == slots[Slot(writeIndex)]
<1>1. IndexInvariant
  BY DEF DataInvariant
<1>2. Occupancy \in Nat /\ Occupancy' = Occupancy + 1 /\ Occupancy < Capacity
  BY <1>1, IndexMoves, QueuedSlots, CapacityAssumption DEF Occupancy
<1>3. slots' = slots /\ readIndex' = readIndex
  BY DEF Publish
<1>4. \A k \in 0 .. Occupancy : (slots[Place(k)])' = slots[Place(k)]
  BY <1>3 DEF Place
<1>5. slots[Place(Occupancy)] = frame
  BY <1>1, QueuedSlots
<1> HIDE DEF frame
<1>6. Content' \in Seq(Whole) /\ Len(Content') = Occupancy + 1
  BY <1>2 DEF QueueShape
<1>7. /\ \A i \in 1 .. Occupancy : Content'[i] = Content[i]
      /\ Content'[Occupancy + 1] = frame
  <2>1. \A i \in 1 .. Occupancy + 1 : i - 1 \in 0 .. Occupancy /\ Content'[i] = (slots[Place(i - 1)])'
    BY <1>2 DEF QueueShape
  <2>2. \A i \in 1 .. Occupancy + 1 : Content'[i] = slots[Place(i - 1)]
    BY <1>4, <2>1
  <2>3. Occupancy + 1 \in 1 .. Occupancy + 1 /\ (Occupancy + 1) - 1 = Occupancy
    BY <1>2
  <2>4. Content'[Occupancy + 1] = frame
    BY <1>5, <2>2, <2>3
  <2>5. \A i \in 1 .. Occupancy : i \in 1 .. Occupancy + 1 /\ Content[i] = slots[Place(i - 1)]
    BY <1>2 DEF QueueShape
  <2> QED
    BY <2>2, <2>4, <2>5
<1>8. frame \in Whole
  <2>1. Occupancy + 1 \in 1 .. Len(Content')
    BY <1>2, <1>6
  <2> QED
    BY <1>6, <1>7, <2>1, ElementOfSeq
<1>9. Content \in Seq(Whole) /\ Len(Content) = Occupancy
  BY DEF QueueShape
<1>10. Content' = Append(Content, frame)
  <2>1. /\ Append(Content, frame) \in Seq(Whole)
        /\ Len(Append(Content, frame)) = Occupancy + 1
        /\ \A i \in 1 .. Occupancy : Append(Content, frame)[i] = Content[i]
        /\ Append(Content, frame)[Occupancy + 1] = frame
    BY <1>8, <1>9, AppendProperties
  <2>2. \A i \in 1 .. Len(Content') : Content'[i] = Append(Content, frame)[i]
    <3>1. \A i \in 1 .. Occupancy + 1 : i \in 1 .. Occupancy \/ i = Occupancy + 1
      BY <1>2
    <3> QED
      BY <1>6, <1>7, <2>1, <3>1
  <2> QED
    BY <1>6, <2>1, <2>2, SeqEqual
<1> QED
  BY <1>2, <1>8, <1>9, <1>10

(* The store of read_index_ removes the first frame, and returns it.       *)
LEMMA ReleaseRemovesHead ==
  ASSUME DataInvariant, QueueShape, QueueShape', Release
  PROVE  Content # <<>> /\ popped' = Head(Content) /\ Content' = Tail(Content)
<1>1. IndexInvariant
  BY DEF DataInvariant
<1>2. Occupancy \in Nat /\ Occupancy' = Occupancy - 1 /\ 0 < Occupancy
  BY <1>1, IndexMoves, QueuedSlots DEF Occupancy
<1>3. Content \in Seq(Whole) /\ Len(Content) = Occupancy /\ Content # <<>>
  BY <1>2 DEF QueueShape
<1>4. Head(Content) = slots[Slot(readIndex)]
  <2>1. 1 \in 1 .. Occupancy /\ 1 - 1 = 0
    BY <1>2
  <2>2. Content[1] = slots[Place(0)]
    BY <2>1 DEF QueueShape
  <2> QED
    BY <1>1, <1>3, <2>2, QueuedSlots
<1>5. popped' = Head(Content)
  <2>1. slots[Slot(readIndex)] \in Fields /\ popFrame \in Fields
    BY <1>1, QueuedSlots DEF IndexInvariant, TypeOK
  <2>2. popFrame.count = slots[Slot(readIndex)].count /\ popFrame.words = slots[Slot(readIndex)].words
    BY DEF Release, DataInvariant
  <2>3. popFrame = slots[Slot(readIndex)]
    BY <2>1, <2>2 DEF Fields
  <2> QED
    BY <1>4, <2>3 DEF Release
<1>6. Content' = Tail(Content)
  <2>1. /\ Tail(Content) \in Seq(Whole) /\ Len(Tail(Content)) = Occupancy - 1
        /\ \A i \in 1 .. Occupancy - 1 : Tail(Content)[i] = Content[i + 1]
    BY <1>3, HeadTailProperties
  <2>2. Content' \in Seq(Whole) /\ Len(Content') = Occupancy - 1
    BY <1>2 DEF QueueShape
  <2>3. ASSUME NEW i \in 1 .. Occupancy - 1 PROVE Content'[i] = Tail(Content)[i]
    <3>1. /\ i - 1 \in 0 .. Occupancy - 2 /\ (i - 1) + 1 = i
          /\ i \in 1 .. Occupancy' /\ i + 1 \in 1 .. Occupancy /\ (i + 1) - 1 = i
      BY <1>2
    <3>2. Content'[i] = (slots[Place(i - 1)])'
      BY <3>1 DEF QueueShape
    <3>3. Place(i - 1)' = Place(i) /\ slots' = slots
      BY <1>1, <3>1, PlaceAfterRelease DEF Release
    <3>4. Content[i + 1] = slots[Place(i)]
      BY <3>1 DEF QueueShape
    <3> QED
      BY <2>1, <3>2, <3>3, <3>4
  <2> QED
    BY <2>1, <2>2, <2>3, SeqEqual
<1> QED
  BY <1>3, <1>5, <1>6

(* Every step of the ring is a step of the queue, or none of it.           *)
LEMMA QueueStep == DataInvariant /\ [Next]_vars => [Fifo!Next]_(Fifo!vars)
<1> SUFFICES ASSUME DataInvariant, [Next]_vars PROVE [Fifo!Next]_(Fifo!vars)
  OBVIOUS
<1>1. IndexInvariant /\ DataInvariant'
  BY DataInvariantStep DEF DataInvariant
<1>2. QueueShape /\ QueueShape'
  BY <1>1, QueueShapeHolds
<1>3. Occupancy \in Nat /\ Occupancy <= Capacity /\ Capacity \in Nat
  BY <1>1, QueuedSlots, CapacityAssumption
<1> USE DEF producerVars, consumerVars, sizeVars
<1>4. ASSUME UNCHANGED <<writeIndex, readIndex, slots>> PROVE Content' = Content
  BY <1>4 DEF Content, Occupancy
<1>5. CASE RefusePush
  <2>1. Len(Content) = Capacity
    BY <1>2, <1>3, <1>5 DEF RefusePush, QueueShape, HasSpace, Occupancy
  <2> QED
    BY <1>4, <1>5, <2>1 DEF RefusePush, Fifo!Next, Fifo!RefusePush
<1>6. CASE CopyCountIn \/ CopyWordsIn
  <2>1. /\ UNCHANGED <<writeIndex, readIndex, pushed, popped>>
        /\ Writing
        /\ \A s \in SlotIds \ {Slot(writeIndex)} : slots'[s] = slots[s]
    BY <1>1, <1>6 DEF CopyCountIn, CopyWordsIn, IndexInvariant, TypeOK, Writing
  <2>2. \A k \in 0 .. Occupancy - 1 : slots'[Place(k)] = slots[Place(k)]
    BY <1>1, <2>1, QueuedSlots
  <2>3. Occupancy' = Occupancy /\ \A k \in 0 .. Occupancy - 1 : (slots[Place(k)])' = slots[Place(k)]
    BY <2>1, <2>2 DEF Occupancy, Place
  <2>4. Content' = Content
    BY <1>2, <1>3, <2>3, SameQueue
  <2> QED
    BY <2>1, <2>4 DEF Fifo!vars
<1>7. CASE (\E e \in Elements : BeginPush(e)) \/ ProducerLoadsWrite \/ ProducerLoadsRead
           \/ BeginPop \/ CopyCountOut \/ CopyWordsOut \/ ConsumerLoadsWrite \/ ConsumerLoadsRead
           \/ UNCHANGED vars
  <2>1. UNCHANGED <<writeIndex, readIndex, slots, pushed, popped>>
    BY <1>7
       DEF BeginPush, ProducerLoadsWrite, ProducerLoadsRead, BeginPop, CopyCountOut, CopyWordsOut,
           ConsumerLoadsWrite, ConsumerLoadsRead, vars
  <2> QED
    BY <1>4, <2>1 DEF Fifo!vars
<1>8. CASE Publish
  <2>1. PICK frame \in Whole : Len(Content) < Capacity /\ Content' = Append(Content, frame)
    BY <1>2, <1>8, PublishAppends
  <2>2. Fifo!Push(frame)
    BY <1>8, <2>1 DEF Publish, Fifo!Push
  <2> QED
    BY <2>2 DEF Fifo!Next
<1>9. CASE FindEmpty
  <2>1. Content = <<>>
    <3>1. Occupancy = 0
      BY <1>1, <1>9, DistanceZero, QueuedSlots DEF FindEmpty, Occupancy
    <3> QED
      BY <1>2, <3>1, EmptySeq DEF QueueShape
  <2> QED
    BY <1>4, <1>9, <2>1 DEF FindEmpty, Fifo!Next, Fifo!FindEmpty
<1>10. CASE Release
  <2>1. Content # <<>> /\ popped' = Head(Content) /\ Content' = Tail(Content)
    BY <1>2, <1>10, ReleaseRemovesHead
  <2> QED
    BY <1>10, <2>1 DEF Release, Fifo!Next, Fifo!Pop
<1> QED
  BY <1>5, <1>6, <1>7, <1>8, <1>9, <1>10 DEF Next, ProducerStep, ConsumerStep

(* For every capacity and every word width it divides, the ring with its   *)
(* two unsynchronised ends behaves as the bounded queue: nothing is lost,  *)
(* duplicated, reordered or torn, and a call is refused only when the      *)
(* queue is really full or really empty.                                   *)
THEOREM RingImplementsFifo == Spec => ImplementsFifo
<1>1. Init => Fifo!Init
  <2> SUFFICES ASSUME Init PROVE Fifo!Init
    OBVIOUS
  <2>1. DataInvariant /\ Occupancy = 0
    BY InitialData, DistanceZero, QueuedSlots DEF DataInvariant, Init, Occupancy
  <2>2. Content = <<>>
    BY <2>1, QueueShapeHolds, EmptySeq DEF QueueShape
  <2> QED
    BY <2>2 DEF Init, Fifo!Init
<1>2. Spec => []DataInvariant
  BY InitialData, DataInvariantStep, PTL DEF Spec
<1> QED
  BY <1>1, <1>2, QueueStep, PTL DEF Spec, ImplementsFifo, Fifo!Spec

=============================================================================
