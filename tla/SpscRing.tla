------------------------------ MODULE SpscRing ------------------------------
(***************************************************************************)
(* AggregationFrameRing (and AggregationRecordRing, the same algorithm with *)
(* one element type instead of two fields): a single-producer single-      *)
(* consumer ring with free-running indices of a machine word.  Each step   *)
(* is one shared access of try_push, try_pop, size or available_capacity,   *)
(* and the two ends interleave freely: this covers the frame ring, whose   *)
(* producer AGG_RX preempts its consumer AGG_VAL, and the record ring,     *)
(* whose consumer AGG_TX preempts its producer AGG_VAL.                    *)
(*                                                                         *)
(* A frame is copied field by field (word_count, then words); a frame id   *)
(* stands for the value of each field, so a torn copy shows as two ids.    *)
(***************************************************************************)
EXTENDS Integers, Sequences

CONSTANTS
  Capacity,       \* slots: 64 for frames, 256 for records
  IndexModulus,   \* number of values of an index: 2^32
  Elements,       \* frame ids
  Nothing         \* no frame

ASSUME CapacityAssumption == Capacity \in Nat \ {0}
ASSUME ModulusAssumption ==
  /\ IndexModulus \in Nat \ {0}
  /\ IndexModulus % Capacity = 0
  /\ Capacity < IndexModulus
ASSUME NothingAssumption == Nothing \notin Elements

VARIABLES
  writeIndex,   \* write_index_, stored by the producer only
  readIndex,    \* read_index_, stored by the consumer only
  slots,        \* frames_
  pushAt,       \* where the producer stands in a call
  pushFrame,    \* the argument of try_push
  pushed,       \* what the last try_push returned
  room,         \* the producer saw available_capacity() # 0 and has not pushed since
  popAt,        \* where the consumer stands in a call
  popFrame,     \* the out-parameter of try_pop, as far as it is copied
  popped,       \* what the last try_pop gave
  sizeWrite,    \* write_index_ as a size() in progress loaded it, for each end
  sizeSeen      \* what the last size() returned, for each end

producerVars == <<pushAt, pushFrame, pushed, room>>
consumerVars == <<popAt, popFrame, popped>>
sizeVars == <<sizeWrite, sizeSeen>>
vars == <<writeIndex, readIndex, slots, producerVars, consumerVars, sizeVars>>

Ends == {"producer", "consumer"}
Indices == 0 .. IndexModulus - 1
SlotIds == 0 .. Capacity - 1
Fields == [count : Elements \cup {Nothing}, words : Elements \cup {Nothing}]
Blank == [count |-> Nothing, words |-> Nothing]

(* Unsigned index arithmetic: i + 1U, w - r, and i % capacity. *)
AdvanceWithoutWrap(i) == i + 1
AdvanceShort(i) == (i + 1) % (IndexModulus - 1)
Advance(i) == (i + 1) % IndexModulus
Distance(w, r) == (w - r) % IndexModulus
Slot(i) == i % Capacity

(* write - read >= capacity, as the producer and available_capacity test it. *)
HasSpaceOffByOne(w, r) == Distance(w, r) <= Capacity
HasSpace(w, r) == Distance(w, r) < Capacity
AvailableCapacity(w, r) == IF HasSpace(w, r) THEN Capacity - Distance(w, r) ELSE 0

TypeOK ==
  /\ writeIndex \in Indices
  /\ readIndex \in Indices
  /\ slots \in [SlotIds -> Fields]
  /\ pushAt \in {"idle", "count", "words", "publish", "size"}
  /\ pushFrame \in Elements \cup {Nothing}
  /\ pushed \in BOOLEAN
  /\ room \in BOOLEAN
  /\ popAt \in {"idle", "count", "words", "release", "size"}
  /\ popFrame \in Fields
  /\ popped \in Fields
  /\ sizeWrite \in [Ends -> Indices]
  /\ sizeSeen \in [Ends -> Indices]

Init ==
  /\ writeIndex = 0
  /\ readIndex = 0
  /\ slots = [s \in SlotIds |-> Blank]
  /\ pushAt = "idle"
  /\ pushFrame = Nothing
  /\ pushed = TRUE
  /\ room = FALSE
  /\ popAt = "idle"
  /\ popFrame = Blank
  /\ popped = Blank
  /\ sizeWrite = [e \in Ends |-> 0]
  /\ sizeSeen = [e \in Ends |-> 0]

-----------------------------------------------------------------------------
(* try_push *)

(* The two loads; the producer owns write_index_, so read_index_ is the one *)
(* that matters.  The ring is full: return false.                          *)
RefusePush ==
  /\ pushAt = "idle"
  /\ ~HasSpace(writeIndex, readIndex)
  /\ pushed' = FALSE
  /\ UNCHANGED <<writeIndex, readIndex, slots, pushAt, pushFrame, room,
                 consumerVars, sizeVars>>

BeginPush(e) ==
  /\ pushAt = "idle"
  /\ HasSpace(writeIndex, readIndex)
  /\ pushAt' = "count"
  /\ pushFrame' = e
  /\ UNCHANGED <<writeIndex, readIndex, slots, pushed, room, consumerVars, sizeVars>>

CopyCountIn ==
  /\ pushAt = "count"
  /\ slots' = [slots EXCEPT ![Slot(writeIndex)].count = pushFrame]
  /\ pushAt' = "words"
  /\ UNCHANGED <<writeIndex, readIndex, pushFrame, pushed, room, consumerVars, sizeVars>>

CopyWordsIn ==
  /\ pushAt = "words"
  /\ slots' = [slots EXCEPT ![Slot(writeIndex)].words = pushFrame]
  /\ pushAt' = "publish"
  /\ UNCHANGED <<writeIndex, readIndex, pushFrame, pushed, room, consumerVars, sizeVars>>

(* The release store of write_index_.  The caller asks for                 *)
(* available_capacity again before its next push.                          *)
PublishWithOldObservation ==
  /\ pushAt = "publish"
  /\ writeIndex' = Advance(writeIndex)
  /\ pushAt' = "idle"
  /\ pushFrame' = Nothing
  /\ pushed' = TRUE
  /\ UNCHANGED <<readIndex, slots, room, consumerVars, sizeVars>>

Publish ==
  /\ pushAt = "publish"
  /\ writeIndex' = Advance(writeIndex)
  /\ pushAt' = "idle"
  /\ pushFrame' = Nothing
  /\ pushed' = TRUE
  /\ room' = FALSE
  /\ UNCHANGED <<readIndex, slots, consumerVars, sizeVars>>

-----------------------------------------------------------------------------
(* try_pop *)

FindEmpty ==
  /\ popAt = "idle"
  /\ readIndex = writeIndex
  /\ popped' = Blank
  /\ UNCHANGED <<writeIndex, readIndex, slots, producerVars, popAt, popFrame, sizeVars>>

BeginPop ==
  /\ popAt = "idle"
  /\ readIndex # writeIndex
  /\ popAt' = "count"
  /\ UNCHANGED <<writeIndex, readIndex, slots, producerVars, popFrame, popped, sizeVars>>

CopyCountOut ==
  /\ popAt = "count"
  /\ popFrame' = [popFrame EXCEPT !.count = slots[Slot(readIndex)].count]
  /\ popAt' = "words"
  /\ UNCHANGED <<writeIndex, readIndex, slots, producerVars, popped, sizeVars>>

CopyWordsOut ==
  /\ popAt = "words"
  /\ popFrame' = [popFrame EXCEPT !.words = slots[Slot(readIndex)].words]
  /\ popAt' = "release"
  /\ UNCHANGED <<writeIndex, readIndex, slots, producerVars, popped, sizeVars>>

(* The release store of read_index_ and the return of the frame. *)
Release ==
  /\ popAt = "release"
  /\ readIndex' = Advance(readIndex)
  /\ popped' = popFrame
  /\ popFrame' = Blank
  /\ popAt' = "idle"
  /\ UNCHANGED <<writeIndex, slots, producerVars, sizeVars>>

-----------------------------------------------------------------------------
(* size and available_capacity: write_index_ is loaded before read_index_. *)

ProducerLoadsWrite ==
  /\ pushAt = "idle"
  /\ pushAt' = "size"
  /\ sizeWrite' = [sizeWrite EXCEPT !["producer"] = writeIndex]
  /\ UNCHANGED <<writeIndex, readIndex, slots, pushFrame, pushed, room,
                 consumerVars, sizeSeen>>

ProducerLoadsRead ==
  /\ pushAt = "size"
  /\ pushAt' = "idle"
  /\ sizeSeen' = [sizeSeen EXCEPT !["producer"] =
                    Distance(sizeWrite["producer"], readIndex)]
  /\ sizeWrite' = [sizeWrite EXCEPT !["producer"] = 0]
  /\ room' = (AvailableCapacity(sizeWrite["producer"], readIndex) # 0)
  /\ UNCHANGED <<writeIndex, readIndex, slots, pushFrame, pushed, consumerVars>>

ConsumerLoadsWrite ==
  /\ popAt = "idle"
  /\ popAt' = "size"
  /\ sizeWrite' = [sizeWrite EXCEPT !["consumer"] = writeIndex]
  /\ UNCHANGED <<writeIndex, readIndex, slots, producerVars, popFrame, popped, sizeSeen>>

ConsumerLoadsRead ==
  /\ popAt = "size"
  /\ popAt' = "idle"
  /\ sizeSeen' = [sizeSeen EXCEPT !["consumer"] =
                    Distance(sizeWrite["consumer"], readIndex)]
  /\ sizeWrite' = [sizeWrite EXCEPT !["consumer"] = 0]
  /\ UNCHANGED <<writeIndex, readIndex, slots, producerVars, popFrame, popped>>

-----------------------------------------------------------------------------
ProducerStep ==
  \/ RefusePush
  \/ \E e \in Elements : BeginPush(e)
  \/ CopyCountIn
  \/ CopyWordsIn
  \/ Publish
  \/ ProducerLoadsWrite
  \/ ProducerLoadsRead

ConsumerStep ==
  \/ FindEmpty
  \/ BeginPop
  \/ CopyCountOut
  \/ CopyWordsOut
  \/ Release
  \/ ConsumerLoadsWrite
  \/ ConsumerLoadsRead

Next == ProducerStep \/ ConsumerStep

Spec == Init /\ [][Next]_vars

-----------------------------------------------------------------------------
Occupancy == Distance(writeIndex, readIndex)

Writing == pushAt \in {"count", "words", "publish"}
Reading == popAt \in {"count", "words", "release"}

(* The ring never counts more frames than it has slots, although the       *)
(* indices wrap and the difference is taken modulo the word.               *)
BoundedOccupancy == Occupancy <= Capacity

(* try_push fills a slot outside the ones try_pop may be copying: the two  *)
(* ends are never inside the same slot (a copy torn across two frames      *)
(* would be the consequence).                                              *)
NoSlotShared == (Writing /\ Reading) => Slot(writeIndex) # Slot(readIndex)

(* size() is a snapshot of two indices taken at different times.  From     *)
(* either end it is still a possible fill level: it never underflows to a  *)
(* huge value when the other end moves between the two loads.              *)
SizeWithinCapacity == \A e \in Ends : sizeSeen[e] <= Capacity

(* AggregationShadowService reads the transport only after                 *)
(* available_capacity() # 0 and treats a refused push as a violated SPSC   *)
(* observation: the room it saw is still there when it pushes.             *)
RoomObservationHolds == room => HasSpace(writeIndex, readIndex)

(* The frames between the indices, oldest first, and the frames whose two  *)
(* fields come from one push.                                              *)
Content == [i \in 1 .. Occupancy |-> slots[Slot((readIndex + i - 1) % IndexModulus)]]
Whole == {[count |-> e, words |-> e] : e \in Elements}

(* The ring implements the bounded queue: a push takes effect at the store *)
(* of write_index_, a pop at the store of read_index_, frames come out     *)
(* whole and in order, and no call is refused but for a full or an empty   *)
(* queue.                                                                  *)
Fifo == INSTANCE BoundedFifo WITH queue <- Content, Elements <- Whole, Nothing <- Blank
ImplementsFifo == Fifo!Spec

=============================================================================
