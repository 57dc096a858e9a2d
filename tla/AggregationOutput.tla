--------------------------- MODULE AggregationOutput ---------------------------
(***************************************************************************)
(* The output half of the R5C1 pipeline: the engines publish complete      *)
(* records from AGG_VAL through AggregationOutputService::publish into the *)
(* record ring, and AGG_TX hands them to the transport one at a time.      *)
(* AGG_TX (priority 2) preempts AGG_VAL (priority 1); AGG_VAL runs only    *)
(* while AGG_TX is blocked.  The ring is the queue of module BoundedFifo.  *)
(*                                                                         *)
(* A record is named by its engine and by a number the engine counts up    *)
(* for every record it builds, modulo NumberModulus.                       *)
(***************************************************************************)
EXTENDS Integers, Sequences

CONSTANTS
  RecordEngines,   \* engines that ask ready_ again before every record
  FamilyEngines,   \* HarmonicAggregationEngine: one family after the other
  FamilySize,      \* records of a family
  RingCapacity,    \* AggregationRecordRing::capacity
  NumberModulus

ASSUME EngineAssumption ==
  /\ RecordEngines \cap FamilyEngines = {}
  /\ "none" \notin RecordEngines \cup FamilyEngines
ASSUME FamilyAssumption == FamilySize \in Nat \ {0}
ASSUME RingAssumption == RingCapacity \in Nat \ {0}
ASSUME NumberAssumption == NumberModulus \in Nat /\ NumberModulus > RingCapacity + 2

Engines == RecordEngines \cup FamilyEngines
Numbers == 0 .. NumberModulus - 1
Records == [engine : Engines, number : Numbers]
NoRecord == [engine |-> "none", number |-> 0]
NoEngine == "none"

(* The harmonic families that can follow another one in the same call: the  *)
(* 10-minute family after the 150/180-cycle one, the 2-hour family last.    *)
LaterFamilies == {"minutes_10", "hours_2"}

VARIABLES
  ready,            \* ready_ of each engine
  built,            \* number of the last record each engine built
  valAt,            \* where AGG_VAL stands
  current,          \* the engine whose process() runs
  recordsLeft,      \* records of the family not yet published
  familiesLeft,     \* later families still to emit in this call
  ring,             \* the record ring
  outputNotified,   \* AGG_TX's notification value is not zero
  txAt,             \* where AGG_TX stands in run()
  held,             \* the record AGG_TX owns
  faultReported,    \* output_fault_reported
  outputReady,      \* health: output_ready
  transport,        \* what the TX side would answer to a write
  emitted           \* number of the last record of each engine the transport took

engineVars == <<ready, built>>
valVars == <<valAt, current, recordsLeft, familiesLeft>>
txVars == <<txAt, held, faultReported, outputReady, emitted>>
vars == <<engineVars, valVars, ring, outputNotified, txVars, transport>>

TypeOK ==
  /\ ready \in [Engines -> BOOLEAN]
  /\ built \in [Engines -> Numbers]
  /\ valAt \in {"idle", "publish", "notify"}
  /\ current \in Engines \cup {NoEngine}
  /\ recordsLeft \in 0 .. FamilySize
  /\ familiesLeft \in SUBSET LaterFamilies
  /\ ring \in Seq(Records)
  /\ Len(ring) <= RingCapacity
  /\ outputNotified \in BOOLEAN
  /\ txAt \in {"pop", "take", "write", "delay"}
  /\ held \in Records \cup {NoRecord}
  /\ faultReported \in BOOLEAN
  /\ outputReady \in BOOLEAN
  /\ transport \in {"vacant", "full", "fault"}
  /\ emitted \in [Engines -> Numbers]

(* Both services initialised, AGG_TX past its start notification.          *)
Init ==
  /\ ready = [e \in Engines |-> TRUE]
  /\ built = [e \in Engines |-> 0]
  /\ valAt = "idle"
  /\ current = NoEngine
  /\ recordsLeft = 0
  /\ familiesLeft = {}
  /\ ring = <<>>
  /\ outputNotified = FALSE
  /\ txAt = "pop"
  /\ held = NoRecord
  /\ faultReported = FALSE
  /\ outputReady = TRUE
  /\ transport = "vacant"
  /\ emitted = [e \in Engines |-> 0]

RingFullOffByOne == Len(ring) > RingCapacity
RingFull == Len(ring) >= RingCapacity
TxBlocked == txAt = "delay" \/ (txAt = "take" /\ ~outputNotified)

-----------------------------------------------------------------------------
(* AGG_VAL                                                                 *)

(* process() of a ready engine completes some families of records; one     *)
(* that is not ready returns at once.                                      *)
BeginProcess(e, later) ==
  /\ TxBlocked
  /\ valAt = "idle"
  /\ ready[e]
  /\ current' = e
  /\ recordsLeft' = FamilySize
  /\ familiesLeft' = later
  /\ valAt' = "publish"
  /\ UNCHANGED <<engineVars, ring, outputNotified, txVars, transport>>

Successor(n) == (n + 1) % NumberModulus
NextRecord == [engine |-> current, number |-> Successor(built[current])]

(* try_enqueue puts the record in the ring ... *)
PublishAccepted ==
  /\ TxBlocked
  /\ valAt = "publish"
  /\ recordsLeft > 0
  /\ ~RingFull
  /\ ring' = Append(ring, NextRecord)
  /\ built' = [built EXCEPT ![current] = Successor(@)]
  /\ recordsLeft' = recordsLeft - 1
  /\ valAt' = "notify"
  /\ UNCHANGED <<ready, current, familiesLeft, outputNotified, txVars, transport>>

(* The refusal ignored, and the refusal tried again until there is room.   *)
PublishDroppedAndIgnored ==
  /\ TxBlocked
  /\ valAt = "publish"
  /\ recordsLeft > 0
  /\ RingFull
  /\ built' = [built EXCEPT ![current] = Successor(@)]
  /\ recordsLeft' = recordsLeft - 1
  /\ UNCHANGED <<ready, valAt, current, familiesLeft, ring, outputNotified, txVars, transport>>

PublishDroppedRetries ==
  /\ TxBlocked
  /\ valAt = "publish"
  /\ recordsLeft > 0
  /\ RingFull
  /\ UNCHANGED vars

(* ... or drops it when the ring is full.  Any engine then fails, but only *)
(* the record engines also stop here: the harmonic engine gives up this    *)
(* family and goes on to the 10-minute one; it asks ready_ again before    *)
(* the 2-hour family alone.                                                *)
PublishDropped ==
  /\ TxBlocked
  /\ valAt = "publish"
  /\ recordsLeft > 0
  /\ RingFull
  /\ built' = [built EXCEPT ![current] = Successor(@)]
  /\ ready' = [ready EXCEPT ![current] = FALSE]
  /\ recordsLeft' = 0
  /\ familiesLeft' = IF current \in FamilyEngines THEN familiesLeft \ {"hours_2"} ELSE {}
  /\ UNCHANGED <<valAt, current, ring, outputNotified, txVars, transport>>

NotifyOutputNever ==
  /\ TxBlocked
  /\ valAt = "notify"
  /\ valAt' = "publish"
  /\ UNCHANGED <<engineVars, current, recordsLeft, familiesLeft, ring, outputNotified, txVars,
                 transport>>

(* try_enqueue wakes AGG_TX after the push. *)
NotifyOutput ==
  /\ TxBlocked
  /\ valAt = "notify"
  /\ outputNotified' = TRUE
  /\ valAt' = "publish"
  /\ UNCHANGED <<engineVars, current, recordsLeft, familiesLeft, ring, txVars, transport>>

NextFamily ==
  /\ TxBlocked
  /\ valAt = "publish"
  /\ recordsLeft = 0
  /\ familiesLeft # {}
  /\ recordsLeft' = FamilySize
  /\ familiesLeft' = IF "minutes_10" \in familiesLeft THEN familiesLeft \ {"minutes_10"} ELSE {}
  /\ UNCHANGED <<engineVars, valAt, current, ring, outputNotified, txVars, transport>>

EndProcess ==
  /\ TxBlocked
  /\ valAt = "publish"
  /\ recordsLeft = 0
  /\ familiesLeft = {}
  /\ valAt' = "idle"
  /\ current' = NoEngine
  /\ UNCHANGED <<engineVars, recordsLeft, familiesLeft, ring, outputNotified, txVars, transport>>

-----------------------------------------------------------------------------
(* AGG_TX: AggregationOutputService::run                                   *)

PopRecord ==
  /\ txAt = "pop"
  /\ ring # <<>>
  /\ held' = Head(ring)
  /\ ring' = Tail(ring)
  /\ txAt' = "write"
  /\ UNCHANGED <<engineVars, valVars, outputNotified, faultReported, outputReady, emitted,
                 transport>>

FindRingEmpty ==
  /\ txAt = "pop"
  /\ ring = <<>>
  /\ txAt' = "take"
  /\ UNCHANGED <<engineVars, valVars, ring, outputNotified, held, faultReported, outputReady,
                 emitted, transport>>

TakeNotification ==
  /\ txAt = "take"
  /\ outputNotified
  /\ outputNotified' = FALSE
  /\ txAt' = "pop"
  /\ UNCHANGED <<engineVars, valVars, ring, held, faultReported, outputReady, emitted, transport>>

WriteTaken ==
  /\ txAt = "write"
  /\ transport = "vacant"
  /\ emitted' = [emitted EXCEPT ![held.engine] = held.number]
  /\ held' = NoRecord
  /\ faultReported' = FALSE
  /\ outputReady' = TRUE
  /\ txAt' = "pop"
  /\ UNCHANGED <<engineVars, valVars, ring, outputNotified, transport>>

(* Backpressure: keep the record and try again after a tick. *)
WriteWouldBlock ==
  /\ txAt = "write"
  /\ transport = "full"
  /\ txAt' = "delay"
  /\ UNCHANGED <<engineVars, valVars, ring, outputNotified, held, faultReported, outputReady,
                 emitted, transport>>

WriteFaultDropsRecord ==
  /\ txAt = "write"
  /\ transport = "fault"
  /\ held' = NoRecord
  /\ faultReported' = TRUE
  /\ outputReady' = FALSE
  /\ txAt' = "pop"
  /\ UNCHANGED <<engineVars, valVars, ring, outputNotified, emitted, transport>>

WriteFaultGivesUp ==
  /\ txAt = "write"
  /\ transport = "fault"
  /\ faultReported' = TRUE
  /\ outputReady' = FALSE
  /\ txAt' = "take"
  /\ UNCHANGED <<engineVars, valVars, ring, outputNotified, held, emitted, transport>>

(* A transport fault: report it once, keep the record and try again. *)
WriteFault ==
  /\ txAt = "write"
  /\ transport = "fault"
  /\ faultReported' = TRUE
  /\ outputReady' = FALSE
  /\ txAt' = "delay"
  /\ UNCHANGED <<engineVars, valVars, ring, outputNotified, held, emitted, transport>>

Tick ==
  /\ txAt = "delay"
  /\ txAt' = "write"
  /\ UNCHANGED <<engineVars, valVars, ring, outputNotified, held, faultReported, outputReady,
                 emitted, transport>>

-----------------------------------------------------------------------------
(* The TX FIFO fills and drains with the meter path's backpressure, and a  *)
(* transport may fault and recover.                                        *)
TransportChanges ==
  /\ transport' \in {"vacant", "full", "fault"} \ {transport}
  /\ UNCHANGED <<engineVars, valVars, ring, outputNotified, txVars>>

-----------------------------------------------------------------------------
(* The 2-hour family completes only with a 10-minute one, which is then the *)
(* first or the second of the call.                                        *)
FollowingFamilies(e) == IF e \in FamilyEngines THEN SUBSET LaterFamilies ELSE {{}}

Validator ==
  \/ \E e \in Engines : \E later \in FollowingFamilies(e) : BeginProcess(e, later)
  \/ PublishAccepted
  \/ PublishDropped
  \/ NotifyOutput
  \/ NextFamily
  \/ EndProcess

Output ==
  \/ PopRecord
  \/ FindRingEmpty
  \/ TakeNotification
  \/ WriteTaken
  \/ WriteWouldBlock
  \/ WriteFault
  \/ Tick

Next == Validator \/ Output \/ TransportChanges

(* A frame need not arrive (no fairness on BeginProcess); a call that has  *)
(* begun continues whenever AGG_TX lets it, and AGG_TX blocks for a tick.  *)
Continue == PublishAccepted \/ PublishDropped \/ NotifyOutput \/ NextFamily \/ EndProcess

Fairness == WF_vars(Output) /\ SF_vars(Continue)

Spec == Init /\ [][Next]_vars /\ Fairness

-----------------------------------------------------------------------------
(* The records on their way to the transport, oldest first.                *)
Waiting == (IF held = NoRecord THEN <<>> ELSE <<held>>) \o ring

(* The last record of an engine among the first n of them has this number,  *)
(* or the last one emitted has if there is none.                            *)
Latest(e, n, number) ==
  \/ \E j \in 1 .. n : /\ Waiting[j] = [engine |-> e, number |-> number]
                       /\ \A k \in j + 1 .. n : Waiting[k].engine # e
  \/ number = emitted[e] /\ \A k \in 1 .. n : Waiting[k].engine # e

Contiguous(e) ==
  \A i \in DOMAIN Waiting :
     Waiting[i].engine = e =>
       \E n \in Numbers : Latest(e, i - 1, n) /\ Waiting[i].number = Successor(n)

(* A meter record that was accepted is emitted once and in order, and the  *)
(* stream of a record engine has no hole: a record the full ring refuses   *)
(* is the last one that engine ever builds.                                *)
RecordStreamHasNoHole ==
  \A e \in RecordEngines :
     /\ Contiguous(e)
     /\ ready[e] => Latest(e, Len(Waiting), built[e])

(* The same of every engine that shares the output ring: a completed       *)
(* record is never silently discarded, an engine whose record is refused   *)
(* fails closed.                                                           *)
EveryStreamHasNoHole == \A e \in Engines : Contiguous(e)

(* AGG_TX never sleeps on a queued record, unless AGG_VAL stands between   *)
(* the push and the notification.                                          *)
NoLostOutputWakeup ==
  (txAt = "take" /\ ring # <<>>) => outputNotified \/ valAt = "notify"

(* A transport fault stays visible until a record gets through: health     *)
(* never shows the output ready while the fault holds the record back.     *)
FaultVisibleWhileHeld == faultReported => ~outputReady /\ held # NoRecord

(* Aggregation never waits for the transport: whatever it answers, a call  *)
(* of process() ends.                                                      *)
ValidatorNeverWaits == (valAt # "idle") ~> (valAt = "idle")

(* Once the transport takes records for good, what is queued is emitted.   *)
RecordsDrain ==
  <>[](transport = "vacant") =>
     /\ (ring # <<>>) ~> (held # NoRecord)
     /\ (held # NoRecord) ~> (held = NoRecord)

=============================================================================
