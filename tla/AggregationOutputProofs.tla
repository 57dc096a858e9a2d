------------------------ MODULE AggregationOutputProofs ------------------------
(***************************************************************************)
(* Proofs about AggregationOutput for every set of engines, every family   *)
(* size and every ring capacity: types, the wake-up of AGG_TX, the         *)
(* visibility of a transport fault and each engine's stream of records.    *)
(***************************************************************************)
EXTENDS AggregationOutput, TLAPS

(* AGG_TX owns a record from the pop to the write that takes it.           *)
HeldWhileWriting == txAt \in {"write", "delay"} <=> held # NoRecord

(* A call of process() has its engine.                                     *)
CallHasEngine == valAt # "idle" => current \in Engines

OutputInvariant ==
  /\ TypeOK
  /\ HeldWhileWriting
  /\ CallHasEngine
  /\ NoLostOutputWakeup
  /\ FaultVisibleWhileHeld

-----------------------------------------------------------------------------
(* Record numbers wrap inside their range.                                 *)
LEMMA SuccessorInRange ==
  ASSUME NEW n \in Numbers
  PROVE  Successor(n) \in Numbers
  BY NumberAssumption, RingAssumption, SMTT(20) DEF Successor, Numbers

(* The record an engine builds next is a record.                           *)
LEMMA NextRecordType ==
  ASSUME TypeOK, current \in Engines
  PROVE  /\ NextRecord \in Records
         /\ [built EXCEPT ![current] = Successor(@)] \in [Engines -> Numbers]
<1>1. built[current] \in Numbers
  BY DEF TypeOK
<1>2. Successor(built[current]) \in Numbers
  BY <1>1, SuccessorInRange
<1> QED
  BY <1>2 DEF NextRecord, Records, TypeOK

(* No record is the placeholder for none.                                  *)
LEMMA RecordsAreReal == NoRecord \notin Records
  BY EngineAssumption DEF NoRecord, Records, Engines

(* Length and range of the ring after the operations used on it.           *)
LEMMA RingOperations ==
  ASSUME NEW S, NEW q \in Seq(S)
  PROVE  /\ Len(q) \in Nat
         /\ \A e \in S : Append(q, e) \in Seq(S) /\ Len(Append(q, e)) = Len(q) + 1
         /\ q # <<>> => /\ Head(q) \in S
                        /\ Tail(q) \in Seq(S)
                        /\ Len(Tail(q)) = Len(q) - 1
  OBVIOUS

(* Both services initialised, nothing queued.                              *)
LEMMA InitialOutput == Init => OutputInvariant
<1> SUFFICES ASSUME Init PROVE OutputInvariant
  OBVIOUS
<1>1. 0 \in Numbers
  BY NumberAssumption, RingAssumption, SMTT(20) DEF Numbers
<1>2. ready \in [Engines -> BOOLEAN]
  BY DEF Init
<1>3. built \in [Engines -> Numbers] /\ emitted \in [Engines -> Numbers]
  BY <1>1 DEF Init
<1>4. ring \in Seq(Records) /\ Len(ring) <= RingCapacity
  BY RingAssumption DEF Init
<1>5. recordsLeft \in 0 .. FamilySize /\ familiesLeft \in SUBSET LaterFamilies
  BY FamilyAssumption DEF Init
<1>6. /\ outputNotified \in BOOLEAN /\ faultReported \in BOOLEAN /\ outputReady \in BOOLEAN
      /\ current \in Engines \cup {NoEngine} /\ held \in Records \cup {NoRecord}
      /\ valAt = "idle" /\ txAt = "pop" /\ transport = "vacant"
  BY Zenon DEF Init
<1>7. TypeOK
  BY <1>2, <1>3, <1>4, <1>5, <1>6 DEF TypeOK
<1> QED
  BY <1>7
     DEF Init, OutputInvariant, HeldWhileWriting, CallHasEngine, NoLostOutputWakeup,
         FaultVisibleWhileHeld

-----------------------------------------------------------------------------
(* No step of AGG_VAL breaks the invariant: a push is followed by its      *)
(* notification before the call does anything else.                        *)
LEMMA ValidatorStep == OutputInvariant /\ Validator => OutputInvariant'
<1> SUFFICES ASSUME OutputInvariant, Validator PROVE OutputInvariant'
  OBVIOUS
<1>1. TypeOK /\ HeldWhileWriting /\ CallHasEngine /\ NoLostOutputWakeup /\ FaultVisibleWhileHeld
  BY DEF OutputInvariant
<1>2. UNCHANGED <<txVars, transport>>
  BY DEF Validator, BeginProcess, PublishAccepted, PublishDropped, NotifyOutput, NextFamily,
         EndProcess
<1>3. HeldWhileWriting' /\ FaultVisibleWhileHeld'
  BY <1>1, <1>2 DEF HeldWhileWriting, FaultVisibleWhileHeld, txVars
<1>4. ASSUME NEW e \in Engines, NEW later \in FollowingFamilies(e), BeginProcess(e, later)
      PROVE  OutputInvariant'
  <2>1. later \in SUBSET LaterFamilies
    BY DEF FollowingFamilies
  <2>2. TypeOK'
    BY <1>1, <1>2, <1>4, <2>1, FamilyAssumption DEF BeginProcess, TypeOK, engineVars, txVars
  <2> QED
    BY <1>1, <1>2, <1>3, <1>4, <2>2
       DEF BeginProcess, OutputInvariant, CallHasEngine, NoLostOutputWakeup, txVars
<1>5. CASE PublishAccepted
  <2>1. NextRecord \in Records /\ built' \in [Engines -> Numbers]
    BY <1>1, <1>5, NextRecordType DEF PublishAccepted, CallHasEngine
  <2>2. ring' \in Seq(Records) /\ Len(ring') <= RingCapacity
    BY <1>1, <1>5, <2>1, RingOperations, RingAssumption DEF PublishAccepted, RingFull, TypeOK
  <2>3. TypeOK'
    BY <1>1, <1>2, <1>5, <2>1, <2>2, FamilyAssumption DEF PublishAccepted, TypeOK, txVars
  <2> QED
    BY <1>1, <1>3, <1>5, <2>3 DEF PublishAccepted, OutputInvariant, CallHasEngine, NoLostOutputWakeup
<1>6. CASE PublishDropped
  <2>1. built' \in [Engines -> Numbers]
    BY <1>1, <1>6, NextRecordType DEF PublishDropped, CallHasEngine
  <2>2. TypeOK'
    BY <1>1, <1>2, <1>6, <2>1, FamilyAssumption DEF PublishDropped, TypeOK, txVars
  <2> QED
    BY <1>1, <1>2, <1>3, <1>6, <2>2
       DEF PublishDropped, OutputInvariant, CallHasEngine, NoLostOutputWakeup, txVars
<1>7. CASE NotifyOutput
  <2>1. TypeOK'
    BY <1>1, <1>2, <1>7 DEF NotifyOutput, TypeOK, engineVars, txVars
  <2> QED
    BY <1>1, <1>3, <1>7, <2>1 DEF NotifyOutput, OutputInvariant, CallHasEngine, NoLostOutputWakeup
<1>8. CASE NextFamily \/ EndProcess
  <2>1. TypeOK'
    BY <1>1, <1>2, <1>8, FamilyAssumption DEF NextFamily, EndProcess, TypeOK, engineVars, txVars
  <2> QED
    BY <1>1, <1>2, <1>3, <1>8, <2>1
       DEF NextFamily, EndProcess, OutputInvariant, CallHasEngine, NoLostOutputWakeup, txVars
<1> QED
  BY <1>4, <1>5, <1>6, <1>7, <1>8 DEF Validator

(* No step of AGG_TX breaks the invariant: it sleeps only on a ring it     *)
(* found empty, and it lets go of a record only when the write took it.    *)
LEMMA OutputStep == OutputInvariant /\ Output => OutputInvariant'
<1> SUFFICES ASSUME OutputInvariant, Output PROVE OutputInvariant'
  OBVIOUS
<1>1. TypeOK /\ HeldWhileWriting /\ CallHasEngine /\ NoLostOutputWakeup /\ FaultVisibleWhileHeld
  BY DEF OutputInvariant
<1>2. UNCHANGED <<engineVars, valVars, transport>>
  BY DEF Output, PopRecord, FindRingEmpty, TakeNotification, WriteTaken, WriteWouldBlock,
         WriteFault, Tick
<1>3. CallHasEngine'
  BY <1>1, <1>2 DEF CallHasEngine, valVars
<1>4. CASE PopRecord
  <2>1. Head(ring) \in Records /\ Tail(ring) \in Seq(Records) /\ Len(Tail(ring)) <= Len(ring)
    BY <1>1, <1>4, RingOperations DEF PopRecord, TypeOK
  <2>2. TypeOK'
    BY <1>1, <1>2, <1>4, <2>1, RingOperations, RingAssumption
       DEF PopRecord, TypeOK, engineVars, valVars
  <2>3. held' # NoRecord
    BY <1>4, <2>1, RecordsAreReal DEF PopRecord
  <2> QED
    BY <1>1, <1>3, <1>4, <2>2, <2>3
       DEF PopRecord, OutputInvariant, HeldWhileWriting, NoLostOutputWakeup, FaultVisibleWhileHeld
<1>5. CASE FindRingEmpty \/ TakeNotification
  <2>1. TypeOK'
    BY <1>1, <1>2, <1>5 DEF FindRingEmpty, TakeNotification, TypeOK, engineVars, valVars
  <2> QED
    BY <1>1, <1>3, <1>5, <2>1
       DEF FindRingEmpty, TakeNotification, OutputInvariant, HeldWhileWriting,
           NoLostOutputWakeup, FaultVisibleWhileHeld
<1>6. CASE WriteTaken
  <2>1. held \in Records
    BY <1>1, <1>6 DEF WriteTaken, TypeOK, HeldWhileWriting
  <2>2. emitted' \in [Engines -> Numbers]
    BY <1>1, <1>6, <2>1 DEF WriteTaken, TypeOK, Records
  <2>3. TypeOK'
    BY <1>1, <1>2, <1>6, <2>2 DEF WriteTaken, TypeOK, engineVars, valVars
  <2> QED
    BY <1>1, <1>3, <1>6, <2>3
       DEF WriteTaken, OutputInvariant, HeldWhileWriting, NoLostOutputWakeup, FaultVisibleWhileHeld
<1>7. CASE WriteWouldBlock \/ WriteFault \/ Tick
  <2>1. TypeOK'
    BY <1>1, <1>2, <1>7 DEF WriteWouldBlock, WriteFault, Tick, TypeOK, engineVars, valVars
  <2> QED
    BY <1>1, <1>3, <1>7, <2>1
       DEF WriteWouldBlock, WriteFault, Tick, OutputInvariant, HeldWhileWriting,
           NoLostOutputWakeup, FaultVisibleWhileHeld
<1> QED
  BY <1>4, <1>5, <1>6, <1>7 DEF Output

(* Nor do the transport, which changes nothing else, and a stutter.        *)
LEMMA EnvironmentStep == OutputInvariant /\ (TransportChanges \/ UNCHANGED vars) => OutputInvariant'
  BY DEF OutputInvariant, TransportChanges, vars, TypeOK, HeldWhileWriting, CallHasEngine,
         NoLostOutputWakeup, FaultVisibleWhileHeld, engineVars, valVars, txVars

-----------------------------------------------------------------------------
(* The streams.  Of a record engine's call only the first refusal matters:  *)
(* until it comes the engine is ready, and nothing follows it.              *)
CallMayPublish ==
  valAt # "idle" /\ current \in RecordEngines =>
     familiesLeft = {} /\ (recordsLeft > 0 => ready[current])

StreamInvariant == OutputInvariant /\ CallMayPublish /\ RecordStreamHasNoHole

(* The queue of both tasks, position by position.                          *)
LEMMA WaitingPositions ==
  ASSUME TypeOK
  PROVE  /\ Waiting \in Seq(Records \cup {NoRecord})
         /\ held = NoRecord => Waiting = ring
         /\ held # NoRecord =>
              /\ Len(Waiting) = Len(ring) + 1 /\ Waiting[1] = held
              /\ \A i \in 1 .. Len(ring) : Waiting[i + 1] = ring[i]
<1>1. ring \in Seq(Records \cup {NoRecord}) /\ held \in Records \cup {NoRecord}
  BY DEF TypeOK
<1>2. CASE held = NoRecord
  <2>1. Waiting = <<>> \o ring
    BY <1>2 DEF Waiting
  <2> QED
    BY <1>1, <1>2, <2>1
<1>3. CASE held # NoRecord
  <2>1. Waiting = <<held>> \o ring
    BY <1>3 DEF Waiting
  <2> QED
    BY <1>1, <1>3, <2>1
<1> QED
  BY <1>2, <1>3

(* A step that moves no record of the queue and emits none leaves every    *)
(* stream as it was.                                                       *)
LEMMA SameStream ==
  ASSUME Waiting' = Waiting, emitted' = emitted
  PROVE  /\ \A e, n, x : Latest(e, n, x)' <=> Latest(e, n, x)
         /\ \A e : Contiguous(e)' <=> Contiguous(e)
<1>1. \A e, n, x : Latest(e, n, x)' <=> Latest(e, n, x)
  BY DEF Latest
<1> QED
  BY <1>1 DEF Contiguous

(* A push puts the record behind all others.                               *)
LEMMA PushedStream ==
  ASSUME TypeOK, PublishAccepted, current \in Engines
  PROVE  /\ Len(Waiting) \in Nat /\ Len(Waiting') = Len(Waiting) + 1
         /\ Waiting'[Len(Waiting) + 1] = NextRecord
         /\ \A i \in 1 .. Len(Waiting) : Waiting'[i] = Waiting[i]
<1>1. ring \in Seq(Records) /\ ring' = Append(ring, NextRecord) /\ held' = held
  BY DEF TypeOK, PublishAccepted, txVars
<1>2. NextRecord \in Records
  BY NextRecordType
<1>3. CASE held = NoRecord
  <2>1. Waiting = <<>> \o ring /\ Waiting' = <<>> \o ring'
    BY <1>1, <1>3 DEF Waiting
  <2> QED
    BY <1>1, <1>2, <2>1
<1>4. CASE held # NoRecord
  <2>1. held \in Records
    BY <1>4 DEF TypeOK
  <2>2. Waiting = <<held>> \o ring /\ Waiting' = <<held>> \o ring'
    BY <1>1, <1>4 DEF Waiting
  <2> QED
    BY <1>1, <1>2, <2>1, <2>2
<1> QED
  BY <1>3, <1>4

(* The engine that publishes is ready, so the record it built last is the   *)
(* one before the record it pushes.                                        *)
LEMMA PublishStep ==
  ASSUME StreamInvariant, PublishAccepted, OutputInvariant'
  PROVE  StreamInvariant'
<1>1. TypeOK /\ current \in Engines
  BY DEF StreamInvariant, OutputInvariant, CallHasEngine, PublishAccepted
<1>0. PICK n \in Nat : n = Len(Waiting)
  BY <1>1, PushedStream
<1>2. /\ n = Len(Waiting) /\ Len(Waiting') = n + 1 /\ Waiting'[n + 1] = NextRecord
      /\ \A i \in 1 .. n : Waiting'[i] = Waiting[i]
  BY <1>0, <1>1, PushedStream
<1>3. Waiting \in Seq(Records \cup {NoRecord}) /\ DOMAIN Waiting = 1 .. n
  BY <1>0, <1>1, WaitingPositions
<1>4. TypeOK'
  BY DEF OutputInvariant
<1>5. DOMAIN Waiting' = 1 .. n + 1
  BY <1>2, <1>4, WaitingPositions
<1>6. emitted' = emitted
  BY DEF PublishAccepted, txVars
<1>7. \A e, x : \A m \in 0 .. n : Latest(e, m, x)' <=> Latest(e, m, x)
  BY <1>2, <1>6 DEF Latest
<1>8. NextRecord.engine = current /\ NextRecord.number = Successor(built[current])
  BY DEF NextRecord
<1>9. built' = [built EXCEPT ![current] = Successor(@)] /\ ready' = ready
        /\ built \in [Engines -> Numbers] /\ built'[current] = Successor(built[current])
  BY <1>1 DEF PublishAccepted, TypeOK
<1>10. ASSUME NEW e \in RecordEngines
       PROVE  /\ Contiguous(e)'
              /\ (ready[e] => Latest(e, Len(Waiting), built[e]))'
  <2>1. Contiguous(e) /\ (ready[e] => Latest(e, n, built[e]))
    BY <1>0 DEF StreamInvariant, RecordStreamHasNoHole
  <2>2. e \in Engines
    BY DEF Engines
  <2>3. e = current => ready[e]
    BY DEF StreamInvariant, CallMayPublish, PublishAccepted
  <2>4. ASSUME NEW i \in 1 .. n + 1, Waiting'[i].engine = e
        PROVE  \E m \in Numbers : Latest(e, i - 1, m)' /\ Waiting'[i].number = Successor(m)
    <3>1. CASE i \in 1 .. n
      <4>1. PICK m \in Numbers : Latest(e, i - 1, m) /\ Waiting[i].number = Successor(m)
        BY <1>2, <1>3, <2>1, <2>4, <3>1 DEF Contiguous
      <4> QED
        BY <1>2, <1>7, <3>1, <4>1
    <3>2. CASE i = n + 1
      <4>1. e = current /\ Waiting'[i].number = Successor(built[e])
        BY <1>2, <1>8, <2>4, <3>2
      <4>2. PICK m \in Numbers : m = built[e]
        BY <1>9, <2>2
      <4>3. Latest(e, n, m)'
        BY <1>2, <1>7, <2>1, <2>3, <4>1, <4>2
      <4> QED
        BY <1>2, <3>2, <4>1, <4>2, <4>3
    <3> QED
      BY <1>2, <2>4, <3>1, <3>2
  <2>5. Contiguous(e)'
    BY <1>5, <2>4 DEF Contiguous
  <2>6. ASSUME ready'[e], NEW m, m = built'[e]
        PROVE  Latest(e, n + 1, m)'
    <3>1. CASE e = current
      <4>1. Waiting'[n + 1] = [engine |-> e, number |-> m]
        BY <1>2, <1>9, <2>6, <3>1 DEF NextRecord
      <4>2. n + 1 \in 1 .. n + 1 /\ \A k \in n + 1 + 1 .. n + 1 : FALSE
        BY <1>2
      <4> QED
        BY <4>1, <4>2 DEF Latest
    <3>2. CASE e # current
      <4>1. Latest(e, n, m)
        BY <1>9, <2>1, <2>2, <2>6, <3>2
      <4>2. Latest(e, n, m)'
        BY <1>2, <1>7, <4>1
      <4>3. \A j \in 1 .. n + 1 : j \in 1 .. n \/ j = n + 1
        BY <1>2
      <4>4. Waiting'[n + 1].engine # e
        BY <1>2, <1>8, <3>2
      <4>5. 1 .. n \subseteq 1 .. n + 1
        BY <1>2
      <4>6. \A j \in 1 .. n : \A k \in j + 1 .. n + 1 : k \in j + 1 .. n \/ k = n + 1
        BY <1>2
      <4> QED
        BY <4>2, <4>3, <4>4, <4>5, <4>6 DEF Latest
    <3> QED
      BY <3>1, <3>2
  <2>7. (ready[e] => Latest(e, Len(Waiting), built[e]))'
    BY <1>2, <2>6 DEF Latest
  <2> QED
    BY <2>5, <2>7
<1>11. CallMayPublish'
  BY DEF StreamInvariant, CallMayPublish, PublishAccepted, OutputInvariant, TypeOK
<1> QED
  BY <1>10, <1>11 DEF StreamInvariant, RecordStreamHasNoHole

(* A write that is taken moves the oldest record out of the queue and into *)
(* the emitted stream.                                                     *)
LEMMA EmittedStream ==
  ASSUME TypeOK, WriteTaken, held # NoRecord
  PROVE  \E n \in Nat :
           /\ n = Len(Waiting') /\ Len(Waiting) = n + 1 /\ Waiting[1] = held
           /\ DOMAIN Waiting = 1 .. n + 1 /\ DOMAIN Waiting' = 1 .. n
           /\ \A i \in 1 .. n : Waiting'[i] = Waiting[i + 1]
<1>1. held' = NoRecord /\ ring' = ring
  BY DEF WriteTaken
<1>2. Waiting' = ring
  <2>1. Waiting' = <<>> \o ring /\ ring \in Seq(Records)
    BY <1>1 DEF TypeOK, Waiting
  <2> QED
    BY <2>1
<1>3. PICK n \in Nat : n = Len(ring) /\ DOMAIN ring = 1 .. n
  BY DEF TypeOK
<1>4. /\ Waiting \in Seq(Records \cup {NoRecord}) /\ Len(Waiting) = n + 1 /\ Waiting[1] = held
      /\ \A i \in 1 .. n : Waiting[i + 1] = ring[i]
  BY <1>3, WaitingPositions
<1>5. DOMAIN Waiting = 1 .. n + 1
  BY <1>4
<1> QED
  BY <1>2, <1>3, <1>4, <1>5

LEMMA EmitStep ==
  ASSUME StreamInvariant, WriteTaken, OutputInvariant'
  PROVE  StreamInvariant'
<1>1. TypeOK /\ TypeOK' /\ held # NoRecord /\ held \in Records
  BY DEF StreamInvariant, OutputInvariant, HeldWhileWriting, WriteTaken, TypeOK
<1>2. PICK n \in Nat :
        /\ n = Len(Waiting') /\ Len(Waiting) = n + 1 /\ Waiting[1] = held
        /\ DOMAIN Waiting = 1 .. n + 1 /\ DOMAIN Waiting' = 1 .. n
        /\ \A i \in 1 .. n : Waiting'[i] = Waiting[i + 1]
  BY <1>1, EmittedStream
<1>4. emitted' = [emitted EXCEPT ![held.engine] = held.number] /\ emitted \in [Engines -> Numbers]
        /\ held.engine \in Engines /\ held = [engine |-> held.engine, number |-> held.number]
  BY <1>1 DEF WriteTaken, TypeOK, Records
<1>5. ASSUME NEW e \in RecordEngines, NEW m \in 0 .. n, NEW x, Latest(e, m + 1, x)
      PROVE  Latest(e, m, x)'
  <2>0. e \in Engines
    BY DEF Engines
  <2>1. CASE x = emitted[e] /\ \A k \in 1 .. m + 1 : Waiting[k].engine # e
    <3>1. held.engine # e
      BY <1>2, <2>1
    <3>2. emitted'[e] = x
      BY <1>4, <2>0, <2>1, <3>1
    <3>3. ASSUME NEW k \in 1 .. m
          PROVE  Waiting'[k].engine # e
      BY <1>2, <2>1
    <3> QED
      BY <3>2, <3>3 DEF Latest
  <2>2. ASSUME NEW j \in 1 .. m + 1, Waiting[j] = [engine |-> e, number |-> x],
               \A k \in j + 1 .. m + 1 : Waiting[k].engine # e
        PROVE  Latest(e, m, x)'
    <3>1. CASE j = 1
      <4>1. held.engine = e /\ held.number = x
        BY <1>2, <2>2, <3>1
      <4>2. emitted'[e] = x
        BY <1>4, <4>1
      <4>3. ASSUME NEW k \in 1 .. m
            PROVE  Waiting'[k].engine # e
        <5>1. k + 1 \in j + 1 .. m + 1 /\ k \in 1 .. n
          BY <3>1
        <5> QED
          BY <1>2, <2>2, <5>1
      <4> QED
        BY <4>2, <4>3 DEF Latest
    <3>2. CASE j # 1
      <4>1. j - 1 \in 1 .. m /\ j - 1 \in 1 .. n /\ (j - 1) + 1 = j
        BY <3>2
      <4>2. Waiting'[j - 1] = [engine |-> e, number |-> x]
        BY <1>2, <2>2, <4>1
      <4>3. ASSUME NEW k \in (j - 1) + 1 .. m
            PROVE  Waiting'[k].engine # e
        <5>1. k + 1 \in j + 1 .. m + 1 /\ k \in 1 .. n
          OBVIOUS
        <5> QED
          BY <1>2, <2>2, <5>1
      <4> QED
        BY <4>1, <4>2, <4>3 DEF Latest
    <3> QED
      BY <3>1, <3>2
  <2> QED
    BY <1>5, <2>1, <2>2 DEF Latest
<1>6. ASSUME NEW e \in RecordEngines
      PROVE  /\ Contiguous(e)'
             /\ (ready[e] => Latest(e, Len(Waiting), built[e]))'
  <2>1. Contiguous(e) /\ (ready[e] => Latest(e, Len(Waiting), built[e]))
    BY DEF StreamInvariant, RecordStreamHasNoHole
  <2>2. ASSUME NEW i \in 1 .. n, Waiting'[i].engine = e
        PROVE  \E m \in Numbers : Latest(e, i - 1, m)' /\ Waiting'[i].number = Successor(m)
    <3>1. i + 1 \in DOMAIN Waiting /\ Waiting'[i] = Waiting[i + 1] /\ (i + 1) - 1 = i
            /\ i - 1 \in 0 .. n /\ (i - 1) + 1 = i
      BY <1>2
    <3>2. PICK m \in Numbers : Latest(e, (i + 1) - 1, m) /\ Waiting[i + 1].number = Successor(m)
      BY <2>1, <2>2, <3>1 DEF Contiguous
    <3>3. Latest(e, (i - 1) + 1, m)
      BY <3>1, <3>2
    <3>4. Latest(e, i - 1, m)'
      BY <1>5, <3>1, <3>3
    <3> QED
      BY <3>1, <3>2, <3>4
  <2>3. Contiguous(e)'
    BY <1>2, <2>2 DEF Contiguous
  <2>4. ASSUME ready'[e], NEW m, m = built'[e]
        PROVE  Latest(e, n, m)'
    <3>1. ready' = ready /\ built' = built
      BY DEF WriteTaken, engineVars
    <3>2. Latest(e, n + 1, m) /\ n \in 0 .. n
      BY <1>2, <2>1, <2>4, <3>1
    <3> QED
      BY <1>5, <3>2
  <2>5. (ready[e] => Latest(e, Len(Waiting), built[e]))'
    BY <1>2, <2>4 DEF Latest
  <2> QED
    BY <2>3, <2>5
<1>7. CallMayPublish'
  BY DEF StreamInvariant, CallMayPublish, WriteTaken, engineVars, valVars
<1> QED
  BY <1>6, <1>7 DEF StreamInvariant, RecordStreamHasNoHole

(* A refused record leaves a hole only in the stream of an engine that is   *)
(* not ready any more.                                                     *)
LEMMA DropStep ==
  ASSUME StreamInvariant, PublishDropped, OutputInvariant'
  PROVE  StreamInvariant'
<1>1. TypeOK /\ current \in Engines
  BY DEF StreamInvariant, OutputInvariant, CallHasEngine, PublishDropped
<1>2. Waiting' = Waiting /\ emitted' = emitted
  BY DEF PublishDropped, txVars, Waiting
<1>3. ~ready'[current] /\ \A e \in Engines \ {current} : ready'[e] = ready[e] /\ built'[e] = built[e]
  BY <1>1 DEF PublishDropped, TypeOK
<1>4. ASSUME NEW e \in RecordEngines
      PROVE  /\ Contiguous(e)'
             /\ (ready[e] => Latest(e, Len(Waiting), built[e]))'
  <2>1. e \in Engines /\ Contiguous(e) /\ (ready[e] => Latest(e, Len(Waiting), built[e]))
    BY DEF StreamInvariant, RecordStreamHasNoHole, Engines
  <2>2. Contiguous(e)'
    BY <1>2, <2>1, SameStream
  <2>3. ready'[e] => ready[e] /\ built'[e] = built[e]
    BY <1>3, <2>1
  <2> QED
    BY <1>2, <2>1, <2>2, <2>3 DEF Latest
<1>5. CallMayPublish'
  BY EngineAssumption DEF StreamInvariant, CallMayPublish, PublishDropped
<1> QED
  BY <1>4, <1>5 DEF StreamInvariant, RecordStreamHasNoHole

(* Every other step leaves the streams alone: PopRecord moves a record from *)
(* the ring into the hands of AGG_TX.                                      *)
LEMMA QuietStep ==
  ASSUME StreamInvariant, OutputInvariant', CallMayPublish',
         Waiting' = Waiting, UNCHANGED <<engineVars, emitted>>
  PROVE  StreamInvariant'
<1>1. ASSUME NEW e \in RecordEngines
      PROVE  /\ Contiguous(e)'
             /\ (ready[e] => Latest(e, Len(Waiting), built[e]))'
  <2>1. Contiguous(e) /\ (ready[e] => Latest(e, Len(Waiting), built[e]))
    BY DEF StreamInvariant, RecordStreamHasNoHole
  <2>2. Contiguous(e)'
    BY <2>1, SameStream
  <2> QED
    BY <2>1, <2>2 DEF Latest, engineVars
<1> QED
  BY <1>1 DEF StreamInvariant, RecordStreamHasNoHole

LEMMA StreamStep == StreamInvariant /\ [Next]_vars => StreamInvariant'
<1> SUFFICES ASSUME StreamInvariant, [Next]_vars PROVE StreamInvariant'
  OBVIOUS
<1>1. OutputInvariant /\ CallMayPublish
  BY DEF StreamInvariant
<1>2. OutputInvariant'
  BY <1>1, ValidatorStep, OutputStep, EnvironmentStep DEF Next
<1>3. TypeOK /\ TypeOK' /\ HeldWhileWriting
  BY <1>1, <1>2 DEF OutputInvariant
<1>4. ASSUME NEW e \in Engines, NEW later \in FollowingFamilies(e), BeginProcess(e, later)
      PROVE  StreamInvariant'
  <2>1. CallMayPublish'
    BY <1>4, EngineAssumption DEF BeginProcess, FollowingFamilies, CallMayPublish, engineVars
  <2>2. Waiting' = Waiting /\ UNCHANGED <<engineVars, emitted>>
    BY <1>4 DEF BeginProcess, Waiting, txVars
  <2> QED
    BY <1>2, <2>1, <2>2, QuietStep
<1>5. CASE NotifyOutput \/ NextFamily \/ EndProcess
  <2>1. CallMayPublish'
    BY <1>1, <1>5 DEF NotifyOutput, NextFamily, EndProcess, CallMayPublish, engineVars
  <2>2. Waiting' = Waiting /\ UNCHANGED <<engineVars, emitted>>
    BY <1>5 DEF NotifyOutput, NextFamily, EndProcess, Waiting, txVars
  <2> QED
    BY <1>2, <2>1, <2>2, QuietStep
<1>6. CASE PopRecord
  <2>1. Waiting' = Waiting
    <3>1. held = NoRecord /\ ring # <<>> /\ ring \in Seq(Records)
            /\ held' = Head(ring) /\ ring' = Tail(ring)
      BY <1>3, <1>6 DEF PopRecord, HeldWhileWriting, TypeOK
    <3>2. Head(ring) # NoRecord
      BY <3>1, RecordsAreReal
    <3>3. Waiting = <<>> \o ring /\ Waiting' = <<Head(ring)>> \o Tail(ring)
      BY <3>1, <3>2 DEF Waiting
    <3>4. <<Head(ring)>> \o Tail(ring) = ring /\ <<>> \o ring = ring
      BY <3>1
    <3> QED
      BY <3>3, <3>4
  <2>2. CallMayPublish'
    BY <1>1, <1>6 DEF PopRecord, CallMayPublish, engineVars, valVars
  <2>3. UNCHANGED <<engineVars, emitted>>
    BY <1>6 DEF PopRecord
  <2> QED
    BY <1>2, <2>1, <2>2, <2>3, QuietStep
<1>7. CASE FindRingEmpty \/ TakeNotification \/ WriteWouldBlock \/ WriteFault \/ Tick
             \/ TransportChanges \/ UNCHANGED vars
  <2>1. CallMayPublish'
    BY <1>1, <1>7 DEF FindRingEmpty, TakeNotification, WriteWouldBlock, WriteFault, Tick,
                      TransportChanges, vars, CallMayPublish, engineVars, valVars
  <2>2. Waiting' = Waiting /\ UNCHANGED <<engineVars, emitted>>
    BY <1>7 DEF FindRingEmpty, TakeNotification, WriteWouldBlock, WriteFault, Tick,
                TransportChanges, vars, Waiting, engineVars, valVars, txVars
  <2> QED
    BY <1>2, <2>1, <2>2, QuietStep
<1> QED
  BY <1>2, <1>4, <1>5, <1>6, <1>7, PublishStep, DropStep, EmitStep DEF Next, Validator, Output

LEMMA InitialStreams == Init => StreamInvariant
<1> SUFFICES ASSUME Init PROVE StreamInvariant
  OBVIOUS
<1>1. Waiting = <<>>
  BY DEF Init, Waiting
<1>2. built = emitted
  BY DEF Init
<1>3. CallMayPublish
  BY DEF Init, CallMayPublish
<1>4. ASSUME NEW e PROVE Contiguous(e) /\ Latest(e, Len(Waiting), built[e])
  BY <1>1, <1>2 DEF Contiguous, Latest
<1> QED
  BY <1>3, <1>4, InitialOutput DEF StreamInvariant, RecordStreamHasNoHole

-----------------------------------------------------------------------------
(* The theorems.                                                           *)

(* Whatever the engines publish and the transport answers, the invariant   *)
(* holds.                                                                  *)
THEOREM OutputInvariantHolds == Spec => []OutputInvariant
<1>1. OutputInvariant /\ [Next]_vars => OutputInvariant'
  BY ValidatorStep, OutputStep, EnvironmentStep DEF Next
<1> QED
  BY InitialOutput, <1>1, PTL DEF Spec

(* Every variable of the output half keeps its type, so the ring never     *)
(* exceeds its capacity.                                                   *)
THEOREM OutputTypeCorrect == Spec => []TypeOK
<1>1. OutputInvariant => TypeOK
  BY DEF OutputInvariant
<1> QED
  BY <1>1, OutputInvariantHolds, PTL

(* AggregationOutputService::run never sleeps on a record whose push has   *)
(* been notified.                                                          *)
THEOREM OutputWakeupNotLost == Spec => []NoLostOutputWakeup
<1>1. OutputInvariant => NoLostOutputWakeup
  BY DEF OutputInvariant
<1> QED
  BY <1>1, OutputInvariantHolds, PTL

(* A reported transport fault stays in health while it holds a record.     *)
THEOREM FaultStaysVisible == Spec => []FaultVisibleWhileHeld
<1>1. OutputInvariant => FaultVisibleWhileHeld
  BY DEF OutputInvariant
<1> QED
  BY <1>1, OutputInvariantHolds, PTL

(* The records of an engine that asks ready_ before every record reach the *)
(* transport in the order and with the numbers they were built with; the    *)
(* one a full ring refused was the last.                                    *)
THEOREM NoHoleInRecordStream == Spec => []RecordStreamHasNoHole
<1>1. StreamInvariant => RecordStreamHasNoHole
  BY DEF StreamInvariant
<1> QED
  BY <1>1, InitialStreams, StreamStep, PTL DEF Spec

=============================================================================
