----------------------- MODULE AggregationRuntimeProofs -----------------------
(***************************************************************************)
(* Proofs about AggregationRuntime.  The argument: what exists of the      *)
(* workers follows from how far start() has come (WorkersAccounted); until *)
(* start() has finished nothing has run (NothingBeforeStart); and how far  *)
(* AGG_RX has come says what the other two and the health flags may have   *)
(* done (ReceiverLeads).                                                   *)
(***************************************************************************)
EXTENDS AggregationRuntime, TLAPS

Places == {"absent", "start", "output", "release", "running", "suspended"}

RuntimeTypes ==
  /\ emit \in BOOLEAN /\ bootstrap \in BOOLEAN
  /\ created \in {Idle, 0, 1, 2, 3}
  /\ started \in BOOLEAN
  /\ handle \in [Workers -> BOOLEAN]
  /\ tasks \in [Workers -> {0, 1}]
  /\ at \in [Workers -> Places]
  /\ notified \in [Workers -> BOOLEAN]
  /\ initialized \in BOOLEAN /\ queued \in BOOLEAN
  /\ health \in [HealthFlags -> BOOLEAN]

(* The workers start() has made: during a call the first ones of its order. *)
Exists(w) ==
  \/ started
  \/ w = "AGG_RX" /\ created >= 1
  \/ w = "AGG_TX" /\ created >= 2
  \/ w = "AGG_VAL" /\ created >= 3

WorkersAccounted ==
  /\ Starting => ~started
  /\ \A w \in Workers :
       IF Exists(w) THEN tasks[w] = 1 /\ handle[w] /\ at[w] # "absent"
                    ELSE tasks[w] = 0 /\ ~handle[w] /\ at[w] = "absent"

NothingBeforeStart ==
  ~started => \A w \in Workers : at[w] \in {"absent", "start"} /\ ~notified[w]

NoFlag == \A f \in HealthFlags : ~health[f]

(* AGG_TX and AGG_VAL stand where they were made until AGG_RX runs, and a   *)
(* flag needs what AGG_RX has initialised by then.                         *)
ReceiverLeads ==
  /\ at["AGG_RX"] \in {"absent", "start", "suspended"} => ~initialized /\ NoFlag
  /\ at["AGG_RX"] \in {"release", "running"} => initialized
  /\ ~initialized => NoFlag
  /\ at["AGG_RX"] # "running" =>
       /\ ~queued
       /\ \A w \in {"AGG_TX", "AGG_VAL"} : at[w] \in {"absent", "start"} /\ ~notified[w]
  /\ health["output_active"] => at["AGG_TX"] = "running"
  /\ health["authoritative"] => emit

RuntimeInvariant ==
  RuntimeTypes /\ WorkersAccounted /\ NothingBeforeStart /\ ReceiverLeads
--------------------------------------------------------------------------------
(* What the invariant speaks of; RPMsg is not part of it.                   *)
pipeline == <<emit, bootstrap, startVars, at, notified, serviceVars, health>>

LEMMA PipelineUntouched == RuntimeInvariant /\ UNCHANGED pipeline => RuntimeInvariant'
BY DEF pipeline, startVars, serviceVars, RuntimeInvariant, RuntimeTypes, WorkersAccounted, Exists,
       Starting, NothingBeforeStart, ReceiverLeads, NoFlag

(* When the program starts nothing exists and nothing is ready.             *)
LEMMA NothingAtFirst == Init => RuntimeInvariant
<1> SUFFICES ASSUME Init PROVE RuntimeInvariant
  OBVIOUS
<1> USE DEF Init, Idle
<1>1. RuntimeTypes
  BY DEF RuntimeTypes, Places
<1>2. WorkersAccounted
  BY DEF WorkersAccounted, Starting, Exists
<1>3. NothingBeforeStart
  BY DEF NothingBeforeStart
<1>4. ReceiverLeads
  BY DEF ReceiverLeads, NoFlag, Workers, HealthFlags
<1> QED
  BY <1>1, <1>2, <1>3, <1>4 DEF RuntimeInvariant

(* start(): a call begins only when no worker exists.                       *)
LEMMA BeginStartSound == RuntimeInvariant /\ BeginStart => RuntimeInvariant'
<1> SUFFICES ASSUME RuntimeInvariant, BeginStart PROVE RuntimeInvariant'
  OBVIOUS
<1> USE DEF RuntimeInvariant, BeginStart, callerVars, serviceVars
<1>1. RuntimeTypes'
  BY DEF RuntimeTypes
<1>2. WorkersAccounted'
  BY DEF WorkersAccounted, Starting, Exists, Idle
<1>3. NothingBeforeStart' /\ ReceiverLeads'
  BY DEF NothingBeforeStart, ReceiverLeads, NoFlag
<1> QED
  BY <1>1, <1>2, <1>3

(* A task is made for a worker that has none, and waits un-notified.        *)
LEMMA CreateWorkerSound == RuntimeInvariant /\ CreateWorker => RuntimeInvariant'
<1> SUFFICES ASSUME RuntimeInvariant, CreateWorker PROVE RuntimeInvariant'
  OBVIOUS
<1> USE DEF RuntimeInvariant, RuntimeTypes, CreateWorker, CreationOrder, callerVars, serviceVars,
            Workers, Idle
<1>1. RuntimeTypes'
  BY DEF WorkersAccounted, Exists, Starting, Places
<1>2. WorkersAccounted'
  BY DEF WorkersAccounted, Exists, Starting
<1>3. NothingBeforeStart'
  BY DEF NothingBeforeStart
<1>4. ReceiverLeads'
  BY DEF ReceiverLeads, NothingBeforeStart, WorkersAccounted, Starting, NoFlag
<1> QED
  BY <1>1, <1>2, <1>3, <1>4

(* The tasks that are discarded are those that exist, each once.            *)
LEMMA CreationFailsSound == RuntimeInvariant /\ CreationFails => RuntimeInvariant'
<1> SUFFICES ASSUME RuntimeInvariant, CreationFails PROVE RuntimeInvariant'
  OBVIOUS
<1> USE DEF RuntimeInvariant, CreationFails, EndStart, serviceVars
<1>1. \A w \in Workers : tasks'[w] = 0 /\ ~handle'[w] /\ at'[w] = "absent"
  BY DEF WorkersAccounted, Discarded, RuntimeTypes
<1>2. RuntimeTypes'
  <2>1. tasks' \in [Workers -> {0, 1}] /\ handle' \in [Workers -> BOOLEAN]
    <3>1. DOMAIN tasks' = Workers /\ tasks' = [w \in Workers |-> tasks'[w]]
      OBVIOUS
    <3>2. handle' \in [Workers -> BOOLEAN]
      OBVIOUS
    <3> QED
      BY <1>1, <3>1, <3>2
  <2>2. at' \in [Workers -> Places]
    BY DEF RuntimeTypes, Places
  <2>3. health' \in [HealthFlags -> BOOLEAN]
    BY DEF Clear
  <2> QED
    BY <2>1, <2>2, <2>3 DEF RuntimeTypes
<1>3. ~started' /\ created' = Idle
  BY DEF WorkersAccounted
<1>4. WorkersAccounted'
  BY <1>1, <1>3 DEF WorkersAccounted, Exists, Starting, Idle
<1>5. NothingBeforeStart'
  BY <1>1, <1>3 DEF NothingBeforeStart
<1>6. ReceiverLeads'
  BY <1>1 DEF ReceiverLeads, NothingBeforeStart, WorkersAccounted, NoFlag, Clear, Workers, HealthFlags
<1> QED
  BY <1>2, <1>4, <1>5, <1>6

(* The third creation ends the call; AGG_RX alone is notified.              *)
LEMMA FinishStartSound == RuntimeInvariant /\ FinishStart => RuntimeInvariant'
<1> SUFFICES ASSUME RuntimeInvariant, FinishStart PROVE RuntimeInvariant'
  OBVIOUS
<1> USE DEF RuntimeInvariant, FinishStart, EndStart, serviceVars
<1>1. RuntimeTypes'
  BY DEF RuntimeTypes, Workers
<1>2. WorkersAccounted'
  BY DEF WorkersAccounted, Exists, Starting, Workers, CreationOrder, Idle
<1>3. NothingBeforeStart'
  BY DEF NothingBeforeStart
<1>4. ReceiverLeads'
  BY DEF ReceiverLeads, NoFlag, RuntimeTypes
<1> QED
  BY <1>1, <1>2, <1>3, <1>4

(* AGG_RX brings the services up, or no flag is left.                      *)
LEMMA InitializeSound ==
  ASSUME NEW works \in BOOLEAN, RuntimeInvariant, Initialize(works)
  PROVE  RuntimeInvariant'
<1> USE DEF RuntimeInvariant, Initialize, callerVars, startVars, serviceVars
<1>1. RuntimeTypes'
  BY DEF RuntimeTypes, Workers, Places, Raise, Clear
<1>2. WorkersAccounted'
  BY DEF WorkersAccounted, Exists, Starting, RuntimeTypes
<1>3. NothingBeforeStart'
  BY DEF NothingBeforeStart, RuntimeTypes
<1>4. ReceiverLeads'
  BY DEF ReceiverLeads, RuntimeTypes, Workers, HealthFlags, NoFlag, Raise, Clear
<1> QED
  BY <1>1, <1>2, <1>3, <1>4

(* A transport that is down suspends AGG_RX and leaves the output unready. *)
LEMMA InitializeOutputSound ==
  ASSUME RuntimeInvariant, InitializeOutput
  PROVE  RuntimeInvariant'
<1> USE DEF RuntimeInvariant, InitializeOutput, callerVars, startVars, serviceVars
<1>1. RuntimeTypes'
  BY DEF RuntimeTypes, Workers, Places, HealthFlags, OutputAvailable
<1>2. WorkersAccounted'
  BY DEF WorkersAccounted, Exists, Starting, RuntimeTypes
<1>3. NothingBeforeStart'
  BY DEF NothingBeforeStart, RuntimeTypes
<1>4. ReceiverLeads'
  BY DEF ReceiverLeads, RuntimeTypes, Workers, HealthFlags, NoFlag, OutputAvailable
<1> QED
  BY <1>1, <1>2, <1>3, <1>4

(* AGG_TX is notified in the step in which AGG_RX comes to run.            *)
LEMMA ReleaseOutputSound ==
  ASSUME RuntimeInvariant, ReleaseOutput
  PROVE  RuntimeInvariant'
<1> USE DEF RuntimeInvariant, ReleaseOutput, callerVars, startVars, serviceVars
<1>1. RuntimeTypes'
  BY DEF RuntimeTypes, Workers, Places
<1>2. WorkersAccounted'
  BY DEF WorkersAccounted, Exists, Starting, RuntimeTypes
<1>3. NothingBeforeStart'
  BY DEF NothingBeforeStart, RuntimeTypes, Workers
<1>4. ReceiverLeads'
  BY DEF ReceiverLeads, RuntimeTypes, Workers
<1> QED
  BY <1>1, <1>2, <1>3, <1>4

(* AGG_VAL is notified by a running AGG_RX.                                *)
LEMMA NotifyValidatorSound ==
  ASSUME RuntimeInvariant, NotifyValidator
  PROVE  RuntimeInvariant'
<1> USE DEF RuntimeInvariant, NotifyValidator, callerVars, startVars, serviceVars
<1>1. RuntimeTypes'
  BY DEF RuntimeTypes, Workers
<1>2. WorkersAccounted'
  BY DEF WorkersAccounted, Exists, Starting, RuntimeTypes
<1>3. NothingBeforeStart'
  BY DEF NothingBeforeStart, RuntimeTypes, Workers
<1>4. ReceiverLeads'
  BY DEF ReceiverLeads, RuntimeTypes, Workers
<1> QED
  BY <1>1, <1>2, <1>3, <1>4

(* AGG_TX was notified, so AGG_RX runs.                                    *)
LEMMA BeginOutputSound ==
  ASSUME RuntimeInvariant, BeginOutput
  PROVE  RuntimeInvariant'
<1> USE DEF RuntimeInvariant, BeginOutput, callerVars, startVars, serviceVars
<1>1. RuntimeTypes'
  BY DEF RuntimeTypes, Workers, Places
<1>2. WorkersAccounted'
  BY DEF WorkersAccounted, Exists, Starting, RuntimeTypes
<1>3. NothingBeforeStart'
  BY DEF NothingBeforeStart, RuntimeTypes
<1>4. ReceiverLeads'
  BY DEF ReceiverLeads, RuntimeTypes, Workers, NoFlag
<1> QED
  BY <1>1, <1>2, <1>3, <1>4

(* A record is queued, so AGG_RX runs and the transport is up.             *)
LEMMA WriteRecordSound ==
  ASSUME NEW written \in BOOLEAN, RuntimeInvariant, WriteRecord(written)
  PROVE  RuntimeInvariant'
<1> USE DEF RuntimeInvariant, WriteRecord, callerVars, startVars, serviceVars
<1>1. RuntimeTypes'
  BY DEF RuntimeTypes, HealthFlags, Raise, Clear
<1>2. WorkersAccounted'
  BY DEF WorkersAccounted, Exists, Starting, RuntimeTypes
<1>3. NothingBeforeStart'
  BY DEF NothingBeforeStart, RuntimeTypes
<1>4. ReceiverLeads'
  BY DEF ReceiverLeads, RuntimeTypes, Workers, HealthFlags, NoFlag, Raise, Clear
<1> QED
  BY <1>1, <1>2, <1>3, <1>4

(* AGG_VAL was notified, so AGG_RX runs.                                   *)
LEMMA BeginValidatorSound ==
  ASSUME RuntimeInvariant, BeginValidator
  PROVE  RuntimeInvariant'
<1> USE DEF RuntimeInvariant, BeginValidator, callerVars, startVars, serviceVars
<1>1. RuntimeTypes'
  BY DEF RuntimeTypes, Workers, Places
<1>2. WorkersAccounted'
  BY DEF WorkersAccounted, Exists, Starting, RuntimeTypes, MayRunVal
<1>3. NothingBeforeStart'
  BY DEF NothingBeforeStart, RuntimeTypes
<1>4. ReceiverLeads'
  BY DEF ReceiverLeads, RuntimeTypes, Workers, NoFlag
<1> QED
  BY <1>1, <1>2, <1>3, <1>4

(* AGG_VAL runs, so AGG_RX does.                                           *)
LEMMA QueueRecordSound ==
  ASSUME RuntimeInvariant, QueueRecord
  PROVE  RuntimeInvariant'
<1> USE DEF RuntimeInvariant, QueueRecord, callerVars, startVars, serviceVars
<1>1. RuntimeTypes'
  BY DEF RuntimeTypes
<1>2. WorkersAccounted'
  BY DEF WorkersAccounted, Exists, Starting, RuntimeTypes
<1>3. NothingBeforeStart'
  BY DEF NothingBeforeStart, RuntimeTypes
<1>4. ReceiverLeads'
  BY DEF ReceiverLeads, RuntimeTypes, NoFlag
<1> QED
  BY <1>1, <1>2, <1>3, <1>4

(* An engine that fails takes a flag away.                                 *)
LEMMA EngineFailsSound ==
  ASSUME RuntimeInvariant, EngineFails
  PROVE  RuntimeInvariant'
<1> USE DEF RuntimeInvariant, EngineFails, callerVars, startVars, serviceVars
<1>1. RuntimeTypes'
  BY DEF RuntimeTypes, Clear
<1>2. WorkersAccounted'
  BY DEF WorkersAccounted, Exists, Starting, RuntimeTypes
<1>3. NothingBeforeStart'
  BY DEF NothingBeforeStart, RuntimeTypes
<1>4. ReceiverLeads'
  BY DEF ReceiverLeads, RuntimeTypes, HealthFlags, NoFlag, Clear
<1> QED
  BY <1>1, <1>2, <1>3, <1>4

--------------------------------------------------------------------------------
LEMMA RuntimeSound == Spec => []RuntimeInvariant
<1>1. RuntimeInvariant /\ [Next]_vars => RuntimeInvariant'
  <2> SUFFICES ASSUME RuntimeInvariant, [Next]_vars PROVE RuntimeInvariant'
    OBVIOUS
  <2>1. CASE BeginStart
    BY <2>1, BeginStartSound
  <2>2. CASE StartStep
    BY <2>2, CreateWorkerSound, CreationFailsSound, FinishStartSound DEF StartStep
  <2>3. CASE PlatformUp \/ RpmsgFails
    BY <2>3, PipelineUntouched DEF PlatformUp, RpmsgFails, pipeline
  <2>4. CASE RxStarts
    BY <2>4, InitializeSound, InitializeOutputSound, ReleaseOutputSound DEF RxStarts
  <2>5. CASE NotifyValidator
    BY <2>5, NotifyValidatorSound
  <2>6. CASE BeginOutput
    BY <2>6, BeginOutputSound
  <2>7. ASSUME NEW written \in BOOLEAN, WriteRecord(written) PROVE RuntimeInvariant'
    BY <2>7, WriteRecordSound
  <2>8. CASE BeginValidator
    BY <2>8, BeginValidatorSound
  <2>9. CASE QueueRecord
    BY <2>9, QueueRecordSound
  <2>10. CASE EngineFails
    BY <2>10, EngineFailsSound
  <2>11. CASE UNCHANGED vars
    BY <2>11, PipelineUntouched DEF vars, callerVars, pipeline
  <2> QED
    BY <2>1, <2>2, <2>3, <2>4, <2>5, <2>6, <2>7, <2>8, <2>9, <2>10, <2>11 DEF Next
<1> QED
  BY <1>1, NothingAtFirst, PTL DEF Spec

(* Outside start() the three tasks exist once each, or not at all, and the  *)
(* handles agree, whatever creation failed and however often Linux returns. *)
THEOREM AllOrNothingHolds == Spec => []AllOrNothing
<1>1. ASSUME RuntimeInvariant, ~Starting, NEW w \in Workers
      PROVE  tasks[w] = (IF started THEN 1 ELSE 0) /\ handle[w] = started
  <2>1. Exists(w) <=> started
    BY <1>1 DEF Exists, Starting, Idle
  <2> QED
    BY <1>1, <2>1 DEF RuntimeInvariant, RuntimeTypes, WorkersAccounted
<1>2. RuntimeInvariant => AllOrNothing
  BY <1>1 DEF AllOrNothing
<1> QED
  BY <1>2, RuntimeSound, PTL

(* AGG_TX and AGG_VAL work, and a record is queued, only when AGG_RX has    *)
(* brought the services up and runs itself.                                *)
THEOREM NoWorkBeforeInitialisationHolds == Spec => []NoWorkBeforeInitialisation
<1>1. RuntimeInvariant => NoWorkBeforeInitialisation
  BY DEF RuntimeInvariant, ReceiverLeads, NoWorkBeforeInitialisation
<1> QED
  BY <1>1, RuntimeSound, PTL

(* No flag Linux reads outlives or precedes what backs it.                  *)
THEOREM HealthIsBackedAlways == Spec => []HealthIsBacked
<1>1. RuntimeInvariant => HealthIsBacked
  BY DEF RuntimeInvariant, NothingBeforeStart, ReceiverLeads, NoFlag, HealthIsBacked, Workers
<1> QED
  BY <1>1, RuntimeSound, PTL
================================================================================
