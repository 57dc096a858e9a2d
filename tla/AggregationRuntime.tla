--------------------------- MODULE AggregationRuntime ---------------------------
(***************************************************************************)
(* The start of the R5C1 pipeline: AggregationRuntime::start is called by  *)
(* the one-shot bootstrap task and again whenever RPMsg has an endpoint;   *)
(* it creates AGG_RX, AGG_TX and AGG_VAL, all or none.  AGG_RX initialises *)
(* the services and then releases AGG_TX; AGG_VAL waits for its first      *)
(* frame.  Both callers outrank the workers, so no worker runs inside      *)
(* start().  What the workers do afterwards is in AggregationInput and     *)
(* AggregationOutput; here they only run, block and report health.         *)
(***************************************************************************)
EXTENDS Integers, Sequences

Workers == {"AGG_RX", "AGG_TX", "AGG_VAL"}

(* The order of the calls of xTaskCreate in start().                       *)
CreationOrder == <<"AGG_RX", "AGG_TX", "AGG_VAL">>

HealthFlags == {"transport_initialized", "engine_ready", "output_ready",
                "output_active", "authoritative"}

VARIABLES
  emit,         \* the build returns meter records to the PL (production does)
  bootstrap,    \* the bootstrap task exists
  rpmsg,        \* the RPMsg task: initialising, waiting for Linux, spinning
  created,      \* creations that worked in the running call of start(), or Idle
  started,      \* started_
  handle,       \* the task handle is not null
  tasks,        \* tasks of each kind that exist
  at,           \* where the newest task of each kind stands
  notified,     \* its notification value is not zero
  initialized,  \* the transport of initialize() came up
  queued,       \* the record ring holds a record
  health        \* the flags of AggregationHealth

Idle == -1

callerVars == <<emit, bootstrap, rpmsg>>
startVars == <<created, started, handle, tasks>>
serviceVars == <<initialized, queued>>
vars == <<callerVars, startVars, at, notified, serviceVars, health>>

(* The bootstrap task may be missing: its creation is allowed to fail.      *)
Init ==
  /\ emit \in BOOLEAN
  /\ bootstrap \in BOOLEAN
  /\ rpmsg = "initialising"
  /\ created = Idle
  /\ started = FALSE
  /\ handle = [w \in Workers |-> FALSE]
  /\ tasks = [w \in Workers |-> 0]
  /\ at = [w \in Workers |-> "absent"]
  /\ notified = [w \in Workers |-> FALSE]
  /\ initialized = FALSE
  /\ queued = FALSE
  /\ health = [f \in HealthFlags |-> FALSE]

Raise(flags) == [f \in HealthFlags |-> f \in flags \/ health[f]]
Clear(flags) == [f \in HealthFlags |-> f \notin flags /\ health[f]]

--------------------------------------------------------------------------------
(* AggregationRuntime::start.  The bootstrap task calls it at priority 5     *)
(* before anything else runs and then deletes itself; RPMsg (priority 4)    *)
(* calls it from on_endpoint_ready, at every new endpoint.  A call that     *)
(* finds the pipeline started returns at once.                             *)
Starting == created # Idle

BeginStart ==
  /\ ~Starting
  /\ bootstrap \/ rpmsg = "waiting"
  /\ ~started
  /\ created' = 0
  /\ UNCHANGED <<callerVars, started, handle, tasks, at, notified, serviceVars, health>>

CreateWorker ==
  /\ Starting /\ created < Len(CreationOrder)
  /\ LET w == CreationOrder[created + 1]
     IN /\ tasks' = [tasks EXCEPT ![w] = @ + 1]
        /\ handle' = [handle EXCEPT ![w] = TRUE]
        /\ at' = [at EXCEPT ![w] = "start"]
        /\ notified' = [notified EXCEPT ![w] = FALSE]
  /\ created' = created + 1
  /\ UNCHANGED <<callerVars, started, serviceVars, health>>

(* The bootstrap task ends with its call.                                   *)
EndStart == created' = Idle /\ bootstrap' = FALSE

(* The heap is exhausted: discard_partial_start deletes every task that has *)
(* a handle.                                                               *)
DiscardedWithoutOutput == {w \in Workers \ {"AGG_TX"} : handle[w]}
Discarded == {w \in Workers : handle[w]}

CreationFails ==
  /\ Starting /\ created < Len(CreationOrder)
  /\ tasks' = [w \in Workers |-> IF w \in Discarded THEN tasks[w] - 1 ELSE tasks[w]]
  /\ handle' = [w \in Workers |-> handle[w] /\ w \notin Discarded]
  /\ at' = [w \in Workers |-> IF w \in Discarded THEN "absent" ELSE at[w]]
  /\ health' = Clear(HealthFlags)
  /\ EndStart
  /\ UNCHANGED <<emit, rpmsg, started, notified, serviceVars>>

(* All three tasks exist; AGG_RX is released.                               *)
FinishStartReleasingAll ==
  /\ created = Len(CreationOrder)
  /\ started' = TRUE
  /\ notified' = [w \in Workers |-> TRUE]
  /\ EndStart
  /\ UNCHANGED <<emit, rpmsg, handle, tasks, at, serviceVars, health>>
FinishStart ==
  /\ created = Len(CreationOrder)
  /\ started' = TRUE
  /\ notified' = [notified EXCEPT !["AGG_RX"] = TRUE]
  /\ EndStart
  /\ UNCHANGED <<emit, rpmsg, handle, tasks, at, serviceVars, health>>

(* ControlService::run: the platform comes up and the task waits for Linux. *)
(* If it does not, or the RPMsg device cannot be created (again, after a    *)
(* reset), the task spins for good.                                        *)
PlatformUp ==
  /\ ~bootstrap /\ ~Starting
  /\ rpmsg = "initialising"
  /\ rpmsg' = "waiting"
  /\ UNCHANGED <<emit, bootstrap, startVars, at, notified, serviceVars, health>>

RpmsgFails ==
  /\ ~bootstrap /\ ~Starting
  /\ rpmsg # "spinning"
  /\ rpmsg' = "spinning"
  /\ UNCHANGED <<emit, bootstrap, startVars, at, notified, serviceVars, health>>

--------------------------------------------------------------------------------
(* A worker has the processor when every task above it is blocked.          *)
CallersBlocked == ~bootstrap /\ ~Starting /\ rpmsg = "waiting"
RxBlocked == \/ at["AGG_RX"] \in {"running", "suspended"}
             \/ at["AGG_RX"] = "start" /\ ~notified["AGG_RX"]
TxBlocked == at["AGG_TX"] = "running" \/ ~notified["AGG_TX"]

MayRunRx == CallersBlocked /\ at["AGG_RX"] # "absent"
MayRunTx == CallersBlocked /\ at["AGG_TX"] # "absent" /\ RxBlocked
MayRunVal == CallersBlocked /\ at["AGG_VAL"] # "absent" /\ RxBlocked /\ TxBlocked

(* AGG_RX: AggregationShadowService::initialize.  Of its parts only the     *)
(* transport can fail; the engine raises its flags when it is ready.        *)
Initialize(works) ==
  /\ MayRunRx
  /\ at["AGG_RX"] = "start" /\ notified["AGG_RX"]
  /\ notified' = [notified EXCEPT !["AGG_RX"] = FALSE]
  /\ initialized' = works
  /\ health' = IF works
       THEN Raise({"transport_initialized", "engine_ready"} \cup
                  {f \in {"authoritative"} : emit})
       ELSE Clear({"transport_initialized", "engine_ready", "authoritative"})
  /\ at' = [at EXCEPT !["AGG_RX"] = "output"]
  /\ UNCHANGED <<callerVars, startVars, queued>>

(* A transport that did not come up has no output.                          *)
OutputPresent == TRUE
OutputAvailable == initialized

(* AggregationOutputService::initialize, called either way; then AGG_RX     *)
(* suspends itself for good if the transport failed.                       *)
InitializeOutput ==
  /\ MayRunRx
  /\ at["AGG_RX"] = "output"
  /\ health' = [health EXCEPT !["output_ready"] = OutputAvailable, !["output_active"] = FALSE]
  /\ at' = [at EXCEPT !["AGG_RX"] = IF initialized THEN "release" ELSE "suspended"]
  /\ UNCHANGED <<callerVars, startVars, notified, serviceVars>>

ReleaseOutputWithoutNotice ==
  /\ MayRunRx
  /\ at["AGG_RX"] = "release"
  /\ at' = [at EXCEPT !["AGG_RX"] = "running"]
  /\ UNCHANGED <<callerVars, startVars, notified, serviceVars, health>>
ReleaseOutput ==
  /\ MayRunRx
  /\ at["AGG_RX"] = "release"
  /\ notified' = [notified EXCEPT !["AGG_TX"] = TRUE]
  /\ at' = [at EXCEPT !["AGG_RX"] = "running"]
  /\ UNCHANGED <<callerVars, startVars, serviceVars, health>>

NotifyValidator ==
  /\ MayRunRx
  /\ at["AGG_RX"] = "running"
  /\ notified' = [notified EXCEPT !["AGG_VAL"] = TRUE]
  /\ UNCHANGED <<callerVars, startVars, at, serviceVars, health>>

(* AGG_TX waits to be released, then serves the record ring.                *)
BeginOutput ==
  /\ MayRunTx
  /\ at["AGG_TX"] = "start" /\ notified["AGG_TX"]
  /\ notified' = [notified EXCEPT !["AGG_TX"] = FALSE]
  /\ at' = [at EXCEPT !["AGG_TX"] = "running"]
  /\ UNCHANGED <<callerVars, startVars, serviceVars, health>>

WriteRecord(written) ==
  /\ MayRunTx
  /\ at["AGG_TX"] = "running"
  /\ queued
  /\ queued' \in (IF written THEN BOOLEAN ELSE {TRUE})
  /\ health' = IF written THEN Raise({"output_ready", "output_active"})
                          ELSE Clear({"output_ready", "output_active"})
  /\ UNCHANGED <<callerVars, startVars, at, notified, initialized>>

(* AGG_VAL waits for frames; its engines queue records, or one of them      *)
(* fails.                                                                  *)
BeginValidator ==
  /\ MayRunVal
  /\ notified["AGG_VAL"]
  /\ notified' = [notified EXCEPT !["AGG_VAL"] = FALSE]
  /\ at' = [at EXCEPT !["AGG_VAL"] = "running"]
  /\ UNCHANGED <<callerVars, startVars, serviceVars, health>>

QueueRecord ==
  /\ MayRunVal
  /\ at["AGG_VAL"] = "running"
  /\ queued' = TRUE
  /\ UNCHANGED <<callerVars, startVars, at, notified, initialized, health>>

EngineFails ==
  /\ MayRunVal
  /\ at["AGG_VAL"] = "running"
  /\ health' = Clear({"engine_ready"})
  /\ UNCHANGED <<callerVars, startVars, at, notified, serviceVars>>

--------------------------------------------------------------------------------
RxStarts == (\E works \in BOOLEAN : Initialize(works)) \/ InitializeOutput \/ ReleaseOutput

StartStep == CreateWorker \/ CreationFails \/ FinishStart

Next ==
  \/ BeginStart \/ StartStep
  \/ PlatformUp \/ RpmsgFails
  \/ RxStarts \/ NotifyValidator
  \/ BeginOutput \/ \E written \in BOOLEAN : WriteRecord(written)
  \/ BeginValidator \/ QueueRecord \/ EngineFails

(* The scheduler runs the highest task that is ready; frames, endpoints and *)
(* failures are not owed.                                                  *)
Fairness ==
  /\ WF_vars(StartStep)
  /\ WF_vars(PlatformUp)
  /\ WF_vars(RxStarts)
  /\ WF_vars(BeginOutput)

Spec == Init /\ [][Next]_vars /\ Fairness

--------------------------------------------------------------------------------
(* Outside start() the three tasks exist once each, or not at all, and the  *)
(* handles say so: a creation that fails leaves no worker behind for the    *)
(* next attempt to double.                                                 *)
AllOrNothing ==
  ~Starting => \A w \in Workers : tasks[w] = (IF started THEN 1 ELSE 0) /\ handle[w] = started

(* AGG_TX and AGG_VAL touch the transport, the rings and the engines only   *)
(* after AGG_RX has initialised them.                                      *)
NoWorkBeforeInitialisation ==
  at["AGG_TX"] = "running" \/ at["AGG_VAL"] = "running" \/ queued =>
    initialized /\ at["AGG_RX"] = "running"

(* Linux never reads a flag from AggregationHealth that the pipeline does   *)
(* not back: nothing is ready without a transport, output is active only    *)
(* once AGG_TX has run, and a failed start or initialisation leaves no flag.*)
HealthIsBacked ==
  /\ (\E f \in HealthFlags : health[f]) => started /\ initialized
  /\ health["output_active"] => at["AGG_TX"] = "running"
  /\ at["AGG_RX"] = "suspended" => \A f \in HealthFlags : ~health[f]
  /\ health["authoritative"] => emit

Settled == at["AGG_RX"] = "suspended" \/
           (at["AGG_RX"] = "running" /\ at["AGG_TX"] = "running")

(* A pipeline that was started comes into service, or AGG_RX has found the  *)
(* transport unusable, provided that RPMsg leaves the processor.            *)
StartedComesIntoService ==
  [](rpmsg # "spinning") => (started ~> Settled)

(* What aggregation_runtime.hpp and the README say: the start does not      *)
(* depend on RPMsg.                                                        *)
ServiceIndependentOfRpmsg == started ~> Settled
================================================================================
