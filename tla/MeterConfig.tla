------------------------------ MODULE MeterConfig ------------------------------
(***************************************************************************)
(* The metrology configuration on R5C0: a METER_CONFIG_SET request changes *)
(* the ADC source and operating point and then the PL metering pipeline,   *)
(* and undoes what it has done when a part of it fails.  Requests are      *)
(* served by one task, so nothing interleaves with a transaction; what is  *)
(* hard is that every write to the hardware may fail, those of the         *)
(* rollback included, and leave the old value, the new one or neither.     *)
(*                                                                         *)
(* A configuration is named by its generation; the one of boot is Nothing. *)
(* Requests hold the fields the handler lets through.  The service starts  *)
(* no transaction while the active device captures, so the restart of the  *)
(* capture in AdcController::configure is never taken and left out.        *)
(***************************************************************************)
EXTENDS Integers

CONSTANTS
  Generations,   \* the configurations Linux asks for
  Invalid,       \* those the simulator and the pipeline refuse unwritten
  RequestBound   \* METER_CONFIG_SET requests in one behaviour

Nothing == 0     \* boot configuration, or no profile
Torn == -1       \* registers that hold parts of two configurations

ASSUME GenerationAssumption == Generations \subseteq Nat \ {Nothing}
ASSUME InvalidAssumption == Invalid \in [{"simulator", "meter"} -> SUBSET Generations]
ASSUME BoundAssumption == RequestBound \in Nat

Sources == {"physical", "simulator"}
Recorded == Generations \cup {Nothing}
Held == Recorded \cup {Torn}
Outcomes == {"none", "success", "failed", "rolled_back", "rollback_failed"}

VARIABLES
  adc,        \* AdcController, its two devices and the PL registers behind them
  meter,      \* MeteringPipeline and the PL registers behind it
  at,         \* the call apply_meter_config makes next, "idle" outside of it
  target,     \* the requested source and generation
  previous,   \* its snapshot of every owner, taken before the first write
  restored,   \* rollback_succeeded after the ADC part of a rollback
  diagnosed,  \* a diagnostic has failed since the last request
  requests,   \* number of requests so far, for the bound
  before      \* what was in force when the request began (no variable of the code)

locals == <<target, previous, restored, before>>
transaction == <<at, locals>>
vars == <<adc, meter, diagnosed, requests, transaction>>

(***************************************************************************)
(* The ADC side.  Each operator gives the set of outcomes of one call: the *)
(* result and the state of the ADC path after it.                          *)
(***************************************************************************)
AdcStates == [active : Sources, ready : [Sources -> BOOLEAN],
              operating : [Sources -> Recorded], capturing : [Sources -> BOOLEAN],
              registers : [Sources -> Held], shadow : Held,
              selected : BOOLEAN, routed : BOOLEAN]

Done(a) == [ok |-> TRUE, adc |-> a]
Failed(a) == [ok |-> FALSE, adc |-> a]

(* APPLY commits the shadow bank and the control word together; the latch  *)
(* may not happen, or not be seen in time.                                 *)
ApplySimulator(a, select, enable) ==
  LET latched == [a EXCEPT !.registers["simulator"] = a.shadow, !.routed = select]
      seen == [latched EXCEPT !.selected = select,
                              !.capturing["simulator"] = select /\ enable]
  IN {Failed(a)} \cup IF a.ready["simulator"] THEN {Done(seen), Failed(latched)} ELSE {}

ConfigureSimulator(a, g) ==
  IF ~a.ready["simulator"] \/ a.capturing["simulator"] \/ g \in Invalid["simulator"]
  THEN {Failed(a)}
  ELSE UNION {IF o.ok THEN {Done([o.adc EXCEPT !.operating["simulator"] = g]),
                            Failed(o.adc),
                            Failed([o.adc EXCEPT !.registers["simulator"] = Torn])}
              ELSE {o} : o \in ApplySimulator([a EXCEPT !.shadow = g], TRUE, FALSE)}

(* Gains, sample rate and synchronisation go over SPI; any of them may fail. *)
ConfigurePhysical(a, g) ==
  LET written(r) == [a EXCEPT !.registers["physical"] = r]
  IN IF ~a.ready["physical"] \/ a.capturing["physical"] THEN {Failed(a)}
     ELSE {Done([written(g) EXCEPT !.operating["physical"] = g])}
            \cup {Failed(written(r)) : r \in {a.registers["physical"], Torn, g}}

StopActive(a) ==
  IF a.active = "physical"
  THEN {IF a.ready["physical"] THEN [a EXCEPT !.capturing["physical"] = FALSE] ELSE a}
  ELSE {o.adc : o \in ApplySimulator(a, a.selected, FALSE)}

DeselectByDefault(a) == {Done(a)}

DeselectSimulator(a) ==
  IF a.ready["simulator"] THEN ApplySimulator(a, FALSE, FALSE) ELSE {Done(a)}

SelectSource(a, source, g) ==
  LET tried == IF source = "simulator" THEN ConfigureSimulator(a, g)
               ELSE UNION {IF o.ok THEN DeselectSimulator(o.adc) ELSE {o} :
                             o \in ConfigurePhysical(a, g)}
  IN {IF o.ok THEN Done([o.adc EXCEPT !.active = source]) ELSE o : o \in tried}

(* The controller's own rollback goes on after errors and reports none. *)
PutBack(a, source, operating) ==
  LET tried(b) == IF source = "simulator" THEN ConfigureSimulator(b, operating[source])
                  ELSE UNION {DeselectSimulator(o.adc) :
                                o \in ConfigurePhysical(b, operating[source])}
  IN {[o.adc EXCEPT !.active = source] : o \in UNION {tried(b) : b \in StopActive(a)}}

ConfigureAdc(a, source, g) ==
  LET tried == UNION {SelectSource(b, source, g) : b \in StopActive(a)}
  IN UNION {IF o.ok THEN {o} ELSE {Failed(b) : b \in PutBack(o.adc, a.active, a.operating)} :
              o \in tried}

(***************************************************************************)
(* The metering pipeline.  Shadow registers are all written before APPLY,  *)
(* so only the profile bank, which is written when a profile is staged,    *)
(* can carry something from one call to the next.                          *)
(***************************************************************************)
MeterStates == [configuration : Recorded, configured : BOOLEAN, outcome : Outcomes,
                staged : Recorded, profile : Recorded, bank : Held,
                conversion : Held, processing : Held, profiles : Held]

(* A staged profile must be that of the generation it goes with. *)
MayWrite(m, g) == g \notin Invalid["meter"] /\ m.staged \in {Nothing, g}

Refused(m) == [m EXCEPT !.outcome = "failed"]

WritingConfigured(m) == Refused(m)

Writing(m) == [Refused(m) EXCEPT !.configured = FALSE]

Banked(m) == IF m.staged = Nothing THEN Writing(m) ELSE [Writing(m) EXCEPT !.bank = m.staged]

(* APPLY commits the bank with the two cores' registers, staged or not. *)
Committed(m, c, p, q) ==
  [Banked(m) EXCEPT !.conversion = c, !.processing = p, !.profiles = q]

Verifying(m, g) == m.configured /\ g = m.configuration
                     /\ m.outcome \in {"rolled_back", "rollback_failed"}

Accepted(m, g) ==
  [Committed(m, g, g, Banked(m).bank) EXCEPT
     !.configuration = g, !.configured = TRUE,
     !.profile = IF m.staged = Nothing THEN m.profile ELSE m.staged,
     !.outcome = IF Verifying(m, g) THEN "rolled_back" ELSE "success"]

(* No core, a bank that reads back differently, or an APPLY of which a      *)
(* part is missing at the end of the readback attempts.                     *)
MeterFailures(m, g) ==
  {Refused(m)}
    \cup (IF MayWrite(m, g) /\ m.staged # Nothing
          THEN {[Writing(m) EXCEPT !.bank = b] : b \in {m.bank, Torn, g}} ELSE {})
    \cup IF MayWrite(m, g)
         THEN {Committed(m, c, p, q) : c \in {m.conversion, g}, p \in {m.processing, g},
                                       q \in {m.profiles, Banked(m).bank}} ELSE {}

ConfigureMeter(m, g) ==
  {[ok |-> FALSE, meter |-> n] : n \in MeterFailures(m, g)}
    \cup IF MayWrite(m, g) THEN {[ok |-> TRUE, meter |-> Accepted(m, g)]} ELSE {}

RestoreFromBank(m) == [m EXCEPT !.staged = m.bank]
LeaveStaged(m) == m

RestoreStaged(m) == [m EXCEPT !.staged = m.profile]
RecordRollback(m, ok) ==
  [m EXCEPT !.outcome = IF ok THEN "rolled_back" ELSE "rollback_failed"]

(***************************************************************************)
(* What is in force: the recorded configuration, if the hardware holds it. *)
(***************************************************************************)
Unknown == [source |-> "none"]

InForce ==
  [adc |-> IF /\ adc.routed = (adc.active = "simulator")
              /\ adc.registers[adc.active] = adc.operating[adc.active]
           THEN [source |-> adc.active, generation |-> adc.operating[adc.active]]
           ELSE Unknown,
   meter |-> IF /\ meter.configured
                /\ meter.conversion = meter.configuration
                /\ meter.processing = meter.configuration
                /\ meter.profile # Nothing => meter.profiles = meter.profile
             THEN [configuration |-> meter.configuration, profile |-> meter.profile]
             ELSE Unknown,
   pending |-> IF meter.staged = meter.profile THEN Nothing ELSE meter.staged,
   outcome |-> meter.outcome]

(* Outside of a transaction its local variables hold nothing. *)
NoTarget == [source |-> "physical", generation |-> Nothing]
NoSnapshot == [source |-> "physical", generation |-> Nothing,
               configuration |-> Nothing, configured |-> FALSE, profile |-> Nothing]
NotBegun == [adc |-> Unknown, meter |-> Unknown, pending |-> Nothing, outcome |-> "none"]

--------------------------------------------------------------------------------
(* The two devices come up independently of each other. *)
Init ==
  /\ \E ready \in [Sources -> BOOLEAN] :
       adc = [active |-> "physical", ready |-> ready,
              operating |-> [s \in Sources |-> Nothing],
              capturing |-> [s \in Sources |-> FALSE],
              registers |-> [physical |-> IF ready["physical"] THEN Nothing ELSE Torn,
                             simulator |-> Nothing],
              shadow |-> Nothing, selected |-> FALSE, routed |-> FALSE]
  /\ meter = [configuration |-> Nothing, configured |-> FALSE, outcome |-> "none",
              staged |-> Nothing, profile |-> Nothing, bank |-> Nothing,
              conversion |-> Nothing, processing |-> Nothing, profiles |-> Nothing]
  /\ at = "idle" /\ diagnosed = FALSE /\ requests = 0
  /\ target = NoTarget /\ previous = NoSnapshot /\ restored = FALSE /\ before = NotBegun

(* M18_CONFIG_SET, which Linux sends ahead of the request it belongs to. *)
StageProfile(g) ==
  /\ at = "idle"
  /\ meter' = [meter EXCEPT !.staged = g]
  /\ UNCHANGED <<adc, diagnosed, requests, transaction>>

Request(source, g) ==
  /\ at = "idle" /\ ~adc.capturing[adc.active]
  /\ requests < RequestBound /\ requests' = requests + 1
  /\ at' = "adc"
  /\ target' = [source |-> source, generation |-> g]
  /\ previous' = [source |-> adc.active, generation |-> adc.operating[adc.active],
                  configuration |-> meter.configuration, configured |-> meter.configured,
                  profile |-> meter.profile]
  /\ before' = InForce
  /\ UNCHANGED <<adc, meter, restored, diagnosed>>

Return == /\ at' = "idle" /\ diagnosed' = FALSE
          /\ target' = NoTarget /\ previous' = NoSnapshot
          /\ restored' = FALSE /\ before' = NotBegun

ApplyAdc ==
  /\ at = "adc"
  /\ \E o \in ConfigureAdc(adc, target.source, target.generation) :
       adc' = o.adc /\ at' = IF o.ok THEN "meter" ELSE "reapply"
  /\ UNCHANGED <<meter, diagnosed, requests, locals>>

ReapplyAdc ==
  /\ at = "reapply"
  /\ \E o \in ConfigureAdc(adc, previous.source, previous.generation) :
       adc' = o.adc /\ meter' = RecordRollback(RestoreStaged(meter), o.ok)
  /\ Return
  /\ UNCHANGED requests

ApplyMeter ==
  /\ at = "meter"
  /\ \E o \in ConfigureMeter(meter, target.generation) :
       /\ meter' = o.meter
       /\ IF o.ok THEN Return ELSE at' = "rollbackAdc" /\ UNCHANGED <<diagnosed, locals>>
  /\ UNCHANGED <<adc, requests>>

RollBackAdc ==
  /\ at = "rollbackAdc"
  /\ \E o \in ConfigureAdc(adc, previous.source, previous.generation) :
       adc' = o.adc /\ restored' = o.ok
  /\ meter' = RestoreStaged(meter)
  /\ at' = "rollbackMeter"
  /\ UNCHANGED <<target, previous, diagnosed, requests, before>>

RollBackMeter ==
  LET staged == IF previous.profile = Nothing THEN meter
                ELSE [meter EXCEPT !.staged = previous.profile]
  IN /\ at = "rollbackMeter"
     /\ IF previous.configured
        THEN \E o \in ConfigureMeter(staged, previous.configuration) :
               meter' = RecordRollback(o.meter, restored /\ o.ok)
        ELSE meter' = RecordRollback(meter, FALSE)
     /\ Return
     /\ UNCHANGED <<adc, requests>>

StartCapture ==
  /\ at = "idle" /\ adc.ready[adc.active] /\ ~adc.capturing[adc.active]
  /\ IF adc.active = "physical" THEN adc' = [adc EXCEPT !.capturing["physical"] = TRUE]
     ELSE \E o \in ApplySimulator(adc, TRUE, TRUE) : adc' = o.adc
  /\ UNCHANGED <<meter, diagnosed, requests, transaction>>

(* On request, and when Linux unbinds the transport. *)
StopCapture ==
  /\ at = "idle" /\ adc' \in StopActive(adc)
  /\ UNCHANGED <<meter, diagnosed, requests, transaction>>

(* The diagnostic resets the ADC and programs the recorded operating point *)
(* again; an error in the middle is reported, and ends it there.           *)
RunDiagnostic ==
  /\ at = "idle" /\ adc.active = "physical"
  /\ adc.ready["physical"] /\ ~adc.capturing["physical"]
  /\ \/ /\ adc' = [adc EXCEPT !.registers["physical"] = adc.operating["physical"]]
        /\ UNCHANGED diagnosed
     \/ \E r \in {adc.registers["physical"], adc.operating["physical"], Torn} :
          adc' = [adc EXCEPT !.registers["physical"] = r] /\ diagnosed' = TRUE
  /\ UNCHANGED <<meter, requests, transaction>>

Next == \/ \E g \in Generations : StageProfile(g)
        \/ \E s \in Sources, g \in Generations : Request(s, g)
        \/ ApplyAdc \/ ReapplyAdc \/ ApplyMeter \/ RollBackAdc \/ RollBackMeter
        \/ StartCapture \/ StopCapture \/ RunDiagnostic

Spec == Init /\ [][Next]_vars

--------------------------------------------------------------------------------
(* Every variable holds a value of its kind. *)
TypeOK ==
  /\ adc \in AdcStates /\ meter \in MeterStates
  /\ at \in {"idle", "adc", "reapply", "meter", "rollbackAdc", "rollbackMeter"}
  /\ target \in [source : Sources, generation : Recorded]
  /\ previous \in [source : Sources, generation : Recorded, configuration : Recorded,
                   configured : BOOLEAN, profile : Recorded]
  /\ restored \in BOOLEAN /\ diagnosed \in BOOLEAN
  /\ requests \in 0 .. RequestBound

(* The pipeline is reported as configured only while both PL cores, and    *)
(* the profile engines if there is a profile, work with the configuration  *)
(* status() names, at every step of a transaction and of its rollback.     *)
ConfiguredIsInForce == meter.configured => InForce.meter # Unknown

(* A capture that follows a request which was accepted or rolled back      *)
(* streams the source AdcController reports, at the operating point it     *)
(* reports, unless a diagnostic has failed in between.                     *)
CapturesWhatIsReported ==
  /\ at = "idle" /\ adc.capturing[adc.active] /\ ~diagnosed
  /\ meter.outcome \in {"success", "rolled_back"}
  => InForce.adc # Unknown

(* Seen from Linux, who has the answer and the outcome of each request, a  *)
(* transaction is one step that accepts everything or restores everything, *)
(* or owns up to having failed to.                                         *)
visible == IF at = "idle" THEN InForce ELSE before
Atomic == INSTANCE AtomicConfiguration WITH
  adc <- visible.adc, meter <- visible.meter,
  pending <- visible.pending, outcome <- visible.outcome
ImplementsAtomicChange == Atomic!Spec

(* "its active image is the configuration to restore if any later ADC or   *)
(* metering readback fails" (meter_config.cpp:61): after a rollback the PL *)
(* works with the profile that was active before the request.              *)
ProfileIsRolledBack ==
  at = "idle" /\ meter.configured /\ meter.outcome = "rolled_back"
    => meter.profiles = meter.profile
================================================================================
