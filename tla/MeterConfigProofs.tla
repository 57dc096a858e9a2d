--------------------------- MODULE MeterConfigProofs ---------------------------
(***************************************************************************)
(* Proofs about the configuration transaction, for every set of            *)
(* configurations and every set of refused ones.  Every call yields a set  *)
(* of outcomes: a lemma per call says what each of them holds, and what    *)
(* those hold that report success.  PipelineHolds is the strengthening     *)
(* behind ConfiguredIsInForce, AdcHolds and SoundAdcStates the one behind  *)
(* CapturesWhatIsReported; SnapshotHolds ties a rollback to what was in    *)
(* force before the request, which the refinement needs.                   *)
(***************************************************************************)
EXTENDS MeterConfig, TLAPS

(* The ADC path holds what it records: the registers of the active source  *)
(* and the mux; of the simulator also what its next APPLY will commit.      *)
AdcHolds(a) ==
  /\ a.registers[a.active] = a.operating[a.active]
  /\ a.routed = (a.active = "simulator")
  /\ a.active = "simulator" => a.selected /\ a.shadow = a.operating["simulator"]

(* A simulator that did not come up is never selected: no APPLY of its      *)
(* register bank can have happened.                                        *)
SoundAdcStates == {a \in AdcStates : ~a.ready["simulator"] => ~a.routed /\ ~a.selected}

AdcOutcomes == [ok : BOOLEAN, adc : SoundAdcStates]
MeterOutcomes == [ok : BOOLEAN, meter : MeterStates]

LEMMA OutcomeTyped ==
  ASSUME NEW a \in SoundAdcStates
  PROVE  /\ Done(a) \in AdcOutcomes /\ Done(a).ok /\ Done(a).adc = a
         /\ Failed(a) \in AdcOutcomes /\ ~Failed(a).ok /\ Failed(a).adc = a
BY DEF AdcOutcomes, Done, Failed

(* An APPLY of the simulator's bank leaves the rest of the ADC path alone;  *)
(* when it is seen to happen, the bank is in force and the mux is switched. *)
LEMMA ApplyOutcome ==
  ASSUME NEW a \in SoundAdcStates, NEW s \in BOOLEAN, NEW e \in BOOLEAN,
         NEW o \in ApplySimulator(a, s, e)
  PROVE  /\ o \in AdcOutcomes
         /\ o.adc.active = a.active /\ o.adc.operating = a.operating
         /\ o.adc.shadow = a.shadow /\ o.adc.selected \in {a.selected, s}
         /\ o.adc.registers["physical"] = a.registers["physical"]
         /\ o.adc = a \/ (o.adc.registers["simulator"] = a.shadow /\ o.adc.routed = s)
         /\ o.ok => /\ o.adc.registers["simulator"] = a.shadow
                    /\ o.adc.routed = s /\ o.adc.selected = s
<1> DEFINE latched == [a EXCEPT !.registers["simulator"] = a.shadow, !.routed = s]
           c == s /\ e
           seen == [latched EXCEPT !.selected = s, !.capturing["simulator"] = c]
<1>0. a \in AdcStates /\ (~a.ready["simulator"] => ~a.routed /\ ~a.selected)
  BY DEF SoundAdcStates
<1>1. /\ latched \in AdcStates /\ latched.active = a.active /\ latched.operating = a.operating
      /\ latched.shadow = a.shadow /\ latched.ready = a.ready /\ latched.selected = a.selected
      /\ latched.registers["physical"] = a.registers["physical"]
      /\ latched.registers["simulator"] = a.shadow /\ latched.routed = s
  BY <1>0 DEF AdcStates, Sources
<1>2. c \in BOOLEAN
  BY Zenon
<1>3. /\ seen \in AdcStates /\ seen.active = a.active /\ seen.operating = a.operating
      /\ seen.shadow = a.shadow /\ seen.ready = a.ready
      /\ seen.registers["physical"] = a.registers["physical"]
      /\ seen.registers["simulator"] = a.shadow /\ seen.routed = s /\ seen.selected = s
  <2> HIDE DEF latched, c
  <2> QED BY <1>1, <1>2 DEF AdcStates, Sources
<1>4. ApplySimulator(a, s, e) = {Failed(a)} \cup IF a.ready["simulator"] THEN {Done(seen), Failed(latched)} ELSE {}
  BY Zenon DEF ApplySimulator
<1> HIDE DEF latched, seen
<1>5. o = Failed(a) \/ (a.ready["simulator"] /\ (o = Done(seen) \/ o = Failed(latched)))
  BY <1>4
<1>6. a.ready["simulator"] => seen \in SoundAdcStates /\ latched \in SoundAdcStates
  BY <1>1, <1>3 DEF SoundAdcStates
<1> QED BY <1>1, <1>3, <1>5, <1>6, OutcomeTyped

LEMMA ApplyTyped ==
  ASSUME NEW a \in SoundAdcStates, NEW s \in BOOLEAN, NEW e \in BOOLEAN,
         NEW o \in ApplySimulator(a, s, e)
  PROVE  /\ o \in AdcOutcomes
         /\ o.adc.active = a.active /\ o.adc.operating = a.operating
         /\ o.adc.shadow = a.shadow
         /\ o.adc.registers["physical"] = a.registers["physical"]
BY ApplyOutcome

LEMMA ApplyCommits ==
  ASSUME NEW a \in SoundAdcStates, NEW s \in BOOLEAN, NEW e \in BOOLEAN,
         NEW o \in ApplySimulator(a, s, e)
  PROVE  /\ o.adc.selected \in {a.selected, s}
         /\ o.adc = a \/ (o.adc.registers["simulator"] = a.shadow /\ o.adc.routed = s)
         /\ o.ok => /\ o.adc.registers["simulator"] = a.shadow
                    /\ o.adc.routed = s /\ o.adc.selected = s
BY ApplyOutcome

(* Configuring the simulator ends in success only with its bank, its mux   *)
(* and its record at the new operating point.                              *)
LEMMA SimulatorTyped ==
  ASSUME NEW a \in SoundAdcStates, NEW g \in Recorded, NEW o \in ConfigureSimulator(a, g)
  PROVE  /\ o \in AdcOutcomes
         /\ o.ok => /\ o.adc.operating["simulator"] = g /\ o.adc.registers["simulator"] = g
                    /\ o.adc.shadow = g /\ o.adc.routed /\ o.adc.selected
<1> DEFINE b == [a EXCEPT !.shadow = g]
           recorded(p) == [p.adc EXCEPT !.operating["simulator"] = g]
           torn(p) == [p.adc EXCEPT !.registers["simulator"] = Torn]
           then(p) == IF p.ok THEN {Done(recorded(p)), Failed(p.adc), Failed(torn(p))} ELSE {p}
<1>1. b \in SoundAdcStates /\ b.shadow = g
  BY DEF SoundAdcStates, AdcStates, Held
<1>2. \/ o = Failed(a)
      \/ \E p \in ApplySimulator(b, TRUE, FALSE) : o \in then(p)
  BY Zenon DEF ConfigureSimulator
<1> HIDE DEF b
<1>3. ASSUME NEW p \in ApplySimulator(b, TRUE, FALSE), o \in then(p)
      PROVE  /\ o \in AdcOutcomes
             /\ o.ok => /\ o.adc.operating["simulator"] = g /\ o.adc.registers["simulator"] = g
                        /\ o.adc.shadow = g /\ o.adc.routed /\ o.adc.selected
  <2>0. p \in AdcOutcomes /\ p.adc.shadow = g
    BY <1>1, ApplyTyped
  <2>1. p.ok => p.adc.registers["simulator"] = g /\ p.adc.routed /\ p.adc.selected
    BY <1>1, ApplyCommits
  <2>2. p.adc \in SoundAdcStates
    BY <2>0 DEF AdcOutcomes
  <2>3. /\ recorded(p) \in SoundAdcStates
        /\ recorded(p).operating["simulator"] = g /\ recorded(p).registers = p.adc.registers
        /\ recorded(p).shadow = p.adc.shadow /\ recorded(p).routed = p.adc.routed
        /\ recorded(p).selected = p.adc.selected
    BY <2>2 DEF SoundAdcStates, AdcStates, Sources
  <2>4. torn(p) \in SoundAdcStates
    BY <2>2 DEF SoundAdcStates, AdcStates, Sources, Held
  <2>5. \/ ~p.ok /\ o = p
        \/ p.ok /\ (o = Done(recorded(p)) \/ o = Failed(p.adc) \/ o = Failed(torn(p)))
    BY <1>3
  <2> HIDE DEF recorded, torn
  <2> QED BY <2>0, <2>1, <2>2, <2>3, <2>4, <2>5, OutcomeTyped
<1> HIDE DEF then
<1> QED BY <1>2, <1>3, OutcomeTyped

(* Configuring the physical ADC leaves the mux alone; it ends in success   *)
(* only with the registers and the record at the new operating point.      *)
LEMMA PhysicalTyped ==
  ASSUME NEW a \in SoundAdcStates, NEW g \in Recorded, NEW o \in ConfigurePhysical(a, g)
  PROVE  /\ o \in AdcOutcomes
         /\ o.ok => o.adc.operating["physical"] = g /\ o.adc.registers["physical"] = g
<1> DEFINE written(r) == [a EXCEPT !.registers["physical"] = r]
           recorded == [written(g) EXCEPT !.operating["physical"] = g]
<1>1. ASSUME NEW r \in Held
      PROVE  written(r) \in SoundAdcStates
  BY DEF SoundAdcStates, AdcStates, Sources
<1>2. g \in Held /\ Torn \in Held /\ a.registers["physical"] \in Held
  BY DEF Held, SoundAdcStates, AdcStates, Sources
<1>3. /\ recorded \in SoundAdcStates
      /\ recorded.operating["physical"] = g /\ recorded.registers["physical"] = g
  BY <1>2 DEF SoundAdcStates, AdcStates, Sources
<1>4. \/ o = Failed(a) \/ o = Done(recorded)
      \/ \E r \in {a.registers["physical"], Torn, g} : o = Failed(written(r))
  BY Zenon DEF ConfigurePhysical
<1> HIDE DEF written, recorded
<1> QED BY <1>1, <1>2, <1>3, <1>4, OutcomeTyped

(* Stopping a capture keeps the source and every recorded operating point, *)
(* and what is in force of a source that was completely so.                *)
LEMMA StopTyped ==
  ASSUME NEW a \in SoundAdcStates, NEW b \in StopActive(a)
  PROVE  /\ b \in SoundAdcStates /\ b.active = a.active /\ b.operating = a.operating
         /\ AdcHolds(a) => AdcHolds(b)
<1> DEFINE c == [a EXCEPT !.capturing["physical"] = FALSE]
<1>0. a \in AdcStates
  BY DEF SoundAdcStates
<1>1. CASE a.active = "physical"
  <2>1. b = c \/ b = a
    BY <1>1 DEF StopActive
  <2>2. c \in SoundAdcStates /\ c.active = a.active /\ c.operating = a.operating
          /\ c.registers = a.registers /\ c.shadow = a.shadow
          /\ c.selected = a.selected /\ c.routed = a.routed
    BY DEF SoundAdcStates, AdcStates, Sources
  <2> HIDE DEF c
  <2> QED BY <2>1, <2>2 DEF AdcHolds
<1>2. CASE a.active # "physical"
  <2> DEFINE kept == a.selected
  <2>1. PICK o \in ApplySimulator(a, kept, FALSE) : b = o.adc
    BY <1>2 DEF StopActive
  <2>2. a.active = "simulator" /\ kept \in BOOLEAN
    BY <1>0, <1>2 DEF AdcStates, Sources
  <2> HIDE DEF kept
  <2>3. o \in AdcOutcomes
    BY <2>1, <2>2, ApplyTyped
  <2>4. /\ o.adc.active = a.active /\ o.adc.operating = a.operating
        /\ o.adc.shadow = a.shadow
    BY <2>1, <2>2, ApplyTyped
  <2>5. b \in SoundAdcStates
    BY <2>1, <2>3 DEF AdcOutcomes
  <2>6. ASSUME kept
        PROVE  /\ o.adc.selected \in {a.selected, TRUE}
               /\ o.adc = a \/ (o.adc.registers["simulator"] = a.shadow /\ o.adc.routed)
    <3>1. kept = TRUE
      BY <2>2, <2>6
    <3>2. o \in ApplySimulator(a, TRUE, FALSE)
      BY <2>1, <3>1
    <3>3. o.adc.selected \in {a.selected, TRUE}
      BY <3>2, ApplyCommits
    <3>4. o.adc = a \/ (o.adc.registers["simulator"] = a.shadow /\ o.adc.routed)
      BY <3>2, ApplyCommits
    <3> QED BY <3>3, <3>4
  <2> QED BY <2>1, <2>2, <2>4, <2>5, <2>6 DEF AdcHolds, kept
<1> QED BY <1>1, <1>2

(* Deselecting the simulator keeps what the physical ADC holds, and ends in *)
(* success only with the mux at the physical ADC.                           *)
LEMMA DeselectTyped ==
  ASSUME NEW a \in SoundAdcStates, NEW o \in DeselectSimulator(a)
  PROVE  /\ o \in AdcOutcomes /\ o.adc.operating = a.operating
         /\ o.adc.registers["physical"] = a.registers["physical"]
         /\ o.ok => ~o.adc.routed
<1>1. CASE a.ready["simulator"]
  <2>1. o \in ApplySimulator(a, FALSE, FALSE)
    BY <1>1 DEF DeselectSimulator
  <2>2. o \in AdcOutcomes /\ o.adc.operating = a.operating
          /\ o.adc.registers["physical"] = a.registers["physical"]
    BY <2>1, ApplyTyped
  <2>3. o.ok => ~o.adc.routed
    BY <2>1, ApplyCommits
  <2> QED BY <2>2, <2>3
<1>2. CASE ~a.ready["simulator"]
  <2>1. o = Done(a)
    BY <1>2 DEF DeselectSimulator
  <2>2. ~a.routed
    BY <1>2 DEF SoundAdcStates
  <2> QED BY <2>1, <2>2, OutcomeTyped
<1> QED BY <1>1, <1>2

(* Putting a source aside for another: what is in force is what is recorded *)
(* for the new one.                                                         *)
PhysicalTried(a, g) ==
  UNION {IF o.ok THEN DeselectSimulator(o.adc) ELSE {o} : o \in ConfigurePhysical(a, g)}

LEMMA SelectTyped ==
  ASSUME NEW a \in SoundAdcStates, NEW source \in Sources, NEW g \in Recorded,
         NEW o \in SelectSource(a, source, g)
  PROVE  /\ o \in AdcOutcomes
         /\ o.ok => /\ AdcHolds(o.adc) /\ o.adc.active = source
                    /\ o.adc.operating[source] = g
<1> DEFINE tried == IF source = "simulator" THEN ConfigureSimulator(a, g)
                    ELSE PhysicalTried(a, g)
           chosen(p) == [p.adc EXCEPT !.active = source]
<1>1. PICK p \in tried : o = IF p.ok THEN Done(chosen(p)) ELSE p
  BY Zenon DEF SelectSource, PhysicalTried
<1>2. CASE source = "simulator"
  <2>1. /\ p \in AdcOutcomes
        /\ p.ok => /\ p.adc.operating["simulator"] = g /\ p.adc.registers["simulator"] = g
                   /\ p.adc.shadow = g /\ p.adc.routed /\ p.adc.selected
    BY <1>1, <1>2, SimulatorTyped
  <2>2. p.adc \in SoundAdcStates
    BY <2>1 DEF AdcOutcomes
  <2>3. /\ chosen(p) \in SoundAdcStates /\ chosen(p).active = source
        /\ chosen(p).operating = p.adc.operating /\ chosen(p).registers = p.adc.registers
        /\ chosen(p).shadow = p.adc.shadow /\ chosen(p).routed = p.adc.routed
        /\ chosen(p).selected = p.adc.selected
    BY <2>2 DEF SoundAdcStates, AdcStates
  <2>4. p.ok => AdcHolds(chosen(p))
    <3> HIDE DEF chosen
    <3>1. chosen(p).routed \in BOOLEAN
      BY <2>3 DEF SoundAdcStates, AdcStates
    <3> QED BY <1>2, <2>1, <2>3, <3>1 DEF AdcHolds
  <2> HIDE DEF chosen
  <2> QED BY <1>1, <1>2, <2>1, <2>3, <2>4, OutcomeTyped
<1>3. CASE source = "physical"
  <2>1. PICK c \in ConfigurePhysical(a, g) :
          p \in IF c.ok THEN DeselectSimulator(c.adc) ELSE {c}
    BY <1>1, <1>3, Zenon DEF PhysicalTried
  <2>2. /\ c \in AdcOutcomes
        /\ c.ok => c.adc.operating["physical"] = g /\ c.adc.registers["physical"] = g
    BY <2>1, PhysicalTyped
  <2>3. c.adc \in SoundAdcStates
    BY <2>2 DEF AdcOutcomes
  <2>4. /\ p \in AdcOutcomes
        /\ p.ok => /\ p.adc.operating["physical"] = g /\ p.adc.registers["physical"] = g
                   /\ ~p.adc.routed
    <3>1. CASE c.ok
      <4>1. p \in DeselectSimulator(c.adc)
        BY <2>1, <3>1
      <4> QED BY <2>2, <2>3, <3>1, <4>1, DeselectTyped
    <3>2. CASE ~c.ok
      BY <2>1, <2>2, <3>2
    <3> QED BY <3>1, <3>2
  <2>5. p.adc \in SoundAdcStates
    BY <2>4 DEF AdcOutcomes
  <2>6. /\ chosen(p) \in SoundAdcStates /\ chosen(p).active = source
        /\ chosen(p).operating = p.adc.operating /\ chosen(p).registers = p.adc.registers
        /\ chosen(p).routed = p.adc.routed
    BY <2>5 DEF SoundAdcStates, AdcStates
  <2>7. p.ok => AdcHolds(chosen(p))
    <3> HIDE DEF chosen
    <3>1. chosen(p).routed \in BOOLEAN
      BY <2>6 DEF SoundAdcStates, AdcStates
    <3> QED BY <1>3, <2>4, <2>6, <3>1 DEF AdcHolds
  <2> HIDE DEF chosen
  <2> QED BY <1>1, <1>3, <2>4, <2>6, <2>7, OutcomeTyped
<1> QED BY <1>2, <1>3 DEF Sources

LEMMA PutBackTyped ==
  ASSUME NEW a \in SoundAdcStates, NEW source \in Sources,
         NEW operating \in [Sources -> Recorded]
  PROVE  PutBack(a, source, operating) \subseteq SoundAdcStates
<1> DEFINE g == operating[source]
           physical(b) == UNION {DeselectSimulator(o.adc) : o \in ConfigurePhysical(b, g)}
           tried(b) == IF source = "simulator" THEN ConfigureSimulator(b, g) ELSE physical(b)
           outcomes == UNION {tried(b) : b \in StopActive(a)}
<1>1. g \in Recorded
  OBVIOUS
<1> HIDE DEF g
<1>2. ASSUME NEW b \in SoundAdcStates
      PROVE  tried(b) \subseteq AdcOutcomes
  <2>1. ConfigureSimulator(b, g) \subseteq AdcOutcomes
    BY <1>1, SimulatorTyped
  <2>2. ASSUME NEW o \in ConfigurePhysical(b, g)
        PROVE  DeselectSimulator(o.adc) \subseteq AdcOutcomes
    <3>1. o.adc \in SoundAdcStates
      BY <1>1, <2>2, PhysicalTyped DEF AdcOutcomes
    <3> QED BY <3>1, DeselectTyped
  <2>3. physical(b) \subseteq AdcOutcomes
    BY <2>2
  <2> HIDE DEF physical
  <2> QED BY <2>1, <2>3
<1> HIDE DEF tried
<1>3. \A b \in StopActive(a) : b \in SoundAdcStates
  BY StopTyped
<1>4. outcomes \subseteq AdcOutcomes
  BY <1>2, <1>3
<1> HIDE DEF outcomes
<1>5. ASSUME NEW o \in outcomes
      PROVE  [o.adc EXCEPT !.active = source] \in SoundAdcStates
  BY <1>4, <1>5 DEF AdcOutcomes, SoundAdcStates, AdcStates
<1>6. PutBack(a, source, operating) = {[o.adc EXCEPT !.active = source] : o \in outcomes}
  BY Zenon DEF PutBack, outcomes, tried, physical, g
<1> QED BY <1>5, <1>6

(* AdcController::configure: in success what is in force is what was asked  *)
(* for; in failure the recorded operating points may be anything.           *)
LEMMA AdcTyped ==
  ASSUME NEW a \in SoundAdcStates, NEW source \in Sources, NEW g \in Recorded,
         NEW o \in ConfigureAdc(a, source, g)
  PROVE  /\ o \in AdcOutcomes
         /\ o.ok => /\ AdcHolds(o.adc) /\ o.adc.active = source
                    /\ o.adc.operating[source] = g
<1> DEFINE undone(p) == {Failed(b) : b \in PutBack(p.adc, a.active, a.operating)}
<1>1. PICK b \in StopActive(a) : \E p \in SelectSource(b, source, g) :
        o \in IF p.ok THEN {p} ELSE undone(p)
  BY Zenon DEF ConfigureAdc
<1>2. PICK p \in SelectSource(b, source, g) : o \in IF p.ok THEN {p} ELSE undone(p)
  BY <1>1
<1>3. b \in SoundAdcStates
  BY <1>1, StopTyped
<1>4. /\ p \in AdcOutcomes
      /\ p.ok => AdcHolds(p.adc) /\ p.adc.active = source /\ p.adc.operating[source] = g
  BY <1>2, <1>3, SelectTyped
<1>5. CASE p.ok
  BY <1>2, <1>4, <1>5
<1>6. CASE ~p.ok
  <2>1. a.active \in Sources /\ a.operating \in [Sources -> Recorded]
    BY DEF SoundAdcStates, AdcStates
  <2>2. p.adc \in SoundAdcStates
    BY <1>4 DEF AdcOutcomes
  <2>3. PICK c \in PutBack(p.adc, a.active, a.operating) : o = Failed(c)
    BY <1>2, <1>6
  <2>4. c \in SoundAdcStates
    BY <2>1, <2>2, <2>3, PutBackTyped
  <2> QED BY <2>3, <2>4, OutcomeTyped
<1> QED BY <1>5, <1>6

--------------------------------------------------------------------------------
(* What ConfiguredIsInForce needs from one call to the next: a profile that *)
(* is active is staged again, so that no APPLY commits another one with it. *)
PipelineHolds(m) ==
  /\ m.configured => /\ m.conversion = m.configuration
                     /\ m.processing = m.configuration
                     /\ m.profile # Nothing => m.profiles = m.profile
  /\ m.staged = Nothing => m.profile = Nothing

SoundMeterStates == {m \in MeterStates : PipelineHolds(m)}

LEMMA MeterTyped ==
  ASSUME NEW m \in SoundMeterStates, NEW g \in Recorded
  PROVE  \A o \in ConfigureMeter(m, g) : o.ok \in BOOLEAN /\ o.meter \in SoundMeterStates
<1>1. m \in MeterStates /\ PipelineHolds(m)
  BY DEF SoundMeterStates
<1>2. Refused(m) \in MeterStates /\ PipelineHolds(Refused(m))
  BY <1>1 DEF MeterStates, PipelineHolds, Outcomes, Refused
<1>3. Writing(m) \in MeterStates /\ ~Writing(m).configured
        /\ Writing(m).staged = m.staged /\ Writing(m).profile = m.profile
  BY <1>1 DEF MeterStates, Writing, Refused, Outcomes
<1>4. Banked(m) \in MeterStates /\ ~Banked(m).configured /\ Banked(m).staged = m.staged
        /\ Banked(m).profile = m.profile /\ (m.staged # Nothing => Banked(m).bank = m.staged)
  BY <1>1, <1>3 DEF MeterStates, Held, Banked
<1>5. ASSUME NEW b \in Held
      PROVE  [Writing(m) EXCEPT !.bank = b] \in SoundMeterStates
  BY <1>1, <1>3 DEF MeterStates, PipelineHolds, SoundMeterStates
<1>6. ASSUME NEW c \in Held, NEW p \in Held, NEW q \in Held
      PROVE  Committed(m, c, p, q) \in SoundMeterStates
  BY <1>1, <1>4 DEF MeterStates, PipelineHolds, SoundMeterStates, Committed
<1>7. g \in Held /\ Torn \in Held /\ m.bank \in Held /\ m.conversion \in Held
        /\ m.processing \in Held /\ m.profiles \in Held /\ Banked(m).bank \in Held
  BY <1>1, <1>4 DEF MeterStates, Held
<1>8. Accepted(m, g) \in SoundMeterStates
  <2> DEFINE applied == Committed(m, g, g, Banked(m).bank)
  <2>1. applied \in MeterStates /\ applied.conversion = g /\ applied.processing = g
          /\ applied.profiles = Banked(m).bank /\ applied.staged = m.staged
          /\ applied.profile = m.profile
    BY <1>4, <1>7 DEF MeterStates, Committed
  <2> HIDE DEF applied
  <2>2. m.staged \in Recorded /\ m.profile \in Recorded
    BY <1>1 DEF MeterStates
  <2>3. Accepted(m, g) = [applied EXCEPT
           !.configuration = g, !.configured = TRUE,
           !.profile = IF m.staged = Nothing THEN m.profile ELSE m.staged,
           !.outcome = IF Verifying(m, g) THEN "rolled_back" ELSE "success"]
    BY Zenon DEF Accepted, applied
  <2>4. Accepted(m, g) \in MeterStates
    BY <2>1, <2>2, <2>3 DEF MeterStates, Outcomes
  <2>5. PipelineHolds(Accepted(m, g))
    BY <1>1, <1>4, <2>1, <2>3 DEF MeterStates, PipelineHolds
  <2> QED BY <2>4, <2>5 DEF SoundMeterStates
<1>9. MeterFailures(m, g) \subseteq SoundMeterStates
  <2>1. Refused(m) \in SoundMeterStates
    BY <1>2 DEF SoundMeterStates
  <2>2. \A b \in {m.bank, Torn, g} : [Writing(m) EXCEPT !.bank = b] \in SoundMeterStates
    BY <1>5, <1>7
  <2>3. \A c \in {m.conversion, g}, p \in {m.processing, g}, q \in {m.profiles, Banked(m).bank} :
          Committed(m, c, p, q) \in SoundMeterStates
    BY <1>6, <1>7
  <2> QED BY <2>1, <2>2, <2>3 DEF MeterFailures
<1>10. ASSUME NEW o \in ConfigureMeter(m, g)
       PROVE  \/ \E n \in MeterFailures(m, g) : o = [ok |-> FALSE, meter |-> n]
              \/ o = [ok |-> TRUE, meter |-> Accepted(m, g)]
  BY Zenon DEF ConfigureMeter
<1>11. ASSUME NEW ok \in BOOLEAN, NEW n \in SoundMeterStates
       PROVE  [ok |-> ok, meter |-> n].ok \in BOOLEAN
                /\ [ok |-> ok, meter |-> n].meter \in SoundMeterStates
  OBVIOUS
<1> QED BY <1>8, <1>9, <1>10, <1>11

(* What an attempt leaves of the pipeline: whatever its end, the staged     *)
(* profile; in failure the active one, in success the staged one as active. *)
LEMMA MeterEnds ==
  ASSUME NEW m \in SoundMeterStates, NEW g \in Recorded, NEW o \in ConfigureMeter(m, g)
  PROVE  /\ o.meter.staged = m.staged
         /\ ~o.ok => o.meter.profile = m.profile
         /\ o.ok => /\ o.meter.configured /\ o.meter.configuration = g
                    /\ o.meter.profile = m.staged /\ m.staged \in {Nothing, g}
                    /\ o.meter.outcome \in {"success", "rolled_back"}
<1>1. m \in MeterStates /\ (m.staged = Nothing => m.profile = Nothing)
  BY DEF SoundMeterStates, PipelineHolds
<1>2. /\ Refused(m) \in MeterStates /\ Refused(m).staged = m.staged
      /\ Refused(m).profile = m.profile
  BY <1>1 DEF MeterStates, Outcomes, Refused
<1>3. /\ Writing(m) \in MeterStates /\ Writing(m).staged = m.staged
      /\ Writing(m).profile = m.profile
  BY <1>1 DEF MeterStates, Writing, Refused, Outcomes
<1>4. /\ Banked(m) \in MeterStates /\ Banked(m).staged = m.staged
      /\ Banked(m).profile = m.profile
  BY <1>1, <1>3 DEF MeterStates, Held, Banked
<1>5. ASSUME NEW b PROVE /\ [Writing(m) EXCEPT !.bank = b].staged = m.staged
                          /\ [Writing(m) EXCEPT !.bank = b].profile = m.profile
  BY <1>3 DEF MeterStates
<1>6. ASSUME NEW c, NEW p, NEW q
      PROVE  /\ Committed(m, c, p, q).staged = m.staged
             /\ Committed(m, c, p, q).profile = m.profile
  BY <1>4 DEF MeterStates, Committed
<1>7. ASSUME NEW n \in MeterFailures(m, g)
      PROVE  n.staged = m.staged /\ n.profile = m.profile
  <2>1. \/ n = Refused(m)
        \/ \E b \in {m.bank, Torn, g} : n = [Writing(m) EXCEPT !.bank = b]
        \/ \E c \in {m.conversion, g}, p \in {m.processing, g}, q \in {m.profiles, Banked(m).bank} :
              n = Committed(m, c, p, q)
    BY SMT DEF MeterFailures
  <2>2. CASE n = Refused(m)
    BY <2>2, <1>2
  <2>3. CASE \E b \in {m.bank, Torn, g} : n = [Writing(m) EXCEPT !.bank = b]
    BY <2>3, <1>5, Zenon
  <2>4. CASE \E c \in {m.conversion, g}, p \in {m.processing, g}, q \in {m.profiles, Banked(m).bank} :
              n = Committed(m, c, p, q)
    <3>1. PICK c, p, q : n = Committed(m, c, p, q)
      BY <2>4
    <3> QED BY <3>1, <1>6
  <2> QED BY <2>1, <2>2, <2>3, <2>4
<1>8. /\ Accepted(m, g).staged = m.staged /\ Accepted(m, g).configured
      /\ Accepted(m, g).configuration = g /\ Accepted(m, g).profile = m.staged
      /\ Accepted(m, g).outcome \in {"success", "rolled_back"}
  <2> DEFINE applied == Committed(m, g, g, Banked(m).bank)
             end == IF Verifying(m, g) THEN "rolled_back" ELSE "success"
             active == IF m.staged = Nothing THEN m.profile ELSE m.staged
  <2>1. g \in Held /\ Banked(m).bank \in Held
    BY <1>4 DEF MeterStates, Held
  <2>2. applied \in MeterStates /\ applied.staged = m.staged
    BY <1>4, <1>6, <2>1 DEF MeterStates, Committed
  <2>3. Accepted(m, g) = [applied EXCEPT !.configuration = g, !.configured = TRUE,
                                         !.profile = active, !.outcome = end]
    BY Zenon DEF Accepted, applied, end, active
  <2>4. active = m.staged
    BY <1>1
  <2>5. end \in {"success", "rolled_back"}
    OBVIOUS
  <2> HIDE DEF applied, active, end
  <2> QED BY <2>2, <2>3, <2>4, <2>5 DEF MeterStates
<1>9. \/ \E n \in MeterFailures(m, g) : o = [ok |-> FALSE, meter |-> n]
      \/ o = [ok |-> TRUE, meter |-> Accepted(m, g)] /\ m.staged \in {Nothing, g}
  BY Zenon DEF ConfigureMeter, MayWrite
<1> HIDE DEF Nothing
<1> QED BY <1>7, <1>8, <1>9

LEMMA RestoreTyped ==
  ASSUME NEW m \in SoundMeterStates, NEW ok \in BOOLEAN
  PROVE  /\ RestoreStaged(m) \in SoundMeterStates
         /\ RecordRollback(m, ok) \in SoundMeterStates
<1>1. RestoreStaged(m) \in SoundMeterStates
  BY DEF SoundMeterStates, MeterStates, PipelineHolds, RestoreStaged
<1>2. RecordRollback(m, ok) \in SoundMeterStates
  BY DEF SoundMeterStates, MeterStates, PipelineHolds, RecordRollback, Outcomes
<1> QED BY <1>1, <1>2

--------------------------------------------------------------------------------
(* The inductive invariant.  The types of the service's own variables ...  *)
TransactionTyped ==
  /\ at \in {"idle", "adc", "reapply", "meter", "rollbackAdc", "rollbackMeter"}
  /\ target \in [source : Sources, generation : Recorded]
  /\ previous \in [source : Sources, generation : Recorded, configuration : Recorded,
                   configured : BOOLEAN, profile : Recorded]
  /\ restored \in BOOLEAN /\ diagnosed \in BOOLEAN
  /\ requests \in 0 .. RequestBound

(* ... where a call has just configured the ADC path, it holds what that    *)
(* call asked for, and between requests what the last one left, unless a    *)
(* diagnostic may have undone it ...                                        *)
AdcInForce ==
  /\ at = "meter" => /\ AdcHolds(adc) /\ adc.active = target.source
                     /\ adc.operating[target.source] = target.generation
  /\ at = "rollbackMeter" /\ restored
       => /\ AdcHolds(adc) /\ adc.active = previous.source
          /\ adc.operating[previous.source] = previous.generation
  /\ at = "idle" /\ ~diagnosed /\ meter.outcome \in {"success", "rolled_back"}
       => AdcHolds(adc)

(* ... and the snapshot is what was in force when the request began, if     *)
(* anything was, while the pipeline still holds the rest of it.             *)
ForceMeter(m) ==
  IF /\ m.configured
     /\ m.conversion = m.configuration /\ m.processing = m.configuration
     /\ m.profile # Nothing => m.profiles = m.profile
  THEN [configuration |-> m.configuration, profile |-> m.profile]
  ELSE Unknown
Pending(m) == IF m.staged = m.profile THEN Nothing ELSE m.staged

SnapshotHolds ==
  at # "idle" =>
    /\ before.adc \in {Unknown, [source |-> previous.source,
                                 generation |-> previous.generation]}
    /\ before.meter \in {Unknown, [configuration |-> previous.configuration,
                                   profile |-> previous.profile]}
    /\ meter.profile = previous.profile
    /\ at \in {"adc", "meter"} => target.generation \in Generations
    /\ at \in {"adc", "meter", "reapply"} =>
         before.meter = ForceMeter(meter) /\ before.pending = Pending(meter)
    /\ at = "rollbackMeter" => meter.staged = meter.profile

MeterConfigInvariant ==
  /\ adc \in SoundAdcStates /\ meter \in SoundMeterStates /\ TransactionTyped
  /\ AdcInForce /\ SnapshotHolds

LEMMA InitialState == Init => MeterConfigInvariant
<1> SUFFICES ASSUME Init PROVE MeterConfigInvariant
  OBVIOUS
<1>1. adc \in SoundAdcStates
  <2>1. PICK ready \in [Sources -> BOOLEAN] :
          adc = [active |-> "physical", ready |-> ready,
                 operating |-> [s \in Sources |-> Nothing],
                 capturing |-> [s \in Sources |-> FALSE],
                 registers |-> [physical |-> IF ready["physical"] THEN Nothing ELSE Torn,
                                simulator |-> Nothing],
                 shadow |-> Nothing, selected |-> FALSE, routed |-> FALSE]
    BY DEF Init
  <2>2. Nothing \in Recorded /\ Nothing \in Held /\ Torn \in Held
    BY DEF Recorded, Held
  <2>3. [physical |-> IF ready["physical"] THEN Nothing ELSE Torn, simulator |-> Nothing]
          \in [Sources -> Held]
    BY <2>2 DEF Sources
  <2> QED BY <2>1, <2>2, <2>3 DEF SoundAdcStates, AdcStates, Sources
<1>2. meter \in SoundMeterStates
  BY DEF Init, SoundMeterStates, MeterStates, PipelineHolds, Recorded, Held, Outcomes
<1>3. TransactionTyped
  <2>1. requests \in 0 .. RequestBound
    BY BoundAssumption DEF Init
  <2>2. NoTarget \in [source : Sources, generation : Recorded]
    BY DEF NoTarget, Sources, Recorded
  <2>3. NoSnapshot \in [source : Sources, generation : Recorded, configuration : Recorded,
                        configured : BOOLEAN, profile : Recorded]
    BY DEF NoSnapshot, Sources, Recorded
  <2>4. target = NoTarget /\ previous = NoSnapshot /\ restored = FALSE
          /\ at = "idle" /\ diagnosed = FALSE
    BY DEF Init
  <2> QED BY <2>1, <2>2, <2>3, <2>4 DEF TransactionTyped
<1>4. AdcInForce /\ SnapshotHolds
  BY DEF Init, AdcInForce, SnapshotHolds
<1> QED BY <1>1, <1>2, <1>3, <1>4 DEF MeterConfigInvariant

LEMMA ReturnTyped ==
  ASSUME TransactionTyped, Return, UNCHANGED requests
  PROVE  TransactionTyped' /\ SnapshotHolds'
BY DEF TransactionTyped, SnapshotHolds, Return, NoTarget, NoSnapshot, Sources, Recorded

(* Captures and the diagnostic: what they may do to the ADC path between    *)
(* two requests.                                                            *)
LEMMA BetweenRequests ==
  ASSUME MeterConfigInvariant, StartCapture \/ StopCapture \/ RunDiagnostic
  PROVE  /\ MeterConfigInvariant'
         /\ adc'.active = adc.active /\ adc'.operating = adc.operating
<1> USE DEF MeterConfigInvariant
<1>0. adc \in AdcStates
  BY DEF SoundAdcStates
<1>1. CASE StartCapture
  <2>1. CASE adc.active = "physical"
    <3>1. adc' = [adc EXCEPT !.capturing["physical"] = TRUE]
      BY <1>1, <2>1 DEF StartCapture
    <3>2. adc' \in SoundAdcStates /\ adc'.active = adc.active /\ adc'.operating = adc.operating
            /\ adc'.registers = adc.registers /\ adc'.routed = adc.routed
      BY <3>1 DEF SoundAdcStates, AdcStates, Sources
    <3>3. AdcHolds(adc) => AdcHolds(adc')
      BY <2>1, <3>2 DEF AdcHolds
    <3> QED BY <1>1, <3>2, <3>3 DEF StartCapture, TransactionTyped, AdcInForce, SnapshotHolds,
                                    transaction, locals
  <2>2. CASE adc.active # "physical"
    <3>1. PICK o \in ApplySimulator(adc, TRUE, TRUE) : adc' = o.adc
      BY <1>1, <2>2 DEF StartCapture
    <3>2. /\ o \in AdcOutcomes /\ o.adc.active = adc.active
          /\ o.adc.operating = adc.operating /\ o.adc.shadow = adc.shadow
      BY <3>1, ApplyTyped
    <3>3. o.adc.selected \in {adc.selected, TRUE}
      BY <3>1, ApplyCommits
    <3>4. o.adc = adc \/ (o.adc.registers["simulator"] = adc.shadow /\ o.adc.routed = TRUE)
      BY <3>1, ApplyCommits
    <3>5. adc.active = "simulator"
      BY <1>0, <2>2 DEF AdcStates, Sources
    <3>6. adc' \in SoundAdcStates
      BY <3>1, <3>2 DEF AdcOutcomes
    <3>7. adc'.routed \in BOOLEAN
      BY <3>6 DEF SoundAdcStates, AdcStates
    <3>8. AdcHolds(adc) => AdcHolds(adc')
      BY <3>1, <3>2, <3>3, <3>4, <3>5, <3>7 DEF AdcHolds
    <3> QED BY <1>1, <3>1, <3>2, <3>6, <3>8 DEF StartCapture, TransactionTyped, AdcInForce,
                                                SnapshotHolds, transaction, locals
  <2> QED BY <2>1, <2>2
<1>2. CASE StopCapture
  <2>1. adc' \in StopActive(adc)
    BY <1>2 DEF StopCapture
  <2>2. adc' \in SoundAdcStates /\ adc'.active = adc.active /\ adc'.operating = adc.operating
          /\ (AdcHolds(adc) => AdcHolds(adc'))
    BY <2>1, StopTyped
  <2> QED BY <1>2, <2>2 DEF StopCapture, TransactionTyped, AdcInForce, SnapshotHolds,
                            transaction, locals
<1>3. CASE RunDiagnostic
  <2>1. ASSUME NEW r \in Held
        PROVE  LET a == [adc EXCEPT !.registers["physical"] = r]
               IN /\ a \in SoundAdcStates /\ a.active = adc.active
                  /\ a.operating = adc.operating /\ a.routed = adc.routed
                  /\ a.registers["physical"] = r
    BY DEF SoundAdcStates, AdcStates, Sources
  <2>2. adc.registers["physical"] \in Held /\ adc.operating["physical"] \in Held /\ Torn \in Held
    BY <1>0 DEF AdcStates, Sources, Held
  <2>3. adc.active = "physical" /\ at = "idle" /\ UNCHANGED <<meter, requests, transaction>>
    BY <1>3 DEF RunDiagnostic
  <2>4. CASE adc' = [adc EXCEPT !.registers["physical"] = adc.operating["physical"]]
               /\ UNCHANGED diagnosed
    <3>1. AdcHolds(adc) => AdcHolds(adc')
      BY <2>1, <2>2, <2>3, <2>4 DEF AdcHolds
    <3> QED BY <2>1, <2>2, <2>3, <2>4, <3>1 DEF TransactionTyped, AdcInForce, SnapshotHolds,
                                                transaction, locals
  <2>5. CASE \E r \in {adc.registers["physical"], adc.operating["physical"], Torn} :
               adc' = [adc EXCEPT !.registers["physical"] = r] /\ diagnosed' = TRUE
    BY <2>1, <2>2, <2>3, <2>5 DEF TransactionTyped, AdcInForce, SnapshotHolds,
                                  transaction, locals
  <2> QED BY <1>3, <2>4, <2>5 DEF RunDiagnostic
<1> QED BY <1>1, <1>2, <1>3

LEMMA InductiveStep == MeterConfigInvariant /\ [Next]_vars => MeterConfigInvariant'
<1> SUFFICES ASSUME MeterConfigInvariant, [Next]_vars PROVE MeterConfigInvariant'
  OBVIOUS
<1> USE DEF MeterConfigInvariant
<1>1. ASSUME NEW g \in Generations, StageProfile(g) PROVE MeterConfigInvariant'
  <2>1. g \in Recorded /\ g # Nothing
    BY GenerationAssumption DEF Recorded
  <2>2. meter' \in SoundMeterStates /\ meter'.outcome = meter.outcome
    BY <1>1, <2>1 DEF StageProfile, SoundMeterStates, MeterStates, PipelineHolds
  <2> QED BY <1>1, <2>2 DEF StageProfile, TransactionTyped, AdcInForce, SnapshotHolds,
                            transaction, locals
<1>2. ASSUME NEW s \in Sources, NEW g \in Generations, Request(s, g) PROVE MeterConfigInvariant'
  <2>1. target' \in [source : Sources, generation : Recorded]
    BY <1>2 DEF Request, Recorded
  <2>2. previous' \in [source : Sources, generation : Recorded, configuration : Recorded,
                      configured : BOOLEAN, profile : Recorded]
    BY <1>2 DEF Request, SoundAdcStates, AdcStates, SoundMeterStates, MeterStates
  <2>3. requests' \in 0 .. RequestBound
    BY <1>2, BoundAssumption DEF Request, TransactionTyped
  <2>4. SnapshotHolds'
    BY <1>2 DEF Request, SnapshotHolds, InForce, ForceMeter, Pending
  <2>5. AdcInForce'
    BY <1>2 DEF Request, AdcInForce
  <2> QED BY <1>2, <2>1, <2>2, <2>3, <2>4, <2>5 DEF Request, TransactionTyped
<1>3. ASSUME ApplyAdc PROVE MeterConfigInvariant'
  <2>1. target.source \in Sources /\ target.generation \in Recorded
    BY DEF TransactionTyped
  <2>2. PICK o \in ConfigureAdc(adc, target.source, target.generation) :
          adc' = o.adc /\ at' = IF o.ok THEN "meter" ELSE "reapply"
    BY <1>3 DEF ApplyAdc
  <2>3. /\ o \in AdcOutcomes
        /\ o.ok => /\ AdcHolds(o.adc) /\ o.adc.active = target.source
                   /\ o.adc.operating[target.source] = target.generation
    BY <2>1, AdcTyped
  <2>4. adc' \in SoundAdcStates
    BY <2>2, <2>3 DEF AdcOutcomes
  <2>5. at = "adc" /\ UNCHANGED <<meter, diagnosed, requests, locals>>
    BY <1>3 DEF ApplyAdc
  <2>6. AdcInForce'
    BY <2>2, <2>3, <2>5 DEF AdcInForce, locals
  <2>7. SnapshotHolds'
    BY <2>2, <2>5 DEF SnapshotHolds, locals
  <2> QED BY <2>2, <2>4, <2>5, <2>6, <2>7 DEF TransactionTyped, locals
<1>4. ASSUME ReapplyAdc PROVE MeterConfigInvariant'
  <2>1. previous.source \in Sources /\ previous.generation \in Recorded
    BY DEF TransactionTyped
  <2>2. PICK o \in ConfigureAdc(adc, previous.source, previous.generation) :
          adc' = o.adc /\ meter' = RecordRollback(RestoreStaged(meter), o.ok)
    BY <1>4 DEF ReapplyAdc
  <2>3. /\ o \in AdcOutcomes /\ (o.ok => AdcHolds(o.adc))
    BY <2>1, AdcTyped
  <2>4. o.ok \in BOOLEAN /\ o.adc \in SoundAdcStates
    BY <2>3 DEF AdcOutcomes
  <2>5. RestoreStaged(meter) \in SoundMeterStates
    BY RestoreTyped
  <2>6. meter' \in SoundMeterStates
    BY <2>2, <2>4, <2>5, RestoreTyped
  <2>7. meter'.outcome = IF o.ok THEN "rolled_back" ELSE "rollback_failed"
    BY <2>2, <2>5 DEF RecordRollback, SoundMeterStates, MeterStates
  <2>8. AdcInForce'
    BY <1>4, <2>2, <2>3, <2>7 DEF ReapplyAdc, Return, AdcInForce
  <2> QED BY <1>4, <2>2, <2>4, <2>6, <2>8, ReturnTyped DEF ReapplyAdc
<1>5. ASSUME ApplyMeter PROVE MeterConfigInvariant'
  <2>1. target.generation \in Recorded
    BY DEF TransactionTyped
  <2>2. PICK o \in ConfigureMeter(meter, target.generation) :
          /\ meter' = o.meter
          /\ IF o.ok THEN Return ELSE at' = "rollbackAdc" /\ UNCHANGED <<diagnosed, locals>>
    BY <1>5 DEF ApplyMeter
  <2>3. meter' \in SoundMeterStates
    BY <2>1, <2>2, MeterTyped
  <2>4. /\ meter'.staged = meter.staged
        /\ ~o.ok => meter'.profile = meter.profile
    BY <2>1, <2>2, MeterEnds
  <2>5. at = "meter" /\ UNCHANGED <<adc, requests>>
    BY <1>5 DEF ApplyMeter
  <2>6. CASE o.ok
    <3>1. Return
      BY <2>2, <2>6
    <3>2. AdcInForce'
      BY <2>5, <3>1 DEF Return, AdcInForce
    <3> QED BY <2>3, <2>5, <3>1, <3>2, ReturnTyped
  <2>7. CASE ~o.ok
    <3>1. at' = "rollbackAdc" /\ UNCHANGED <<diagnosed, locals>>
      BY <2>2, <2>7
    <3>2. AdcInForce'
      BY <3>1 DEF AdcInForce
    <3>3. SnapshotHolds'
      BY <2>4, <2>5, <2>7, <3>1 DEF SnapshotHolds, locals
    <3>4. TransactionTyped'
      BY <2>5, <3>1 DEF TransactionTyped, locals
    <3> QED BY <2>3, <2>5, <3>2, <3>3, <3>4
  <2> QED BY <2>6, <2>7
<1>6. ASSUME RollBackAdc PROVE MeterConfigInvariant'
  <2>1. previous.source \in Sources /\ previous.generation \in Recorded
    BY DEF TransactionTyped
  <2>2. PICK o \in ConfigureAdc(adc, previous.source, previous.generation) :
          adc' = o.adc /\ restored' = o.ok
    BY <1>6 DEF RollBackAdc
  <2>3. /\ o \in AdcOutcomes
        /\ o.ok => /\ AdcHolds(o.adc) /\ o.adc.active = previous.source
                   /\ o.adc.operating[previous.source] = previous.generation
    BY <2>1, AdcTyped
  <2>4. adc' \in SoundAdcStates /\ restored' \in BOOLEAN
    BY <2>2, <2>3 DEF AdcOutcomes
  <2>5. /\ meter' = RestoreStaged(meter) /\ at = "rollbackAdc" /\ at' = "rollbackMeter"
        /\ UNCHANGED <<target, previous, diagnosed, requests, before>>
    BY <1>6 DEF RollBackAdc
  <2>6. meter' \in SoundMeterStates
    BY <2>5, RestoreTyped
  <2>7. meter'.profile = meter.profile /\ meter'.staged = meter.profile
    BY <2>5 DEF RestoreStaged, SoundMeterStates, MeterStates
  <2>8. AdcInForce'
    BY <2>2, <2>3, <2>5 DEF AdcInForce
  <2>9. SnapshotHolds'
    BY <2>5, <2>7 DEF SnapshotHolds
  <2> QED BY <2>4, <2>5, <2>6, <2>8, <2>9 DEF TransactionTyped
<1>7. ASSUME RollBackMeter PROVE MeterConfigInvariant'
  <2> DEFINE staged == IF previous.profile = Nothing THEN meter
                       ELSE [meter EXCEPT !.staged = previous.profile]
  <2>1. previous.profile \in Recorded /\ previous.configuration \in Recorded
    BY DEF TransactionTyped
  <2>2. staged \in SoundMeterStates
    BY <2>1 DEF SoundMeterStates, MeterStates, PipelineHolds
  <2>3. at = "rollbackMeter" /\ Return /\ UNCHANGED <<adc, requests>>
    BY <1>7 DEF RollBackMeter
  <2>4. restored \in BOOLEAN
    BY DEF TransactionTyped
  <2> HIDE DEF staged
  <2>5. ASSUME previous.configured
        PROVE  meter' \in SoundMeterStates /\ (meter'.outcome = "rolled_back" => restored)
                 /\ meter'.outcome # "success"
    <3>1. PICK o \in ConfigureMeter(staged, previous.configuration) :
            meter' = RecordRollback(o.meter, restored /\ o.ok)
      BY <1>7, <2>5, Zenon DEF RollBackMeter, staged
    <3>2. o.ok \in BOOLEAN /\ o.meter \in SoundMeterStates
      BY <2>1, <2>2, <3>1, MeterTyped
    <3> DEFINE ok == restored /\ o.ok
    <3>3. ok \in BOOLEAN /\ (ok => restored)
      BY Zenon
    <3> HIDE DEF ok
    <3>4. meter' = RecordRollback(o.meter, ok)
      BY <3>1 DEF ok
    <3>5. meter'.outcome = IF ok THEN "rolled_back" ELSE "rollback_failed"
      BY <3>2, <3>4 DEF RecordRollback, SoundMeterStates, MeterStates
    <3> QED BY <3>2, <3>3, <3>4, <3>5, RestoreTyped
  <2>6. ASSUME ~previous.configured
        PROVE  meter' \in SoundMeterStates /\ meter'.outcome = "rollback_failed"
    <3>1. meter' = RecordRollback(meter, FALSE)
      BY <1>7, <2>6 DEF RollBackMeter
    <3> QED BY <3>1, RestoreTyped DEF RecordRollback, SoundMeterStates, MeterStates
  <2>7. meter' \in SoundMeterStates
    BY <2>5, <2>6
  <2>8. AdcInForce'
    BY <2>3, <2>5, <2>6 DEF Return, AdcInForce
  <2> QED BY <2>3, <2>7, <2>8, ReturnTyped
<1>8. ASSUME StartCapture \/ StopCapture \/ RunDiagnostic PROVE MeterConfigInvariant'
  BY <1>8, BetweenRequests
<1>9. CASE UNCHANGED vars
  BY <1>9 DEF vars, TransactionTyped, AdcInForce, SnapshotHolds, transaction, locals
<1> QED BY <1>1, <1>2, <1>3, <1>4, <1>5, <1>6, <1>7, <1>8, <1>9 DEF Next

(* The invariant holds throughout. *)
THEOREM MeterConfigSound == Spec => []MeterConfigInvariant
BY InitialState, InductiveStep, PTL DEF Spec

(* Every variable keeps its type, for every set of configurations. *)
THEOREM MeterConfigTypes == Spec => []TypeOK
<1>1. MeterConfigInvariant => TypeOK
  BY DEF MeterConfigInvariant, TransactionTyped, SoundAdcStates, SoundMeterStates, TypeOK
<1> QED BY <1>1, MeterConfigSound, PTL

(* MeteringPipeline::configured() is true only while both cores and, if a  *)
(* profile is active, the profile engines hold what status() names: also   *)
(* between the calls of a transaction and after any number of failures.    *)
THEOREM ConfiguredIsBacked == Spec => []ConfiguredIsInForce
<1>1. MeterConfigInvariant => ConfiguredIsInForce
  <2> SUFFICES ASSUME MeterConfigInvariant, meter.configured
               PROVE  InForce.meter # Unknown
    BY DEF ConfiguredIsInForce
  <2>1. InForce.meter = [configuration |-> meter.configuration, profile |-> meter.profile]
    BY DEF MeterConfigInvariant, SoundMeterStates, PipelineHolds, InForce
  <2>2. "source" \notin DOMAIN InForce.meter /\ "source" \in DOMAIN Unknown
    BY <2>1 DEF Unknown
  <2> QED BY <2>2
<1> QED BY <1>1, MeterConfigSound, PTL

(* After a request that was accepted or rolled back, and until a diagnostic *)
(* fails, the source that captures is the one AdcController reports, at the *)
(* operating point it reports, whatever failed before that request and      *)
(* however often captures were started and stopped since.                   *)
THEOREM CapturesAreTrue == Spec => []CapturesWhatIsReported
<1>1. MeterConfigInvariant => CapturesWhatIsReported
  <2> SUFFICES ASSUME MeterConfigInvariant, at = "idle", ~diagnosed,
                      meter.outcome \in {"success", "rolled_back"}
               PROVE  InForce.adc # Unknown
    BY DEF CapturesWhatIsReported
  <2>1. AdcHolds(adc)
    BY DEF MeterConfigInvariant, AdcInForce
  <2>2. InForce.adc = [source |-> adc.active, generation |-> adc.operating[adc.active]]
    BY <2>1 DEF AdcHolds, InForce
  <2>3. "generation" \in DOMAIN InForce.adc /\ "generation" \notin DOMAIN Unknown
    BY <2>2 DEF Unknown
  <2> QED BY <2>3
<1> QED BY <1>1, MeterConfigSound, PTL

--------------------------------------------------------------------------------
(* The refinement: what Linux sees of a transaction is one step.           *)
ForceAdc(a) ==
  IF a.routed = (a.active = "simulator") /\ a.registers[a.active] = a.operating[a.active]
  THEN [source |-> a.active, generation |-> a.operating[a.active]]
  ELSE Unknown

LEMMA InForceFields ==
  /\ InForce.adc = ForceAdc(adc) /\ InForce.meter = ForceMeter(meter)
  /\ InForce.pending = Pending(meter) /\ InForce.outcome = meter.outcome
BY DEF InForce, ForceAdc, ForceMeter, Pending

LEMMA InForceFieldsAfter ==
  /\ InForce'.adc = ForceAdc(adc') /\ InForce'.meter = ForceMeter(meter')
  /\ InForce'.pending = Pending(meter') /\ InForce'.outcome = meter'.outcome
BY DEF InForce, ForceAdc, ForceMeter, Pending

LEMMA HeldIsForce ==
  ASSUME NEW a, AdcHolds(a)
  PROVE  ForceAdc(a) = [source |-> a.active, generation |-> a.operating[a.active]]
BY DEF AdcHolds, ForceAdc

(* Inside of a transaction Linux sees what was in force before it.         *)
LEMMA StepsInside ==
  ASSUME MeterConfigInvariant, at' # "idle",
         (at # "idle" /\ before' = before) \/ (at = "idle" /\ before' = InForce)
  PROVE  UNCHANGED Atomic!vars
BY DEF Atomic!vars, visible

LEMMA InitialRefinement == Init => Atomic!Init
<1> SUFFICES ASSUME Init PROVE Atomic!Init
  OBVIOUS
<1>1. at = "idle" /\ visible = InForce
  BY DEF Init, visible
<1>2. PICK ready \in [Sources -> BOOLEAN] :
        adc = [active |-> "physical", ready |-> ready,
               operating |-> [s \in Sources |-> Nothing],
               capturing |-> [s \in Sources |-> FALSE],
               registers |-> [physical |-> IF ready["physical"] THEN Nothing ELSE Torn,
                              simulator |-> Nothing],
               shadow |-> Nothing, selected |-> FALSE, routed |-> FALSE]
  BY DEF Init
<1>3. adc.active = "physical" /\ adc.operating["physical"] = Nothing
  BY <1>2 DEF Sources
<1>4. ForceAdc(adc) \in {[source |-> "physical", generation |-> Nothing], Unknown}
  BY <1>3 DEF ForceAdc
<1>5. ForceMeter(meter) = Unknown /\ Pending(meter) = Nothing /\ meter.outcome = "none"
  BY DEF Init, ForceMeter, Pending
<1> QED BY <1>1, <1>4, <1>5, InForceFields DEF Atomic!Init

(* An accepted request: both paths hold the generation it names, and the    *)
(* profile is the one that was staged.                                      *)
LEMMA AcceptRefined ==
  ASSUME MeterConfigInvariant, ApplyMeter
  PROVE  Atomic!Next \/ UNCHANGED Atomic!vars
<1> USE DEF MeterConfigInvariant
<1>1. PICK o \in ConfigureMeter(meter, target.generation) :
        /\ meter' = o.meter
        /\ IF o.ok THEN Return ELSE at' = "rollbackAdc" /\ UNCHANGED <<diagnosed, locals>>
  BY DEF ApplyMeter
<1>2. at = "meter" /\ adc' = adc
  BY DEF ApplyMeter
<1>3. target.generation \in Recorded /\ target.source \in Sources
  BY DEF TransactionTyped
<1>4. CASE ~o.ok
  BY <1>1, <1>2, <1>4, StepsInside DEF locals
<1>5. CASE o.ok
  <2> DEFINE s == target.source
             g == target.generation
             p == meter.staged
  <2>1. Return
    BY <1>1, <1>5
  <2>2. /\ meter'.configured /\ meter'.configuration = g /\ meter'.profile = p
        /\ p \in {Nothing, g} /\ meter'.outcome \in {"success", "rolled_back"}
        /\ meter'.staged = p
    BY <1>1, <1>3, <1>5, MeterEnds
  <2>3. meter' \in SoundMeterStates
    BY <1>1, <1>3, MeterTyped
  <2>4. ForceMeter(meter') = [configuration |-> g, profile |-> p]
    BY <2>2, <2>3 DEF SoundMeterStates, PipelineHolds, ForceMeter
  <2>5. ForceAdc(adc') = [source |-> s, generation |-> g]
    BY <1>2, HeldIsForce DEF AdcInForce
  <2>6. g \in Generations /\ before.pending = Pending(meter)
    BY <1>2 DEF SnapshotHolds
  <2>7. before.pending \in {p, Nothing}
    BY <2>6 DEF Pending
  <2>8. visible' = InForce' /\ visible = before
    BY <1>2, <2>1 DEF visible, Return
  <2>9. Pending(meter') = Nothing
    BY <2>2 DEF Pending
  <2>10. /\ visible'.adc = [source |-> s, generation |-> g]
         /\ visible'.meter = [configuration |-> g, profile |-> p]
         /\ visible'.pending = Nothing /\ visible'.outcome \in {"success", "rolled_back"}
    BY <2>2, <2>4, <2>5, <2>8, <2>9, InForceFieldsAfter
  <2>11. Atomic!Accept(s, g)
    BY <2>2, <2>7, <2>8, <2>10 DEF Atomic!Accept
  <2> QED BY <1>3, <2>6, <2>11 DEF Atomic!Next
<1> QED BY <1>4, <1>5

(* A rollback that says it succeeded has brought back what was in force.   *)
LEMMA ReapplyRefined ==
  ASSUME MeterConfigInvariant, ReapplyAdc
  PROVE  Atomic!Next
<1> USE DEF MeterConfigInvariant
<1>1. PICK o \in ConfigureAdc(adc, previous.source, previous.generation) :
        adc' = o.adc /\ meter' = RecordRollback(RestoreStaged(meter), o.ok)
  BY DEF ReapplyAdc
<1>2. at = "reapply" /\ Return
  BY DEF ReapplyAdc
<1>3. previous.source \in Sources /\ previous.generation \in Recorded
  BY DEF TransactionTyped
<1>4. visible' = InForce' /\ visible = before
  BY <1>2 DEF visible, Return
<1>5. /\ meter'.configured = meter.configured /\ meter'.conversion = meter.conversion
      /\ meter'.processing = meter.processing /\ meter'.configuration = meter.configuration
      /\ meter'.profile = meter.profile /\ meter'.profiles = meter.profiles
      /\ meter'.staged = meter.profile
      /\ meter'.outcome = IF o.ok THEN "rolled_back" ELSE "rollback_failed"
  BY <1>1 DEF RecordRollback, RestoreStaged, SoundMeterStates, MeterStates
<1>6. ForceMeter(meter') = ForceMeter(meter)
  BY <1>5 DEF ForceMeter
<1>7. Pending(meter') = Nothing
  BY <1>5 DEF Pending
<1>8. before.meter = ForceMeter(meter)
  BY <1>2 DEF SnapshotHolds
<1>9. CASE o.ok
  <2>1. AdcHolds(o.adc) /\ o.adc.active = previous.source
          /\ o.adc.operating[previous.source] = previous.generation
    BY <1>3, <1>9, AdcTyped
  <2>2. ForceAdc(adc') = [source |-> previous.source, generation |-> previous.generation]
    BY <1>1, <2>1, HeldIsForce
  <2>3. before.adc \in {Unknown, [source |-> previous.source, generation |-> previous.generation]}
    BY <1>2 DEF SnapshotHolds
  <2> QED BY <1>4, <1>5, <1>6, <1>7, <1>8, <1>9, <2>2, <2>3, InForceFieldsAfter
          DEF Atomic!RollBack, Atomic!Next
<1>10. CASE ~o.ok
  BY <1>4, <1>5, <1>7, <1>10, InForceFieldsAfter DEF Atomic!RollBackFails, Atomic!Next
<1> QED BY <1>9, <1>10

LEMMA RollBackRefined ==
  ASSUME MeterConfigInvariant, RollBackMeter
  PROVE  Atomic!Next
<1> USE DEF MeterConfigInvariant
<1> DEFINE staged == IF previous.profile = Nothing THEN meter
                     ELSE [meter EXCEPT !.staged = previous.profile]
<1>1. at = "rollbackMeter" /\ Return /\ adc' = adc
  BY DEF RollBackMeter
<1>2. previous.profile \in Recorded /\ previous.configuration \in Recorded /\ restored \in BOOLEAN
  BY DEF TransactionTyped
<1>3. visible' = InForce' /\ visible = before
  BY <1>1 DEF visible, Return
<1>4. /\ before.adc \in {Unknown, [source |-> previous.source, generation |-> previous.generation]}
      /\ before.meter \in {Unknown, [configuration |-> previous.configuration,
                                     profile |-> previous.profile]}
      /\ meter.profile = previous.profile /\ meter.staged = meter.profile
  BY <1>1 DEF SnapshotHolds
<1>5. /\ staged \in SoundMeterStates /\ staged.staged = previous.profile
      /\ staged.profile = previous.profile
  BY <1>2, <1>4 DEF SoundMeterStates, MeterStates, PipelineHolds
<1> HIDE DEF staged
<1>6. CASE previous.configured
  <2>1. PICK o \in ConfigureMeter(staged, previous.configuration) :
          meter' = RecordRollback(o.meter, restored /\ o.ok)
    BY <1>6, Zenon DEF RollBackMeter, staged
  <2>2. o.ok \in BOOLEAN /\ o.meter \in SoundMeterStates
    BY <1>2, <1>5, <2>1, MeterTyped
  <2>3. /\ o.meter.staged = previous.profile
        /\ ~o.ok => o.meter.profile = previous.profile
        /\ o.ok => /\ o.meter.configured /\ o.meter.configuration = previous.configuration
                   /\ o.meter.profile = previous.profile
    BY <1>2, <1>5, <2>1, MeterEnds
  <2> DEFINE ok == restored /\ o.ok
  <2>4. ok \in BOOLEAN /\ (ok => restored /\ o.ok)
    BY Zenon
  <2>5. meter' = RecordRollback(o.meter, ok)
    BY <2>1
  <2> HIDE DEF ok
  <2>6. /\ meter'.staged = previous.profile /\ meter'.profile = previous.profile
        /\ meter'.outcome = IF ok THEN "rolled_back" ELSE "rollback_failed"
        /\ ok => meter'.configured /\ meter'.configuration = previous.configuration
    BY <2>2, <2>3, <2>4, <2>5 DEF RecordRollback, SoundMeterStates, MeterStates
  <2>7. meter' \in SoundMeterStates
    BY <2>2, <2>4, <2>5, RestoreTyped
  <2>8. Pending(meter') = Nothing
    BY <2>6 DEF Pending
  <2>9. CASE ok
    <3>1. ForceMeter(meter') = [configuration |-> previous.configuration,
                                profile |-> previous.profile]
      BY <2>6, <2>7, <2>9 DEF ForceMeter, SoundMeterStates, PipelineHolds
    <3>2. ForceAdc(adc') = [source |-> previous.source, generation |-> previous.generation]
      BY <1>1, <2>4, <2>9, HeldIsForce DEF AdcInForce
    <3> QED BY <1>3, <1>4, <2>6, <2>8, <2>9, <3>1, <3>2, InForceFieldsAfter
            DEF Atomic!RollBack, Atomic!Next
  <2>10. CASE ~ok
    BY <1>3, <2>6, <2>8, <2>10, InForceFieldsAfter DEF Atomic!RollBackFails, Atomic!Next
  <2> QED BY <2>9, <2>10
<1>7. CASE ~previous.configured
  <2>1. meter' = RecordRollback(meter, FALSE)
    BY <1>7 DEF RollBackMeter
  <2>2. /\ meter'.staged = meter.staged /\ meter'.profile = meter.profile
        /\ meter'.outcome = "rollback_failed"
    BY <2>1 DEF RecordRollback, SoundMeterStates, MeterStates
  <2>3. Pending(meter') = Nothing
    BY <1>4, <2>2 DEF Pending
  <2> QED BY <1>3, <2>2, <2>3, InForceFieldsAfter DEF Atomic!RollBackFails, Atomic!Next
<1> QED BY <1>6, <1>7

LEMMA DisturbRefined ==
  ASSUME MeterConfigInvariant, StartCapture \/ StopCapture \/ RunDiagnostic
  PROVE  Atomic!Next \/ UNCHANGED Atomic!vars
<1>1. at = "idle" /\ at' = "idle" /\ meter' = meter
  BY DEF StartCapture, StopCapture, RunDiagnostic, transaction
<1>2. visible' = InForce' /\ visible = InForce
  BY <1>1 DEF visible
<1>3. adc'.active = adc.active /\ adc'.operating = adc.operating
  BY BetweenRequests
<1>4. ForceAdc(adc) = Unknown \/ ForceAdc(adc') = Unknown \/ ForceAdc(adc') = ForceAdc(adc)
  BY <1>3 DEF ForceAdc
<1>5. UNCHANGED <<visible.meter, visible.pending, visible.outcome>>
  BY <1>1, <1>2, InForceFields, InForceFieldsAfter
<1>6. visible.adc = Unknown \/ visible'.adc = Unknown \/ visible'.adc = visible.adc
  BY <1>2, <1>4, InForceFields, InForceFieldsAfter
<1> QED BY <1>5, <1>6 DEF Atomic!Disturb, Atomic!Next, Atomic!vars

LEMMA StageRefined ==
  ASSUME MeterConfigInvariant, NEW g \in Generations, StageProfile(g)
  PROVE  Atomic!Next
<1>1. at = "idle" /\ at' = "idle" /\ adc' = adc /\ meter' = [meter EXCEPT !.staged = g]
  BY DEF StageProfile, transaction
<1>2. visible' = InForce' /\ visible = InForce
  BY <1>1 DEF visible
<1>3. /\ ForceMeter(meter') = ForceMeter(meter) /\ meter'.outcome = meter.outcome
  BY <1>1 DEF ForceMeter, MeterConfigInvariant, SoundMeterStates, MeterStates
<1>4. visible'.adc = visible.adc /\ visible'.meter = visible.meter
        /\ visible'.outcome = visible.outcome
  BY <1>1, <1>2, <1>3, InForceFields, InForceFieldsAfter
<1> QED BY <1>4 DEF Atomic!Stage, Atomic!Withdraw, Atomic!Next

LEMMA StepRefinement ==
  MeterConfigInvariant /\ [Next]_vars => [Atomic!Next]_(Atomic!vars)
<1> SUFFICES ASSUME MeterConfigInvariant, [Next]_vars
             PROVE  Atomic!Next \/ UNCHANGED Atomic!vars
  OBVIOUS
<1>1. ASSUME NEW g \in Generations, StageProfile(g)
      PROVE  Atomic!Next
  BY <1>1, StageRefined
<1>2. ASSUME NEW s \in Sources, NEW g \in Generations, Request(s, g)
      PROVE  UNCHANGED Atomic!vars
  BY <1>2, StepsInside DEF Request
<1>3. CASE ApplyAdc
  BY <1>3, StepsInside DEF ApplyAdc, locals
<1>4. CASE RollBackAdc
  BY <1>4, StepsInside DEF RollBackAdc
<1>5. CASE UNCHANGED vars
  <2>1. UNCHANGED visible
    BY <1>5 DEF vars, transaction, locals, visible, InForce
  <2> QED BY <2>1 DEF Atomic!vars
<1> QED BY <1>1, <1>2, <1>3, <1>4, <1>5, ReapplyRefined, AcceptRefined, RollBackRefined,
           DisturbRefined DEF Next

(* With any set of configurations, and whatever parts of a request and of   *)
(* its rollback fail: seen from Linux METER_CONFIG_SET takes effect as a    *)
(* whole, or leaves what was in force, or says that the rollback failed.    *)
THEOREM TransactionIsAtomic == Spec => ImplementsAtomicChange
BY InitialRefinement, StepRefinement, MeterConfigSound, PTL
   DEF Spec, ImplementsAtomicChange, Atomic!Spec
================================================================================
