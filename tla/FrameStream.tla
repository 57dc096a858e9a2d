------------------------------ MODULE FrameStream ------------------------------
(***************************************************************************)
(* What the engines beside R5AggregationEngine have in common: the PL      *)
(* sends each of them numbered frames that continue one another; frames    *)
(* and samples can be lost, a frame can arrive twice, AGG_RX or AGG_VAL    *)
(* can report a discontinuity at any time, and Linux stages configurations *)
(* that the PL adopts.  A frame is the unit of the sample counter.  One of *)
(* these engines runs at a time: they share nothing but the record ring,   *)
(* which is in AggregationOutput with what a refused record does to them.  *)
(***************************************************************************)
EXTENDS Integers, Sequences

CONSTANT MaxFaults   \* bound of the model: everything that is not a plain frame

ASSUME FaultAssumption == MaxFaults \in Nat

VARIABLES
  stream,    \* the PL and Linux: next number and sample, generations, faults left
  external,  \* external_discontinuity_ / transport_discontinuity_pending_
  records,   \* the records published by the last step, in order
  track      \* auxiliary: since when the engine has heard every sample

streamVars == <<stream, external, records, track>>

NoFrame == -1       \* no number, no sample, no generation

(* Parts of an engine that publish records of their own.                    *)
Channels == {"live", "interval", "window", "event", "three", "ten", "two"}

InitStream ==
  /\ stream = [next |-> 0, sample |-> 0, generation |-> 1, staged |-> 0,
               newest |-> [sequence |-> NoFrame], faults |-> MaxFaults]
  /\ external = FALSE
  /\ records = <<>>
  /\ track = [since |-> NoFrame, next |-> NoFrame, owed |-> {}]

PlainFrame(jump, flags) ==
  [sequence |-> stream.next, sample |-> stream.sample + jump,
   generation |-> stream.generation, flags |-> flags]

(* Nothing is heard of a frame the engine does not measure.  Once it has    *)
(* heard one, a channel is owed a mark from a loss to its next record.     *)
Owing == track.owed \ {records[i].channel : i \in DOMAIN records}
Heard(frame) ==
  IF frame.sample = track.next
  THEN [since |-> track.since, next |-> frame.sample + 1, owed |-> Owing]
  ELSE [since |-> frame.sample, next |-> frame.sample + 1,
        owed |-> IF track.since = NoFrame THEN {} ELSE Channels]
Unheard == [track EXCEPT !.next = NoFrame, !.owed = Owing]

Faulty == stream.faults > 0
Fault(s) == [s EXCEPT !.faults = @ - 1]

(* A frame arrives: as it should, with a flaw, or the newest one again.     *)
Plain(limit) == IF stream.next < limit THEN {PlainFrame(0, {})} ELSE {}
Flawed(limit, flaws) ==
  {PlainFrame(IF flags \cap {"jump", "drop"} = {} THEN 0 ELSE 1, flags) :
     flags \in {flags \in flaws : Faulty /\ stream.next < limit}}
Again == {frame \in {stream.newest} : Faulty /\ frame.sequence # NoFrame}

Arriving(limit, flaws) == Plain(limit) \cup Flawed(limit, flaws) \cup Again

Sent(frame) ==
  LET faults == stream.faults - (IF frame.flags = {} /\ frame # stream.newest THEN 0 ELSE 1)
  IN stream' = IF frame = stream.newest THEN [stream EXCEPT !.faults = faults]
               ELSE [stream EXCEPT !.next = @ + 1, !.sample = frame.sample + 1,
                                   !.newest = frame, !.faults = faults]

LoseStreamFrames(limit, counts) ==
  /\ Faulty
  /\ \E count \in counts :
       /\ stream.next + count < limit
       /\ stream' = Fault([stream EXCEPT !.next = @ + count, !.sample = @ + count])
  /\ records' = <<>> /\ track' = [track EXCEPT !.owed = Owing]
  /\ UNCHANGED external

(* note_transport_discontinuity.  One that comes between an engine's test   *)
(* of the flag and its clearing is lost, as if it had not come.            *)
NoteDiscontinuity ==
  /\ Faulty /\ ~external
  /\ external' = TRUE
  /\ stream' = Fault(stream)
  /\ UNCHANGED <<records, track>>

(* Linux stages the next configuration and the PL adopts it, in either      *)
(* order; the first staging costs nothing.                                 *)
StageConfiguration ==
  /\ stream.staged <= stream.generation
  /\ stream.staged = 0 \/ Faulty
  /\ stream' = IF stream.staged = 0 THEN [stream EXCEPT !.staged = 1]
               ELSE Fault([stream EXCEPT !.staged = @ + 1])
  /\ UNCHANGED <<external, records, track>>

AdoptGeneration ==
  /\ Faulty /\ stream.generation <= stream.staged
  /\ stream' = Fault([stream EXCEPT !.generation = @ + 1])
  /\ UNCHANGED <<external, records, track>>

StreamInterference == NoteDiscontinuity \/ StageConfiguration \/ AdoptGeneration
================================================================================
