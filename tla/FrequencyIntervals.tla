--------------------------- MODULE FrequencyIntervals ---------------------------
(***************************************************************************)
(* Frequency10sEngine: one observation of ten seconds per frame, one       *)
(* record per observation.  Observations that were lost are answered with  *)
(* placeholders computed from the last one, up to a limit beyond which the *)
(* engine fails.  The arithmetic of the frequency is left out.             *)
(***************************************************************************)
EXTENDS PqEventLifecycle

CONSTANTS
  MaxPlaceholders,   \* maximum_gap_placeholders (64)
  MaxObservations    \* bound of the model: observations the PL makes

ASSUME FrequencyAssumption ==
  MaxPlaceholders \in Nat /\ MaxObservations \in Nat \ {0}

VARIABLES
  frequency,   \* Frequency10sEngine: ready_, last_sequence_, last_interval_
  published    \* auxiliary: number of the last record before the last step

frequencyVars == <<frequency, published>>

InitFrequency ==
  /\ frequency = [ready |-> TRUE, sequence |-> NoFrame, last |-> NoFrame]
  /\ published = NoFrame

(* build_record, as far as it tells a valid result from an invalid one.     *)
Observation(sequence, sample, gap, broken) ==
  [channel |-> "interval", kind |-> "frequency", sequence |-> sequence,
   valid |-> ~gap /\ ~broken, first |-> sample, last |-> sample, marked |-> gap \/ broken]

(* publish_gap: the observations that did not come, one after the other.    *)
Placeholder(f, ordinal) == Observation(f.sequence + ordinal, f.last + ordinal, TRUE, FALSE)
Missing(f, frame) == IF f.sequence = NoFrame THEN 0 ELSE frame.sequence - f.sequence - 1

(* process().  remember() keeps the interval of the frame.                  *)
AnsweredShort(f, frame) ==
  [i \in 1 .. Missing(f, frame) - 1 |-> Placeholder(f, i)] \o
  <<Observation(frame.sequence, frame.sample, external \/ Missing(f, frame) > 0,
                "disc" \in frame.flags)>>
Answered(f, frame) ==
  [i \in 1 .. Missing(f, frame) |-> Placeholder(f, i)] \o
  <<Observation(frame.sequence, frame.sample, external \/ Missing(f, frame) > 0,
                "disc" \in frame.flags)>>

Quiet == records' = <<>> /\ track' = [track EXCEPT !.owed = Owing]

FrequencyProcess(frame) ==
  /\ published' = IF records = <<>> THEN published ELSE records[Len(records)].sequence
  /\ IF ~frequency.ready
     THEN Quiet /\ UNCHANGED <<external, frequency>>
     ELSE /\ external' = FALSE
          /\ IF Missing(frequency, frame) < 0
             THEN Quiet /\ UNCHANGED frequency
             ELSE IF Missing(frequency, frame) > MaxPlaceholders
             THEN Quiet /\ frequency' = [frequency EXCEPT !.ready = FALSE]
             ELSE /\ records' = Answered(frequency, frame)
                  /\ track' = Heard(frame)
                  /\ frequency' = [frequency EXCEPT !.sequence = frame.sequence,
                                                    !.last = frame.sample]

FrequencyRests ==
  /\ published' = IF records' = records \/ records = <<>> THEN published
                  ELSE records[Len(records)].sequence
  /\ UNCHANGED frequency

FrequencyNext ==
  \/ \E frame \in Arriving(MaxObservations, {{"disc"}, {"disc", "jump"}}) : FrequencyProcess(frame) /\ Sent(frame)
  \/ LoseStreamFrames(MaxObservations, {1, MaxPlaceholders + 1}) /\ FrequencyRests
  \/ NoteDiscontinuity /\ FrequencyRests
================================================================================
