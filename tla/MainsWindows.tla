------------------------------ MODULE MainsWindows ------------------------------
(***************************************************************************)
(* MainsSignalEngine: the same batches of voltage samples make one record  *)
(* of the signalling carrier per observation window of 200 ms.  The model  *)
(* keeps the window's extent and flags; the correlations are left out, and *)
(* the three phases are one.                                               *)
(***************************************************************************)
EXTENDS FlickerIntervals

CONSTANT WindowBatches   \* observation_samples_

ASSUME WindowLengthAssumption == WindowBatches \in Nat \ {0}

VARIABLE mains   \* MainsSignalEngine: configuration, window, pending_discontinuity_

EmptyWindow == [span |-> 0, first |-> 0, valid |-> TRUE]

InitMains ==
  mains = [active |-> NoFrame, sequence |-> NoFrame, newest |-> NoFrame,
           window |-> EmptyWindow, discontinuity |-> TRUE, records |-> <<>>]

(* reset_signal_path.                                                       *)
ResetUnmarked(m, contaminated) ==
  [m EXCEPT !.window = EmptyWindow, !.newest = NoFrame]
ResetSignalPath(m, contaminated) ==
  [m EXCEPT !.window = EmptyWindow, !.newest = NoFrame, !.discontinuity = @ \/ contaminated]

(* apply_matching_configuration.                                            *)
MainsMatches(m, frame) == frame.generation \in {m.active, stream.staged}
MainsConfigured(m, frame) ==
  IF m.active = frame.generation THEN m
  ELSE ResetSignalPath([m EXCEPT !.active = frame.generation, !.sequence = NoFrame], TRUE)

(* complete_window and emit: the record takes the mark with it.             *)
CompleteWindow(m, last) ==
  IF m.window.span < WindowBatches THEN m
  ELSE [m EXCEPT !.records = Append(@, [channel |-> "window", kind |-> "mains",
                                        valid |-> m.window.valid, first |-> m.window.first,
                                        last |-> last, marked |-> m.discontinuity]),
                 !.discontinuity = FALSE, !.window = EmptyWindow]

(* process_sample.                                                          *)
MainsSample(m, frame) ==
  LET jumped == m.newest # NoFrame /\ frame.sample # m.newest + 1
      base == [(IF jumped THEN ResetSignalPath(m, TRUE) ELSE m) EXCEPT !.newest = frame.sample]
      window == [base.window EXCEPT
                   !.span = @ + 1,
                   !.first = IF base.window.span = 0 THEN frame.sample ELSE @,
                   !.valid = @ /\ "invalid" \notin frame.flags]
  IN IF "malformed" \in frame.flags
     THEN [ResetSignalPath(base, TRUE) EXCEPT !.newest = frame.sample]
     ELSE CompleteWindow([base EXCEPT !.window = window], frame.sample)

(* process().  A batch with the number of the last one is not measured, and *)
(* leaves the pending discontinuity where it is.                           *)
MainsGap(m, frame) == m.sequence # NoFrame /\ frame.sequence # m.sequence + 1

MainsHole(m, frame) == external \/ MainsGap(m, frame) \/ "drop" \in frame.flags

MainsMeasured(m, frame) ==
  LET hole == MainsHole(m, frame)
      ready == IF hole \/ "disc" \in frame.flags THEN ResetSignalPath(m, hole) ELSE m
      sampled == MainsSample([ready EXCEPT !.sequence = frame.sequence], frame)
  IN IF "drop" \in frame.flags THEN ResetSignalPath(sampled, TRUE) ELSE sampled

(* A batch with the discontinuity bit alone has its jump of the samples     *)
(* forgotten: the path is reset without a mark, and the last sample with   *)
(* it, before process_sample could compare.  The window behind this loss   *)
(* goes out unmarked, a defect of the code: nothing is owed for it here.   *)
JumpForgotten(m, frame) ==
  /\ "disc" \in frame.flags /\ ~MainsHole(m, frame)
  /\ m.newest # NoFrame /\ frame.sample # m.newest + 1
MainsHeard(m, frame) ==
  IF JumpForgotten(m, frame) THEN [Heard(frame) EXCEPT !.owed = Owing] ELSE Heard(frame)

MainsProcess(frame) ==
  LET configured == MainsConfigured(mains, frame)
      m == MainsMeasured(configured, frame)
  IN IF ~MainsMatches(mains, frame)
     THEN /\ external' = TRUE
          /\ records' = <<>>
          /\ track' = Unheard
          /\ UNCHANGED mains
     ELSE IF frame.sequence = configured.sequence
     THEN /\ mains' = configured
          /\ records' = <<>>
          /\ track' = [track EXCEPT !.owed = Owing]
          /\ UNCHANGED external
     ELSE /\ external' = FALSE
          /\ mains' = [m EXCEPT !.records = <<>>]
          /\ records' = m.records
          /\ track' = IF "malformed" \in frame.flags THEN Unheard
                       ELSE MainsHeard(configured, frame)

MainsNext ==
  \/ \E frame \in Arriving(MaxBatches, BatchFlaws) : MainsProcess(frame) /\ Sent(frame)
  \/ LoseStreamFrames(MaxBatches, {1}) /\ UNCHANGED mains
  \/ StreamInterference /\ UNCHANGED mains
================================================================================
