---------------------------- MODULE FlickerIntervals ----------------------------
(***************************************************************************)
(* FlickerEngine: batches of voltage samples become a live record every    *)
(* second, a Pst record every ten minutes of settled signal and, after     *)
(* twelve consecutive valid Pst, a Plt record.  The model keeps which      *)
(* samples an interval covers and what makes it invalid; the filters and   *)
(* the classifier are left out, and the three phases are one: a sample     *)
(* whose phase is invalid and one that leaves the classifier's range spoil *)
(* their interval in the same way.  A batch is one decimated sample.       *)
(***************************************************************************)
EXTENDS FrameStream

CONSTANTS
  SettlingBatches,   \* settling_seconds
  LiveBatches,       \* internal_rate_hz: a second
  IntervalBatches,   \* classifier_samples: ten minutes
  PltPeriods,        \* plt_periods (12)
  MaxBatches         \* bound of the model: batches the PL sends

ASSUME FlickerAssumption ==
  {SettlingBatches, LiveBatches, IntervalBatches, PltPeriods, MaxBatches} \subseteq Nat \ {0}

VARIABLE flicker   \* FlickerEngine: counters, flags, rolling_pst_

Batches == [ticks |-> 0, first |-> 0, discontinuity |-> TRUE, contaminated |-> FALSE]

InitFlicker ==
  flicker = [active |-> NoFrame, sequence |-> NoFrame, newest |-> NoFrame,
             settling |-> SettlingBatches, live |-> Batches, interval |-> Batches,
             overflow |-> FALSE, rolling |-> <<>>, firstAfter |-> TRUE, records |-> <<>>]

(* reset_runtime and the reset_signal_path it ends with: the filters settle *)
(* anew and the chain of Pst begins again.                                 *)
ResetRuntime(f, contaminated) ==
  [f EXCEPT !.settling = SettlingBatches, !.newest = NoFrame, !.overflow = FALSE,
            !.live = [Batches EXCEPT !.contaminated = contaminated],
            !.interval = [Batches EXCEPT !.contaminated = contaminated],
            !.rolling = <<>>, !.firstAfter = TRUE]

(* apply_matching_configuration: a configuration is adopted with the first  *)
(* frame of its generation, and frames of another one are not measured.    *)
FlickerMatches(f, frame) == frame.generation \in {f.active, stream.staged}
FlickerConfigured(f, frame) ==
  IF f.active = frame.generation THEN f
  ELSE ResetRuntime([f EXCEPT !.active = frame.generation, !.sequence = NoFrame], FALSE)

--------------------------------------------------------------------------------
FlickerEmit(f, channel, kind, valid, first, last, status) ==
  [f EXCEPT !.records = Append(@, [channel |-> channel, kind |-> kind, valid |-> valid,
                                   first |-> first, last |-> last,
                                   marked |-> status \/ f.firstAfter]),
            !.firstAfter = FALSE]

(* status_word, the bits of invalid_interval_status.  The overflow of the   *)
(* arithmetic is not cleared by the interval it spoils, only by a reset.   *)
Spoiled(f, part) == part.discontinuity \/ part.contaminated \/ f.overflow
Marked(part) == part.discontinuity \/ part.contaminated

CompleteLive(f, last) ==
  IF f.live.ticks < LiveBatches THEN f
  ELSE [FlickerEmit(f, "live", "live", ~Spoiled(f, f.live) /\ f.settling = 0,
                    f.live.first, last, Marked(f.live))
        EXCEPT !.live = [Batches EXCEPT !.discontinuity = FALSE]]

(* complete_interval: Pst, and Plt over the newest PltPeriods of them.  An  *)
(* invalid Pst ends the chain.                                             *)
Rolled(f) ==
  IF Spoiled(f, f.interval) THEN <<>>
  ELSE Append(IF Len(f.rolling) = PltPeriods THEN Tail(f.rolling) ELSE f.rolling,
              f.interval.first)

CompleteInterval(f, last) ==
  LET rolling == Rolled(f)
      pst == FlickerEmit(f, "interval", "pst", ~Spoiled(f, f.interval),
                         f.interval.first, last, Marked(f.interval))
      plt == IF Len(rolling) = PltPeriods
             THEN FlickerEmit(pst, "interval", "plt", TRUE, rolling[1], last,
                              Marked(f.interval))
             ELSE pst
  IN IF f.interval.ticks < IntervalBatches THEN f
     ELSE [plt EXCEPT !.rolling = rolling,
                      !.interval = [Batches EXCEPT !.discontinuity = FALSE]]

(* process_decimated.  A settling sample counts for the live record only.   *)
Counted(part, sample, invalid, counts) ==
  [part EXCEPT !.ticks = @ + (IF counts THEN 1 ELSE 0),
               !.first = IF part.ticks = 0 THEN sample ELSE @,
               !.contaminated = @ \/ invalid]

FlickerDecimated(f, frame) ==
  LET invalid == "invalid" \in frame.flags
      settled == f.settling = 0
      counted == [f EXCEPT !.settling = IF settled THEN 0 ELSE @ - 1,
                           !.live = Counted(@, frame.sample, invalid, TRUE),
                           !.interval = Counted(@, frame.sample, invalid, settled)]
  IN CompleteInterval(CompleteLive(counted, frame.sample), frame.sample)

(* process_sample: a jump of the sample counter resets; a malformed sample  *)
(* resets and is not measured; a saturated one is.                         *)
FlickerSample(f, frame) ==
  LET jumped == f.newest # NoFrame /\ frame.sample # f.newest + 1
      base == [(IF jumped THEN ResetRuntime(f, TRUE) ELSE f) EXCEPT !.newest = frame.sample]
  IN IF "malformed" \in frame.flags
     THEN [ResetRuntime(base, TRUE) EXCEPT !.newest = frame.sample]
     ELSE FlickerDecimated([base EXCEPT !.overflow = @ \/ "saturated" \in frame.flags], frame)

(* process().                                                               *)
FlickerGap(f, frame) == f.sequence # NoFrame /\ frame.sequence # f.sequence + 1

FlickerMeasured(f, frame) ==
  LET hole == external \/ FlickerGap(f, frame) \/ "drop" \in frame.flags
      ready == IF hole \/ "disc" \in frame.flags THEN ResetRuntime(f, hole) ELSE f
      sampled == FlickerSample([ready EXCEPT !.sequence = frame.sequence], frame)
  IN IF "drop" \in frame.flags THEN ResetRuntime(sampled, TRUE) ELSE sampled

FlickerProcess(frame) ==
  LET f == FlickerMeasured(FlickerConfigured(flicker, frame), frame)
  IN IF FlickerMatches(flicker, frame)
     THEN /\ external' = FALSE
          /\ flicker' = [f EXCEPT !.records = <<>>]
          /\ records' = f.records
          /\ track' = IF "malformed" \in frame.flags THEN Unheard ELSE Heard(frame)
     ELSE /\ external' = TRUE
          /\ records' = <<>>
          /\ track' = Unheard
          /\ UNCHANGED flicker

(* What the PL may say of a batch, in every combination the decoder accepts: *)
(* the status of the batch (a source drop comes with the discontinuity      *)
(* bit), where it begins, and the flags of a sample in it.                  *)
BatchFlaws ==
  {flags \in SUBSET {"disc", "drop", "jump", "malformed", "saturated", "invalid"} :
     flags # {} /\ ("drop" \in flags => "disc" \in flags)}

FlickerNext ==
  \/ \E frame \in Arriving(MaxBatches, BatchFlaws) : FlickerProcess(frame) /\ Sent(frame)
  \/ LoseStreamFrames(MaxBatches, {1}) /\ UNCHANGED flicker
  \/ StreamInterference /\ UNCHANGED flicker
================================================================================
