---------------------------- MODULE PqEventLifecycle ----------------------------
(***************************************************************************)
(* PqEventLifecycleEngine: every half cycle the engine evaluates each      *)
(* detector and tells Linux of the events it opens, continues, ends or     *)
(* gives up.  The outcome of an evaluation is chosen; that a detector      *)
(* cannot be evaluated follows from the frame and, for a rapid voltage     *)
(* change, from the two half cycles before it.                             *)
(***************************************************************************)
EXTENDS MainsWindows, FiniteSets

CONSTANTS
  MaxHalfCycles,   \* bound of the model: frames the PL sends
  UpdateFrames     \* half cycles of a second: how often an open event is updated

ASSUME LifecycleAssumption == {MaxHalfCycles, UpdateFrames} \subseteq Nat \ {0}

VARIABLE pq   \* PqEventLifecycleEngine; "told" is auxiliary

Slots == {"sag", "rvc"}   \* an ordinary detector and a rapid voltage change
NoEvent == 0
Unpaired == -1
Closed == [id |-> NoEvent, first |-> 0, last |-> 0, emitted |-> 0]

InitPq ==
  pq = [active |-> NoFrame, sequence |-> NoFrame, counter |-> 0,
        state |-> [slot \in Slots |-> Closed], history |-> <<FALSE, FALSE>>,
        armed |-> FALSE, firstAfter |-> TRUE, records |-> <<>>,
        told |-> [slot \in Slots |-> NoEvent]]

Open(p, slot) == p.state[slot].id # NoEvent

(* The event that the records say is open, after one more of them: only a   *)
(* start can follow an end, and only the same event an update.             *)
Told(open, kind, id) ==
  IF kind = "start" THEN (IF open = NoEvent THEN id ELSE Unpaired)
  ELSE IF open # id THEN Unpaired
  ELSE IF kind = "update" THEN id ELSE NoEvent

(* emit: the record that follows a discontinuity says so; an abort counts   *)
(* it in the event itself.                                                 *)
PqEmit(p, slot, kind) ==
  LET e == p.state[slot]
  IN [p EXCEPT !.records = Append(@, [channel |-> "event", kind |-> kind, slot |-> slot,
                                      id |-> e.id, first |-> e.first, last |-> e.last,
                                      valid |-> kind # "abort",
                                      marked |-> p.firstAfter \/ kind = "abort"]),
               !.firstAfter = FALSE, !.told[slot] = Told(@, kind, e.id)]

Emitted(p, slot, kind, close) ==
  [PqEmit(p, slot, kind) EXCEPT !.state[slot] = IF close THEN Closed ELSE @]

AbortSilently(p, slot, frame) == [p EXCEPT !.state[slot] = Closed]

Abort(p, slot, frame) ==
  IF Open(p, slot)
  THEN Emitted([p EXCEPT !.state[slot].last = frame.sample], slot, "abort", TRUE)
  ELSE p

AbortAll(p, frame) ==
  [Abort(Abort(p, "sag", frame), "rvc", frame) EXCEPT !.firstAfter = TRUE]

(* apply_matching_configuration.  Nothing is known of the half cycles       *)
(* before it, nor after a discontinuity.                                   *)
Forgotten(p) == [p EXCEPT !.history = <<FALSE, FALSE>>, !.armed = FALSE]

PqConfigured(p, frame) ==
  IF stream.staged # frame.generation \/ p.active = frame.generation THEN p
  ELSE [Forgotten(IF p.active # NoFrame THEN AbortAll(p, frame) ELSE p)
        EXCEPT !.active = frame.generation, !.firstAfter = TRUE]

--------------------------------------------------------------------------------
(* evaluate.                                                                *)
Outcomes == {"start", "recovered", "between"}
Evaluable(p, slot, frame) ==
  "invalid" \notin frame.flags /\ (slot = "rvc" => p.history[2])

(* start_state.                                                             *)
Started(p, slot, frame) ==
  Emitted([p EXCEPT !.counter = @ + 1,
                    !.state[slot] = [id |-> p.counter + 1, first |-> frame.sample,
                                     last |-> frame.sample, emitted |-> frame.sample]],
          slot, "start", FALSE)

Continued(p, slot, frame, outcome) ==
  LET q == [p EXCEPT !.state[slot].last = frame.sample]
  IN IF outcome = "recovered" THEN Emitted(q, slot, "end", TRUE)
     ELSE IF frame.sample - q.state[slot].emitted >= UpdateFrames
     THEN Emitted([q EXCEPT !.state[slot].emitted = frame.sample], slot, "update", FALSE)
     ELSE q

(* process_state.  The rapid-voltage-change detector is armed by its first  *)
(* recovered comparison, which does not count itself.                      *)
ProcessState(p, slot, frame, outcome) ==
  LET evaluable == Evaluable(p, slot, frame)
  IN IF slot = "rvc" /\ ~p.armed
     THEN [p EXCEPT !.armed = evaluable /\ outcome = "recovered"]
     ELSE IF ~Open(p, slot)
     THEN IF evaluable /\ outcome = "start" THEN Started(p, slot, frame) ELSE p
     ELSE IF ~evaluable THEN Abort(p, slot, frame)
     ELSE Continued(p, slot, frame, outcome)

(* process().  The pending discontinuity is taken before the test for an    *)
(* old frame, unless the frame has one of its own.                         *)
PqStale(p, frame) == p.sequence # NoFrame /\ frame.sequence <= p.sequence
PqGap(p, frame) == p.sequence # NoFrame /\ frame.sequence # p.sequence + 1

PqMeasured(p, frame, outcome) ==
  LET broken == "disc" \in frame.flags \/ external \/ PqGap(p, frame)
      ready == IF broken THEN Forgotten(AbortAll(p, frame)) ELSE p
      sag == ProcessState(ready, "sag", frame, outcome["sag"])
      done == ProcessState(sag, "rvc", frame, outcome["rvc"])
  IN [done EXCEPT !.sequence = frame.sequence,
                  !.history = <<"invalid" \notin frame.flags, @[1]>>]

PqPublish(p) == pq' = [p EXCEPT !.records = <<>>] /\ records' = p.records

PqProcess(frame) ==
  LET p == PqConfigured(pq, frame)
  IN IF p.active # frame.generation
     THEN /\ PqPublish(IF p.active # NoFrame THEN AbortAll(p, frame) ELSE p)
          /\ track' = Unheard
          /\ UNCHANGED external
     ELSE /\ external' = (external /\ "disc" \in frame.flags)
          /\ IF PqStale(p, frame)
             THEN PqPublish(p) /\ track' = [track EXCEPT !.owed = Owing]
             ELSE /\ \E outcome \in [Slots -> Outcomes] :
                       PqPublish(PqMeasured(p, frame, outcome))
                  /\ track' = Heard(frame)

(* The engine does not compare samples: of those the PL left out between two *)
(* half cycles it has to be told.                                          *)
HalfCycleFlaws ==
  {flags \in SUBSET {"disc", "jump", "invalid"} :
     flags # {} /\ ("jump" \in flags => "disc" \in flags)}

PqNext ==
  \/ \E frame \in Arriving(MaxHalfCycles, HalfCycleFlaws) : PqProcess(frame) /\ Sent(frame)
  \/ LoseStreamFrames(MaxHalfCycles, {1}) /\ UNCHANGED pq
  \/ StreamInterference /\ UNCHANGED pq
================================================================================
