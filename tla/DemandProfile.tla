----------------------------- MODULE DemandProfile -----------------------------
(***************************************************************************)
(* The mailbox of the demand profile in R5AggregationEngine: a packed      *)
(* profile word and its generation, guarded by a revision that is odd      *)
(* while the RPMsg service writes.  The service is the only writer; the    *)
(* reader is process() (and initialize()), which looks once per meter      *)
(* frame and gives up until the next frame if it meets the writer.         *)
(*                                                                         *)
(* One action per shared access.  The two sides interleave at will, which  *)
(* includes what the priorities allow: RPMsg preempting AGG_VAL.           *)
(***************************************************************************)
EXTENDS Integers

CONSTANTS
  Profiles,            \* valid (method, window, update) triples, packed
  InitialProfile,      \* sliding, 60 s, 3 s
  GenerationModulus,   \* 2^32
  ChangeBound          \* changes of the profile in one behaviour

ASSUME ProfileAssumption == InitialProfile \in Profiles
ASSUME GenerationAssumption == GenerationModulus \in Nat /\ GenerationModulus > 2
ASSUME BoundAssumption == ChangeBound \in Nat

Generations == 1 .. GenerationModulus - 1
Packages == [profile : Profiles, generation : Generations]

VARIABLES
  word,          \* demand_profile_word_
  generation,    \* demand_profile_generation_
  revision,      \* demand_profile_revision_
  writerAt,      \* where configure_demand stands
  requested,     \* the profile and generation it writes
  readerAt,      \* where apply_demand_configuration stands
  seen,          \* the revision it loaded
  loaded,        \* the generation and profile it loaded
  applied        \* what energy_demand_ works with, and its generation

mailboxVars == <<word, generation, revision>>
writerVars == <<writerAt, requested>>
readerVars == <<readerAt, seen, loaded, applied>>
vars == <<mailboxVars, writerVars, readerVars>>

(* A package whose generation no change carries: nothing applied yet.      *)
Unapplied == [profile |-> InitialProfile, generation |-> 0]

TypeOK ==
  /\ word \in Profiles
  /\ generation \in Generations
  /\ revision \in 0 .. 2 * ChangeBound
  /\ writerAt \in {"idle", "word", "generation", "close"}
  /\ requested \in Packages
  /\ readerAt \in {"idle", "generation", "word", "recheck"}
  /\ seen \in 0 .. 2 * ChangeBound
  /\ loaded \in Packages
  /\ applied \in Packages \cup {Unapplied}

Init ==
  /\ word = InitialProfile
  /\ generation = 1
  /\ revision = 0
  /\ writerAt = "idle"
  /\ requested = [profile |-> InitialProfile, generation |-> 1]
  /\ readerAt = "idle"
  /\ seen = 0
  /\ loaded = [profile |-> InitialProfile, generation |-> 1]
  /\ applied = Unapplied

(* The counter that wraps to zero: zero means "never applied".             *)
NextGenerationWithZero(g) == (g + 1) % GenerationModulus

(* The counter skips zero when it wraps.                                   *)
NextGeneration(g) == IF g = GenerationModulus - 1 THEN 1 ELSE g + 1

Writing == revision % 2 = 1

--------------------------------------------------------------------------------
(* R5AggregationEngine::configure_demand, called by RPMsg.  A profile that  *)
(* equals the present one changes nothing, nor does an invalid one.        *)

(* The generation must not come all the way round to the applied one       *)
(* between two frames: that takes 2^32 - 2 changes.                        *)
Open(profile) ==
  /\ writerAt = "idle"
  /\ profile # word
  /\ revision < 2 * ChangeBound
  /\ NextGeneration(generation) # applied.generation
  /\ requested' = [profile |-> profile, generation |-> NextGeneration(generation)]
  /\ revision' = revision + 1
  /\ writerAt' = "word"
  /\ UNCHANGED <<word, generation, readerVars>>

StoreWord ==
  /\ writerAt = "word"
  /\ word' = requested.profile
  /\ writerAt' = "generation"
  /\ UNCHANGED <<generation, revision, requested, readerVars>>

StoreGeneration ==
  /\ writerAt = "generation"
  /\ generation' = requested.generation
  /\ writerAt' = "close"
  /\ UNCHANGED <<word, revision, requested, readerVars>>

Close ==
  /\ writerAt = "close"
  /\ revision' = revision + 1
  /\ writerAt' = "idle"
  /\ UNCHANGED <<word, generation, requested, readerVars>>

--------------------------------------------------------------------------------
(* R5AggregationEngine::apply_demand_configuration, at the head of each     *)
(* process().                                                              *)

LoadRevision ==
  /\ readerAt = "idle"
  /\ IF Writing THEN UNCHANGED <<readerAt, seen>>
                ELSE readerAt' = "generation" /\ seen' = revision
  /\ UNCHANGED <<mailboxVars, writerVars, loaded, applied>>

LoadGeneration ==
  /\ readerAt = "generation"
  /\ loaded' = [loaded EXCEPT !.generation = generation]
  /\ readerAt' = "word"
  /\ UNCHANGED <<mailboxVars, writerVars, seen, applied>>

LoadWord ==
  /\ readerAt = "word"
  /\ loaded' = [loaded EXCEPT !.profile = word]
  /\ readerAt' = "recheck"
  /\ UNCHANGED <<mailboxVars, writerVars, seen, applied>>

(* Without a new generation there is nothing to apply; energy_demand_      *)
(* accepts every valid profile.                                            *)
MayApplyUnchecked == loaded.generation # applied.generation
MayApplyOtherProfile == revision = seen /\ loaded.profile # applied.profile

MayApply == revision = seen /\ loaded.generation # applied.generation

RecheckAndApply ==
  /\ readerAt = "recheck"
  /\ applied' = IF MayApply THEN loaded ELSE applied
  /\ readerAt' = "idle"
  /\ UNCHANGED <<mailboxVars, writerVars, seen, loaded>>

--------------------------------------------------------------------------------
Writer == StoreWord \/ StoreGeneration \/ Close
Reader == LoadRevision \/ LoadGeneration \/ LoadWord \/ RecheckAndApply

Next == (\E profile \in Profiles : Open(profile)) \/ Writer \/ Reader

(* RPMsg outranks the workers and finishes what it began; meter frames     *)
(* keep coming.  No request is owed.                                       *)
Fairness == WF_vars(Writer) /\ WF_vars(Reader)

Spec == Init /\ [][Next]_vars /\ Fairness

--------------------------------------------------------------------------------
(* What the mailbox holds for the reader: a change counts from the moment  *)
(* configure_demand opens the lock.                                        *)
Staged == IF writerAt = "idle"
            THEN [profile |-> word, generation |-> generation]
            ELSE requested

Register == INSTANCE ProfileRegister
  WITH Values <- Packages, staged <- Staged, adopted <- applied,
       InitialStaged <- [profile |-> InitialProfile, generation |-> 1],
       InitialAdopted <- Unapplied

(* The energy engine never works with one profile's values under another   *)
(* profile's generation, and never adopts a profile that has been          *)
(* replaced (the comment in configure_demand).                             *)
ImplementsRegister == Register!Spec

(* A profile that stays staged is applied: the acknowledged change is not  *)
(* lost when a frame meets the writer.                                     *)
StagedIsApplied ==
  \A p \in Packages : (Staged = p) ~> (applied = p \/ Staged # p)
================================================================================
