-------------------------- MODULE DemandProfileProofs --------------------------
(***************************************************************************)
(* Proofs about DemandProfile for every set of profiles and every width of *)
(* the generation: types, and the mailbox implements an atomic register.   *)
(***************************************************************************)
EXTENDS DemandProfile, TLAPS

(* The revision is odd exactly while configure_demand writes, and the      *)
(* writer has stored what its place says.                                  *)
LockInvariant ==
  /\ Writing <=> writerAt # "idle"
  /\ writerAt \in {"generation", "close"} => word = requested.profile
  /\ writerAt = "close" => generation = requested.generation

(* A reader that still sees the revision it began with has loaded the      *)
(* present contents.                                                       *)
ReadInvariant ==
  readerAt # "idle" =>
    /\ seen % 2 = 0
    /\ seen <= revision
    /\ seen = revision /\ readerAt \in {"word", "recheck"} =>
         loaded.generation = generation
    /\ seen = revision /\ readerAt = "recheck" => loaded.profile = word

MailboxInvariant == TypeOK /\ LockInvariant /\ ReadInvariant

-----------------------------------------------------------------------------
(* The next generation is a generation again, never zero.                  *)
LEMMA NextGenerationType ==
  ASSUME NEW g \in Generations
  PROVE  NextGeneration(g) \in Generations
  BY GenerationAssumption DEF NextGeneration, Generations

(* A revision and the parity of its successor.                             *)
LEMMA Parity ==
  ASSUME NEW n \in Nat
  PROVE  (n % 2 = 1 => (n + 1) % 2 = 0) /\ (n % 2 = 0 => (n + 1) % 2 = 1)
         /\ n % 2 \in {0, 1}
  OBVIOUS

LEMMA InitialMailbox == Init => MailboxInvariant
<1> SUFFICES ASSUME Init PROVE MailboxInvariant
  OBVIOUS
<1>1. 1 \in Generations
  BY GenerationAssumption DEF Generations
<1>2. TypeOK
  BY <1>1, ProfileAssumption, BoundAssumption DEF Init, TypeOK, Packages, Unapplied
<1>3. LockInvariant /\ ReadInvariant
  BY DEF Init, LockInvariant, ReadInvariant, Writing
<1> QED
  BY <1>2, <1>3 DEF MailboxInvariant

(* No step of either side breaks the types.                                *)
LEMMA TypeStep == TypeOK /\ LockInvariant /\ [Next]_vars => TypeOK'
<1> SUFFICES ASSUME TypeOK, LockInvariant, [Next]_vars PROVE TypeOK'
  OBVIOUS
<1> USE BoundAssumption DEF TypeOK
<1>1. ASSUME NEW profile \in Profiles, Open(profile) PROVE TypeOK'
  <2>1. requested' \in Packages
    BY <1>1, NextGenerationType DEF Open, Packages
  <2> QED
    BY <1>1, <2>1 DEF Open, readerVars
<1>2. CASE StoreWord
  BY <1>2 DEF StoreWord, readerVars, Packages
<1>3. CASE StoreGeneration
  BY <1>3 DEF StoreGeneration, readerVars, Packages
<1>4. CASE Close
  <2>1. revision + 1 \in 0 .. 2 * ChangeBound
    BY <1>4 DEF Close, LockInvariant, Writing
  <2> QED
    BY <1>4, <2>1 DEF Close, readerVars
<1>5. CASE LoadRevision
  BY <1>5 DEF LoadRevision, mailboxVars, writerVars
<1>6. CASE LoadGeneration
  BY <1>6 DEF LoadGeneration, mailboxVars, writerVars, Packages
<1>7. CASE LoadWord
  BY <1>7 DEF LoadWord, mailboxVars, writerVars, Packages
<1>8. CASE RecheckAndApply
  BY <1>8 DEF RecheckAndApply, mailboxVars, writerVars
<1>9. CASE UNCHANGED vars
  BY <1>9 DEF vars, mailboxVars, writerVars, readerVars
<1> QED
  BY <1>1, <1>2, <1>3, <1>4, <1>5, <1>6, <1>7, <1>8, <1>9 DEF Next, Writer, Reader

LEMMA LockStep == TypeOK /\ LockInvariant /\ [Next]_vars => LockInvariant'
<1> SUFFICES ASSUME TypeOK, LockInvariant, [Next]_vars PROVE LockInvariant'
  OBVIOUS
<1>0. revision \in Nat
  BY BoundAssumption DEF TypeOK
<1> USE DEF LockInvariant, Writing
<1>1. ASSUME NEW profile \in Profiles, Open(profile) PROVE LockInvariant'
  BY <1>0, <1>1, Parity DEF Open
<1>2. CASE StoreWord \/ StoreGeneration
  BY <1>2 DEF StoreWord, StoreGeneration
<1>3. CASE Close
  BY <1>0, <1>3, Parity DEF Close
<1>4. CASE Reader \/ UNCHANGED vars
  BY <1>4 DEF Reader, LoadRevision, LoadGeneration, LoadWord, RecheckAndApply,
    vars, mailboxVars, writerVars
<1> QED
  BY <1>1, <1>2, <1>3, <1>4 DEF Next, Writer

(* A write moves the revision past every reader in progress; a load takes  *)
(* the present contents.                                                   *)
LEMMA ReadStep == MailboxInvariant /\ [Next]_vars => ReadInvariant'
<1> SUFFICES ASSUME MailboxInvariant, [Next]_vars PROVE ReadInvariant'
  OBVIOUS
<1>0. revision \in Nat /\ seen \in Nat /\ loaded \in Packages
  BY BoundAssumption DEF MailboxInvariant, TypeOK
<1> USE DEF MailboxInvariant, ReadInvariant, LockInvariant, Writing
<1>1. ASSUME NEW profile \in Profiles, Open(profile) PROVE ReadInvariant'
  BY <1>0, <1>1 DEF Open, readerVars
<1>2. CASE StoreWord \/ StoreGeneration
  BY <1>0, <1>2 DEF StoreWord, StoreGeneration, readerVars
<1>3. CASE Close
  BY <1>0, <1>3 DEF Close, readerVars
<1>4. CASE LoadRevision
  BY <1>0, <1>4, Parity DEF LoadRevision, mailboxVars, writerVars
<1>5. CASE LoadGeneration
  BY <1>0, <1>5 DEF LoadGeneration, mailboxVars, writerVars, Packages
<1>6. CASE LoadWord
  BY <1>0, <1>6 DEF LoadWord, mailboxVars, writerVars, Packages
<1>7. CASE RecheckAndApply
  BY <1>7 DEF RecheckAndApply
<1>8. CASE UNCHANGED vars
  BY <1>8 DEF vars, mailboxVars, readerVars
<1> QED
  BY <1>1, <1>2, <1>3, <1>4, <1>5, <1>6, <1>7, <1>8 DEF Next, Writer, Reader

LEMMA MailboxInvariantHolds == Spec => []MailboxInvariant
<1>1. MailboxInvariant /\ [Next]_vars => MailboxInvariant'
  BY TypeStep, LockStep, ReadStep DEF MailboxInvariant
<1> QED
  BY InitialMailbox, <1>1, PTL DEF Spec

(* Every variable keeps its range; in particular no profile ever has       *)
(* generation zero, which the reader takes for "never applied".            *)
THEOREM DemandTypes == Spec => []TypeOK
<1>1. MailboxInvariant => TypeOK
  BY DEF MailboxInvariant
<1> QED
  BY <1>1, MailboxInvariantHolds, PTL

-----------------------------------------------------------------------------
(* A successful recheck holds exactly what is staged.                      *)
LEMMA RecheckedIsStaged ==
  ASSUME MailboxInvariant, readerAt = "recheck", revision = seen
  PROVE  loaded = Staged
<1>1. writerAt = "idle"
  BY Parity DEF MailboxInvariant, LockInvariant, ReadInvariant, Writing
<1>2. loaded.profile = word /\ loaded.generation = generation
  BY DEF MailboxInvariant, ReadInvariant
<1>3. loaded = [profile |-> loaded.profile, generation |-> loaded.generation]
  BY DEF MailboxInvariant, TypeOK, Packages
<1> QED
  BY <1>1, <1>2, <1>3 DEF Staged

(* Every step is a step of the register or leaves it alone.                *)
LEMMA RegisterStep ==
  MailboxInvariant /\ [Next]_vars => [Register!Next]_(Register!vars)
<1> SUFFICES ASSUME MailboxInvariant, [Next]_vars
             PROVE  Register!Next \/ UNCHANGED Register!vars
  OBVIOUS
<1>1. ASSUME NEW profile \in Profiles, Open(profile) PROVE Register!Next
  <2>1. requested' \in Packages /\ Staged' = requested' /\ applied' = applied
    BY <1>1, TypeStep DEF Open, Staged, readerVars, MailboxInvariant, TypeOK
  <2> QED
    BY <2>1 DEF Register!Next, Register!Stage
<1>2. CASE StoreWord \/ StoreGeneration
  BY <1>2 DEF StoreWord, StoreGeneration, Staged, Register!vars, readerVars
<1>3. CASE Close
  <2>1. word = requested.profile /\ generation = requested.generation
    BY <1>3 DEF Close, MailboxInvariant, LockInvariant
  <2>2. requested = [profile |-> requested.profile, generation |-> requested.generation]
    BY DEF MailboxInvariant, TypeOK, Packages
  <2> QED
    BY <1>3, <2>1, <2>2 DEF Close, Staged, Register!vars, readerVars
<1>4. CASE LoadRevision \/ LoadGeneration \/ LoadWord \/ UNCHANGED vars
  BY <1>4 DEF LoadRevision, LoadGeneration, LoadWord, vars, mailboxVars, writerVars,
    readerVars, Staged, Register!vars
<1>5. CASE RecheckAndApply
  <2>1. Staged' = Staged
    BY <1>5 DEF RecheckAndApply, Staged, mailboxVars, writerVars
  <2>2. CASE MayApply
    BY <1>5, <2>1, <2>2, RecheckedIsStaged
       DEF RecheckAndApply, MayApply, Register!Next, Register!Adopt
  <2>3. CASE ~MayApply
    BY <1>5, <2>1, <2>3 DEF RecheckAndApply, Register!vars
  <2> QED
    BY <2>2, <2>3
<1> QED
  BY <1>1, <1>2, <1>3, <1>4, <1>5 DEF Next, Writer, Reader

(* For every set of profiles the sequence lock is an atomic register: the  *)
(* energy engine adopts only what is staged at that moment, values and     *)
(* generation together.                                                    *)
THEOREM DemandMailboxIsRegister == Spec => ImplementsRegister
<1>1. Init => Register!Init
  BY DEF Init, Register!Init, Staged
<1> QED
  BY <1>1, MailboxInvariantHolds, RegisterStep, PTL
     DEF Spec, ImplementsRegister, Register!Spec
================================================================================
