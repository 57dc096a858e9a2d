----------------------- MODULE StagedConfigurationProofs -----------------------
(***************************************************************************)
(* Proofs about StagedConfiguration for every set of configurations, every *)
(* number of words and of attempts: types, each mailbox is an atomic       *)
(* register, and an engine changes only to the configuration of the frame  *)
(* it works on.                                                            *)
(***************************************************************************)
EXTENDS StagedConfiguration, SequenceTheorems, TLAPS

(* Only the mailbox being staged is locked; what is stored in it is the     *)
(* request; the others hold one whole configuration.                       *)
LockInvariant ==
  /\ \A e \in Engines : Locked(e) => e = target
  /\ target # "none" => request \in Configurations
  /\ stored > 0 => target # "none" /\ Locked(target)
  /\ target # "none" => \A w \in 1 .. stored : staged[target][w] = request
  /\ \A e \in Engines : ~Locked(e) => staged[e] = Whole(staged[e][1])

(* An attempt that still sees the revision it began with has copied the     *)
(* present words.                                                          *)
LoadInvariant ==
  /\ engine = "none" => at = "begin"
  /\ at \in {"begin", "revision"} => candidate = <<>>
  /\ at = "words" => Len(candidate) < WordCount
  /\ at = "recheck" => Len(candidate) = WordCount
  /\ at \in {"words", "recheck"} =>
       /\ before % 2 = 0
       /\ before <= revision[engine]
       /\ before = revision[engine] =>
            \A w \in 1 .. Len(candidate) : candidate[w] = staged[engine][w]

MailboxInvariant == TypeOK /\ LockInvariant /\ LoadInvariant

-----------------------------------------------------------------------------
LEMMA Parity ==
  ASSUME NEW n \in Nat
  PROVE  /\ n % 2 = 1 => (n + 1) % 2 # 1
         /\ n % 2 # 1 => (n + 1) % 2 = 1
         /\ n % 2 = 0 <=> n % 2 # 1
  OBVIOUS

(* A configuration repeated in every word is a snapshot.                    *)
LEMMA WholeType ==
  ASSUME NEW c \in Configurations \cup {NoConfiguration}
  PROVE  Whole(c) \in Snapshots
  BY DEF Whole, Snapshots

(* A snapshot all of whose words are c is the whole c.                      *)
LEMMA SameEverywhere ==
  ASSUME NEW s \in Snapshots, NEW c, \A w \in Words : s[w] = c
  PROVE  s = Whole(c)
  BY DEF Whole, Snapshots

LEMMA InitialMailboxes == Init => MailboxInvariant
<1> SUFFICES ASSUME Init PROVE MailboxInvariant
  OBVIOUS
<1>1. Whole(NoConfiguration) \in Snapshots /\ 1 \in Words
  BY WholeType, SizeAssumption DEF Words
<1>2. /\ staged \in [Engines -> Snapshots] /\ revision \in [Engines -> Nat]
      /\ active \in [Engines -> Snapshots]
  BY <1>1 DEF Init
<1>3. /\ candidate \in Seq(Configurations \cup {NoConfiguration})
      /\ Len(candidate) <= WordCount
      /\ stored \in 0 .. WordCount /\ attempt \in 1 .. Attempts /\ before \in Nat
  BY SizeAssumption DEF Init
<1>4. TypeOK
  BY <1>2, <1>3 DEF Init, TypeOK
<1>5. LockInvariant
  BY <1>1 DEF Init, LockInvariant, Locked, Whole
<1>6. LoadInvariant
  BY DEF Init, LoadInvariant
<1> QED
  BY <1>4, <1>5, <1>6 DEF MailboxInvariant

-----------------------------------------------------------------------------
LEMMA TypeStep == MailboxInvariant /\ [Next]_vars => TypeOK'
<1> SUFFICES ASSUME MailboxInvariant, [Next]_vars PROVE TypeOK'
  OBVIOUS
<1> USE SizeAssumption DEF MailboxInvariant, TypeOK
<1>1. ASSUME NEW c \in Configurations, Request(c) PROVE TypeOK'
  BY <1>1 DEF Request, validatorVars, loadVars, Engines
<1>2. ASSUME NEW c \in Configurations, Commit(c) PROVE TypeOK'
  BY <1>2 DEF Commit, serviceVars, validatorVars, loadVars
<1>3. ASSUME NEW e \in Engines, NEW c \in Configurations, BeginFrame(e, c) PROVE TypeOK'
  BY <1>3 DEF BeginFrame, serviceVars, loadVars
<1>4. CASE OpenLock
  <2>1. revision' \in [Engines -> Nat]
    BY <1>4 DEF OpenLock
  <2> QED
    BY <1>4, <2>1 DEF OpenLock, validatorVars, loadVars
<1>5. CASE StoreWord
  <2>1. stored + 1 \in Words /\ target \in Engines /\ request \in Configurations
    BY <1>5 DEF StoreWord, LockInvariant, Words
  <2>2. [staged[target] EXCEPT ![stored + 1] = request] \in Snapshots
    BY <2>1 DEF Snapshots
  <2>3. staged' \in [Engines -> Snapshots]
    BY <1>5, <2>1, <2>2 DEF StoreWord
  <2>4. stored' \in 0 .. WordCount
    BY <1>5 DEF StoreWord
  <2> QED
    BY <1>5, <2>3, <2>4 DEF StoreWord, validatorVars, loadVars
<1>6. CASE CloseLock
  <2>1. revision' \in [Engines -> Nat]
    BY <1>6 DEF CloseLock
  <2>2. target' \in Engines \cup {"none"}
    BY <1>6, Zenon DEF CloseLock, StagedAfter, Engines
  <2> QED
    BY <1>6, <2>1, <2>2 DEF CloseLock, validatorVars, loadVars
<1>7. CASE UseActive \/ BeginLoad
  BY <1>7 DEF UseActive, BeginLoad, NextEngine, serviceVars, loadVars, Engines
<1>8. CASE LoadRevision
  <2>1. before' \in Nat /\ engine' \in Engines \cup {"none"}
        /\ at' \in {"begin", "revision", "words", "recheck"}
    BY <1>8 DEF LoadRevision, NextEngine, Engines
  <2> QED
    BY <1>8, <2>1 DEF LoadRevision, serviceVars
<1>9. CASE CopyWord
  <2>1. Len(candidate) + 1 \in Words /\ engine \in Engines
    BY <1>9 DEF CopyWord, LoadInvariant, Words
  <2>2. staged[engine][Len(candidate) + 1] \in Configurations \cup {NoConfiguration}
    BY <2>1 DEF Snapshots
  <2>3. /\ candidate' \in Seq(Configurations \cup {NoConfiguration})
        /\ Len(candidate') = Len(candidate) + 1
    BY <1>9, <2>2, AppendProperties DEF CopyWord
  <2>4. Len(candidate') <= WordCount
    BY <2>1, <2>3 DEF Words
  <2>5. at' \in {"begin", "revision", "words", "recheck"}
    BY <1>9 DEF CopyWord
  <2> QED
    BY <1>9, <2>3, <2>4, <2>5 DEF CopyWord, serviceVars
<1>10. CASE Recheck
  <2>1. candidate \in Snapshots
    BY <1>10 DEF Recheck, LoadInvariant, Snapshots, Words
  <2>2. active' \in [Engines -> Snapshots]
    BY <1>10, <2>1 DEF Recheck
  <2>3. candidate' \in Seq(Configurations \cup {NoConfiguration}) /\ Len(candidate') = 0
    BY <1>10 DEF Recheck
  <2> QED
    BY <1>10, <2>2, <2>3 DEF Recheck, NextEngine, serviceVars, Engines
<1>11. CASE Retry \/ GiveUp
  <2>0. candidate' = <<>>
    BY <1>11 DEF Retry, GiveUp
  <2>1. candidate' \in Seq(Configurations \cup {NoConfiguration}) /\ Len(candidate') = 0
    BY <2>0
  <2>2. attempt' \in 1 .. Attempts
    BY <1>11 DEF Retry, GiveUp
  <2> QED
    BY <1>11, <2>1, <2>2 DEF Retry, GiveUp, NextEngine, serviceVars, Engines
<1>12. CASE UNCHANGED vars
  BY <1>12 DEF vars, serviceVars, validatorVars, loadVars
<1> QED
  BY <1>1, <1>2, <1>3, <1>4, <1>5, <1>6, <1>7, <1>8, <1>9, <1>10, <1>11, <1>12
     DEF Next, Service, Validator

-----------------------------------------------------------------------------
(* The actions of AGG_VAL and of the PL leave the mailboxes alone.          *)
LEMMA ReaderKeepsMailboxes ==
  ASSUME \/ \E c \in Configurations : Commit(c)
         \/ \E e \in Engines, c \in Configurations : BeginFrame(e, c)
         \/ Validator
         \/ UNCHANGED vars
  PROVE  UNCHANGED serviceVars
  BY DEF Commit, BeginFrame, Validator, UseActive, BeginLoad, LoadRevision, CopyWord,
    Recheck, Retry, GiveUp, vars

LEMMA LockStep == MailboxInvariant /\ [Next]_vars => LockInvariant'
<1> SUFFICES ASSUME MailboxInvariant, [Next]_vars PROVE LockInvariant'
  OBVIOUS
<1>0. /\ \A e \in Engines : revision[e] \in Nat /\ staged[e] \in Snapshots
      /\ target \in Engines \cup {"none"} /\ stored \in 0 .. WordCount
      /\ staged \in [Engines -> Snapshots] /\ revision \in [Engines -> Nat]
      /\ "none" \notin Engines
  BY DEF MailboxInvariant, TypeOK, Engines
<1> USE SizeAssumption DEF MailboxInvariant, LockInvariant, Locked
<1>1. ASSUME NEW c \in Configurations, Request(c) PROVE LockInvariant'
  BY <1>0, <1>1 DEF Request
<1>2. CASE OpenLock
  <2>1. target \in Engines /\ stored = 0 /\ revision[target] % 2 # 1
        /\ revision' = [revision EXCEPT ![target] = @ + 1]
        /\ UNCHANGED <<staged, request, target, stored>>
    BY <1>0, <1>2 DEF OpenLock
  <2>2. revision'[target] % 2 = 1
    BY <1>0, <2>1, Parity
  <2>3. \A e \in Engines \ {target} : revision'[e] = revision[e]
    BY <1>0, <2>1
  <2> QED
    BY <1>0, <2>1, <2>2, <2>3
<1>3. CASE StoreWord
  <2>1. /\ target \in Engines /\ revision[target] % 2 = 1 /\ stored + 1 \in Words
        /\ staged' = [staged EXCEPT ![target][stored + 1] = request]
        /\ stored' = stored + 1
        /\ UNCHANGED <<revision, request, target>>
    BY <1>0, <1>3 DEF StoreWord, Words
  <2>2. \A e \in Engines \ {target} : staged'[e] = staged[e]
    BY <1>0, <2>1
  <2>3. \A w \in 1 .. stored' : staged'[target][w] = request
    BY <1>0, <2>1 DEF Snapshots, Words
  <2> QED
    BY <1>0, <2>1, <2>2, <2>3
<1>4. CASE CloseLock
  <2>1. /\ target \in Engines /\ stored = WordCount /\ revision[target] % 2 = 1
        /\ revision' = [revision EXCEPT ![target] = @ + 1]
        /\ stored' = 0
        /\ UNCHANGED <<staged, request>>
    BY <1>0, <1>4 DEF CloseLock
  <2>2. \A e \in Engines : revision'[e] % 2 # 1
    BY <1>0, <2>1, Parity
  <2>3. staged[target] = Whole(request)
    BY <1>0, <2>1, SameEverywhere DEF Words
  <2>4. staged[target] = Whole(staged[target][1])
    BY <2>3 DEF Whole, Words
  <2> QED
    BY <1>0, <2>1, <2>2, <2>4
<1>5. CASE UNCHANGED serviceVars
  BY <1>5 DEF serviceVars
<1> QED
  BY <1>1, <1>2, <1>3, <1>4, <1>5, ReaderKeepsMailboxes DEF Next, Service

-----------------------------------------------------------------------------
(* What the service does moves the revision past every attempt it could     *)
(* disturb.                                                                *)
LEMMA ServiceDisturbsLoads ==
  ASSUME MailboxInvariant, Service, engine \in Engines, before % 2 = 0,
         before <= revision[engine]
  PROVE  /\ before <= revision'[engine]
         /\ before = revision'[engine] =>
              before = revision[engine] /\ staged'[engine] = staged[engine]
<1>0. /\ \A e \in Engines : revision[e] \in Nat
      /\ before \in Nat /\ "none" \notin Engines
      /\ staged \in [Engines -> Snapshots] /\ revision \in [Engines -> Nat]
      /\ target \in Engines \cup {"none"}
  BY DEF MailboxInvariant, TypeOK, Engines
<1>1. CASE OpenLock \/ CloseLock
  BY <1>0, <1>1 DEF OpenLock, CloseLock
<1>2. CASE StoreWord
  <2>1. revision[target] % 2 = 1 /\ UNCHANGED revision /\ target \in Engines
        /\ staged' = [staged EXCEPT ![target][stored + 1] = request]
    BY <1>0, <1>2 DEF StoreWord, Locked
  <2>2. CASE engine = target
    BY <1>0, <2>1, <2>2
  <2>3. CASE engine # target
    BY <1>0, <2>1, <2>3
  <2> QED
    BY <2>2, <2>3
<1> QED
  BY <1>1, <1>2 DEF Service
LEMMA LoadStep == MailboxInvariant /\ [Next]_vars => LoadInvariant'
<1> SUFFICES ASSUME MailboxInvariant, [Next]_vars PROVE LoadInvariant'
  OBVIOUS
<1>0. /\ \A e \in Engines : revision[e] \in Nat
      /\ before \in Nat /\ engine \in Engines \cup {"none"}
      /\ candidate \in Seq(Configurations \cup {NoConfiguration})
      /\ "none" \notin Engines
  BY DEF MailboxInvariant, TypeOK, Engines
<1> USE DEF MailboxInvariant, LoadInvariant
<1>1. CASE Service
  <2>1. UNCHANGED validatorVars
    BY <1>1 DEF Service, OpenLock, StoreWord, CloseLock
  <2>2. CASE at \in {"words", "recheck"}
    BY <1>0, <1>1, <2>1, <2>2, ServiceDisturbsLoads DEF validatorVars, loadVars
  <2>3. CASE at \notin {"words", "recheck"}
    BY <2>1, <2>3 DEF validatorVars, loadVars
  <2> QED
    BY <2>2, <2>3
<1>2. ASSUME NEW c \in Configurations, Request(c) \/ Commit(c) PROVE LoadInvariant'
  BY <1>2 DEF Request, Commit, serviceVars, validatorVars, loadVars
<1>3. ASSUME NEW e \in Engines, NEW c \in Configurations, BeginFrame(e, c)
      PROVE  LoadInvariant'
  BY <1>3 DEF BeginFrame, loadVars
<1>4. CASE UseActive \/ BeginLoad
  BY <1>4 DEF UseActive, BeginLoad, NextEngine, loadVars
<1>5. CASE LoadRevision
  <2>1. CASE Loadable
    <3>1. at' = "words" /\ before' = revision[engine] /\ candidate' = <<>>
          /\ engine' = engine /\ engine \in Engines /\ UNCHANGED serviceVars
      BY <1>0, <1>5, <2>1 DEF LoadRevision
    <3>2. before' % 2 = 0
      BY <1>0, <2>1, <3>1, Parity DEF Loadable, Locked
    <3>3. Len(candidate') = 0
      BY <3>1
    <3>4. Len(candidate') < WordCount /\ before' <= revision'[engine']
          /\ \A w \in 1 .. Len(candidate') : FALSE
      BY <1>0, <3>1, <3>3, SizeAssumption DEF serviceVars
    <3> QED
      BY <1>0, <3>1, <3>2, <3>4
  <2>2. CASE ~Loadable
    BY <1>5, <2>2 DEF LoadRevision, NextEngine
  <2> QED
    BY <2>1, <2>2
<1>6. CASE CopyWord
  <2> DEFINE n == Len(candidate) + 1
  <2>1. /\ candidate' = Append(candidate, staged[engine][n])
        /\ at' = (IF n = WordCount THEN "recheck" ELSE "words")
        /\ engine \in Engines /\ UNCHANGED <<engine, before, staged, revision>>
        /\ Len(candidate) < WordCount
    BY <1>0, <1>6 DEF CopyWord, serviceVars
  <2>2. n \in Words
    BY <1>0, <2>1, SizeAssumption DEF Words
  <2>3. staged[engine][n] \in Configurations \cup {NoConfiguration}
    BY <2>1, <2>2 DEF TypeOK, Snapshots
  <2>4. /\ Len(candidate') = n /\ candidate'[n] = staged[engine][n]
        /\ \A w \in 1 .. Len(candidate) : candidate'[w] = candidate[w]
    BY <1>0, <2>1, <2>3, AppendProperties
  <2>5. at' = "words" => Len(candidate') < WordCount
    BY <1>0, <2>1, <2>4, SizeAssumption
  <2>6. at' = "recheck" => Len(candidate') = WordCount
    BY <2>1, <2>4
  <2>7. before = revision[engine] => \A w \in 1 .. n : candidate'[w] = staged[engine][w]
    BY <1>0, <1>6, <2>4 DEF CopyWord
  <2> QED
    BY <1>6, <2>1, <2>4, <2>5, <2>6, <2>7 DEF CopyWord
<1>7. CASE Recheck \/ Retry \/ GiveUp
  BY <1>7 DEF Recheck, Retry, GiveUp, NextEngine
<1>8. CASE UNCHANGED vars
  BY <1>8 DEF vars, serviceVars, validatorVars, loadVars
<1> QED
  BY <1>1, <1>2, <1>3, <1>4, <1>5, <1>6, <1>7, <1>8 DEF Next, Validator

LEMMA MailboxInvariantHolds == Spec => []MailboxInvariant
<1>1. MailboxInvariant /\ [Next]_vars => MailboxInvariant'
  BY TypeStep, LockStep, LoadStep DEF MailboxInvariant
<1> QED
  BY InitialMailboxes, <1>1, PTL DEF Spec

(* Every variable keeps its range; in particular load_staged copies no more *)
(* than the words there are and makes no more attempts than it may.        *)
THEOREM ConfigurationTypes == Spec => []TypeOK
<1>1. MailboxInvariant => TypeOK
  BY DEF MailboxInvariant
<1> QED
  BY <1>1, MailboxInvariantHolds, PTL

-----------------------------------------------------------------------------
(* An undisturbed attempt holds what is staged, one whole configuration.    *)
LEMMA UndisturbedIsStaged ==
  ASSUME MailboxInvariant, engine \in Engines, at = "recheck", Undisturbed
  PROVE  candidate = Staged(engine) /\ candidate = Whole(Generation(candidate))
<1>1. ~Locked(engine)
  BY Parity DEF MailboxInvariant, TypeOK, LoadInvariant, Undisturbed, Locked
<1>2. candidate \in Snapshots
  BY DEF MailboxInvariant, TypeOK, LoadInvariant, Snapshots, Words
<1>3. \A w \in Words : candidate[w] = staged[engine][w]
  BY DEF MailboxInvariant, LoadInvariant, Undisturbed, Words
<1>4. candidate = staged[engine]
  BY <1>2, <1>3 DEF MailboxInvariant, TypeOK, Snapshots
<1> QED
  BY <1>1, <1>4 DEF Staged, MailboxInvariant, LockInvariant, Generation

(* What each action does to the mailbox of one engine.                      *)
LEMMA RegisterStep ==
  ASSUME MailboxInvariant, [Next]_vars, NEW e \in Engines
  PROVE  Register(e)!Next \/ UNCHANGED Register(e)!vars
<1>0. /\ \A d \in Engines : revision[d] \in Nat
      /\ staged \in [Engines -> Snapshots] /\ revision \in [Engines -> Nat]
      /\ active \in [Engines -> Snapshots]
      /\ target \in Engines \cup {"none"} /\ "none" \notin Engines
  BY DEF MailboxInvariant, TypeOK, Engines
<1>1. LockInvariant
  BY DEF MailboxInvariant
<1>2. ASSUME NEW c \in Configurations, Request(c) PROVE UNCHANGED Register(e)!vars
  BY <1>0, <1>1, <1>2 DEF Request, LockInvariant, Staged, Locked, validatorVars, Register!vars
<1>3. CASE OpenLock
  <2>1. /\ target \in Engines /\ ~Locked(target) /\ UNCHANGED <<staged, request, target, active>>
        /\ revision' = [revision EXCEPT ![target] = @ + 1]
    BY <1>0, <1>3 DEF OpenLock, validatorVars
  <2>2. CASE e = target
    <3>1. Locked(e)'
      BY <1>0, <2>1, <2>2, Parity DEF Locked
    <3>2. Staged(e)' = Whole(request)
      BY <2>1, <2>2, <3>1 DEF Staged, Whole
    <3>3. Whole(request) \in Snapshots
      BY <1>0, <1>1, <2>1, WholeType DEF LockInvariant
    <3> QED
      BY <2>1, <3>2, <3>3 DEF Register!Next, Register!Stage
  <2>3. CASE e # target
    BY <2>1, <2>3 DEF Staged, Register!vars
  <2> QED
    BY <2>2, <2>3
<1>4. CASE StoreWord
  <2>1. /\ target \in Engines /\ Locked(target) /\ UNCHANGED <<revision, request, target, active>>
        /\ staged' = [staged EXCEPT ![target][stored + 1] = request]
    BY <1>0, <1>4 DEF StoreWord, validatorVars
  <2>2. CASE e = target
    BY <2>1, <2>2 DEF Staged, Locked, Whole, Register!vars
  <2>3. CASE e # target
    BY <1>0, <2>1, <2>3 DEF Staged, Locked, Register!vars
  <2> QED
    BY <2>2, <2>3
<1>5. CASE CloseLock
  <2>1. /\ target \in Engines /\ stored = WordCount /\ UNCHANGED <<staged, active>>
        /\ revision' = [revision EXCEPT ![target] = @ + 1]
    BY <1>0, <1>5 DEF CloseLock, validatorVars
  <2>2. Locked(target)
    BY <1>1, <2>1, SizeAssumption DEF LockInvariant
  <2>3. CASE e = target
    <3>1. ~Locked(e)'
      BY <1>0, <2>1, <2>2, <2>3, Parity DEF Locked
    <3>2. staged[e] = Whole(request)
      BY <1>0, <1>1, <2>1, <2>3, SameEverywhere DEF LockInvariant, Words
    <3>3. Staged(e) = Whole(request) /\ Staged(e)' = staged[e]
      BY <2>1, <2>2, <2>3, <3>1 DEF Staged
    <3> QED
      BY <2>1, <3>2, <3>3 DEF Register!vars
  <2>4. CASE e # target
    <3>1. revision'[e] = revision[e] /\ ~Locked(e)
      BY <1>0, <1>1, <2>1, <2>4 DEF LockInvariant
    <3> QED
      BY <2>1, <3>1 DEF Staged, Locked, Register!vars
  <2> QED
    BY <2>3, <2>4
<1>6. CASE Recheck
  <2>1. Staged(e)' = Staged(e)
    BY <1>6 DEF Recheck, Staged, Locked, Whole, serviceVars
  <2>2. CASE Adoptable /\ e = engine
    <3>1. active'[e] = Staged(e)
      BY <1>0, <1>6, <2>2, UndisturbedIsStaged DEF Recheck
    <3> QED
      BY <2>1, <3>1 DEF Register!Next, Register!Adopt
  <2>3. CASE ~(Adoptable /\ e = engine)
    <3>1. active'[e] = active[e]
      BY <1>0, <1>6, <2>3 DEF Recheck
    <3> QED
      BY <2>1, <3>1 DEF Register!vars
  <2> QED
    BY <2>2, <2>3
<1>7. ASSUME NEW c \in Configurations, Commit(c) PROVE UNCHANGED Register(e)!vars
  BY <1>7 DEF Commit, serviceVars, validatorVars, Staged, Locked, Whole, Register!vars
<1>8. ASSUME NEW d \in Engines, NEW c \in Configurations, BeginFrame(d, c)
      PROVE  UNCHANGED Register(e)!vars
  BY <1>8 DEF BeginFrame, serviceVars, Staged, Locked, Whole, Register!vars
<1>9. CASE UseActive \/ BeginLoad \/ LoadRevision \/ CopyWord \/ Retry \/ GiveUp \/ UNCHANGED vars
  <2>1. UNCHANGED <<serviceVars, active>>
    BY <1>9 DEF UseActive, BeginLoad, LoadRevision, CopyWord, Retry, GiveUp, vars, validatorVars
  <2> QED
    BY <2>1 DEF serviceVars, Staged, Locked, Whole, Register!vars
<1> QED
  BY <1>2, <1>3, <1>4, <1>5, <1>6, <1>7, <1>8, <1>9 DEF Next, Service, Validator

(* For every number of words the three sequence locks are atomic registers: *)
(* an engine adopts what is staged for it at that moment, whole.           *)
THEOREM MailboxesAreRegisters == Spec => ImplementsRegisters
<1>1. Init => \A e \in Engines : Register(e)!Init
  BY DEF Init, Register!Init, Staged
<1>2. MailboxInvariant /\ [Next]_vars =>
        [\A e \in Engines : Register(e)!Next \/ UNCHANGED Register(e)!vars]_vars
  BY RegisterStep
<1> QED
  BY <1>1, <1>2, MailboxInvariantHolds, PTL DEF Spec, ImplementsRegisters

(* An engine's configuration changes only to the one its frame was measured *)
(* under, however requests and frames interleave.                          *)
THEOREM OnlyTheFramesOwn == Spec => ReplacedOnlyByFramesOwn
<1>1. ASSUME MailboxInvariant, [Next]_vars, NEW e \in Engines, active'[e] # active[e]
      PROVE  active'[e] = Whole(frame)
  <2>1. Recheck /\ Adoptable /\ e = engine
    BY <1>1 DEF MailboxInvariant, TypeOK, Next, Service, Validator, Request, Commit, BeginFrame,
      OpenLock, StoreWord, CloseLock, UseActive, BeginLoad, LoadRevision, CopyWord, Recheck,
      Retry, GiveUp, vars, validatorVars
  <2>2. active'[e] = candidate /\ Generation(candidate) = frame
    BY <1>1, <2>1 DEF Recheck, Adoptable, MailboxInvariant, TypeOK
  <2>3. candidate = Whole(Generation(candidate))
    BY <1>1, <2>1, UndisturbedIsStaged DEF Recheck
  <2> QED
    BY <2>2, <2>3
<1>2. MailboxInvariant /\ [Next]_vars =>
        [\A e \in Engines : active'[e] # active[e] => active'[e] = Whole(frame)]_vars
  BY <1>1
<1> QED
  BY <1>2, MailboxInvariantHolds, PTL DEF Spec, ReplacedOnlyByFramesOwn
================================================================================
