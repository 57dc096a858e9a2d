-------------------------- MODULE StagedConfiguration --------------------------
(***************************************************************************)
(* The power-quality configuration on R5C1: R5c1Service stages one request *)
(* in the mailboxes of three engines, one after the other, and each engine *)
(* adopts it when the first frame arrives that the PL measured under it.   *)
(* Every engine has its own sequence lock of configuration_words words.    *)
(*                                                                         *)
(* A configuration is named by its generation; word 1 is the generation    *)
(* word.  A word of a configuration is named by that configuration, so a   *)
(* mixture of two shows.  Requests are valid ones: the service rejects the *)
(* others before any engine sees them, with the check configure() repeats. *)
(* A generation keeps its words (Linux numbers its configurations), and    *)
(* frames of one generation their sample rate: mains would load the mailbox *)
(* again for another rate and find the configuration it already has.       *)
(* One action per shared access; the two sides interleave at will, which   *)
(* includes what the priorities allow: RPMsg preempting AGG_VAL.           *)
(***************************************************************************)
EXTENDS Integers, Sequences

CONSTANTS
  Configurations,   \* generations that are staged or measured under
  WordCount,        \* configuration_words
  Attempts,         \* of load_staged: 3
  Rejected,         \* what flicker and mains do not take (disabled, or it
                    \* differs from the parameters the frame carries)
  RequestBound      \* requests in one behaviour

NoConfiguration == 0

ASSUME ConfigurationAssumption ==
  /\ NoConfiguration \notin Configurations
  /\ Rejected \in [{"flicker", "mains"} -> SUBSET Configurations]
ASSUME SizeAssumption == WordCount \in Nat \ {0} /\ Attempts \in Nat \ {0}
ASSUME BoundAssumption == RequestBound \in Nat

Engines == {"pq", "flicker", "mains"}
Words == 1 .. WordCount
Snapshots == [Words -> Configurations \cup {NoConfiguration}]
Whole(c) == [w \in Words |-> c]

VARIABLES
  staged,          \* staged_words_ of each engine
  revision,        \* staged_revision_ of each engine
  request,         \* the configuration the service is staging
  target,          \* the engine it stages, "none" between requests
  stored,          \* words stored in it so far
  measuring,       \* the generation the PL measures under
  frame,           \* the generation of the frame AGG_VAL works on
  engine,          \* the engine that processes it, "none" between frames
  at,              \* where its apply_matching_configuration stands
  attempt,         \* number of the attempt of load_staged
  before,          \* the revision that attempt began with
  candidate,       \* the words this attempt has copied to candidate_configuration_
  active           \* active_configuration_ of each engine

serviceVars == <<staged, revision, request, target, stored>>
loadVars == <<attempt, before, candidate>>
validatorVars == <<frame, engine, at, loadVars, active>>
vars == <<serviceVars, measuring, validatorVars>>

TypeOK ==
  /\ staged \in [Engines -> Snapshots]
  /\ revision \in [Engines -> Nat]
  /\ request \in Configurations \cup {NoConfiguration}
  /\ target \in Engines \cup {"none"}
  /\ stored \in 0 .. WordCount
  /\ measuring \in Configurations
  /\ frame \in Configurations \cup {NoConfiguration}
  /\ engine \in Engines \cup {"none"}
  /\ at \in {"begin", "revision", "words", "recheck"}
  /\ attempt \in 1 .. Attempts
  /\ before \in Nat
  /\ candidate \in Seq(Configurations \cup {NoConfiguration})
  /\ Len(candidate) <= WordCount
  /\ active \in [Engines -> Snapshots]

Init ==
  /\ staged = [e \in Engines |-> Whole(NoConfiguration)]
  /\ revision = [e \in Engines |-> 0]
  /\ request = NoConfiguration
  /\ target = "none"
  /\ stored = 0
  /\ measuring \in Configurations
  /\ frame = NoConfiguration
  /\ engine = "none"
  /\ at = "begin"
  /\ attempt = 1
  /\ before = 0
  /\ candidate = <<>>
  /\ active = [e \in Engines |-> Whole(NoConfiguration)]

--------------------------------------------------------------------------------
(* R5c1Service::handle_custom, MSAP1_RPU_MSG_M18_CONFIG_SET.                *)

(* The order in which the service calls configure().                       *)
StagedAfter(e) == CASE e = "pq" -> "flicker" [] e = "flicker" -> "mains" [] OTHER -> "none"

Request(c) ==
  /\ target = "none"
  /\ revision["mains"] < 2 * RequestBound
  /\ request' = c
  /\ target' = "pq"
  /\ stored' = 0
  /\ UNCHANGED <<staged, revision, measuring, validatorVars>>

Locked(e) == revision[e] % 2 = 1

OpenLock ==
  /\ target # "none" /\ ~Locked(target) /\ stored = 0
  /\ revision' = [revision EXCEPT ![target] = @ + 1]
  /\ UNCHANGED <<staged, request, target, stored, measuring, validatorVars>>

StoreWord ==
  /\ target # "none" /\ Locked(target) /\ stored < WordCount
  /\ staged' = [staged EXCEPT ![target][stored + 1] = request]
  /\ stored' = stored + 1
  /\ UNCHANGED <<revision, request, target, measuring, validatorVars>>

CloseLock ==
  /\ target # "none" /\ stored = WordCount
  /\ revision' = [revision EXCEPT ![target] = @ + 1]
  /\ target' = StagedAfter(target)
  /\ stored' = 0
  /\ UNCHANGED <<staged, request, measuring, validatorVars>>

(* R5C0 commits a configuration in the PL, before or after Linux has       *)
(* staged it here.                                                         *)
Commit(c) ==
  /\ measuring # c
  /\ measuring' = c
  /\ UNCHANGED <<serviceVars, validatorVars>>

--------------------------------------------------------------------------------
(* AGG_VAL: process() of an engine up to the end of                        *)
(* apply_matching_configuration.  A voltage sample frame goes to flicker    *)
(* and then to mains.  A frame that waited in the rings may have been       *)
(* measured under an earlier configuration.                                *)
BeginFrame(e, c) ==
  /\ engine = "none"
  /\ e # "mains"
  /\ engine' = e
  /\ frame' = c
  /\ at' = "begin"
  /\ UNCHANGED <<serviceVars, measuring, loadVars, active>>

NextEngine == engine' = IF engine = "flicker" THEN "mains" ELSE "none"

Generation(snapshot) == snapshot[1]

(* flicker and mains look at the mailbox only when the active configuration *)
(* is another one; pq always does.                                         *)
KeepsActive == engine # "pq" /\ Generation(active[engine]) # NoConfiguration
ActiveSuffices == engine # "pq" /\ Generation(active[engine]) = frame

UseActive ==
  /\ engine # "none" /\ at = "begin"
  /\ ActiveSuffices
  /\ NextEngine
  /\ UNCHANGED <<serviceVars, measuring, frame, at, loadVars, active>>

BeginLoad ==
  /\ engine # "none" /\ at = "begin"
  /\ ~ActiveSuffices
  /\ at' = "revision"
  /\ attempt' = 1
  /\ UNCHANGED <<serviceVars, measuring, frame, engine, before, candidate, active>>

(* load_staged gives up at once if nothing was staged or the service is     *)
(* writing.                                                                *)
LoadableWhileWriting == revision[engine] # 0
Loadable == revision[engine] # 0 /\ ~Locked(engine)

LoadRevision ==
  /\ engine # "none" /\ at = "revision"
  /\ IF Loadable
       THEN at' = "words" /\ before' = revision[engine] /\ UNCHANGED engine
       ELSE at' = "begin" /\ NextEngine /\ UNCHANGED before
  /\ UNCHANGED <<serviceVars, measuring, frame, attempt, candidate, active>>

CopyWord ==
  /\ engine # "none" /\ at = "words"
  /\ candidate' = Append(candidate, staged[engine][Len(candidate) + 1])
  /\ at' = IF Len(candidate) + 1 = WordCount THEN "recheck" ELSE "words"
  /\ UNCHANGED <<serviceVars, measuring, frame, engine, attempt, before, active>>

Undisturbed == revision[engine] = before

(* pq takes every configuration of the frame's generation; the other two    *)
(* compare it with the frame.  An engine that already works with this      *)
(* generation keeps its copy.                                              *)
AdoptableEarly ==
  /\ Generation(candidate) # Generation(active[engine])
  /\ engine # "pq" => frame \notin Rejected[engine]
Adoptable ==
  /\ Generation(candidate) = frame
  /\ Generation(candidate) # Generation(active[engine])
  /\ engine # "pq" => frame \notin Rejected[engine]

Recheck ==
  /\ engine # "none" /\ at = "recheck"
  /\ Undisturbed
  /\ active' = IF Adoptable THEN [active EXCEPT ![engine] = candidate] ELSE active
  /\ candidate' = <<>>
  /\ at' = "begin"
  /\ NextEngine
  /\ UNCHANGED <<serviceVars, measuring, frame, attempt, before>>

RetryOnceMore ==
  /\ engine # "none" /\ at = "recheck"
  /\ ~Undisturbed
  /\ attempt <= Attempts
  /\ attempt' = attempt + 1
  /\ candidate' = <<>>
  /\ at' = "revision"
  /\ UNCHANGED <<serviceVars, measuring, frame, engine, before, active>>
Retry ==
  /\ engine # "none" /\ at = "recheck"
  /\ ~Undisturbed
  /\ attempt < Attempts
  /\ attempt' = attempt + 1
  /\ candidate' = <<>>
  /\ at' = "revision"
  /\ UNCHANGED <<serviceVars, measuring, frame, engine, before, active>>

GiveUp ==
  /\ engine # "none" /\ at = "recheck"
  /\ ~Undisturbed
  /\ attempt = Attempts
  /\ candidate' = <<>>
  /\ at' = "begin"
  /\ NextEngine
  /\ UNCHANGED <<serviceVars, measuring, frame, attempt, before, active>>

--------------------------------------------------------------------------------
Service == OpenLock \/ StoreWord \/ CloseLock
Validator == UseActive \/ BeginLoad \/ LoadRevision \/ CopyWord \/ Recheck \/ Retry \/ GiveUp

Next ==
  \/ \E c \in Configurations : Request(c) \/ Commit(c)
  \/ \E e \in Engines, c \in Configurations : BeginFrame(e, c)
  \/ Service
  \/ Validator

(* A request that was begun is finished, and so is a frame; frames of both  *)
(* kinds measured under the present configuration keep coming.  No request  *)
(* and no commit is owed.                                                  *)
Fairness ==
  /\ WF_vars(Service)
  /\ WF_vars(Validator)
  /\ \A e \in Engines : SF_vars(BeginFrame(e, measuring))

Spec == Init /\ [][Next]_vars /\ Fairness

--------------------------------------------------------------------------------
(* What an engine's mailbox holds: a request counts from the moment its     *)
(* lock opens.                                                             *)
Staged(e) == IF e = target /\ Locked(e) THEN Whole(request) ELSE staged[e]

Register(e) == INSTANCE ProfileRegister
  WITH Values <- Snapshots, staged <- Staged(e), adopted <- active[e],
       InitialStaged <- Whole(NoConfiguration),
       InitialAdopted <- Whole(NoConfiguration)

(* Every mailbox behaves as Register(e)!Spec says: no engine works with a   *)
(* mixture of two configurations, or adopts one that a later request has   *)
(* replaced in its mailbox.                                                *)
ImplementsRegisters ==
  /\ \A e \in Engines : Register(e)!Init
  /\ [][\A e \in Engines : Register(e)!Next \/ UNCHANGED Register(e)!vars]_vars

(* Of the configurations that reach it, pq takes all.                      *)
Takes(e, c) == e = "pq" \/ c \notin Rejected[e]

(* An engine adopts what is staged for it once the PL measures under it,    *)
(* in whichever order Linux and the PL got there.                          *)
StagedIsAdopted ==
  \A e \in Engines, c \in Configurations :
    Takes(e, c) =>
      ((Staged(e) = Whole(c) /\ measuring = c)
        ~> (active[e] = Whole(c) \/ Staged(e) # Whole(c) \/ measuring # c))

(* Staging the next configuration does not make an engine forget the one    *)
(* it works with: only a configuration of the frame's own generation        *)
(* replaces it.                                                            *)
ReplacedOnlyByFramesOwn ==
  [][\A e \in Engines : active'[e] # active[e] => active'[e] = Whole(frame)]_vars
================================================================================
