----------------------------- MODULE SlowingHandler -----------------------------
(***************************************************************************)
(* How a session finds that its stream is slow: the server says how long ago *)
(* it answered, the client how long ago it heard that, and the difference is  *)
(* what the stream is late by.  SlowingHandler keeps a mean of these delays,  *)
(* half of it the newest, and leaves out one that is huge, which a computer   *)
(* that slept explains.                                                      *)
(*                                                                          *)
(* A behaviour follows the sessions that replace one another and hand the     *)
(* mean on.  Delays are milliseconds, and the mean is kept in parts of one,   *)
(* UNIT of them, so that every halving is exact as that of a double is.       *)
(* onOKReceived passes isPolling where startSync expects isStreaming, and a   *)
(* polling session, which never enters the PAUSE phase, measures nothing.     *)
(***************************************************************************)
EXTENDS Integers, FiniteSets, Sequences, SequencesExt, FiniteSetsExt, RecursiveData

CONSTANTS
  Delays,     (* what the stream may be late by, and Early                  *)
  MaxSyncs    (* bound: messages with the server's time, and new sessions    *)

ASSUME SlowingAssumption == Delays \subseteq Nat /\ IsFiniteSet(Delays) /\ Delays # {} /\ MaxSyncs \in Nat

VARIABLES
  slowing,     (* the SlowingHandler of the session                         *)
  polls,       (* does the session poll, and is it forced                   *)
  answered,    (* did the server answer it                                  *)
  resumed,     (* was there a session before it                             *)
  syncs,       (* the delays since the mean was last set to zero            *)
  syncsAndSessions,
  before,      (* the mean before the last of them                          *)
  toldSlow     (* did the last one find the stream slow                     *)

slowingVars == <<slowing, polls, answered, resumed, syncs, syncsAndSessions, before, toldSlow>>

MAX_MEAN    == 7000
HUGE_DELAY  == 20000
IGNORE_MEAN == 60
Early       == 0 - 1000   (* the server's clock ran faster *)
UNIT        == TwoToThe[MaxSyncs]
InUnits(ms) == ms * UNIT
Readings    == Delays \cup {Early}

NewHandler == [mean |-> 0, first |-> FALSE, huge |-> FALSE]
SlowingTypeOK ==
  /\ slowing \in [mean : InUnits(Early)..InUnits(Max(Delays)), first : BOOLEAN, huge : BOOLEAN]
  /\ polls \in [polling : BOOLEAN, forced : BOOLEAN]
  /\ {answered, resumed, toldSlow} \subseteq BOOLEAN
  /\ syncs \in Seq(Readings) /\ Len(syncs) <= MaxSyncs /\ syncsAndSessions \in 0..MaxSyncs
  /\ before \in Int
-----------------------------------------------------------------------------
(* getDelay: whole milliseconds. *)
GetDelay(h) == IF ~h.first \/ h.mean <= 0 THEN 0 ELSE h.mean \div UNIT

SetMean(h, value) == [h EXCEPT !.first = TRUE, !.mean = value]

(* The handler after a test, and whether the stream is slow. *)
Tested(h, slow) == [handler |-> h, slow |-> slow]
Halved(h, delay) == (h.mean + InUnits(delay)) \div 2
Averaged(h, delay) ==
  IF Halved(h, delay) < InUnits(IGNORE_MEAN) THEN Tested(SetMean(h, 0), FALSE)
  ELSE Tested(SetMean(h, Halved(h, delay)), Halved(h, delay) > InUnits(MAX_MEAN))
IsHuge(h, delay) == delay > HUGE_DELAY /\ InUnits(delay) > h.mean * 2

(* Mutant: a huge delay counts like any other. *)
TestSyncOfAny(h, delay) ==
  IF ~h.first THEN Tested(SetMean(h, InUnits(delay)), FALSE) ELSE Averaged(h, delay)
(* testSync: the first delay is the mean, and one huge delay in a row is left  *)
(* out of it. *)
TestSync(h, delay) ==
  IF ~h.first THEN Tested(SetMean(h, InUnits(delay)), FALSE)
  ELSE IF IsHuge(h, delay) /\ ~h.huge THEN Tested([h EXCEPT !.huge = TRUE], h.mean > InUnits(MAX_MEAN))
  ELSE IF IsHuge(h, delay) THEN Averaged([h EXCEPT !.huge = FALSE], delay)
  ELSE Averaged(h, delay)
-----------------------------------------------------------------------------
(* startSync, as onOKReceived calls it. *)
StartSync ==
  /\ ~answered /\ answered' = TRUE
  /\ IF polls.polling \/ polls.forced
     THEN slowing' = [slowing EXCEPT !.mean = 0, !.huge = FALSE] /\ syncs' = <<>>
     ELSE UNCHANGED <<slowing, syncs>>
  /\ UNCHANGED <<polls, resumed, syncsAndSessions, before, toldSlow>>

(* onSyncMessage with syncCheck: a polling session only warns, and one whose *)
(* slowing is not enabled is not told. *)
SyncCheck(delay, slowingEnabled) ==
  /\ answered /\ syncsAndSessions < MaxSyncs
  /\ syncsAndSessions' = syncsAndSessions + 1
  /\ IF polls.polling
     THEN toldSlow' = FALSE /\ UNCHANGED <<slowing, syncs, before>>
     ELSE /\ slowing' = TestSync(slowing, delay).handler
          /\ toldSlow' = (TestSync(slowing, delay).slow /\ slowingEnabled)
          /\ syncs' = Append(syncs, delay) /\ before' = slowing.mean
  /\ UNCHANGED <<polls, answered, resumed>>

(* A session that takes over from another has its mean. *)
NextSlowing(polling, forced) ==
  /\ answered /\ syncsAndSessions < MaxSyncs
  /\ syncsAndSessions' = syncsAndSessions + 1
  /\ slowing' = SetMean(NewHandler, slowing.mean)
  /\ polls' = [polling |-> polling, forced |-> forced]
  /\ answered' = FALSE /\ resumed' = TRUE /\ toldSlow' = FALSE
  /\ UNCHANGED <<syncs, before>>
-----------------------------------------------------------------------------
SlowingInit ==
  /\ slowing = NewHandler /\ polls \in [polling : BOOLEAN, forced : BOOLEAN]
  /\ answered = FALSE /\ resumed = FALSE
  /\ syncs = <<>> /\ syncsAndSessions = 0 /\ before = 0 /\ toldSlow = FALSE

SlowingNext ==
  \/ StartSync
  \/ \E delay \in Readings, slowingEnabled \in BOOLEAN : SyncCheck(delay, slowingEnabled)
  \/ \E polling, forced \in BOOLEAN : NextSlowing(polling, forced)
SlowingSpec == SlowingInit /\ [][SlowingNext]_slowingVars
-----------------------------------------------------------------------------
(* Properties.                                                             *)

(* A stream is found slow for what was measured: some delay was above the    *)
(* limit, and so is the mean that the session is asked to slow down by; one   *)
(* delay alone is not enough, unless an earlier session left a mean; and a    *)
(* huge one, the first of its kind, does not make a stream slow that was not. *)
(* The mean never exceeds the delays it is of.                              *)
SlowIsMeasured ==
  /\ slowing.mean <= InUnits(Max(ToSet(syncs) \cup {0}))
  /\ toldSlow =>
       LET earlier == Range(Front(syncs))
       IN  /\ GetDelay(slowing) >= MAX_MEAN
           /\ \E delay \in ToSet(syncs) : delay > MAX_MEAN
           /\ earlier # {} \/ resumed
           /\ Last(syncs) > HUGE_DELAY =>
                before > InUnits(MAX_MEAN) \/ \E delay \in earlier : delay > HUGE_DELAY
================================================================================
