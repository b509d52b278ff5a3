---------------------------- MODULE IRLightProofs ----------------------------
(***************************************************************************)
(* What IRLight relies on instead of a lock, proved for every number of    *)
(* handlers and all durations with MaxRpc < Cooldown.                      *)
(*                                                                         *)
(* OneCommandAtATime and CommandIsCurrent are not inductive: they do not   *)
(* say why the next caller of coolingDown is turned away.  CommandInv does:*)
(* the age of a command is the age of the last stamp, so it is below the   *)
(* cooldown until the command has committed or undone the stamp; and a     *)
(* caller whose decision has gone stale meets a stamp that is still fresh, *)
(* because no time passes between its decision and its check.              *)
(*                                                                         *)
(* On that rest the spacing of manual changes (ManualIsSpaced), what       *)
(* relayOn says of the lamp (LampKnown), the relay's rest (RelayRested)    *)
(* and the cap (CapInv).                                                   *)
(***************************************************************************)
EXTENDS IRLight, TLAPS

InCommand(a) == pc[a] \in {"rpc", "undo", "commit"}
Asking(a) == pc[a] \in {"manual", "cool"}
UpToDate(a) == want[a] = ~relayOn

CommandIsFresh == \A a \in Actors : InCommand(a) => sinceToggle = rpcAge[a] /\ UpToDate(a)
CommandIsAlone == \A a, b \in Actors : InCommand(a) /\ InCommand(b) => a = b
StaleIsRefused ==
    \A a \in Actors : Asking(a) /\ ~UpToDate(a) =>
                         sinceToggle < Cooldown /\ \A b \in Actors : ~InCommand(b)

CommandInv == CommandIsFresh /\ CommandIsAlone /\ StaleIsRefused
IInv == TypeOK /\ CommandInv

-----------------------------------------------------------------------------
(* An age stays within its limit, and is not cut short below it.            *)
LEMMA UptoInRange ==
    ASSUME NEW limit \in Nat, NEW age \in 0..limit
    PROVE  /\ Upto(age, limit) \in 0..limit
           /\ age < limit => Upto(age, limit) = age + 1
  BY DEF Upto

(* The constants are natural numbers, and so is the grace of the cap.       *)
LEMMA GraceIsNat == Grace \in Nat
  BY TimesAreNat DEF Grace

(* A decision is a pair of Booleans.                                        *)
LEMMA DecisionType ==
    ASSUME TypeOK
    PROVE  Decision.on \in BOOLEAN /\ Decision.armed \in BOOLEAN
<1> DEFINE dark == decideDarkTrigger(sky, relayOn, cutoffArmed)
<1>1. dark.on \in BOOLEAN /\ dark.armed \in BOOLEAN
  <2>1. CASE sky = "bright"
    BY <2>1 DEF decideDarkTrigger
  <2>2. CASE sky = "dark"
    BY <2>2, Zenon DEF TypeOK, decideDarkTrigger
  <2>3. CASE sky # "bright" /\ sky # "dark"
    BY <2>3, Zenon DEF TypeOK, decideDarkTrigger
  <2> QED BY <2>1, <2>2, <2>3
<1>2. FromDark.on \in BOOLEAN /\ FromDark.armed \in BOOLEAN
  BY <1>1, Zenon DEF TypeOK, FromDark
<1> QED BY <1>2, Zenon DEF Decision

-----------------------------------------------------------------------------
(* The Booleans of TypeOK and the rest of it; the provers treat them apart.  *)
FlagTypes ==
    /\ enabled \in BOOLEAN /\ sunriseEnabled \in BOOLEAN
    /\ relayOn \in BOOLEAN /\ cutoffArmed \in BOOLEAN
    /\ window \in BOOLEAN /\ lamp \in BOOLEAN /\ inDoubt \in BOOLEAN

OtherTypes ==
    /\ maxOn \in {0, Cap} /\ onFor \in 0..Cap
    /\ sinceToggle \in 0..Cooldown /\ sinceManual \in 0..ManualCooldown
    /\ pc \in [Actors -> {"idle", "manual", "cool", "rpc", "commit",
                         "undo", "mark", "answered"}]
    /\ want \in [Actors -> BOOLEAN]
    /\ rpcAge \in [Actors -> 0..MaxRpc] /\ sincePoll \in 0..Poll
    /\ sky \in {"down", "bright", "dim", "dark"}
    /\ lampAge \in 0..Cooldown /\ overdue \in 0..Grace + 1

(* Together they are TypeOK.                                                *)
LEMMA TypesApart == TypeOK <=> FlagTypes /\ OtherTypes
  BY Zenon DEF TypeOK, FlagTypes, OtherTypes

(* The initial states have the types and no command.                        *)
LEMMA InitIInv == Init => IInv
<1> SUFFICES ASSUME Init PROVE IInv
  OBVIOUS
<1>1. FlagTypes
  BY Zenon DEF Init, FlagTypes
<1>2. OtherTypes
  BY GraceIsNat, TimesAreNat, CapIsLong DEF Init, OtherTypes
<1>3. CommandInv
  BY DEF Init, CommandInv, CommandIsFresh, CommandIsAlone, StaleIsRefused,
         InCommand, Asking
<1> QED BY <1>1, <1>2, <1>3, TypesApart DEF IInv

(* Every step keeps the Booleans Boolean.                                   *)
LEMMA FlagStep == TypeOK /\ [Next]_vars => FlagTypes'
<1> SUFFICES ASSUME TypeOK, FlagTypes, [Next]_vars PROVE FlagTypes'
  BY TypesApart
<1>1. CASE World
  BY <1>1, Zenon DEF World, Set, SetSunrise, SkyChanges, WindowMoves, settings,
                     runtime, world, history, FlagTypes
<1>2. CASE TimePasses
  BY <1>2, Zenon DEF TimePasses, settings, world, FlagTypes
<1>3. CASE TickDecide
  BY <1>3, DecisionType, Zenon DEF TickDecide, settings, world, history, FlagTypes
<1>4. ASSUME NEW c \in Clients, Trigger(c) PROVE FlagTypes'
  BY <1>4, Zenon DEF Trigger, TriggerAsked, TriggerManual, markManualToggle,
                     settings, runtime, world, history, FlagTypes
<1>5. ASSUME NEW a \in Actors, Command(a) PROVE FlagTypes'
  <2>1. want[a] \in BOOLEAN
    BY DEF TypeOK
  <2>2. CASE CheckCooldown(a)
    BY <2>2, Zenon DEF CheckCooldown, settings, world, history, FlagTypes
  <2>3. CASE CommandDone(a)
    BY <2>1, <2>3, Zenon DEF CommandDone, MoveLamp, settings, runtime, world, FlagTypes
  <2>4. CASE CommandUnanswered(a)
    BY <2>1, <2>4, Zenon DEF CommandUnanswered, MoveLamp, settings, runtime, world,
                             FlagTypes
  <2>5. CASE CommandRefused(a) \/ CommandUnreached(a)
    BY <2>5, Zenon DEF CommandRefused, CommandUnreached, settings, runtime, world,
                       FlagTypes
  <2>6. CASE undoLastToggle(a)
    BY <2>6, Zenon DEF undoLastToggle, settings, world, history, FlagTypes
  <2>7. CASE commitToggle(a)
    BY <2>1, <2>7, Zenon DEF commitToggle, Noted, settings, world, history, FlagTypes
  <2> QED BY <1>5, <2>2, <2>3, <2>4, <2>5, <2>6, <2>7 DEF Command
<1>6. CASE UNCHANGED vars
  BY <1>6, Zenon DEF vars, settings, runtime, world, history, FlagTypes
<1> QED BY <1>1, <1>2, <1>3, <1>4, <1>5, <1>6 DEF Next

(* Every step keeps times, places and decisions in their ranges.            *)
LEMMA OtherStep == TypeOK /\ [Next]_vars => OtherTypes'
<1> SUFFICES ASSUME OtherTypes, FlagTypes, TypeOK, [Next]_vars PROVE OtherTypes'
  BY TypesApart
<1> USE GraceIsNat, TimesAreNat, CapIsLong
<1>1. CASE World
  BY <1>1 DEF World, Set, SetSunrise, SkyChanges, WindowMoves, settings, runtime,
              world, history, OtherTypes
<1>2. CASE TimePasses
  <2>1. /\ onFor' \in 0..Cap /\ sinceToggle' \in 0..Cooldown
        /\ sinceManual' \in 0..ManualCooldown /\ sincePoll' \in 0..Poll
        /\ lampAge' \in 0..Cooldown /\ overdue' \in 0..Grace + 1
    <3>1. onFor' = Upto(onFor, Cap) \/ onFor' = 0
      BY <1>2 DEF TimePasses
    <3>2. overdue' = Upto(overdue, Grace + 1) \/ overdue' = 0
      BY <1>2 DEF TimePasses
    <3> QED BY <1>2, <3>1, <3>2 DEF TimePasses, OtherTypes, Upto
  <2>2. rpcAge' \in [Actors -> 0..MaxRpc]
    BY <1>2 DEF TimePasses, OtherTypes, WithinDeadline
  <2>3. pc' \in [Actors -> {"idle", "manual", "cool", "rpc", "commit",
                            "undo", "mark", "answered"}]
    BY <1>2 DEF TimePasses, OtherTypes
  <2>4. UNCHANGED <<maxOn, want, sky>>
    BY <1>2 DEF TimePasses, settings, world
  <2> QED BY <2>1, <2>2, <2>3, <2>4 DEF OtherTypes
<1>3. CASE TickDecide
  <2>1. want' \in [Actors -> BOOLEAN]
    BY <1>3, DecisionType DEF TickDecide, OtherTypes
  <2> QED BY <1>3, <2>1 DEF TickDecide, settings, world, history, OtherTypes
<1>4. ASSUME NEW c \in Clients, Trigger(c) PROVE OtherTypes'
  <2>1. c \in Actors
    BY DEF Actors
  <2>2. CASE TriggerAsked(c)
    BY <2>1, <2>2 DEF TriggerAsked, settings, runtime, world, history, OtherTypes
  <2>3. CASE TriggerManual(c)
    BY <2>1, <2>3 DEF TriggerManual, Ended, settings, runtime, world, history, OtherTypes
  <2>4. CASE markManualToggle(c)
    BY <2>1, <2>4 DEF markManualToggle, Ended, settings, world, history, OtherTypes
  <2> QED BY <1>4, <2>2, <2>3, <2>4 DEF Trigger
<1>5. ASSUME NEW a \in Actors, Command(a) PROVE OtherTypes'
  <2>1. CASE CheckCooldown(a)
    BY <2>1 DEF CheckCooldown, StampToggle, Ended, settings, world, history, OtherTypes
  <2>2. CASE CommandDone(a) \/ CommandUnanswered(a)
    BY <2>2 DEF CommandDone, CommandUnanswered, MoveLamp, settings, runtime, world,
                OtherTypes
  <2>3. CASE CommandRefused(a) \/ CommandUnreached(a)
    BY <2>3 DEF CommandRefused, CommandUnreached, settings, runtime, world, OtherTypes
  <2>4. CASE undoLastToggle(a)
    BY <2>4 DEF undoLastToggle, Undone, Ended, settings, world, history, OtherTypes
  <2>5. CASE commitToggle(a)
    BY <2>5 DEF commitToggle, settings, world, history, OtherTypes
  <2> QED BY <1>5, <2>1, <2>2, <2>3, <2>4, <2>5 DEF Command
<1>6. CASE UNCHANGED vars
  BY <1>6 DEF vars, settings, runtime, world, history, OtherTypes
<1> QED BY <1>1, <1>2, <1>3, <1>4, <1>5, <1>6 DEF Next

(* Every step of a tick, a handler or the world keeps the types.            *)
LEMMA TypeStep == TypeOK /\ [Next]_vars => TypeOK'
  BY FlagStep, OtherStep, TypesApart, PTL

-----------------------------------------------------------------------------
(* A step that leaves the relay's bookkeeping alone, and at most ends a      *)
(* goroutine's work or moves it before coolingDown, keeps CommandInv.        *)
LEMMA NothingCommanded ==
    ASSUME IInv,
           UNCHANGED <<relayOn, sinceToggle>>,
           \A a \in Actors : InCommand(a)' => rpcAge'[a] = rpcAge[a],
           \A a \in Actors : InCommand(a)' => InCommand(a),
           \A a \in Actors : want'[a] = want[a] \/ want'[a] = ~relayOn,
           \A a \in Actors : InCommand(a) => want'[a] = want[a],
           \A a \in Actors : Asking(a)' => Asking(a) \/ want'[a] = ~relayOn
    PROVE  CommandInv'
<1>1. CommandIsFresh'
  BY DEF IInv, CommandInv, CommandIsFresh, InCommand, UpToDate
<1>2. CommandIsAlone'
  BY DEF IInv, CommandInv, CommandIsAlone
<1>3. StaleIsRefused'
  BY DEF IInv, CommandInv, StaleIsRefused, UpToDate
<1> QED BY <1>1, <1>2, <1>3 DEF CommandInv

(* A goroutine alone in its command, at the age of the stamp, with a reading  *)
(* that is current: what CommandInv says of it, and of the others.            *)
LEMMA Commanding ==
    ASSUME IInv, NEW a \in Actors, InCommand(a)
    PROVE  /\ sinceToggle = rpcAge[a] /\ sinceToggle < Cooldown
           /\ want[a] = ~relayOn
           /\ \A b \in Actors \ {a} : ~InCommand(b)
           /\ \A b \in Actors : Asking(b) => want[b] = ~relayOn
<1>1. rpcAge[a] \in 0..MaxRpc
  BY DEF IInv, TypeOK
<1>2. sinceToggle = rpcAge[a] /\ UpToDate(a)
  BY DEF IInv, CommandInv, CommandIsFresh
<1>3. \A b \in Actors \ {a} : ~InCommand(b)
  BY DEF IInv, CommandInv, CommandIsAlone
<1>4. \A b \in Actors : Asking(b) => UpToDate(b)
  BY DEF IInv, CommandInv, StaleIsRefused
<1> QED BY <1>1, <1>2, <1>3, <1>4, CommandsAreShort, TimesAreNat DEF UpToDate

(* Every step keeps CommandInv.                                              *)
LEMMA CommandStep == IInv /\ [Next]_vars => CommandInv'
<1> SUFFICES ASSUME IInv, [Next]_vars PROVE CommandInv'
  OBVIOUS
<1> USE DEF InCommand, Asking
<1>t. TypeOK
  BY DEF IInv
<1>1. CASE World
  BY <1>1, NothingCommanded DEF World, Set, SetSunrise, SkyChanges, WindowMoves,
                                runtime
<1>2. CASE TimePasses
  <2>1. ASSUME NEW a \in Actors
        PROVE  ~Asking(a)' /\ (InCommand(a)' => pc[a] = "rpc" /\ WithinDeadline(a))
    BY <1>t, <1>2 DEF TimePasses, TypeOK
  <2>2. UNCHANGED <<want, relayOn>>
    BY <1>2 DEF TimePasses
  <2>3. CommandIsFresh'
    <3> SUFFICES ASSUME NEW a \in Actors, InCommand(a)'
                 PROVE  sinceToggle' = rpcAge'[a] /\ UpToDate(a)'
      BY DEF CommandIsFresh
    <3>1. InCommand(a) /\ pc[a] = "rpc"
      BY <2>1
    <3>2. rpcAge'[a] = rpcAge[a] + 1
      BY <1>2, <3>1 DEF TimePasses
    <3>3. sinceToggle' = sinceToggle + 1
      BY <1>t, <1>2, <3>1, Commanding DEF TimePasses, Upto
    <3> QED BY <2>2, <3>1, <3>2, <3>3, Commanding DEF UpToDate
  <2>4. CommandIsAlone'
    BY <2>1 DEF IInv, CommandInv, CommandIsAlone
  <2>5. StaleIsRefused'
    BY <2>1 DEF StaleIsRefused
  <2> QED BY <2>3, <2>4, <2>5 DEF CommandInv
<1>3. CASE TickDecide
  <2>1. CASE Decision.on = relayOn
    BY <1>3, <2>1, NothingCommanded DEF TickDecide
  <2>2. CASE Decision.on # relayOn
    <3>1. Runner \in Actors /\ want'[Runner] = ~relayOn
      BY <1>t, <1>3, <2>2, DecisionType DEF TickDecide, TypeOK, Actors
    <3>2. \A a \in Actors \ {Runner} : want'[a] = want[a] /\ pc'[a] = pc[a]
      BY <1>t, <1>3, <2>2 DEF TickDecide, TypeOK
    <3>3. pc[Runner] = "idle" /\ pc'[Runner] = "cool"
      BY <1>t, <1>3, <2>2, <3>1 DEF TickDecide, TypeOK
    <3>4. UNCHANGED <<relayOn, sinceToggle, rpcAge>>
      BY <1>3 DEF TickDecide
    <3> QED BY <3>1, <3>2, <3>3, <3>4, NothingCommanded
  <2> QED BY <2>1, <2>2
<1>4. ASSUME NEW c \in Clients, Trigger(c) PROVE CommandInv'
  <2>1. c \in Actors
    BY DEF Actors
  <2>2. CASE TriggerAsked(c)
    BY <1>t, <2>1, <2>2, NothingCommanded DEF TriggerAsked, TypeOK, runtime
  <2>3. CASE TriggerManual(c)
    BY <1>t, <2>1, <2>3, NothingCommanded DEF TriggerManual, Ended, TypeOK, runtime
  <2>4. CASE markManualToggle(c)
    BY <1>t, <2>1, <2>4, NothingCommanded DEF markManualToggle, Ended, TypeOK
  <2> QED BY <1>4, <2>2, <2>3, <2>4 DEF Trigger
<1>5. ASSUME NEW a \in Actors, Command(a) PROVE CommandInv'
  <2>1. CASE CheckCooldown(a)
    <3>1. CASE sinceToggle < Cooldown
      BY <1>t, <2>1, <3>1, NothingCommanded DEF CheckCooldown, Ended, TypeOK
    <3>2. CASE ~(sinceToggle < Cooldown)
      <4>1. \A b \in Actors : ~InCommand(b)
        BY <3>2, Commanding
      <4>2. \A b \in Actors : Asking(b) => UpToDate(b)
        BY <3>2 DEF IInv, CommandInv, StaleIsRefused
      <4>3. pc[a] = "cool" /\ pc'[a] = "rpc" /\ sinceToggle' = 0 /\ rpcAge'[a] = 0
        BY <1>t, <2>1, <3>2 DEF CheckCooldown, StampToggle, TypeOK
      <4>4. \A b \in Actors \ {a} : pc'[b] = pc[b]
        BY <1>t, <2>1, <3>2 DEF CheckCooldown, TypeOK
      <4>5. UNCHANGED <<want, relayOn>>
        BY <2>1 DEF CheckCooldown
      <4> QED BY <4>1, <4>2, <4>3, <4>4, <4>5
              DEF CommandInv, CommandIsFresh, CommandIsAlone, StaleIsRefused, UpToDate
    <3> QED BY <3>1, <3>2
  <2>2. CASE CommandDone(a) \/ CommandRefused(a) \/ CommandUnanswered(a) \/ CommandUnreached(a)
    BY <1>t, <2>2, NothingCommanded
       DEF CommandDone, CommandRefused, CommandUnanswered, CommandUnreached, TypeOK,
           runtime
  <2>3. CASE undoLastToggle(a)
    <3>1. InCommand(a)
      BY <2>3 DEF undoLastToggle
    <3>2. \A b \in Actors : ~InCommand(b)' /\ (Asking(b)' => Asking(b))
      BY <1>t, <2>3, <3>1, Commanding DEF undoLastToggle, Ended, TypeOK
    <3>3. UNCHANGED <<want, relayOn>>
      BY <2>3 DEF undoLastToggle
    <3> QED BY <3>1, <3>2, <3>3, Commanding
            DEF CommandInv, CommandIsFresh, CommandIsAlone, StaleIsRefused, UpToDate
  <2>4. CASE commitToggle(a)
    <3>1. InCommand(a)
      BY <2>4 DEF commitToggle
    <3>2. \A b \in Actors : ~InCommand(b)' /\ (Asking(b)' => Asking(b))
      BY <1>t, <2>4, <3>1, Commanding DEF commitToggle, TypeOK
    <3>3. sinceToggle' < Cooldown
      BY <2>4, <3>1, Commanding DEF commitToggle
    <3> QED BY <3>2, <3>3 DEF CommandInv, CommandIsFresh, CommandIsAlone, StaleIsRefused
  <2> QED BY <1>5, <2>1, <2>2, <2>3, <2>4 DEF Command
<1>6. CASE UNCHANGED vars
  BY <1>6, NothingCommanded DEF vars, runtime
<1> QED BY <1>1, <1>2, <1>3, <1>4, <1>5, <1>6 DEF Next

(* Types and CommandInv hold in every state.                                *)
LEMMA Invariance == Spec => []IInv
<1>1. IInv /\ [Next]_vars => IInv'
  BY TypeStep, CommandStep DEF IInv
<1> QED BY <1>1, InitIInv, PTL DEF Spec

-----------------------------------------------------------------------------
(* Ages, places and decisions keep their types; in particular a command's    *)
(* age does not exceed its deadline.                                         *)
THEOREM TypeCorrect == Spec => []TypeOK
  BY Invariance, PTL DEF IInv

(* Without a lock, and however many handlers and ticks race, no two relay    *)
(* commands are ever under way, provided a command is shorter than the       *)
(* cooldown.                                                                 *)
THEOREM CommandsNeverOverlap == Spec => []OneCommandAtATime
<1>1. IInv => OneCommandAtATime
  BY DEF IInv, CommandInv, CommandIsAlone, InCommand, OneCommandAtATime
<1> QED BY <1>1, Invariance, PTL

(* A command under way still asks for the opposite of the relay's state,     *)
(* though its caller read that state before coolingDown.                     *)
THEOREM CommandsAreCurrent == Spec => []CommandIsCurrent
<1>1. IInv => CommandIsCurrent
  BY DEF IInv, CommandInv, CommandIsFresh, InCommand, UpToDate, CommandIsCurrent
<1> QED BY <1>1, Invariance, PTL

-----------------------------------------------------------------------------
(* The manual cooldown.  Its check and its mark are a relay command apart,   *)
(* so several handlers can be past the check at once.  One of them gets the  *)
(* command; by the time it marks, its stamp still turns the others away.     *)
AllRefused == sinceToggle < Cooldown /\ \A a \in Actors : ~InCommand(a)

ManualIsSpaced ==
    \A c \in Clients :
        /\ InCommand(c) \/ pc[c] = "mark" => sinceManual = ManualCooldown
        /\ pc[c] = "cool" /\ sinceManual < ManualCooldown => AllRefused
        /\ pc[c] = "mark" => AllRefused
        /\ \A d \in Clients : pc[c] = "mark" /\ pc[d] = "mark" => c = d

(* Every step keeps manual changes apart.                                    *)
LEMMA ManualStep == IInv /\ ManualIsSpaced /\ [Next]_vars => ManualIsSpaced'
<1> SUFFICES ASSUME IInv, ManualIsSpaced, [Next]_vars PROVE ManualIsSpaced'
  OBVIOUS
<1> USE DEF InCommand, AllRefused
<1>t. TypeOK /\ Clients \subseteq Actors /\ ManualCooldown \in Nat /\ Cooldown \in Nat
  BY TimesAreNat DEF IInv, Actors
<1>1. CASE World
  BY <1>1 DEF World, Set, SetSunrise, SkyChanges, WindowMoves, runtime, ManualIsSpaced
<1>2. CASE TimePasses
  <2>1. \A a \in Actors : /\ pc'[a] \in {"idle", "rpc"}
                          /\ pc'[a] = "rpc" => pc[a] = "rpc"
    BY <1>t, <1>2 DEF TimePasses, TypeOK
  <2>2. sinceManual = ManualCooldown => sinceManual' = ManualCooldown
    BY <1>t, <1>2 DEF TimePasses, Upto
  <2>3. QED
    BY <1>t, <2>1, <2>2 DEF ManualIsSpaced
<1>3. CASE TickDecide
  <2>1. \A c \in Clients : pc'[c] = pc[c]
    BY <1>t, <1>3, RunnerIsNoClient DEF TickDecide, TypeOK
  <2>2. \A a \in Actors : InCommand(a)' => InCommand(a)
    BY <1>t, <1>3 DEF TickDecide, TypeOK
  <2>3. UNCHANGED <<sinceManual, sinceToggle>>
    BY <1>3 DEF TickDecide
  <2>4. QED
    BY <2>1, <2>2, <2>3 DEF ManualIsSpaced
<1>4. ASSUME NEW c \in Clients, Trigger(c) PROVE ManualIsSpaced'
  <2>1. CASE TriggerAsked(c)
    BY <1>t, <2>1 DEF TriggerAsked, TypeOK, runtime, ManualIsSpaced
  <2>2. CASE TriggerManual(c)
    BY <1>t, <2>2 DEF TriggerManual, manualCoolingDown, Ended, TypeOK, runtime,
                      ManualIsSpaced
  <2>3. CASE markManualToggle(c)
    <3>1. /\ AllRefused
          /\ \A d \in Clients : pc[d] = "mark" => c = d
      BY <2>3 DEF markManualToggle, ManualIsSpaced
    <3>2. /\ \A a \in Actors \ {c} : pc'[a] = pc[a]
          /\ pc'[c] = Ended(c) /\ UNCHANGED sinceToggle
      BY <1>t, <2>3 DEF markManualToggle, TypeOK
    <3>3. QED
      BY <1>t, <3>1, <3>2 DEF Ended, ManualIsSpaced
  <2>4. QED
    BY <1>4, <2>1, <2>2, <2>3 DEF Trigger
<1>5. ASSUME NEW a \in Actors, Command(a) PROVE ManualIsSpaced'
  <2>1. CASE CheckCooldown(a) /\ sinceToggle < Cooldown
    BY <1>t, <2>1 DEF CheckCooldown, Ended, TypeOK, ManualIsSpaced
  <2>2. CASE CheckCooldown(a) /\ ~(sinceToggle < Cooldown)
    <3>1. \A c \in Clients : /\ pc[c] # "mark"
                             /\ pc[c] = "cool" => ~(sinceManual < ManualCooldown)
      BY <2>2 DEF ManualIsSpaced
    <3>2. sinceManual \in 0..ManualCooldown
      BY <1>t DEF TypeOK
    <3>3. /\ \A b \in Actors \ {a} : pc'[b] = pc[b]
          /\ pc[a] = "cool" /\ pc'[a] = "rpc" /\ UNCHANGED sinceManual
      BY <1>t, <2>2 DEF CheckCooldown, TypeOK
    <3>4. QED
      BY <1>t, <3>1, <3>2, <3>3 DEF ManualIsSpaced
  <2>3. CASE CommandDone(a) \/ CommandRefused(a) \/ CommandUnanswered(a) \/ CommandUnreached(a)
    BY <1>t, <2>3 DEF CommandDone, CommandRefused, CommandUnanswered, CommandUnreached,
                      runtime, TypeOK, ManualIsSpaced
  <2>4. CASE undoLastToggle(a)
    <3>1. /\ \A b \in Actors \ {a} : pc'[b] = pc[b]
          /\ pc[a] = "undo" /\ pc'[a] = Ended(a) /\ UNCHANGED sinceManual
      BY <1>t, <2>4 DEF undoLastToggle, TypeOK
    <3>2. QED
      BY <1>t, <3>1 DEF Ended, ManualIsSpaced
  <2>5. CASE commitToggle(a)
    <3>1. InCommand(a)
      BY <2>5 DEF commitToggle
    <3>2. /\ \A b \in Actors \ {a} : pc'[b] = pc[b] /\ ~InCommand(b)
          /\ pc'[a] = IF a = Runner THEN "idle" ELSE "mark"
          /\ sinceToggle < Cooldown /\ UNCHANGED <<sinceManual, sinceToggle>>
      BY <1>t, <2>5, <3>1, Commanding DEF commitToggle, TypeOK
    <3>3. QED
      BY <1>t, <3>1, <3>2 DEF ManualIsSpaced
  <2>6. QED
    BY <1>5, <2>1, <2>2, <2>3, <2>4, <2>5 DEF Command
<1>6. CASE UNCHANGED vars
  BY <1>6 DEF vars, runtime, ManualIsSpaced
<1> QED BY <1>1, <1>2, <1>3, <1>4, <1>5, <1>6 DEF Next

(* A manual change comes a full manual cooldown after the previous one,      *)
(* however many requests are past its check together.                        *)
THEOREM ManualChangesSpaced == Spec => ManualTogglesSpaced
<1>1. Init => ManualIsSpaced
  BY DEF Init, ManualIsSpaced, InCommand, Actors
<1>2. ManualIsSpaced => [\A c \in Clients : markManualToggle(c) =>
                                              sinceManual >= ManualCooldown]_vars
  BY TimesAreNat DEF ManualIsSpaced, markManualToggle
<1>3. QED
  BY <1>1, <1>2, ManualStep, Invariance, PTL DEF Spec, ManualTogglesSpaced

-----------------------------------------------------------------------------
(* What relayOn says of the lamp, command by command.                        *)
LampKnown ==
    ~inDoubt =>
        /\ \A a \in Actors : pc[a] = "commit" => lamp = want[a]
        /\ (\A a \in Actors : pc[a] # "commit") => lamp = relayOn

(* Every step keeps relayOn and the lamp together, or leaves them in doubt.  *)
LEMMA LampStep == IInv /\ LampKnown /\ [Next]_vars => LampKnown'
<1> SUFFICES ASSUME IInv, LampKnown, [Next]_vars PROVE LampKnown'
  OBVIOUS
<1> USE DEF InCommand
<1>t. TypeOK
  BY DEF IInv
<1>1. CASE World
  BY <1>1 DEF World, Set, SetSunrise, SkyChanges, WindowMoves, runtime, history, LampKnown
<1>2. CASE TimePasses
  <2>1. \A a \in Actors : pc[a] # "commit" /\ pc'[a] # "commit"
    BY <1>t, <1>2 DEF TimePasses, TypeOK
  <2>2. UNCHANGED <<relayOn, lamp, inDoubt>>
    BY <1>2 DEF TimePasses
  <2>3. QED
    BY <2>1, <2>2 DEF LampKnown
<1>3. CASE TickDecide
  <2>1. \A a \in Actors : (pc'[a] = "commit" <=> pc[a] = "commit")
                          /\ (pc[a] = "commit" => want'[a] = want[a])
    BY <1>t, <1>3 DEF TickDecide, TypeOK
  <2>2. UNCHANGED <<relayOn, lamp, inDoubt>>
    BY <1>3 DEF TickDecide, history
  <2>3. QED
    BY <2>1, <2>2 DEF LampKnown
<1>4. ASSUME NEW c \in Clients, Trigger(c) PROVE LampKnown'
  <2>1. \A a \in Actors : (pc'[a] = "commit" <=> pc[a] = "commit")
                          /\ (pc[a] = "commit" => want'[a] = want[a])
    BY <1>t, <1>4 DEF Trigger, TriggerAsked, TriggerManual, markManualToggle, Ended,
                      TypeOK, Actors
  <2>2. UNCHANGED <<relayOn, lamp, inDoubt>>
    BY <1>4 DEF Trigger, TriggerAsked, TriggerManual, markManualToggle, runtime, history
  <2>3. QED
    BY <2>1, <2>2 DEF LampKnown
<1>5. ASSUME NEW a \in Actors, Command(a) PROVE LampKnown'
  <2>1. CASE CheckCooldown(a)
    BY <1>t, <2>1 DEF CheckCooldown, Ended, TypeOK, history, LampKnown
  <2>2. CASE CommandDone(a)
    <3>1. \A b \in Actors \ {a} : pc[b] # "commit"
      BY <2>2, Commanding DEF CommandDone
    <3>2. /\ pc' = [pc EXCEPT ![a] = "commit"] /\ lamp' = want[a] /\ want' = want
      BY <2>2 DEF CommandDone, MoveLamp
    <3>3. pc'[a] = "commit" /\ \A b \in Actors \ {a} : pc'[b] = pc[b]
      BY <1>t, <3>2 DEF TypeOK
    <3>4. QED
      BY <3>1, <3>2, <3>3 DEF LampKnown
  <2>3. CASE CommandRefused(a) \/ CommandUnanswered(a)
    BY <2>3 DEF CommandRefused, CommandUnanswered, LampKnown
  <2>4. CASE CommandUnreached(a) \/ undoLastToggle(a)
    BY <1>t, <2>4 DEF CommandUnreached, undoLastToggle, Ended, runtime, history,
                      TypeOK, LampKnown
  <2>5. CASE commitToggle(a)
    <3>1. \A b \in Actors : pc'[b] # "commit"
      BY <1>t, <2>5, Commanding DEF commitToggle, TypeOK
    <3>2. relayOn' = want[a] /\ pc[a] = "commit" /\ UNCHANGED <<lamp, inDoubt>>
      BY <2>5 DEF commitToggle, Noted, history
    <3>3. QED
      BY <3>1, <3>2 DEF LampKnown
  <2>6. QED
    BY <1>5, <2>1, <2>2, <2>3, <2>4, <2>5 DEF Command
<1>6. CASE UNCHANGED vars
  BY <1>6 DEF vars, runtime, history, LampKnown
<1> QED BY <1>1, <1>2, <1>3, <1>4, <1>5, <1>6 DEF Next

(* relayOn is what the relay does, unless an answer was lost or not looked at. *)
THEOREM LampAlwaysFollows == Spec => []LampFollows
<1>1. Init => LampKnown
  <2> SUFFICES ASSUME Init PROVE LampKnown
    OBVIOUS
  <2>1. lamp \in BOOLEAN /\ relayOn = FALSE /\ inDoubt = lamp
    BY Zenon DEF Init
  <2>2. \A a \in Actors : pc[a] # "commit"
    BY DEF Init
  <2>3. QED
    BY <2>1, <2>2, Zenon DEF LampKnown
<1>2. LampKnown => LampFollows
  BY DEF LampKnown, LampFollows
<1>3. QED
  BY <1>1, <1>2, LampStep, Invariance, PTL DEF Spec

-----------------------------------------------------------------------------
(* A relay that the next command would move has rested since the last stamp, *)
(* but for the length of a command.  An unanswered command takes its stamp   *)
(* back although the relay may have moved, but then the next one does not    *)
(* move it again.                                                            *)
RelayRested ==
    lamp = relayOn =>
        /\ (\A a \in Actors : ~InCommand(a)) => sinceToggle <= lampAge + MaxRpc
        /\ \A a \in Actors : pc[a] \in {"rpc", "undo"} => Cooldown <= lampAge + MaxRpc

(* Every step leaves the relay rested, or makes the next command move        *)
(* nothing.                                                                  *)
LEMMA RestStep == IInv /\ RelayRested /\ [Next]_vars => RelayRested'
<1> SUFFICES ASSUME IInv, RelayRested, [Next]_vars PROVE RelayRested'
  OBVIOUS
<1> USE DEF InCommand
<1>t. TypeOK /\ MaxRpc \in Nat /\ Cooldown \in Nat
  BY TimesAreNat DEF IInv
<1>1. CASE World
  BY <1>1 DEF World, Set, SetSunrise, SkyChanges, WindowMoves, runtime, history, RelayRested
<1>2. CASE TimePasses
  <2>1. \A a \in Actors : /\ pc'[a] \in {"idle", "rpc"}
                          /\ pc'[a] = "rpc" <=> pc[a] = "rpc"
                          /\ pc[a] \in {"idle", "answered", "rpc"}
    BY <1>t, <1>2 DEF TimePasses, TypeOK
  <2>2. /\ UNCHANGED <<relayOn, lamp>>
        /\ sinceToggle' = Upto(sinceToggle, Cooldown)
        /\ lampAge' = Upto(lampAge, Cooldown)
    BY <1>2 DEF TimePasses
  <2>3. sinceToggle \in 0..Cooldown /\ lampAge \in 0..Cooldown
    BY <1>t DEF TypeOK
  <2>4. /\ sinceToggle <= lampAge + MaxRpc => sinceToggle' <= lampAge' + MaxRpc
        /\ Cooldown <= lampAge + MaxRpc => Cooldown <= lampAge' + MaxRpc
    BY <1>t, <2>2, <2>3 DEF Upto
  <2>5. QED
    BY <2>1, <2>2, <2>4 DEF RelayRested
<1>3. CASE TickDecide
  <2>1. \A a \in Actors : InCommand(a) \/ InCommand(a)' => pc'[a] = pc[a]
    BY <1>t, <1>3 DEF TickDecide, TypeOK
  <2>2. UNCHANGED <<relayOn, lamp, lampAge, sinceToggle>>
    BY <1>3 DEF TickDecide, history
  <2>3. QED
    BY <2>1, <2>2 DEF RelayRested
<1>4. ASSUME NEW c \in Clients, Trigger(c) PROVE RelayRested'
  <2>1. \A a \in Actors : InCommand(a) \/ InCommand(a)' => pc'[a] = pc[a]
    BY <1>t, <1>4 DEF Trigger, TriggerAsked, TriggerManual, markManualToggle, Ended,
                      TypeOK, Actors
  <2>2. UNCHANGED <<relayOn, lamp, lampAge, sinceToggle>>
    BY <1>4 DEF Trigger, TriggerAsked, TriggerManual, markManualToggle, runtime, history
  <2>3. QED
    BY <2>1, <2>2 DEF RelayRested
<1>5. ASSUME NEW a \in Actors, Command(a) PROVE RelayRested'
  <2>1. CASE CheckCooldown(a) /\ sinceToggle < Cooldown
    BY <1>t, <2>1 DEF CheckCooldown, Ended, TypeOK, history, RelayRested
  <2>2. CASE CheckCooldown(a) /\ ~(sinceToggle < Cooldown)
    <3>1. \A b \in Actors : ~InCommand(b)
      BY <2>2, Commanding
    <3>2. sinceToggle = Cooldown
      BY <1>t, <2>2 DEF TypeOK
    <3>3. /\ \A b \in Actors \ {a} : pc'[b] = pc[b]
          /\ pc'[a] = "rpc" /\ UNCHANGED <<relayOn, lamp, lampAge>>
      BY <1>t, <2>2 DEF CheckCooldown, TypeOK, history
    <3>4. QED
      BY <3>1, <3>2, <3>3 DEF RelayRested
  <2>3. CASE CommandDone(a) \/ CommandUnanswered(a)
    <3>1. want[a] = ~relayOn /\ pc'[a] \in {"commit", "undo"} /\ lamp' = want[a]
          /\ relayOn' = relayOn
      BY <1>t, <2>3, Commanding DEF CommandDone, CommandUnanswered, MoveLamp, TypeOK, runtime
    <3>2. relayOn \in BOOLEAN /\ lamp' # relayOn'
      BY <1>t, <3>1 DEF TypeOK
    <3>3. QED
      BY <3>2 DEF RelayRested
  <2>4. CASE CommandRefused(a) \/ CommandUnreached(a)
    <3>1. /\ pc[a] = "rpc" /\ InCommand(a)'
          /\ \A b \in Actors \ {a} : pc'[b] = pc[b]
          /\ UNCHANGED <<relayOn, lamp, lampAge>>
      BY <1>t, <2>4 DEF CommandRefused, CommandUnreached, TypeOK, runtime
    <3>2. QED
      BY <3>1 DEF RelayRested
  <2>5. CASE undoLastToggle(a)
    <3>1. /\ pc[a] = "undo" /\ UNCHANGED <<relayOn, lamp, lampAge>>
          /\ sinceToggle' = Cooldown
      BY <2>5 DEF undoLastToggle, Undone, history
    <3>2. \A b \in Actors : ~InCommand(b)'
      BY <1>t, <2>5, Commanding DEF undoLastToggle, Ended, TypeOK
    <3>3. QED
      BY <3>1, <3>2 DEF RelayRested
  <2>6. CASE commitToggle(a)
    <3>1. \A b \in Actors : ~InCommand(b)'
      BY <1>t, <2>6, Commanding DEF commitToggle, TypeOK
    <3>2. sinceToggle = rpcAge[a] /\ sinceToggle' = sinceToggle /\ lampAge' = lampAge
      BY <2>6, Commanding DEF commitToggle, history
    <3>3. rpcAge[a] \in 0..MaxRpc /\ lampAge \in 0..Cooldown
      BY <1>t DEF TypeOK
    <3>4. sinceToggle' <= lampAge' + MaxRpc
      BY <1>t, <3>2, <3>3
    <3>5. QED
      BY <3>1, <3>4 DEF RelayRested
  <2>7. QED
    BY <1>5, <2>1, <2>2, <2>3, <2>4, <2>5, <2>6 DEF Command
<1>6. CASE UNCHANGED vars
  BY <1>6 DEF vars, runtime, history, RelayRested
<1> QED BY <1>1, <1>2, <1>3, <1>4, <1>5, <1>6 DEF Next

(* A step that moves the relay is a command, on a relay that has rested.     *)
LEMMA OnlyRestedMoves ==
  ASSUME IInv, RelayRested, [Next]_vars, lamp' # lamp
  PROVE  lampAge >= Cooldown - MaxRpc
<1>t. TypeOK
  BY DEF IInv
<1>1. PICK a \in Actors : pc[a] = "rpc" /\ lamp' = want[a]
  <2>1. ~World /\ ~TimePasses /\ ~TickDecide /\ ~UNCHANGED vars
    BY DEF World, Set, SetSunrise, SkyChanges, WindowMoves, TimePasses, TickDecide,
           vars, history
  <2>2. \A c \in Clients : ~Trigger(c)
    BY DEF Trigger, TriggerAsked, TriggerManual, markManualToggle, history
  <2>3. PICK a \in Actors : Command(a)
    BY <2>1, <2>2 DEF Next
  <2>4. CommandDone(a) \/ CommandUnanswered(a)
    BY <2>3 DEF Command, CheckCooldown, CommandRefused, CommandUnreached,
                undoLastToggle, commitToggle, history
  <2>5. QED
    BY <2>4 DEF CommandDone, CommandUnanswered, MoveLamp
<1>2. want[a] = ~relayOn
  BY <1>1, Commanding DEF InCommand
<1>3. lamp = relayOn
  BY <1>t, <1>1, <1>2 DEF TypeOK
<1>4. Cooldown <= lampAge + MaxRpc
  BY <1>1, <1>3 DEF RelayRested
<1>5. QED
  BY <1>t, <1>4, TimesAreNat DEF TypeOK

(* The relay does not chatter: it really moves only a cooldown, less one     *)
(* command, after it moved last, also when answers are lost.                 *)
THEOREM NoChatter == Spec => RelayDoesNotChatter
<1>1. Init => RelayRested
  BY TimesAreNat DEF Init, RelayRested, InCommand
<1>2. IInv /\ RelayRested /\ [Next]_vars => [lamp' # lamp => lampAge >= Cooldown - MaxRpc]_vars
  BY OnlyRestedMoves
<1>3. QED
  BY <1>1, <1>2, RestStep, Invariance, PTL DEF Spec, RelayDoesNotChatter

-----------------------------------------------------------------------------
(* Run is never where only a handler can be.                                 *)
RunnerPlace == pc[Runner] \notin {"manual", "mark", "answered"}

(* When no command is under way the cooldown does not outlast the cap: it    *)
(* started no later than the relay was switched on.                          *)
CapFindsRelayReady ==
    (\A a \in Actors : ~InCommand(a)) /\ relayOn => sinceToggle = Cooldown \/ onFor <= sinceToggle

(* Who is going to switch a lamp off that is past the cap, and how much of   *)
(* the grace is used up.                                                     *)
OffIsComing ==
    \/ \E a \in Actors :
          \/ pc[a] = "rpc" /\ overdue <= Poll + rpcAge[a]
          \/ pc[a] = "commit"
          \/ pc[a] = "undo" /\ overdue = 0
    \/ /\ \A a \in Actors : ~InCommand(a)
       /\ \/ pc[Runner] = "cool" /\ overdue <= Poll /\ sinceToggle = Cooldown
          \/ pc[Runner] = "idle" /\ overdue <= sincePoll

CapInv == RunnerPlace /\ CapFindsRelayReady /\ CapHonoured /\ (PastCap => OffIsComing)

(* The cap's types, and what its assumptions say.                            *)
LEMMA CapRanges ==
  ASSUME IInv
  PROVE  /\ Poll \in Nat /\ MaxRpc \in Nat /\ Cooldown \in Nat /\ Cap \in Nat
         /\ 0 < Cap /\ Cooldown <= Cap /\ Grace = Poll + MaxRpc
         /\ overdue \in Nat /\ sincePoll \in 0..Poll /\ onFor \in 0..Cap
         /\ sinceToggle \in 0..Cooldown /\ rpcAge \in [Actors -> 0..MaxRpc]
         /\ maxOn \in {0, Cap} /\ relayOn \in BOOLEAN /\ lamp \in BOOLEAN
<1>1. overdue \in 0..Grace + 1
  BY DEF IInv, TypeOK
<1>2. relayOn \in BOOLEAN /\ lamp \in BOOLEAN
  BY Zenon DEF IInv, TypeOK
<1>3. QED
  BY <1>1, <1>2, TimesAreNat, CapIsLong DEF Grace, IInv, TypeOK

(* Run stays where it can be.                                                *)
LEMMA RunnerStep == IInv /\ RunnerPlace /\ [Next]_vars => RunnerPlace'
<1> SUFFICES ASSUME IInv, RunnerPlace, [Next]_vars PROVE RunnerPlace'
  OBVIOUS
<1>t. TypeOK /\ Runner \in Actors /\ Runner \notin Clients
  BY RunnerIsNoClient DEF IInv, Actors
<1>1. CASE World
  BY <1>1 DEF World, Set, SetSunrise, SkyChanges, WindowMoves, RunnerPlace
<1>2. CASE TimePasses
  BY <1>t, <1>2 DEF TimePasses, TypeOK, RunnerPlace
<1>3. CASE TickDecide
  BY <1>t, <1>3 DEF TickDecide, TypeOK, RunnerPlace
<1>4. ASSUME NEW c \in Clients, Trigger(c) PROVE RunnerPlace'
  BY <1>t, <1>4 DEF Trigger, TriggerAsked, TriggerManual, markManualToggle, TypeOK,
                    RunnerPlace
<1>5. ASSUME NEW a \in Actors, Command(a) PROVE RunnerPlace'
  BY <1>t, <1>5 DEF Command, CheckCooldown, CommandDone, CommandRefused, CommandUnanswered,
                    CommandUnreached, undoLastToggle, commitToggle, Ended, TypeOK,
                    RunnerPlace
<1>6. CASE UNCHANGED vars
  BY <1>6 DEF vars, RunnerPlace
<1> QED BY <1>1, <1>2, <1>3, <1>4, <1>5, <1>6 DEF Next

(* The cooldown stays no longer than the relay has been on.                  *)
LEMMA ReadyStep == IInv /\ CapFindsRelayReady /\ [Next]_vars => CapFindsRelayReady'
<1> SUFFICES ASSUME IInv, CapFindsRelayReady, [Next]_vars PROVE CapFindsRelayReady'
  OBVIOUS
<1> USE DEF InCommand
<1>t. TypeOK
  BY DEF IInv
<1>1. CASE World
  BY <1>1 DEF World, Set, SetSunrise, SkyChanges, WindowMoves, runtime, CapFindsRelayReady
<1>2. CASE TimePasses
  <2>1. \A a \in Actors : InCommand(a) => InCommand(a)'
    BY <1>t, <1>2 DEF TimePasses, TypeOK
  <2>2. relayOn => /\ relayOn' = relayOn /\ onFor' = Upto(onFor, Cap)
                   /\ sinceToggle' = Upto(sinceToggle, Cooldown)
    BY <1>2 DEF TimePasses
  <2>3. relayOn' = relayOn
    BY <1>2 DEF TimePasses
  <2>4. QED
    BY <2>1, <2>2, <2>3, CapRanges DEF CapFindsRelayReady, Upto
<1>3. CASE TickDecide
  <2>1. \A a \in Actors : InCommand(a) => InCommand(a)'
    BY <1>t, <1>3 DEF TickDecide, TypeOK
  <2>2. UNCHANGED <<relayOn, onFor, sinceToggle>>
    BY <1>3 DEF TickDecide
  <2>3. QED
    BY <2>1, <2>2 DEF CapFindsRelayReady
<1>4. ASSUME NEW c \in Clients, Trigger(c) PROVE CapFindsRelayReady'
  <2>1. \A a \in Actors : InCommand(a) => InCommand(a)'
    BY <1>t, <1>4 DEF Trigger, TriggerAsked, TriggerManual, markManualToggle, Ended,
                      TypeOK, Actors
  <2>2. UNCHANGED <<relayOn, onFor, sinceToggle>>
    BY <1>4 DEF Trigger, TriggerAsked, TriggerManual, markManualToggle, runtime
  <2>3. QED
    BY <2>1, <2>2 DEF CapFindsRelayReady
<1>5. ASSUME NEW a \in Actors, Command(a) PROVE CapFindsRelayReady'
  <2>1. CASE CheckCooldown(a) /\ sinceToggle < Cooldown
    BY <1>t, <2>1 DEF CheckCooldown, Ended, TypeOK, CapFindsRelayReady
  <2>2. CASE CheckCooldown(a) /\ ~(sinceToggle < Cooldown)
    <3>1. InCommand(a)'
      BY <1>t, <2>2 DEF CheckCooldown, TypeOK
    <3>2. QED
      BY <3>1 DEF CapFindsRelayReady
  <2>3. CASE CommandDone(a) \/ CommandRefused(a) \/ CommandUnanswered(a) \/ CommandUnreached(a)
    <3>1. InCommand(a)'
      BY <1>t, <2>3 DEF CommandDone, CommandRefused, CommandUnanswered, CommandUnreached,
                        TypeOK
    <3>2. QED
      BY <3>1 DEF CapFindsRelayReady
  <2>4. CASE undoLastToggle(a)
    BY <2>4 DEF undoLastToggle, Undone, CapFindsRelayReady
  <2>5. CASE commitToggle(a)
    BY <2>5, CapRanges DEF commitToggle, CapFindsRelayReady
  <2>6. QED
    BY <1>5, <2>1, <2>2, <2>3, <2>4, <2>5 DEF Command
<1>6. CASE UNCHANGED vars
  BY <1>6 DEF vars, runtime, CapFindsRelayReady
<1> QED BY <1>1, <1>2, <1>3, <1>4, <1>5, <1>6 DEF Next

(* The grace is long enough for whoever is going to switch the lamp off.     *)
LEMMA OffComesInGrace ==
  ASSUME IInv, CapInv, PastCap
  PROVE  /\ OffIsComing
         /\ \A a \in Actors : pc[a] = "rpc" => overdue <= Poll + rpcAge[a]
         /\ (\A a \in Actors : pc[a] # "rpc") /\ pc[Runner] = "idle"
               /\ (\A a \in Actors : ~InCommand(a)) => overdue <= sincePoll
<1>1. OffIsComing
  BY DEF CapInv
<1>2. Runner \in Actors
  BY DEF Actors
<1>3. ASSUME NEW a \in Actors, pc[a] = "rpc" PROVE overdue <= Poll + rpcAge[a]
  <2>1. InCommand(a)
    BY <1>3 DEF InCommand
  <2>2. \A b \in Actors : b # a => ~InCommand(b)
    BY <2>1, Commanding
  <2>3. QED
    BY <1>1, <1>3, <2>1, <2>2 DEF OffIsComing, InCommand
<1>4. QED
  BY <1>1, <1>2, <1>3 DEF OffIsComing, InCommand

(* Without a command under way, OffIsComing is Run's matter.                 *)
LEMMA RunnerIsDue ==
  ASSUME IInv, CapInv, PastCap, \A a \in Actors : ~InCommand(a)
  PROVE  \/ pc[Runner] = "cool" /\ overdue <= Poll /\ sinceToggle = Cooldown
         \/ pc[Runner] = "idle" /\ overdue <= sincePoll
  BY DEF CapInv, OffIsComing, InCommand

(* Time passes: whoever is going to switch the lamp off is in time.          *)
LEMMA CapInTime ==
  ASSUME IInv, CapInv, TimePasses
  PROVE  CapHonoured' /\ OffIsComing'
<1>t. TypeOK /\ Runner \in Actors
  BY DEF IInv, Actors
<1>1. \A a \in Actors : /\ pc[a] \in {"idle", "answered", "rpc"}
                        /\ pc[a] = "rpc" <=> pc'[a] = "rpc"
                        /\ pc'[a] \in {"idle", "rpc"}
                        /\ pc[a] = "rpc" => rpcAge[a] < MaxRpc /\ rpcAge'[a] = rpcAge[a] + 1
  BY <1>t DEF TimePasses, WithinDeadline, TypeOK
<1>2. overdue' = IF PastCap THEN overdue + 1 ELSE 0
  <2>1. overdue <= Grace
    BY DEF CapInv, CapHonoured
  <2>2. QED
    BY <2>1, CapRanges DEF TimePasses, Upto
<1>3. CASE \E a \in Actors : pc[a] = "rpc"
  <2>1. PICK a \in Actors : pc[a] = "rpc"
    BY <1>3
  <2>2. PastCap => overdue <= Poll + rpcAge[a]
    BY <2>1, OffComesInGrace
  <2>3. /\ pc'[a] = "rpc" /\ rpcAge'[a] = rpcAge[a] + 1
        /\ rpcAge[a] < MaxRpc /\ rpcAge[a] \in Nat
    BY <1>1, <2>1, CapRanges
  <2>4. overdue' <= Poll + rpcAge'[a] /\ overdue' <= Grace
    BY <1>2, <2>2, <2>3, CapRanges
  <2>5. QED
    BY <2>3, <2>4, CapRanges DEF OffIsComing, CapHonoured, Grace
<1>4. CASE \A a \in Actors : pc[a] # "rpc"
  <2>1. (\A a \in Actors : ~InCommand(a)) /\ (\A a \in Actors : ~InCommand(a)')
    BY <1>1, <1>4 DEF InCommand
  <2>2. pc[Runner] = "idle" /\ pc'[Runner] = "idle"
    BY <1>t, <1>1, <1>4 DEF CapInv, RunnerPlace
  <2>3. PastCap => overdue <= sincePoll
    BY <1>4, <2>1, <2>2, OffComesInGrace
  <2>4. sincePoll < Poll /\ sincePoll' = sincePoll + 1
    BY <2>2, CapRanges DEF TimePasses, Upto
  <2>5. overdue' <= sincePoll' /\ overdue' <= Grace
    BY <1>2, <2>3, <2>4, CapRanges
  <2>6. QED
    BY <2>1, <2>2, <2>5, CapRanges DEF OffIsComing, CapHonoured, Grace
<1>5. QED
  BY <1>3, <1>4

(* A tick that finds the lamp past its cap decides to switch it off.         *)
LEMMA TickSwitchesOff ==
  ASSUME IInv, CapInv, TickDecide, PastCap
  PROVE  OffIsComing'
<1>t. TypeOK /\ Runner \in Actors
  BY DEF IInv, Actors
<1>1. Decision.on = FALSE
  <2>1. OverCap
    BY DEF PastCap, OverCap
  <2>2. QED
    BY <2>1, Zenon DEF Decision
<1>2. relayOn = TRUE
  BY CapRanges, Zenon DEF PastCap
<1>3. /\ pc' = [pc EXCEPT ![Runner] = "cool"] /\ pc[Runner] = "idle"
      /\ sincePoll = Poll /\ UNCHANGED <<overdue, sinceToggle, rpcAge>>
  BY <1>1, <1>2 DEF TickDecide, history
<1>4. pc'[Runner] = "cool" /\ \A a \in Actors \ {Runner} : pc'[a] = pc[a]
  BY <1>t, <1>3 DEF TypeOK
<1>5. CASE \A a \in Actors : ~InCommand(a)
  <2>1. overdue <= sincePoll
    BY <1>3, <1>5, RunnerIsDue
  <2>2. sinceToggle = Cooldown
    BY <1>2, <1>5, CapRanges DEF CapInv, CapFindsRelayReady, PastCap
  <2>3. \A a \in Actors : ~InCommand(a)'
    BY <1>4, <1>5 DEF InCommand
  <2>4. QED
    BY <1>3, <1>4, <2>1, <2>2, <2>3 DEF OffIsComing
<1>6. CASE \E a \in Actors : InCommand(a)
  <2>1. PICK a \in Actors : /\ InCommand(a)
                           /\ \/ pc[a] = "rpc" /\ overdue <= Poll + rpcAge[a]
                              \/ pc[a] = "commit"
                              \/ pc[a] = "undo" /\ overdue = 0
    BY <1>6, OffComesInGrace DEF OffIsComing, InCommand
  <2>2. pc'[a] = pc[a]
    BY <1>3, <1>4, <2>1 DEF InCommand
  <2>3. QED
    BY <1>3, <2>1, <2>2 DEF OffIsComing
<1>7. QED
  BY <1>5, <1>6

(* Every step keeps the lamp's switching off in time.                        *)
LEMMA CapStep ==
  IInv /\ CapInv /\ [Next]_vars => CapHonoured' /\ (PastCap' => OffIsComing')
<1> SUFFICES ASSUME IInv, CapInv, [Next]_vars
             PROVE  CapHonoured' /\ (PastCap' => OffIsComing')
  OBVIOUS
<1>t. TypeOK /\ Runner \in Actors
  BY DEF IInv, Actors
<1>0. overdue <= Grace /\ (PastCap => OffIsComing)
  BY DEF CapInv, CapHonoured
<1>1. CASE Set
  <2>1. overdue' = 0 /\ UNCHANGED <<pc, rpcAge, sincePoll, sinceToggle>>
        /\ UNCHANGED <<lamp, relayOn, onFor>> /\ maxOn' \in {0, Cap}
    BY <1>1 DEF Set, runtime
  <2>2. ASSUME PastCap', \A a \in Actors : ~InCommand(a) PROVE sinceToggle = Cooldown
    BY <2>1, <2>2, CapRanges DEF CapInv, CapFindsRelayReady, PastCap
  <2>3. CASE \E a \in Actors : InCommand(a)
    <3>1. OffIsComing'
      BY <2>1, <2>3, CapRanges DEF OffIsComing, InCommand
    <3>2. QED
      BY <2>1, <3>1, CapRanges DEF CapHonoured, Grace
  <2>4. CASE \A a \in Actors : ~InCommand(a)
    <3>1. pc[Runner] \in {"idle", "cool"}
      BY <1>t, <2>4 DEF CapInv, RunnerPlace, InCommand, TypeOK
    <3>2. PastCap' => OffIsComing'
      BY <2>1, <2>2, <2>4, <3>1, CapRanges DEF OffIsComing, InCommand
    <3>3. QED
      BY <2>1, <3>2, CapRanges DEF CapHonoured, Grace
  <2>5. QED
    BY <2>3, <2>4
<1>2. CASE SetSunrise \/ SkyChanges \/ WindowMoves \/ UNCHANGED vars
  <2>1. /\ UNCHANGED <<pc, rpcAge, sincePoll, sinceToggle, overdue>>
        /\ UNCHANGED <<lamp, relayOn, onFor, maxOn>>
    BY <1>2 DEF SetSunrise, SkyChanges, WindowMoves, vars, settings, runtime, history
  <2>2. (PastCap' <=> PastCap) /\ (OffIsComing' <=> OffIsComing)
    BY <2>1 DEF PastCap, OffIsComing, InCommand
  <2>3. CapHonoured'
    BY <1>0, <2>1 DEF CapHonoured, Grace
  <2>4. QED
    BY <1>0, <2>2, <2>3
<1>3. CASE TimePasses
  BY <1>3, CapInTime
<1>4. CASE TickDecide
  <2>1. UNCHANGED <<overdue, lamp, relayOn, onFor, maxOn>>
    BY <1>4 DEF TickDecide, settings, history
  <2>2. PastCap' <=> PastCap
    BY <2>1 DEF PastCap
  <2>3. CapHonoured'
    BY <1>0, <2>1 DEF CapHonoured, Grace
  <2>4. QED
    BY <1>4, <2>2, <2>3, TickSwitchesOff
<1>5. ASSUME NEW c \in Clients, Trigger(c)
      PROVE  CapHonoured' /\ (PastCap' => OffIsComing')
  <2>1. /\ UNCHANGED <<overdue, lamp, relayOn, onFor, maxOn, rpcAge, sincePoll>>
        /\ UNCHANGED sinceToggle
    BY <1>5 DEF Trigger, TriggerAsked, TriggerManual, markManualToggle, settings,
                runtime, history
  <2>2. \A a \in Actors : /\ InCommand(a) <=> InCommand(a)'
                          /\ InCommand(a) => pc'[a] = pc[a]
    BY <1>t, <1>5 DEF Trigger, TriggerAsked, TriggerManual, markManualToggle, Ended,
                      InCommand, TypeOK, Actors
  <2>3. pc'[Runner] = pc[Runner]
    BY <1>t, <1>5, RunnerIsNoClient
       DEF Trigger, TriggerAsked, TriggerManual, markManualToggle, TypeOK
  <2>4. PastCap' => PastCap
    BY <2>1 DEF PastCap
  <2>5. CapHonoured'
    BY <1>0, <2>1 DEF CapHonoured, Grace
  <2>6. OffIsComing => OffIsComing'
    BY <2>1, <2>2, <2>3 DEF OffIsComing, InCommand
  <2>7. QED
    BY <1>0, <2>4, <2>5, <2>6
<1>6. ASSUME NEW a \in Actors, Command(a)
      PROVE  CapHonoured' /\ (PastCap' => OffIsComing')
  <2>1. CASE CheckCooldown(a) /\ sinceToggle < Cooldown
    <3>1. /\ UNCHANGED <<overdue, lamp, relayOn, onFor, maxOn, sincePoll, sinceToggle>>
          /\ pc[a] = "cool" /\ pc' = [pc EXCEPT ![a] = Ended(a)]
          /\ rpcAge' = [rpcAge EXCEPT ![a] = 0]
      BY <2>1 DEF CheckCooldown, settings, history
    <3>2. CapHonoured' /\ (PastCap' => PastCap)
      BY <1>0, <3>1 DEF CapHonoured, Grace, PastCap
    <3>3. ASSUME PastCap PROVE OffIsComing'
      <4>1. /\ \A b \in Actors \ {a} : pc'[b] = pc[b] /\ rpcAge'[b] = rpcAge[b]
            /\ pc'[a] = Ended(a) /\ pc'[a] \in {"idle", "answered"}
        BY <1>t, <3>1 DEF TypeOK, Ended
      <4>2. CASE \A b \in Actors : ~InCommand(b)
        <5>1. pc[Runner] = "idle" /\ overdue <= sincePoll
          BY <2>1, <3>3, <4>2, RunnerIsDue, CapRanges
        <5>2. a # Runner
          BY <3>1, <5>1
        <5>3. \A b \in Actors : ~InCommand(b)'
          BY <4>1, <4>2 DEF InCommand
        <5>4. pc'[Runner] = "idle"
          BY <1>t, <4>1, <5>1, <5>2
        <5>5. QED
          BY <3>1, <5>1, <5>3, <5>4 DEF OffIsComing
      <4>3. CASE \E b \in Actors : InCommand(b)
        <5>1. PICK b \in Actors :
                 \/ pc[b] = "rpc" /\ overdue <= Poll + rpcAge[b]
                 \/ pc[b] = "commit"
                 \/ pc[b] = "undo" /\ overdue = 0
          BY <3>3, <4>3, OffComesInGrace DEF OffIsComing, InCommand
        <5>2. b # a
          BY <3>1, <5>1
        <5>3. pc'[b] = pc[b] /\ rpcAge'[b] = rpcAge[b]
          BY <4>1, <5>2
        <5>4. QED
          BY <3>1, <5>1, <5>3 DEF OffIsComing
      <4>4. QED
        BY <4>2, <4>3
    <3>4. QED
      BY <3>2, <3>3
  <2>2. CASE CheckCooldown(a) /\ ~(sinceToggle < Cooldown)
    <3>1. /\ UNCHANGED <<overdue, lamp, relayOn, onFor, maxOn>>
          /\ pc'[a] = "rpc" /\ rpcAge'[a] = 0
      BY <1>t, <2>2 DEF CheckCooldown, settings, history, TypeOK
    <3>2. CapHonoured' /\ (PastCap' => PastCap)
      BY <1>0, <3>1 DEF CapHonoured, Grace, PastCap
    <3>3. ASSUME PastCap PROVE overdue <= Poll
      <4>1. \A b \in Actors : ~InCommand(b)
        BY <2>2, Commanding
      <4>2. QED
        BY <3>3, <4>1, RunnerIsDue, CapRanges
    <3>4. QED
      BY <3>1, <3>2, <3>3, CapRanges DEF OffIsComing
  <2>3. CASE CommandDone(a) \/ CommandUnanswered(a)
    <3>1. InCommand(a) /\ lamp' = want[a] /\ UNCHANGED <<overdue, relayOn>>
      BY <2>3 DEF CommandDone, CommandUnanswered, MoveLamp, InCommand, runtime
    <3>2. want[a] = ~relayOn
      BY <3>1, Commanding
    <3>3. ~PastCap'
      BY <3>1, <3>2 DEF PastCap
    <3>4. QED
      BY <1>0, <3>1, <3>3 DEF CapHonoured, Grace
  <2>4. CASE CommandRefused(a)
    <3>1. /\ UNCHANGED <<overdue, lamp, relayOn, onFor, maxOn>> /\ pc'[a] = "commit"
      BY <1>t, <2>4 DEF CommandRefused, settings, runtime, TypeOK
    <3>2. QED
      BY <1>0, <3>1 DEF OffIsComing, CapHonoured, Grace
  <2>5. CASE CommandUnreached(a)
    <3>1. overdue' = 0 /\ pc'[a] = "undo"
      BY <1>t, <2>5 DEF CommandUnreached, TypeOK
    <3>2. QED
      BY <3>1, CapRanges DEF OffIsComing, CapHonoured, Grace
  <2>6. CASE undoLastToggle(a)
    <3>1. /\ UNCHANGED <<overdue, lamp, relayOn, onFor, maxOn, sincePoll>>
          /\ sinceToggle' = Cooldown /\ pc[a] = "undo" /\ InCommand(a)
      BY <2>6 DEF undoLastToggle, Undone, settings, history, InCommand
    <3>2. CapHonoured' /\ (PastCap' => PastCap)
      BY <1>0, <3>1 DEF CapHonoured, Grace, PastCap
    <3>3. \A b \in Actors \ {a} : ~InCommand(b) /\ pc'[b] = pc[b]
      BY <1>t, <2>6, <3>1, Commanding DEF undoLastToggle, TypeOK
    <3>4. pc'[a] = Ended(a)
      BY <1>t, <2>6 DEF undoLastToggle, TypeOK
    <3>5. \A b \in Actors : ~InCommand(b)'
      BY <3>3, <3>4 DEF InCommand, Ended
    <3>6. pc'[Runner] \in {"idle", "cool"}
      BY <1>t, <3>3, <3>4 DEF CapInv, RunnerPlace, InCommand, Ended, TypeOK
    <3>7. ASSUME PastCap PROVE overdue = 0
      BY <3>1, <3>3, <3>7, OffComesInGrace DEF OffIsComing, InCommand
    <3>8. PastCap => OffIsComing'
      BY <3>1, <3>5, <3>6, <3>7, CapRanges DEF OffIsComing
    <3>9. QED
      BY <3>2, <3>8
  <2>7. CASE commitToggle(a)
    <3>1. onFor' = 0 /\ UNCHANGED <<overdue, maxOn>>
      BY <2>7 DEF commitToggle, settings, history
    <3>2. ~PastCap'
      BY <3>1, CapRanges DEF PastCap
    <3>3. QED
      BY <1>0, <3>1, <3>2 DEF CapHonoured, Grace
  <2>8. QED
    BY <1>6, <2>1, <2>2, <2>3, <2>4, <2>5, <2>6, <2>7 DEF Command
<1>7. QED
  BY <1>1, <1>2, <1>3, <1>4, <1>5, <1>6 DEF Next, World

(* The cap is honoured within one poll and one command, whatever requests,   *)
(* settings, sunrise window and lost answers come in between.                *)
THEOREM CapAlwaysHonoured == Spec => []CapHonoured
<1>1. Init => CapInv
  <2> SUFFICES ASSUME Init PROVE CapInv
    OBVIOUS
  <2>1. /\ pc[Runner] = "idle" /\ relayOn = FALSE /\ overdue = 0
    BY DEF Init, Actors
  <2>2. 0 <= Grace
    BY GraceIsNat
  <2>3. QED
    BY <2>1, <2>2 DEF CapInv, RunnerPlace, CapFindsRelayReady, CapHonoured, PastCap
<1>2. IInv /\ CapInv /\ [Next]_vars => CapInv'
  <2> SUFFICES ASSUME IInv, CapInv, [Next]_vars PROVE CapInv'
    OBVIOUS
  <2>1. RunnerPlace' /\ CapFindsRelayReady'
    BY RunnerStep, ReadyStep DEF CapInv
  <2>2. QED
    BY <2>1, CapStep DEF CapInv
<1>3. CapInv => CapHonoured
  BY DEF CapInv
<1>4. QED
  BY <1>1, <1>2, <1>3, Invariance, PTL DEF Spec

=============================================================================
