------------------------------- MODULE IRLight -------------------------------
(***************************************************************************)
(* internal/irlight and internal/relayrpc: the relay of an infrared lamp,  *)
(* driven by one goroutine (Run, a tick every pollInterval) and by any     *)
(* number of HTTP handlers (Trigger), over one-shot TCP commands to        *)
(* pi-relay-control.                                                       *)
(*                                                                         *)
(* No lock is held across a relay command.  What keeps two commands from   *)
(* overlapping, and a command from acting on a stale decision, is time     *)
(* alone: coolingDown stamps lastToggleAt before the command, and the      *)
(* command's deadlines (3 s to connect, 2 s to answer) are shorter than    *)
(* the cooldown (30 s).  So time is part of the model: ages advance        *)
(* together, saturate where the code stops comparing them, and stand still *)
(* while a goroutine is between two of its steps and not in a remote call. *)
(*                                                                         *)
(* The lux reading is one of four bands relative to threshold and          *)
(* deadband, and the sunrise window is open or not; both change freely.    *)
(* tick's reads commute with whatever runs between them, so they are one   *)
(* step.  A handler serves one request in a unit of time: requests cannot  *)
(* keep time from passing.  Operators whose names begin with Bad are       *)
(* faulty variants of the one that follows, used only to see that a        *)
(* property can fail.                                                      *)
(***************************************************************************)
EXTENDS Integers

CONSTANTS
    Clients,         \* HTTP handlers that may run Trigger
    Runner,          \* the goroutine of Run
    Cooldown, ManualCooldown, Poll,
    MaxRpc,          \* deadline of one relay command
    Cap              \* the cap max_on_minutes can be set to

ASSUME RunnerIsNoClient == Runner \notin Clients
ASSUME TimesAreNat == /\ Cooldown \in Nat /\ ManualCooldown \in Nat
                      /\ Poll \in Nat /\ MaxRpc \in Nat /\ Cap \in Nat
ASSUME CommandsAreShort == MaxRpc < Cooldown
ASSUME CapIsLong == Cooldown <= Cap /\ 0 < Cap /\ 0 < Poll

Actors == Clients \union {Runner}

VARIABLES
    \* settings, by GET /ir-light
    enabled, sunriseEnabled, maxOn,
    \* runtime fields of State; each time as its age
    relayOn, onFor, cutoffArmed,
    sinceToggle,     \* time.Since(lastToggleAt), up to Cooldown
    sinceManual,     \* time.Since(lastManualToggleAt), up to ManualCooldown
    \* goroutines
    pc, want,
    rpcAge,          \* time spent in the present relay command
    sincePoll,       \* time since Run's last tick
    \* the world outside
    sky,             \* telemetry: "down", or the band of the lux reading
    window,          \* now is inside the sunrise window
    lamp,            \* what the relay really does
    \* history, read by properties only
    lampAge,         \* time since the lamp last changed, up to Cooldown
    inDoubt,         \* lamp and relayOn may differ
    overdue          \* how long the lamp has been on past the cap

settings == <<enabled, sunriseEnabled, maxOn>>
runtime == <<relayOn, onFor, cutoffArmed, sinceToggle, sinceManual>>
world == <<sky, window>>
history == <<lampAge, inDoubt, overdue>>
vars == <<settings, runtime, pc, want, rpcAge, sincePoll, world, lamp, history>>

Upto(age, limit) == IF age < limit THEN age + 1 ELSE age

\* The longest a lamp can stay on past the cap: until the next tick, and for
\* the command it sends.
Grace == Poll + MaxRpc

\* The process starts, or restarts with the relay as its predecessor left it.
Init ==
    /\ enabled \in BOOLEAN /\ sunriseEnabled \in BOOLEAN /\ maxOn \in {0, Cap}
    /\ relayOn = FALSE /\ onFor = 0 /\ cutoffArmed = FALSE
    /\ sinceToggle = Cooldown /\ sinceManual = ManualCooldown
    /\ pc = [a \in Actors |-> "idle"] /\ want = [a \in Actors |-> FALSE]
    /\ rpcAge = [a \in Actors |-> 0] /\ sincePoll = 0
    /\ sky = "down" /\ window = FALSE
    /\ lamp \in BOOLEAN
    /\ lampAge = Cooldown /\ inDoubt = lamp /\ overdue = 0

-----------------------------------------------------------------------------
(* The world, and the settings handlers.                                    *)

Set ==
    /\ enabled' \in BOOLEAN /\ maxOn' \in {0, Cap}
    /\ overdue' = 0
    /\ UNCHANGED <<sunriseEnabled, runtime, pc, want, rpcAge, sincePoll, world,
                   lamp, lampAge, inDoubt>>

SetSunrise ==
    /\ sunriseEnabled' \in BOOLEAN
    /\ UNCHANGED <<enabled, maxOn, runtime, pc, want, rpcAge, sincePoll, world,
                   lamp, history>>

SkyChanges ==
    /\ sky' \in {"down", "bright", "dim", "dark"} \ {sky}
    /\ UNCHANGED <<settings, runtime, pc, want, rpcAge, sincePoll, window, lamp,
                   history>>

WindowMoves ==
    /\ window' = ~window
    /\ UNCHANGED <<settings, runtime, pc, want, rpcAge, sincePoll, sky, lamp,
                   history>>

PastCap == lamp /\ relayOn /\ maxOn > 0 /\ onFor >= maxOn

\* Bad: a command has no deadline (TypeOK).
BadWithinDeadline(a) == TRUE

WithinDeadline(a) == rpcAge[a] < MaxRpc

TimePasses ==
    /\ \A a \in Actors : \/ pc[a] \in {"idle", "answered"}
                         \/ pc[a] = "rpc" /\ WithinDeadline(a)
    /\ pc[Runner] = "idle" => sincePoll < Poll
    /\ onFor' = IF relayOn THEN Upto(onFor, Cap) ELSE 0
    /\ sinceToggle' = Upto(sinceToggle, Cooldown)
    /\ sinceManual' = Upto(sinceManual, ManualCooldown)
    /\ pc' = [a \in Actors |-> IF pc[a] = "answered" THEN "idle" ELSE pc[a]]
    /\ rpcAge' = [a \in Actors |-> IF pc[a] = "rpc" THEN rpcAge[a] + 1 ELSE 0]
    /\ sincePoll' = Upto(sincePoll, Poll)
    /\ lampAge' = Upto(lampAge, Cooldown)
    /\ overdue' = IF PastCap THEN Upto(overdue, Grace + 1) ELSE 0
    /\ UNCHANGED <<settings, relayOn, cutoffArmed, want, world, lamp, inDoubt>>

\* A tick ends and Run waits for the next; a handler has answered its request.
Ended(a) == IF a = Runner THEN "idle" ELSE "answered"

-----------------------------------------------------------------------------
(* The decision of a tick, as functions of what it read.                    *)

\* Bad: bright only re-arms the next dark session (BrightTurnsOff).
BadDarkTrigger(reading, on, armed) ==
    CASE reading = "bright" -> [on |-> on, armed |-> FALSE]
      [] reading = "dark" -> [on |-> ~armed, armed |-> armed]
      [] OTHER -> [on |-> on, armed |-> armed]

decideDarkTrigger(reading, on, armed) ==
    CASE reading = "bright" -> [on |-> FALSE, armed |-> FALSE]
      [] reading = "dark" -> [on |-> ~armed, armed |-> armed]
      [] OTHER -> [on |-> on, armed |-> armed]

\* The dark trigger's opinion; without one, what is there already holds.
FromDark ==
    IF enabled /\ sky # "down" THEN decideDarkTrigger(sky, relayOn, cutoffArmed)
                               ELSE [on |-> relayOn, armed |-> cutoffArmed]

FromSunrise == sunriseEnabled /\ window

\* Bad: the sunrise window is exempt from the cap (CappedLampGoesOff).
BadOverCap == ~FromSunrise /\ maxOn > 0 /\ onFor >= maxOn

\* applyMaxOnCap's condition, for a relay that is wanted on.
OverCap == maxOn > 0 /\ onFor >= maxOn

Decision ==
    LET wanted == FromDark.on \/ FromSunrise
        cutoff == wanted /\ OverCap
    IN  [on |-> wanted /\ ~cutoff, armed |-> FromDark.armed \/ cutoff]

TickDecide ==
    /\ pc[Runner] = "idle" /\ sincePoll = Poll
    /\ sincePoll' = 0
    /\ cutoffArmed' = Decision.armed
    /\ IF Decision.on = relayOn
       THEN UNCHANGED <<pc, want>>
       ELSE /\ want' = [want EXCEPT ![Runner] = Decision.on]
            /\ pc' = [pc EXCEPT ![Runner] = "cool"]
    /\ UNCHANGED <<settings, relayOn, onFor, sinceToggle, sinceManual, rpcAge,
                   world, lamp, history>>

-----------------------------------------------------------------------------
(* Trigger.  A request for the state the relay is in already does nothing.  *)

TriggerAsked(c) ==
    /\ pc[c] = "idle"
    /\ want' = [want EXCEPT ![c] = ~relayOn]
    /\ pc' = [pc EXCEPT ![c] = "manual"]
    /\ UNCHANGED <<settings, runtime, rpcAge, sincePoll, world, lamp, history>>

\* Bad: no manual cooldown (ManualTogglesSpaced).
BadManualCoolingDown == FALSE

manualCoolingDown == sinceManual < ManualCooldown

TriggerManual(c) ==
    /\ pc[c] = "manual"
    /\ pc' = [pc EXCEPT ![c] = IF manualCoolingDown THEN Ended(c) ELSE "cool"]
    /\ UNCHANGED <<settings, runtime, want, rpcAge, sincePoll, world, lamp,
                   history>>

-----------------------------------------------------------------------------
(* What a tick and a Trigger do alike: coolingDown, SetRelay, bookkeeping.   *)

\* Bad: only a completed toggle counts (OneCommandAtATime, CommandIsCurrent).
BadStampToggle == UNCHANGED sinceToggle

StampToggle == sinceToggle' = 0

CheckCooldown(a) ==
    /\ pc[a] = "cool"
    /\ IF sinceToggle < Cooldown
       THEN /\ pc' = [pc EXCEPT ![a] = Ended(a)]
            /\ UNCHANGED sinceToggle
       ELSE /\ pc' = [pc EXCEPT ![a] = "rpc"]
            /\ StampToggle
    /\ rpcAge' = [rpcAge EXCEPT ![a] = 0]
    /\ UNCHANGED <<settings, relayOn, onFor, cutoffArmed, sinceManual, want,
                   sincePoll, world, lamp, history>>

MoveLamp(on) == lamp' = on /\ lampAge' = IF lamp = on THEN lampAge ELSE 0

\* pi-relay-control switches the relay and answers.
CommandDone(a) ==
    /\ pc[a] = "rpc"
    /\ MoveLamp(want[a])
    /\ inDoubt' = FALSE
    /\ pc' = [pc EXCEPT ![a] = "commit"]
    /\ UNCHANGED <<settings, runtime, want, rpcAge, sincePoll, world, overdue>>

\* It answers something else; the caller does not look at the answer.
CommandRefused(a) ==
    /\ pc[a] = "rpc"
    /\ inDoubt' = TRUE
    /\ pc' = [pc EXCEPT ![a] = "commit"]
    /\ UNCHANGED <<settings, runtime, want, rpcAge, sincePoll, world, lamp,
                   lampAge, overdue>>

\* It switches the relay, but the answer does not come in time.
CommandUnanswered(a) ==
    /\ pc[a] = "rpc"
    /\ MoveLamp(want[a])
    /\ inDoubt' = TRUE
    /\ pc' = [pc EXCEPT ![a] = "undo"]
    /\ UNCHANGED <<settings, runtime, want, rpcAge, sincePoll, world, overdue>>

\* It is not there.  The cap's grace period starts again.
CommandUnreached(a) ==
    /\ pc[a] = "rpc"
    /\ pc' = [pc EXCEPT ![a] = "undo"]
    /\ overdue' = 0
    /\ UNCHANGED <<settings, runtime, want, rpcAge, sincePoll, world, lamp,
                   lampAge, inDoubt>>

\* Bad: the cooldown of a failed command stands (CapHonoured).
BadUndone == sinceToggle

Undone == Cooldown

undoLastToggle(a) ==
    /\ pc[a] = "undo"
    /\ sinceToggle' = Undone
    /\ pc' = [pc EXCEPT ![a] = Ended(a)]
    /\ UNCHANGED <<settings, relayOn, onFor, cutoffArmed, sinceManual, want,
                   rpcAge, sincePoll, world, lamp, history>>

\* Bad: the new state is not noted (LampFollows).
BadNoted(a) == relayOn

Noted(a) == want[a]

commitToggle(a) ==
    /\ pc[a] = "commit"
    /\ relayOn' = Noted(a)
    /\ onFor' = 0
    /\ pc' = [pc EXCEPT ![a] = IF a = Runner THEN "idle" ELSE "mark"]
    /\ UNCHANGED <<settings, cutoffArmed, sinceToggle, sinceManual, want, rpcAge,
                   sincePoll, world, lamp, history>>

markManualToggle(c) ==
    /\ pc[c] = "mark"
    /\ sinceManual' = 0
    /\ pc' = [pc EXCEPT ![c] = Ended(c)]
    /\ UNCHANGED <<settings, relayOn, onFor, cutoffArmed, sinceToggle, want,
                   rpcAge, sincePoll, world, lamp, history>>

-----------------------------------------------------------------------------
Trigger(c) == TriggerAsked(c) \/ TriggerManual(c) \/ markManualToggle(c)

Command(a) ==
    \/ CheckCooldown(a)
    \/ CommandDone(a) \/ CommandRefused(a)
    \/ CommandUnanswered(a) \/ CommandUnreached(a)
    \/ undoLastToggle(a) \/ commitToggle(a)

World == Set \/ SetSunrise \/ SkyChanges \/ WindowMoves

Next ==
    \/ World \/ TimePasses \/ TickDecide
    \/ \E c \in Clients : Trigger(c)
    \/ \E a \in Actors : Command(a)

Spec == Init /\ [][Next]_vars

(* Time passes; goroutines take their steps; pi-relay-control answers one    *)
(* command or another, if commands keep being sent.                          *)
Fairness ==
    /\ SF_vars(TimePasses)
    /\ WF_vars(TickDecide)
    /\ \A a \in Actors : WF_vars(Command(a))
    /\ \A c \in Clients : WF_vars(TriggerManual(c) \/ markManualToggle(c))
    /\ SF_vars(\E a \in Actors : CommandDone(a))

FairSpec == Spec /\ Fairness

-----------------------------------------------------------------------------
TypeOK ==
    /\ enabled \in BOOLEAN /\ sunriseEnabled \in BOOLEAN /\ maxOn \in {0, Cap}
    /\ relayOn \in BOOLEAN /\ onFor \in 0..Cap /\ cutoffArmed \in BOOLEAN
    /\ sinceToggle \in 0..Cooldown /\ sinceManual \in 0..ManualCooldown
    /\ pc \in [Actors -> {"idle", "manual", "cool", "rpc", "commit",
                         "undo", "mark", "answered"}]
    /\ want \in [Actors -> BOOLEAN]
    /\ rpcAge \in [Actors -> 0..MaxRpc] /\ sincePoll \in 0..Poll
    /\ sky \in {"down", "bright", "dim", "dark"} /\ window \in BOOLEAN
    /\ lamp \in BOOLEAN /\ lampAge \in 0..Cooldown
    /\ inDoubt \in BOOLEAN /\ overdue \in 0..Grace + 1

(* No two relay commands are ever under way, although no lock is held and    *)
(* ticks and handlers race: the cooldown outlasts every command.             *)
OneCommandAtATime ==
    \A a, b \in Actors : pc[a] = "rpc" /\ pc[b] = "rpc" => a = b

(* A command never acts on a stale reading of the relay: it still asks for   *)
(* the opposite of what was last commanded, so triggers and ticks do not     *)
(* fight over the relay or toggle it twice.                                  *)
CommandIsCurrent == \A a \in Actors : pc[a] = "rpc" => want[a] = ~relayOn

(* A manual change comes a full manual cooldown after the previous one,      *)
(* although its check and its mark are a relay command apart.                *)
ManualTogglesSpaced ==
    [][\A c \in Clients : markManualToggle(c) => sinceManual >= ManualCooldown]_vars

(* The relay is protected from chatter: it does not really move again until  *)
(* a cooldown, less one command, has passed; also when answers are lost.     *)
RelayDoesNotChatter == [][lamp' # lamp => lampAge >= Cooldown - MaxRpc]_vars

(* relayOn, which the status reports and the cap is measured on, is what the *)
(* relay really does, unless an answer was lost or not looked at.            *)
LampFollows ==
    ~inDoubt => \/ lamp = relayOn
                \/ \E a \in Actors : pc[a] = "commit" /\ lamp = want[a]

(* The hardware safety cap: a lamp that relayOn knows to be on is off, or    *)
(* commanded off, within one poll and one command of the cap, whichever      *)
(* trigger wants it on and whatever answers were lost before; a failed       *)
(* attempt is repeated at the next tick.                                     *)
CapHonoured == overdue <= Grace

(* With a cap in force no mix of triggers keeps the relay on for ever.       *)
CappedLampGoesOff == <>[](maxOn > 0) => []<>~relayOn

(* Once it stays bright and the sunrise window does not apply, manual        *)
(* requests notwithstanding, the dark trigger gets the relay off.            *)
BrightTurnsOff ==
    <>[](enabled /\ sky = "bright" /\ ~FromSunrise) => []<>~relayOn

-----------------------------------------------------------------------------
(* What the README says and the code does not do.                            *)

(* sunrise_enabled "forces the relay on for a window": after the window the  *)
(* boost ends, when no other trigger was ever enabled.                       *)
SunriseBoostEnds ==
    [](sunriseEnabled /\ ~enabled) =>
        ((relayOn /\ ~window) ~> (~relayOn \/ window))

(* max_on_minutes "caps how long the relay may stay continuously on, as a    *)
(* hardware safety limit": the lamp itself does not stay on for ever.        *)
CapLimitsTheLamp == (lamp /\ maxOn > 0) ~> (~lamp \/ maxOn = 0)
=============================================================================
