----------------------------- MODULE SettingsStore -----------------------------
(***************************************************************************)
(* The settings that outlive the process: those of internal/uistate, with  *)
(* the live flags of the server beside them, internal/luxswitch and        *)
(* internal/irlight.  Each keeps its record under a mutex, and each Set    *)
(* unlocks before it saves: save reads the record, truncates the file and  *)
(* writes it, none of it under a lock, so requests can interleave there.   *)
(*                                                                         *)
(* kind tells which of the three this is; they share no state.  A setting  *)
(* is true or false, and "false" is one character longer, so that a write  *)
(* into a file that another request has written meanwhile may leave a tail *)
(* of the longer text behind, which load rejects.  The process may be      *)
(* killed between any two steps.                                           *)
(***************************************************************************)
EXTENDS Integers, Sequences, FiniteSets

CONSTANTS
    Requests,        \* handler goroutines
    Fields,          \* the settings of one record
    Apart,           \* those set apart from the others: the sunrise settings
                     \* of irlight, the camera of uistate
    DefaultsTrue     \* those whose default, of config.ini, is true

ASSUME ApartOfFields == Apart \subseteq Fields
ASSUME DefaultsOfFields == DefaultsTrue \subseteq Fields
ASSUME FieldsAreFinite == IsFiniteSet(Fields)

VARIABLES
    kind,            \* "ui", "lux" or "ir"
    live,            \* Server.OSDTime, MainAnnotated, ...: "ui" only, and of
                     \* no meaning for the settings in Apart
    mem,             \* the record under the mutex
    file,            \* the state file
    spc,             \* where each request is
    todo,            \* the changes a request still has to make, one per Set
    left,            \* the fields whose flag it still has to store or, in
                     \* save, that it still has to read
    text,            \* the record save has marshalled
    \* history, read by properties only
    alone,           \* the last request to begin found none under way, none
                     \* has begun since, and no write of it failed
    own,             \* the fields it sets, while it is under way
    settled,         \* those last set by such a request, to its end
    failed           \* a write has failed since the start

storeVars == <<kind, live, mem, file, spc, todo, left, text,
               alone, own, settled, failed>>

Records == [Fields -> BOOLEAN]
\* The changes to some of the settings G: a parameter may be absent.
Partial(G) == UNION {[S -> BOOLEAN] : S \in SUBSET G}
Changes == Partial(Fields)
Defaults == [f \in Fields |-> f \in DefaultsTrue]
NoFile == [state |-> "missing"]
Empty == [state |-> "empty"]
\* The record after a change, which leaves the fields it does not name alone.
Changed(record, change) ==
    [f \in Fields |-> IF f \in DOMAIN change THEN change[f] ELSE record[f]]
Length(r) == Cardinality({f \in Fields : ~r[f]})
\* A file that is neither truncated nor longer than its text.
Intact(f) == f # Empty /\ (f = NoFile \/ f.length = Length(f.data))

\* Bad: a false in the file is taken for a setting left out (SettledSurvives).
BadLoaded(f) ==
    IF f \notin {NoFile, Empty} /\ f.length = Length(f.data)
    THEN [x \in Fields |-> f.data[x] \/ Defaults[x]] ELSE Defaults
\* load: a file that is missing, empty or corrupt leaves the defaults.
Loaded(f) == IF f \notin {NoFile, Empty} /\ f.length = Length(f.data)
             THEN f.data ELSE Defaults

StoreInit ==
    /\ kind \in {"ui", "lux", "ir"} /\ file = NoFile
    /\ mem = Defaults /\ live = Defaults
    /\ spc = [q \in Requests |-> "idle"] /\ todo = [q \in Requests |-> <<>>]
    /\ left = [q \in Requests |-> {}] /\ text = [q \in Requests |-> Defaults]
    /\ alone = TRUE /\ own = {} /\ settled = Fields /\ failed = FALSE

Quiet == \A q \in Requests : spc[q] = "idle"
\* What the program goes by: the flag, where a setting has one, or the record.
InForce(f) == IF kind = "ui" /\ f \notin Apart THEN live[f] ELSE mem[f]

-----------------------------------------------------------------------------
(* The handlers: what they hand to Set, and in which order *)

Named(changes) == UNION {DOMAIN changes[i] : i \in DOMAIN changes}

Begin(q, changes, flags) ==
    /\ spc[q] = "idle" /\ spc' = [spc EXCEPT ![q] = "set"]
    /\ todo' = [todo EXCEPT ![q] = changes] /\ left' = [left EXCEPT ![q] = flags]
    /\ alone' = Quiet /\ own' = IF Quiet THEN Named(changes) ELSE {}
    /\ settled' = settled \ Named(changes)
    /\ UNCHANGED <<kind, live, mem, file, text, failed>>

\* handleOSD, handleAnnotate: the live flags, and then Set.
HandleUI(q) ==
    /\ kind = "ui"
    /\ \E change \in Partial(Fields \ Apart) : Begin(q, <<change>>, DOMAIN change)

\* handleCamera, once picam-raw has switched: the camera has no flag.
HandleCamera(q) ==
    /\ kind = "ui"
    /\ \E f \in Apart : \E change \in [{f} -> BOOLEAN] : Begin(q, <<change>>, {})

\* handleLuxSwitch: enabled and threshold in one Set.
HandleLux(q) ==
    /\ kind = "lux" /\ \E change \in Changes : Begin(q, <<change>>, {})

\* handleIRLight: Set, and then SetSunrise, each of which saves.
HandleIR(q) ==
    /\ kind = "ir"
    /\ \E set \in Partial(Fields \ Apart), sunrise \in Partial(Apart) :
          Begin(q, <<set, sunrise>>, {})

\* Bad: the handler's flag is stored for true only (QuietAgrees).
BadFlagStored(change, f) == [live EXCEPT ![f] = @ \/ change[f]]
FlagStored(change, f) == [live EXCEPT ![f] = change[f]]

\* The handler stores its flags one after another, with no lock.
StoreFlag(q) ==
    /\ spc[q] = "set"
    /\ \E f \in left[q] :
          live' = FlagStored(Head(todo[q]), f) /\ left' = [left EXCEPT ![q] = @ \ {f}]
    /\ UNCHANGED <<kind, mem, file, spc, todo, text, alone, own, settled, failed>>

-----------------------------------------------------------------------------
(* Set and save *)

\* Set: the locked part.  SetOSD, SetAnnotate, SetActiveCamera, SetSunrise.
Set(q) ==
    /\ spc[q] = "set" /\ left[q] = {} /\ mem' = Changed(mem, Head(todo[q]))
    /\ todo' = [todo EXCEPT ![q] = Tail(@)]
    /\ spc' = [spc EXCEPT ![q] = "read"] /\ left' = [left EXCEPT ![q] = Fields]
    /\ UNCHANGED <<kind, live, file, text, alone, own, settled, failed>>

\* save reads the record without the lock, so others may change it meanwhile.
ReadField(q) ==
    /\ spc[q] = "read"
    /\ \E f \in left[q] : /\ text' = [text EXCEPT ![q][f] = mem[f]]
                          /\ left' = [left EXCEPT ![q] = @ \ {f}]
    /\ UNCHANGED <<kind, live, mem, file, spc, todo, alone, own, settled, failed>>

Truncate(q) ==
    /\ spc[q] = "read" /\ left[q] = {} /\ file' = Empty
    /\ spc' = [spc EXCEPT ![q] = "write"]
    /\ UNCHANGED <<kind, live, mem, todo, left, text, alone, own, settled, failed>>

\* What is in the file after a write from its beginning.
Over(old, r) ==
    [data |-> r, length |-> IF old \notin {NoFile, Empty} /\ old.length > Length(r)
                            THEN old.length ELSE Length(r)]

SaveEnds(q) ==
    /\ spc' = [spc EXCEPT ![q] = IF todo[q] = <<>> THEN "idle" ELSE "set"]
    /\ text' = [text EXCEPT ![q] = Defaults]
    /\ UNCHANGED <<kind, live, mem, todo, left>>

Write(q) ==
    /\ spc[q] = "write" /\ file' = Over(file, text[q]) /\ SaveEnds(q)
    /\ IF todo[q] = <<>> THEN settled' = settled \union own /\ own' = {}
       ELSE UNCHANGED <<settled, own>>
    /\ UNCHANGED <<alone, failed>>

\* A failure is logged, and the request goes on.
WriteFails(q) ==
    /\ (spc[q] = "read" /\ left[q] = {}) \/ spc[q] = "write"
    /\ SaveEnds(q) /\ alone' = FALSE /\ own' = {} /\ failed' = TRUE
    /\ UNCHANGED <<file, settled>>

\* The process is killed and starts again: New, load, and the flags' seeds.
Restart ==
    /\ mem' = Loaded(file) /\ live' = Loaded(file)
    /\ spc' = [q \in Requests |-> "idle"] /\ todo' = [q \in Requests |-> <<>>]
    /\ left' = [q \in Requests |-> {}] /\ text' = [q \in Requests |-> Defaults]
    /\ alone' = TRUE /\ own' = {} /\ settled' = Fields /\ failed' = FALSE
    /\ UNCHANGED <<kind, file>>

StoreNext ==
    \/ Restart
    \/ \E q \in Requests :
          \/ HandleUI(q) \/ HandleCamera(q) \/ HandleLux(q) \/ HandleIR(q)
          \/ StoreFlag(q) \/ Set(q) \/ ReadField(q) \/ Truncate(q) \/ Write(q)
          \/ WriteFails(q)

StoreSpec == StoreInit /\ [][StoreNext]_storeVars

-----------------------------------------------------------------------------
StoreTypeOK ==
    /\ kind \in {"ui", "lux", "ir"} /\ live \in Records /\ mem \in Records
    /\ \/ file \in {NoFile, Empty}
       \/ file \in [data : Records, length : 0..Cardinality(Fields)]
    /\ spc \in [Requests -> {"idle", "set", "read", "write"}]
    /\ todo \in [Requests -> Seq(Changes)] /\ \A q \in Requests : Len(todo[q]) <= 2
    /\ left \in [Requests -> SUBSET Fields] /\ text \in [Requests -> Records]
    /\ alone \in BOOLEAN /\ own \in SUBSET Fields /\ settled \in SUBSET Fields
    /\ failed \in BOOLEAN

(* A request that has run alone leaves the record and the file in          *)
(* agreement, and the settings it made in force, whatever earlier requests *)
(* that overlapped, failed writes and kills have left behind it.           *)
QuietAgrees ==
    /\ Quiet /\ alone => mem = Loaded(file)
    /\ \A f \in settled : InForce(f) = mem[f]

(* A setting last made by a request that ran alone, or not changed since   *)
(* the start, survives a kill at whatever step of whatever requests, which *)
(* may overlap and fail, if only the file is whole at that moment: it is   *)
(* not while it is being rewritten, after a write that failed, or once two *)
(* writes have met in it.                                                  *)
SettledSurvives ==
    [][Restart /\ Intact(file) =>
          \A f \in settled : InForce(f)' = InForce(f)]_storeVars

-----------------------------------------------------------------------------
(* What comments promise, and the code does not do                          *)

(* The settings are persisted so that they survive a restart.  (handlers.go *)
(* 126, 155, 208, 241 and uistate.go:1)  While no request is under way all  *)
(* have been answered, and everything in force survives; else what was      *)
(* settled before, which none of those under way sets.  Only a write that   *)
(* failed, which is logged, excuses a loss.                                 *)
SettingsSurvive ==
    [][Restart /\ ~failed =>
          \A f \in (IF Quiet THEN Fields ELSE settled) :
             InForce(f)' = InForce(f)]_storeVars
=============================================================================
