------------------------------ MODULE FrameAlign ------------------------------
(***************************************************************************)
(* One resolution's way from the receiver callback to the viewers: the     *)
(* live mailbox, the delay buffer (internal/delaybuffer), the detector     *)
(* connection and its event buffer (internal/detect), picam-recorder's     *)
(* JPEGs (internal/recorderstream) and runMainLoop, which pops, matches,   *)
(* encodes and broadcasts.                                                 *)
(*                                                                         *)
(* The unit of time is the interval between two frames; a frame, and the   *)
(* event of the detector about it, are known by their age, so a buffer is  *)
(* a set of ages and time adds 1 to all of them.  The detector analyses    *)
(* frames in order, any of them or none, and answers within MaxLatency; an *)
(* encode keeps the loop from its next tick for up to MaxLag, and so does  *)
(* the wait for the other resolution's stream at startup, up to MaxWait.   *)
(***************************************************************************)
EXTENDS Integers, FiniteSets, FiniteSetsExt

CONSTANTS
    Delay,           \* cfg.DelayMs
    Tolerance,       \* cfg.ToleranceMs
    Slack,           \* the 2000 ms main adds to both for the event buffer
    LiveInterval, AnnotatedInterval,
    MaxLatency, MaxLag, MaxWait

ASSUME AlignTimes ==
    /\ {Delay, Tolerance, Slack, LiveInterval, AnnotatedInterval,
        MaxLatency, MaxLag, MaxWait} \subseteq Nat
    /\ MaxLatency < Delay /\ MaxLag <= Slack

VARIABLES
    proxied,         \* main, which picam-recorder compresses too; lores is not
    annotated, osd, watched,    \* live flags, and whether there is a viewer
    loop,            \* "waiting" for the streams, or "running"
    haveFrame, haveJPEG,   \* the live mailboxes hold a frame, a JPEG
    delayQ,          \* the delay buffer
    pending,         \* frames the detector is working on
    events,          \* the event buffer
    lag,             \* time since the loop last popped
    sinceShown,      \* time since it last broadcast (lastMain, lastLores)
    picture,         \* what it broadcast in this unit of time
    analysed         \* history: frames the detector took, and did not lose

flags == <<proxied, annotated, osd, watched>>
alignVars == <<flags, loop, haveFrame, haveJPEG, delayQ, pending, events, lag,
               sinceShown, picture, analysed>>

\* Bad: no time for a loop that is late (OwnBoxesShown).
BadMaxAge == Delay
MaxAge == Delay + Tolerance + Slack

Longest == Max({Delay + MaxLag, MaxWait})
\* Events of this age are pruned by the next one: bound.
Ancient == Max({MaxAge + MaxLatency, Longest + Tolerance}) + 1
Older(ages) == {Min({a + 1, Ancient}) : a \in ages}

NoPicture == [kind |-> "none"]
interval == IF annotated THEN AnnotatedInterval ELSE LiveInterval

AlignInit ==
    /\ proxied \in BOOLEAN /\ annotated \in BOOLEAN /\ osd \in BOOLEAN
    /\ watched = FALSE /\ loop = "waiting" /\ haveFrame = FALSE /\ haveJPEG = FALSE
    /\ delayQ = {} /\ pending = {} /\ events = {} /\ lag = 0
    /\ sinceShown = 0 /\ picture = NoPicture /\ analysed = {}

-----------------------------------------------------------------------------
(* A unit of time, in which a frame may arrive: the callback stores it in  *)
(* the mailbox and pushes it, and the detector may take it up.             *)

Advance(arrives, taken) ==
    /\ lag < (IF loop = "waiting" THEN MaxWait ELSE MaxLag)
    /\ \A a \in pending : a < MaxLatency
    /\ taken => arrives
    /\ haveFrame' = (haveFrame \/ arrives)
    /\ delayQ' = Older(delayQ) \union (IF arrives THEN {0} ELSE {})
    /\ pending' = Older(pending) \union (IF taken THEN {0} ELSE {})
    /\ analysed' = {a \in Older(analysed) : a <= Delay + MaxLag}
                   \union (IF taken THEN {0} ELSE {})
    /\ events' = Older(events)
    /\ lag' = lag + 1 /\ sinceShown' = Min({sinceShown + 1, interval})
    /\ picture' = NoPicture
    /\ UNCHANGED <<flags, loop, haveJPEG>>

\* The handlers, between two of which a loop's tick reads the flags once.
SetFlags ==
    /\ annotated' \in BOOLEAN /\ osd' \in BOOLEAN /\ watched' \in BOOLEAN
    /\ UNCHANGED <<proxied, loop, haveFrame, haveJPEG, delayQ, pending, events, lag,
                   sinceShown, picture, analysed>>

\* recorderstream: a JPEG arrives.  A lost connection leaves the last one.
RecorderSends ==
    /\ proxied /\ ~haveJPEG /\ haveJPEG' = TRUE
    /\ UNCHANGED <<flags, loop, haveFrame, delayQ, pending, events, lag,
                   sinceShown, picture, analysed>>

\* detect.Run: a line of the detector is pushed, and prunes what is too old.
Push ==
    /\ pending /= {}
    /\ LET evt == Max(pending)
       IN /\ pending' = pending \ {evt}
          /\ events' = {e \in events \union {evt} : e - evt <= MaxAge}
    /\ UNCHANGED <<flags, loop, haveFrame, haveJPEG, delayQ, lag, sinceShown,
                   picture, analysed>>

\* The connection breaks: what it would have carried is lost.
LoseDetections ==
    /\ pending /= {} /\ pending' = {} /\ analysed' = analysed \ pending
    /\ UNCHANGED <<flags, loop, haveFrame, haveJPEG, delayQ, events, lag,
                   sinceShown, picture>>

-----------------------------------------------------------------------------
(* runMainLoop *)

\* WaitForStream has seen both streams, or given up; lastMain, lastLores are now.
StartLoop ==
    /\ loop = "waiting" /\ loop' = "running" /\ sinceShown' = 0
    /\ UNCHANGED <<flags, haveFrame, haveJPEG, delayQ, pending, events, lag,
                   picture, analysed>>

Due == {a \in delayQ : a >= Delay}

\* Bad: Pop takes the oldest due frame only (DelayBufferBounded).
BadPopped == IF Due = {} THEN {} ELSE {Max(Due)}
\* The frames Pop takes off the queue; it returns the newest.
Popped == Due

Distance(a, b) == IF a > b THEN a - b ELSE b - a

\* FindNearest, as a set of at most one event; the older of two equally near
\* ones comes first.
Nearest(target) ==
    {e \in events :
        /\ Distance(e, target) <= Tolerance
        /\ \A f \in events : \/ Distance(e, target) < Distance(f, target)
                             \/ Distance(e, target) = Distance(f, target) /\ f <= e}

\* What a tick whose interval is over broadcasts.
NextPicture ==
    CASE annotated /\ Popped /= {} ->
           [kind |-> "annotated", age |-> Min(Popped), boxes |-> Nearest(Min(Popped))]
      [] ~annotated /\ (osd \/ ~proxied) /\ haveFrame -> [kind |-> "encoded"]
      [] ~annotated /\ ~osd /\ proxied /\ haveJPEG -> [kind |-> "proxied"]
      [] OTHER -> NoPicture

Tick ==
    /\ loop = "running"
    /\ delayQ' = delayQ \ Popped /\ lag' = 0
    /\ picture' = IF watched /\ sinceShown >= interval THEN NextPicture ELSE NoPicture
    /\ sinceShown' = IF picture' = NoPicture THEN sinceShown ELSE 0
    /\ UNCHANGED <<flags, loop, haveFrame, haveJPEG, pending, events, analysed>>

AlignNext ==
    \/ \E arrives, taken \in BOOLEAN : Advance(arrives, taken)
    \/ SetFlags \/ RecorderSends \/ Push \/ LoseDetections \/ StartLoop \/ Tick

AlignSpec == AlignInit /\ [][AlignNext]_alignVars

-----------------------------------------------------------------------------
AlignTypeOK ==
    /\ {proxied, annotated, osd, watched, haveFrame, haveJPEG} \subseteq BOOLEAN
    /\ loop \in {"waiting", "running"} /\ delayQ \subseteq 0..Longest
    /\ pending \subseteq 0..MaxLatency /\ events \subseteq 0..Ancient
    /\ lag \in 0..Max({MaxLag, MaxWait})
    /\ sinceShown \in 0..Max({LiveInterval, AnnotatedInterval})
    /\ picture = NoPicture \/ picture.kind \in {"annotated", "encoded", "proxied"}
    /\ analysed \subseteq 0..(Delay + MaxLag)

(* A frame the detector has analysed is shown annotated with its own       *)
(* boxes: the delay is long enough for the detector's answer, the event    *)
(* buffer has not pruned it by the time a slow loop shows the frame, and   *)
(* no other event is nearer.                                               *)
OwnBoxesShown ==
    [][Tick /\ picture'.kind = "annotated" /\ picture'.age \in analysed
         => picture'.boxes = {picture'.age}]_alignVars

(* However long encodes keep the loop from popping, the delay buffer holds *)
(* no more frames than arrive during the delay and one such encode, or     *)
(* during the wait at startup.                                             *)
DelayBufferBounded == Cardinality(delayQ) <= Longest
=============================================================================
