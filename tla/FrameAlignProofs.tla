--------------------------- MODULE FrameAlignProofs ---------------------------
(***************************************************************************)
(* Proofs about FrameAlign, for any delay, tolerance, slack, intervals and *)
(* bounds that AlignTimes admits: types, the bound of the delay buffer,    *)
(* and that an analysed frame is shown with its own boxes.                 *)
(***************************************************************************)
EXTENDS FrameAlign, FiniteSetTheorems, WellFoundedInduction, TLAPS

(* A set of naturals with a member has a least one.                        *)
LEMMA LeastOfNats ==
  ASSUME NEW S \in SUBSET Nat, S # {}
  PROVE  Min(S) \in S /\ \A y \in S : Min(S) <= y
<1>1. \E x \in S : \A y \in S : ~(<<y, x>> \in OpToRel(<, Nat))
  BY NatLessThanWellFounded, WFMin
<1>2. \E x \in S : \A y \in S : x <= y
  <2>1. PICK x \in S : \A y \in S : ~(<<y, x>> \in OpToRel(<, Nat))
    BY <1>1
  <2>2. ASSUME NEW y \in S PROVE x <= y
    <3>1. ~(y < x)
      BY <2>1, <2>2 DEF OpToRel
    <3> QED BY <3>1
  <2> QED BY <2>2
<1> QED BY <1>2, Zenon DEF Min

(* One that is bounded has a greatest one.                                 *)
LEMMA GreatestOfNats ==
  ASSUME NEW S \in SUBSET Nat, S # {}, NEW n \in Nat, \A x \in S : x <= n
  PROVE  Max(S) \in S /\ \A y \in S : Max(S) >= y
<1> DEFINE T == {n - x : x \in S}
<1>1. T \in SUBSET Nat /\ T # {}
  <2>1. \A x \in S : n - x \in Nat
    OBVIOUS
  <2> QED BY <2>1
<1>2. Min(T) \in T /\ \A y \in T : Min(T) <= y
  BY <1>1, LeastOfNats
<1>3. PICK x \in S : Min(T) = n - x
  BY <1>2
<1>4. ASSUME NEW y \in S PROVE x >= y
  <2>1. n - x <= n - y
    BY <1>2, <1>3
  <2>2. x \in Nat /\ y \in Nat
    OBVIOUS
  <2> QED BY <2>1, <2>2
<1> QED BY <1>4, Zenon DEF Max

(* Of two naturals.                                                        *)
LEMMA PairOfNats ==
  ASSUME NEW a \in Nat, NEW b \in Nat
  PROVE  /\ Max({a, b}) = IF a >= b THEN a ELSE b
         /\ Min({a, b}) = IF a <= b THEN a ELSE b
<1>1. {a, b} \in SUBSET Nat /\ {a, b} # {} /\ \A x \in {a, b} : x <= a + b
  OBVIOUS
<1>2. Max({a, b}) \in {a, b} /\ \A y \in {a, b} : Max({a, b}) >= y
  BY <1>1, GreatestOfNats
<1>3. Min({a, b}) \in {a, b} /\ \A y \in {a, b} : Min({a, b}) <= y
  BY <1>1, LeastOfNats
<1> QED BY <1>2, <1>3

(* The times derived from the constants, and how they are ordered: an      *)
(* answer comes before the frame is due, and nothing that a frame or an    *)
(* event can still be needed for is as old as Ancient.                     *)
LEMMA Times ==
  /\ Delay \in Nat /\ Tolerance \in Nat /\ Slack \in Nat
  /\ LiveInterval \in Nat /\ AnnotatedInterval \in Nat
  /\ MaxLatency \in Nat /\ MaxLag \in Nat /\ MaxWait \in Nat
  /\ MaxAge \in Nat /\ Longest \in Nat /\ Ancient \in Nat
  /\ MaxLatency < Delay /\ Delay + MaxLag <= MaxAge
  /\ Delay + MaxLag <= Longest /\ MaxWait <= Longest
  /\ MaxAge + MaxLatency < Ancient /\ Longest < Ancient
<1>1. /\ Delay \in Nat /\ Tolerance \in Nat /\ Slack \in Nat
      /\ LiveInterval \in Nat /\ AnnotatedInterval \in Nat
      /\ MaxLatency \in Nat /\ MaxLag \in Nat /\ MaxWait \in Nat
      /\ MaxLatency < Delay /\ MaxLag <= Slack
  BY AlignTimes
<1>2. MaxAge \in Nat /\ Delay + MaxLag <= MaxAge
  BY <1>1 DEF MaxAge
<1>3. Longest \in Nat /\ Delay + MaxLag <= Longest /\ MaxWait <= Longest
  BY <1>1, PairOfNats DEF Longest
<1>4. /\ MaxAge + MaxLatency \in Nat /\ Longest + Tolerance \in Nat
  BY <1>1, <1>2, <1>3
<1>5. /\ Max({MaxAge + MaxLatency, Longest + Tolerance}) \in Nat
      /\ MaxAge + MaxLatency <= Max({MaxAge + MaxLatency, Longest + Tolerance})
      /\ Longest + Tolerance <= Max({MaxAge + MaxLatency, Longest + Tolerance})
  BY <1>4, PairOfNats
<1>6. Ancient \in Nat /\ MaxAge + MaxLatency < Ancient /\ Longest < Ancient
  BY <1>1, <1>2, <1>3, <1>5 DEF Ancient
<1> QED BY <1>1, <1>2, <1>3, <1>6

(* A unit of time later, ages below Ancient have grown by one.             *)
LEMMA OlderBy ==
  ASSUME NEW ages \in SUBSET (0..Ancient)
  PROVE  /\ Older(ages) \subseteq 0..Ancient
         /\ \A n \in Nat : n < Ancient /\ (\A a \in ages : a < n)
              => Older(ages) = {a + 1 : a \in ages}
<1>1. ASSUME NEW a \in ages
      PROVE  Min({a + 1, Ancient}) = IF a + 1 <= Ancient THEN a + 1 ELSE Ancient
  BY Times, PairOfNats
<1>2. Older(ages) \subseteq 0..Ancient
  <2>1. \A a \in ages : Min({a + 1, Ancient}) \in 0..Ancient
    BY <1>1, Times
  <2> QED BY <2>1 DEF Older
<1>3. ASSUME NEW n \in Nat, n < Ancient, \A a \in ages : a < n
      PROVE  Older(ages) = {a + 1 : a \in ages}
  <2>1. \A a \in ages : Min({a + 1, Ancient}) = a + 1
    BY <1>1, <1>3, Times
  <2> QED BY <2>1 DEF Older
<1> QED BY <1>2, <1>3

-----------------------------------------------------------------------------
(* The inductive invariant.  A queued frame is younger than the loop's     *)
(* last pop, or was too young for it; and an analysed frame's event is on  *)
(* its way or in the buffer.                                               *)
FramesOnTime ==
    \A a \in delayQ :
       \/ a < lag
       \/ loop = "running" /\ lag <= MaxLag /\ a < Delay + lag
BoxesKept == analysed \subseteq pending \union events
AlignInv == AlignTypeOK /\ FramesOnTime /\ BoxesKept

(* The bounds of the two counters, spelled out.                            *)
LEMMA Counters ==
  ASSUME AlignTypeOK
  PROVE  /\ lag \in Nat /\ (lag <= MaxLag \/ lag <= MaxWait)
         /\ sinceShown \in Nat
         /\ (sinceShown <= LiveInterval \/ sinceShown <= AnnotatedInterval)
<1>1. /\ Max({MaxLag, MaxWait}) = IF MaxLag >= MaxWait THEN MaxLag ELSE MaxWait
      /\ Max({LiveInterval, AnnotatedInterval}) =
           IF LiveInterval >= AnnotatedInterval THEN LiveInterval ELSE AnnotatedInterval
  BY Times, PairOfNats
<1> QED BY <1>1, Times DEF AlignTypeOK

(* And the other way round.                                                *)
LEMMA InCounters ==
  /\ \A n \in Nat : n <= MaxLag \/ n <= MaxWait => n \in 0..Max({MaxLag, MaxWait})
  /\ \A n \in Nat : n <= LiveInterval \/ n <= AnnotatedInterval
       => n \in 0..Max({LiveInterval, AnnotatedInterval})
<1>1. /\ Max({MaxLag, MaxWait}) = IF MaxLag >= MaxWait THEN MaxLag ELSE MaxWait
      /\ Max({LiveInterval, AnnotatedInterval}) =
           IF LiveInterval >= AnnotatedInterval THEN LiveInterval ELSE AnnotatedInterval
  BY Times, PairOfNats
<1> QED BY <1>1, Times

(* No frame stays queued for Longest.                                      *)
LEMMA FramesYoung ==
  ASSUME AlignInv
  PROVE  delayQ \subseteq 0..(Longest - 1)
<1>1. \A a \in delayQ : a \in Nat
  BY Times DEF AlignInv, AlignTypeOK
<1> QED BY <1>1, Counters, Times DEF AlignInv, FramesOnTime

(* A unit of time passes.                                                  *)
LEMMA AdvanceStep ==
  ASSUME AlignInv, NEW arrives \in BOOLEAN, NEW taken \in BOOLEAN,
         Advance(arrives, taken)
  PROVE  AlignInv'
<1>t. AlignTypeOK
  BY DEF AlignInv
<1>1. {proxied, annotated, osd, watched, haveFrame, haveJPEG}' \subseteq BOOLEAN
  <2>1. haveFrame' \in BOOLEAN
    BY Zenon DEF Advance
  <2> QED BY <1>t, <2>1 DEF AlignTypeOK, Advance, flags
<1>2. /\ delayQ \in SUBSET (0..Ancient) /\ \A a \in delayQ : a < Longest
      /\ pending \in SUBSET (0..Ancient) /\ \A a \in pending : a < MaxLatency
      /\ events \in SUBSET (0..Ancient) /\ analysed \in SUBSET (0..Ancient)
  <2>1. delayQ \in SUBSET (0..Ancient) /\ \A a \in delayQ : a < Longest
    BY FramesYoung, Times
  <2>2. pending \in SUBSET (0..Ancient) /\ \A a \in pending : a < MaxLatency
    BY <1>t, Times DEF AlignTypeOK, Advance
  <2>3. events \in SUBSET (0..Ancient) /\ analysed \in SUBSET (0..Ancient)
    BY <1>t, Times DEF AlignTypeOK
  <2> QED BY <2>1, <2>2, <2>3
<1>3. /\ Older(delayQ) = {a + 1 : a \in delayQ}
      /\ Older(pending) = {a + 1 : a \in pending}
      /\ Older(events) \subseteq 0..Ancient /\ Older(analysed) \subseteq 0..Ancient
  <2>1. Longest < Ancient /\ MaxLatency < Ancient
    BY Times
  <2> QED BY <1>2, <2>1, OlderBy, Times
<1>4. lag \in Nat /\ lag' = lag + 1 /\ loop' = loop
      /\ lag' <= (IF loop = "waiting" THEN MaxWait ELSE MaxLag)
  BY Counters, <1>t, Times DEF Advance
<1>5. lag' \in 0..Max({MaxLag, MaxWait})
  BY <1>4, InCounters
<1>6. sinceShown' \in 0..Max({LiveInterval, AnnotatedInterval})
  <2>1. interval \in Nat /\ (interval = LiveInterval \/ interval = AnnotatedInterval)
    BY Times DEF interval
  <2>2. sinceShown' \in Nat /\ sinceShown' <= interval
    <3>1. sinceShown + 1 \in Nat
      BY Counters, <1>t
    <3>2. Min({sinceShown + 1, interval}) =
            IF sinceShown + 1 <= interval THEN sinceShown + 1 ELSE interval
      BY <2>1, <3>1, PairOfNats
    <3> QED BY <2>1, <3>1, <3>2 DEF Advance
  <2> QED BY <2>1, <2>2, InCounters
<1>7. delayQ' \subseteq 0..Longest
  BY <1>2, <1>3, Times DEF Advance
<1>8. pending' \subseteq 0..MaxLatency
  BY <1>2, <1>3, Times DEF Advance
<1>9. analysed' \subseteq 0..(Delay + MaxLag)
  BY <1>3, Times DEF Advance
<1>10. AlignTypeOK'
  BY <1>t, <1>1, <1>3, <1>5, <1>6, <1>7, <1>8, <1>9 DEF AlignTypeOK, Advance
<1>11. FramesOnTime'
  <2> SUFFICES ASSUME NEW b \in delayQ'
               PROVE  \/ b < lag'
                      \/ loop' = "running" /\ lag' <= MaxLag /\ b < Delay + lag'
    BY DEF FramesOnTime
  <2>1. CASE b = 0
    BY <1>4, <2>1
  <2>2. CASE b # 0
    <3>1. PICK a \in delayQ : b = a + 1
      BY <1>3, <2>2 DEF Advance
    <3>2. a \in Nat
      BY <1>2, Times
    <3>3. \/ a < lag
          \/ loop = "running" /\ a < Delay + lag
      BY DEF AlignInv, FramesOnTime
    <3> QED BY <1>4, <3>1, <3>2, <3>3, Times
  <2> QED BY <2>1, <2>2
<1>12. BoxesKept'
  <2>1. Older(analysed) \subseteq Older(pending) \union Older(events)
    BY DEF AlignInv, BoxesKept, Older
  <2> QED BY <2>1 DEF Advance, BoxesKept
<1> QED BY <1>10, <1>11, <1>12 DEF AlignInv

(* The detector's answer goes from pending to events, and what it prunes   *)
(* is older than anything the loop can still show.                         *)
LEMMA PushStep ==
  ASSUME AlignInv, Push
  PROVE  AlignInv'
<1>t. AlignTypeOK
  BY DEF AlignInv
<1> DEFINE evt == Max(pending)
<1>1. evt \in pending
  <2>1. pending \in SUBSET Nat /\ pending # {} /\ \A a \in pending : a <= MaxLatency
    BY <1>t, Times DEF AlignTypeOK, Push
  <2> QED BY <2>1, Times, GreatestOfNats
<1>2. evt \in 0..MaxLatency /\ evt \in 0..Ancient
  <2>1. evt \in 0..MaxLatency
    BY <1>t, <1>1 DEF AlignTypeOK
  <2> HIDE DEF evt
  <2> QED BY <2>1, Times
<1>3. /\ pending' = pending \ {evt}
      /\ events' = {e \in events \union {evt} : e - evt <= MaxAge}
  BY DEF Push
<1>4. AlignTypeOK'
  <2>1. events' \subseteq 0..Ancient /\ pending' \subseteq 0..MaxLatency
    BY <1>t, <1>2, <1>3 DEF AlignTypeOK
  <2> QED BY <1>t, <2>1 DEF AlignTypeOK, Push, flags
<1>5. FramesOnTime'
  BY DEF AlignInv, FramesOnTime, Push
<1>6. BoxesKept'
  <2> SUFFICES ASSUME NEW a \in analysed PROVE a \in pending' \union events'
    BY DEF BoxesKept, Push
  <2>1. a \in Nat /\ a <= Delay + MaxLag
    BY <1>t, Times DEF AlignTypeOK
  <2>2. a - evt <= MaxAge
    BY <1>2, <2>1, Times
  <2>3. a \in pending \union events
    BY DEF AlignInv, BoxesKept
  <2> QED BY <1>3, <2>2, <2>3
<1> QED BY <1>4, <1>5, <1>6 DEF AlignInv

(* A tick takes every due frame, so what stays is younger than the delay.  *)
LEMMA TickStep ==
  ASSUME AlignInv, Tick
  PROVE  AlignInv'
<1>t. AlignTypeOK
  BY DEF AlignInv
<1>1. picture' = NoPicture \/ picture'.kind \in {"annotated", "encoded", "proxied"}
  BY DEF Tick, NextPicture, NoPicture
<1>2. sinceShown' \in 0..Max({LiveInterval, AnnotatedInterval})
      /\ lag' \in 0..Max({MaxLag, MaxWait})
  <2>1. 0 <= MaxLag /\ 0 <= LiveInterval /\ 0 \in Nat
    BY Times
  <2> QED BY <1>t, <2>1, InCounters DEF AlignTypeOK, Tick
<1>3. AlignTypeOK'
  BY <1>t, <1>1, <1>2 DEF AlignTypeOK, Tick, flags
<1>4. FramesOnTime'
  <2> SUFFICES ASSUME NEW a \in delayQ'
               PROVE  loop' = "running" /\ lag' <= MaxLag /\ a < Delay + lag'
    BY DEF FramesOnTime
  <2>1. a \in delayQ /\ a \notin Due /\ a \in Nat
    BY <1>t, Times DEF Tick, Popped, AlignTypeOK
  <2>2. ~(a >= Delay)
    BY <2>1 DEF Due
  <2> QED BY <2>1, <2>2, Times DEF Tick
<1>5. BoxesKept'
  BY DEF AlignInv, BoxesKept, Tick
<1> QED BY <1>3, <1>4, <1>5 DEF AlignInv

(* The other steps.                                                        *)
LEMMA OtherSteps ==
  ASSUME AlignInv, SetFlags \/ RecorderSends \/ LoseDetections \/ StartLoop
  PROVE  AlignInv'
<1>t. AlignTypeOK
  BY DEF AlignInv
<1>1. CASE SetFlags
  <2>1. {proxied, annotated, osd, watched, haveFrame, haveJPEG}' \subseteq BOOLEAN
    BY <1>t, <1>1 DEF AlignTypeOK, SetFlags
  <2> QED BY <1>1, <2>1 DEF AlignInv, AlignTypeOK, FramesOnTime, BoxesKept, SetFlags
<1>2. CASE RecorderSends
  <2>1. {proxied, annotated, osd, watched, haveFrame, haveJPEG}' \subseteq BOOLEAN
    BY <1>t, <1>2 DEF AlignTypeOK, RecorderSends, flags
  <2> QED BY <1>2, <2>1
          DEF AlignInv, AlignTypeOK, FramesOnTime, BoxesKept, RecorderSends
<1>3. CASE LoseDetections
  BY <1>3 DEF AlignInv, AlignTypeOK, FramesOnTime, BoxesKept, LoseDetections, flags
<1>4. CASE StartLoop
  <2>1. 0 \in 0..Max({LiveInterval, AnnotatedInterval})
    BY Times, InCounters
  <2> QED BY <1>4, <2>1
          DEF AlignInv, AlignTypeOK, FramesOnTime, BoxesKept, StartLoop, flags
<1> QED BY <1>1, <1>2, <1>3, <1>4

(* The invariant holds at the start and is kept.                           *)
LEMMA InitAligned == AlignInit => AlignInv
<1> SUFFICES ASSUME AlignInit PROVE AlignInv
  OBVIOUS
<1>1. /\ 0 \in 0..Max({LiveInterval, AnnotatedInterval})
      /\ 0 \in 0..Max({MaxLag, MaxWait})
  BY Times, InCounters
<1>2. {proxied, annotated, osd, watched, haveFrame, haveJPEG} \subseteq BOOLEAN
  BY DEF AlignInit
<1> QED BY <1>1, <1>2 DEF AlignInit, AlignInv, AlignTypeOK, FramesOnTime, BoxesKept

(* Every step keeps it.                                                    *)
LEMMA StepAligned ==
  ASSUME AlignInv, [AlignNext]_alignVars
  PROVE  AlignInv'
<1>1. CASE UNCHANGED alignVars
  BY <1>1 DEF alignVars, flags, AlignInv, AlignTypeOK, FramesOnTime, BoxesKept
<1>2. CASE AlignNext
  BY <1>2, AdvanceStep, PushStep, TickStep, OtherSteps DEF AlignNext
<1> QED BY <1>1, <1>2

(* Every variable keeps its type, and every queue its range of ages.       *)
THEOREM AlignTypeCorrect == AlignSpec => []AlignTypeOK
<1>1. AlignInv => AlignTypeOK
  BY DEF AlignInv
<1> QED BY InitAligned, StepAligned, <1>1, PTL DEF AlignSpec

(* The delay buffer never holds more frames than arrive during the delay   *)
(* and the longest encode, or during the wait at startup: Pop takes every  *)
(* due frame, not one per tick, so a slow loop builds up no backlog.       *)
THEOREM DelayBufferAlwaysBounded == AlignSpec => []DelayBufferBounded
<1>1. AlignInv => DelayBufferBounded
  <2> SUFFICES ASSUME AlignInv PROVE Cardinality(delayQ) <= Longest
    BY DEF DelayBufferBounded
  <2>1. Longest \in Nat /\ Longest - 1 \in Int
    BY Times
  <2>2. /\ IsFiniteSet(0..(Longest - 1))
        /\ Cardinality(0..(Longest - 1)) = Longest
    BY <2>1, FS_Interval
  <2> QED BY <2>2, FramesYoung, FS_Subset
<1> QED BY InitAligned, StepAligned, <1>1, PTL DEF AlignSpec

(* Whenever the loop shows an annotated frame that the detector has        *)
(* analysed, and whose answer no broken connection has lost, the boxes     *)
(* drawn are that frame's own: the answer is there by the time the frame   *)
(* is due, it has not been pruned even if the loop is as late as an encode *)
(* makes it, and nothing nearer takes its place.                           *)
THEOREM OwnBoxesAlwaysShown == AlignSpec => OwnBoxesShown
<1>1. AlignInv /\ Tick /\ picture'.kind = "annotated" /\ picture'.age \in analysed
        => picture'.boxes = {picture'.age}
  <2> SUFFICES ASSUME AlignInv, Tick, picture'.kind = "annotated",
                      picture'.age \in analysed
               PROVE  picture'.boxes = {picture'.age}
    OBVIOUS
  <2> DEFINE m == Min(Popped)
  <2>1. /\ Popped # {}
        /\ picture' = [kind |-> "annotated", age |-> m, boxes |-> Nearest(m)]
    BY DEF Tick, NextPicture, NoPicture
  <2>2. m \in Due /\ m \in Nat
    <3>1. Popped = Due /\ Due \in SUBSET Nat
      <4>1. \A a \in delayQ : a \in Nat
        BY FramesYoung, Times
      <4> QED BY <4>1 DEF Popped, Due
    <3> QED BY <2>1, <3>1, LeastOfNats
  <2>3. m \in events
    <3>1. m \notin pending
      BY <2>2, Times DEF Due, AlignInv, AlignTypeOK
    <3> QED BY <2>1, <3>1 DEF AlignInv, BoxesKept
  <2>4. Nearest(m) = {m}
    <3>1. \A e \in events : e \in Nat
      BY Times DEF AlignInv, AlignTypeOK
    <3>2. \A e \in events : /\ Distance(e, m) \in Nat
                            /\ Distance(e, m) = 0 <=> e = m
      BY <2>2, <3>1 DEF Distance
    <3>3. \A e \in Nearest(m) : e = m
      BY <2>3, <3>2 DEF Nearest
    <3>4. m \in Nearest(m)
      BY <2>3, <3>1, <3>2, Times DEF Nearest
    <3> QED BY <3>3, <3>4
  <2> QED BY <2>1, <2>4
<1> QED BY InitAligned, StepAligned, <1>1, PTL DEF AlignSpec, OwnBoxesShown
=============================================================================
