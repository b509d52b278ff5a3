----------------------- MODULE RecordingSessionProofs -----------------------
(***************************************************************************)
(* Proofs about RecordingSession: no event is lost, copied or reordered on *)
(* its way from a report to an archive, for any number of recordings and   *)
(* of events.                                                              *)
(***************************************************************************)
EXTENDS RecordingSession, SequenceTheorems, TLAPS

USE NoneIsNoFile, MaxEventsIsNat

-----------------------------------------------------------------------------
(* What the helpers on sequences return.                                     *)

(* Appending an element adds exactly that element.                           *)
LEMMA RangeOfAppend ==
  ASSUME NEW S, NEW s \in Seq(S), NEW e \in S
  PROVE  Range(Append(s, e)) = Range(s) \union {e}
<1>1. DOMAIN Append(s, e) = (DOMAIN s) \union {Len(s) + 1}
  OBVIOUS
<1>2. /\ \A i \in DOMAIN s : Append(s, e)[i] = s[i]
      /\ Append(s, e)[Len(s) + 1] = e
  OBVIOUS
<1>3. QED
  BY <1>1, <1>2 DEF Range

(* The empty log holds no event.                                            *)
LEMMA RangeOfEmpty == Range(<<>>) = {}
  BY DEF Range

(* The empty log is in order.                                               *)
LEMMA EmptyIsChronological == Chronological(<<>>)
  BY DEF Chronological

(* Appending an element later than all the others keeps a log in order.      *)
LEMMA AppendLatest ==
  ASSUME NEW s \in Seq(Nat), NEW e \in Nat, Chronological(s),
         \A x \in Range(s) : x < e
  PROVE  Chronological(Append(s, e))
<1>1. DOMAIN Append(s, e) = 1..Len(s) + 1 /\ DOMAIN s = 1..Len(s)
  OBVIOUS
<1>2. /\ \A i \in 1..Len(s) : Append(s, e)[i] = s[i] /\ s[i] < e
      /\ Append(s, e)[Len(s) + 1] = e
  BY DEF Range
<1>3. SUFFICES ASSUME NEW i \in 1..Len(s) + 1, NEW j \in 1..Len(s) + 1, i < j
               PROVE  Append(s, e)[i] < Append(s, e)[j]
  BY <1>1 DEF Chronological
<1>4. CASE j = Len(s) + 1
  <2>1. i \in 1..Len(s)
    BY <1>3, <1>4
  <2>2. QED
    BY <1>2, <1>4, <2>1
<1>5. CASE j # Len(s) + 1
  <2>1. i \in 1..Len(s) /\ j \in 1..Len(s)
    BY <1>3, <1>5
  <2>2. s[i] < s[j]
    BY <1>1, <1>3, <2>1 DEF Chronological
  <2>3. QED
    BY <1>2, <2>1, <2>2
<1>6. QED
  BY <1>4, <1>5

-----------------------------------------------------------------------------
(* A recording that is open, or on its way to its archive, has no archive    *)
(* yet, and they are two recordings: otherwise archiving would overwrite     *)
(* events that are nowhere else.                                             *)
Unwritten ==
    /\ file # None => archive[file] = <<>> /\ file # closing.file
    /\ closing # NothingClosing =>
          closing.file \in Files /\ archive[closing.file] = <<>>

IInv == TypeOK /\ Unwritten /\ Conserved /\ InOrder

(* Every step keeps the types.                                              *)
LEMMA TypeStep == TypeOK /\ [Next]_sessionVars => TypeOK'
<1> SUFFICES ASSUME TypeOK, [Next]_sessionVars PROVE TypeOK'
  OBVIOUS
<1> USE DEF TypeOK
<1>1. CASE Report
  BY <1>1 DEF Report, Event
<1>2. CASE Open
  BY <1>2 DEF Open
<1>3. CASE Abandon
  <2>1. Range(log) \subseteq Event
    BY RangeOfSeq
  <2>2. QED
    BY <1>3, <2>1 DEF Abandon
<1>4. CASE Close
  BY <1>4 DEF Close
<1>5. CASE Archive
  <2>1. archive' \in [Files -> Seq(Event)]
    BY <1>5 DEF Archive
  <2>2. QED
    BY <1>5, <2>1 DEF Archive, NothingClosing
<1>6. CASE LoseArchive
  <2>1. Range(closing.events) \subseteq Event
    BY RangeOfSeq
  <2>2. QED
    BY <1>6, <2>1 DEF LoseArchive, NothingClosing
<1>7. CASE UNCHANGED sessionVars
  BY <1>7 DEF sessionVars
<1>8. QED
  BY <1>1, <1>2, <1>3, <1>4, <1>5, <1>6, <1>7 DEF Next

(* A recording that is open or closing stays unarchived until it is archived.*)
LEMMA UnwrittenStep == TypeOK /\ Unwritten /\ [Next]_sessionVars => Unwritten'
<1> SUFFICES ASSUME TypeOK, Unwritten, [Next]_sessionVars PROVE Unwritten'
  OBVIOUS
<1> USE DEF TypeOK, Unwritten, NothingClosing
<1>1. CASE Report
  BY <1>1 DEF Report
<1>2. CASE Open
  BY <1>2 DEF Open
<1>3. CASE Abandon
  BY <1>3 DEF Abandon
<1>4. CASE Close
  BY <1>4 DEF Close
<1>5. CASE Archive
  BY <1>5 DEF Archive
<1>6. CASE LoseArchive
  BY <1>6 DEF LoseArchive
<1>7. CASE UNCHANGED sessionVars
  BY <1>7 DEF sessionVars
<1>8. QED
  BY <1>1, <1>2, <1>3, <1>4, <1>5, <1>6, <1>7 DEF Next

(* No action but Archive changes what is archived, and Archive adds exactly  *)
(* the closed session's events.                                              *)
LEMMA ArchivedStep ==
  ASSUME TypeOK, Unwritten, [Next]_sessionVars
  PROVE  /\ Archive => Archived' = Archived \union Range(closing.events)
         /\ ~Archive => archive' = archive /\ Archived' = Archived
<1>1. ASSUME Archive
      PROVE  Archived' = Archived \union Range(closing.events)
  <2> DEFINE c == closing.file
  <2>1. c \in Files /\ Range(archive[c]) = {}
    BY <1>1, RangeOfEmpty DEF Archive, Unwritten
  <2>2. /\ archive'[c] = closing.events
        /\ \A f \in Files \ {c} : archive'[f] = archive[f]
    BY <1>1, <2>1 DEF Archive, TypeOK
  <2>3. Archived' = UNION {Range(archive'[f]) : f \in Files}
    BY DEF Archived
  <2>4. QED
    BY <2>1, <2>2, <2>3 DEF Archived
<1>2. ASSUME ~Archive PROVE archive' = archive
  BY <1>2 DEF Next, Report, Open, Abandon, Close, LoseArchive, sessionVars
<1>3. QED
  BY <1>1, <1>2 DEF Archived

(* Every step moves events from one place to another, all or none.          *)
LEMMA ConservedStep ==
  TypeOK /\ Unwritten /\ Conserved /\ [Next]_sessionVars => Conserved'
<1> SUFFICES ASSUME TypeOK, Unwritten, Conserved, [Next]_sessionVars
             PROVE  Conserved'
  OBVIOUS
<1> USE DEF Conserved
<1>0. Range(<<>>) = {}
  BY RangeOfEmpty
<1>1. CASE Report
  <2>1. Range(log') = Range(log) \union {reported + 1}
    <3>1. log \in Seq(Event) /\ reported + 1 \in Event
      BY <1>1 DEF Report, TypeOK, Event
    <3>2. Range(Append(log, reported + 1)) = Range(log) \union {reported + 1}
      BY <3>1, RangeOfAppend
    <3>3. QED
      BY <1>1, <3>2 DEF Report
  <2>2. 1..reported' = (1..reported) \union {reported + 1}
    BY <1>1 DEF Report, TypeOK
  <2>3. reported + 1 \notin 1..reported
    BY DEF TypeOK
  <2>4. archive' = archive /\ Archived' = Archived
    BY <1>1 DEF Report, Archived
  <2>5. QED
    BY <1>1, <2>1, <2>2, <2>3, <2>4 DEF Report
<1>2. CASE Open
  BY <1>2 DEF Open, Archived
<1>3. CASE Abandon
  <2>1. archive' = archive /\ Archived' = Archived
    BY <1>3 DEF Abandon, Archived
  <2>2. Range(log') = {}
    BY <1>0, <1>3 DEF Abandon
  <2>3. QED
    BY <1>3, <2>1, <2>2 DEF Abandon
<1>4. CASE Close
  <2>1. archive' = archive /\ Archived' = Archived
    BY <1>4 DEF Close, Archived
  <2>2. /\ Range(log') = {}
        /\ Range(closing.events) = {}
        /\ Range(closing'.events) = Range(log)
    BY <1>0, <1>4 DEF Close, NothingClosing
  <2>3. QED
    BY <1>4, <2>1, <2>2 DEF Close
<1>5. CASE Archive
  <2>1. Archived' = Archived \union Range(closing.events)
    BY <1>5, ArchivedStep
  <2>2. Range(closing'.events) = {}
    BY <1>0, <1>5 DEF Archive, NothingClosing
  <2>3. ASSUME NEW f \in Files, NEW g \in Files, f # g
        PROVE  Range(archive'[f]) \intersect Range(archive'[g]) = {}
    <3>1. \A h \in Files : Range(archive[h]) \subseteq Archived
      BY DEF Archived
    <3>2. \A h \in Files : archive'[h] = IF h = closing.file THEN closing.events
                                                            ELSE archive[h]
      BY <1>5 DEF Archive, TypeOK
    <3>3. QED
      BY <2>3, <3>1, <3>2
  <2>4. QED
    BY <1>5, <2>1, <2>2, <2>3 DEF Archive
<1>6. CASE LoseArchive
  <2>1. archive' = archive /\ Archived' = Archived
    BY <1>6 DEF LoseArchive, Archived
  <2>2. Range(closing'.events) = {}
    BY <1>0, <1>6 DEF LoseArchive, NothingClosing
  <2>3. QED
    BY <1>6, <2>1, <2>2 DEF LoseArchive
<1>7. CASE UNCHANGED sessionVars
  BY <1>7 DEF sessionVars, Archived
<1>8. QED
  BY <1>1, <1>2, <1>3, <1>4, <1>5, <1>6, <1>7 DEF Next

(* Every step keeps the logs in order, and memory later than the archive.   *)
LEMMA InOrderStep ==
  TypeOK /\ Unwritten /\ Conserved /\ InOrder /\ [Next]_sessionVars => InOrder'
<1> SUFFICES ASSUME TypeOK, Unwritten, Conserved, InOrder, [Next]_sessionVars
             PROVE  InOrder'
  OBVIOUS
<1> USE DEF InOrder
<1>0. Range(<<>>) = {} /\ Chronological(<<>>)
  BY RangeOfEmpty, EmptyIsChronological
<1>1. CASE Report
  <2>1. log \in Seq(Event) /\ log \in Seq(Nat) /\ reported + 1 \in Event
    BY <1>1, SeqMonotonic DEF Report, TypeOK, Event
  <2>2. \A e \in Range(log) \union Range(closing.events) \union Archived :
           e \in Nat /\ e < reported + 1
    BY DEF Conserved, TypeOK
  <2>3. Range(Append(log, reported + 1)) = Range(log) \union {reported + 1}
    BY <2>1, RangeOfAppend
  <2>4. Chronological(Append(log, reported + 1))
    <3>1. reported + 1 \in Nat /\ \A x \in Range(log) : x < reported + 1
      BY <2>1, <2>2 DEF Event
    <3>2. QED
      BY <2>1, <3>1, AppendLatest
  <2>5. closing' = closing /\ archive' = archive /\ Archived' = Archived
        /\ log' = Append(log, reported + 1)
    BY <1>1 DEF Report, Archived
  <2>6. QED
    BY <2>2, <2>3, <2>4, <2>5
<1>2. CASE Open
  BY <1>2 DEF Open, Archived
<1>3. CASE Abandon
  <2>1. archive' = archive /\ Archived' = Archived
    BY <1>3 DEF Abandon, Archived
  <2>2. QED
    BY <1>0, <1>3, <2>1 DEF Abandon
<1>4. CASE Close
  <2>1. archive' = archive /\ Archived' = Archived
    BY <1>4 DEF Close, Archived
  <2>2. log' = <<>> /\ closing'.events = log
    BY <1>4 DEF Close
  <2>3. QED
    BY <1>0, <2>1, <2>2
<1>5. CASE Archive
  <2>1. Archived' = Archived \union Range(closing.events)
    BY <1>5, ArchivedStep
  <2>2. log' = log /\ closing'.events = <<>>
    BY <1>5 DEF Archive, NothingClosing
  <2>3. \A f \in Files : Chronological(archive'[f])
    BY <1>5 DEF Archive, TypeOK
  <2>4. QED
    BY <1>0, <2>1, <2>2, <2>3
<1>6. CASE LoseArchive
  <2>1. archive' = archive /\ Archived' = Archived
    BY <1>6 DEF LoseArchive, Archived
  <2>2. log' = log /\ closing'.events = <<>>
    BY <1>6 DEF LoseArchive, NothingClosing
  <2>3. QED
    BY <1>0, <2>1, <2>2
<1>7. CASE UNCHANGED sessionVars
  BY <1>7 DEF sessionVars, Archived
<1>8. QED
  BY <1>1, <1>2, <1>3, <1>4, <1>5, <1>6, <1>7 DEF Next

(* The initial state holds no event.                                        *)
LEMMA InitIInv == Init => IInv
<1> SUFFICES ASSUME Init PROVE IInv
  OBVIOUS
<1> USE DEF Init, NothingClosing
<1>1. TypeOK
  BY DEF TypeOK
<1>2. Unwritten
  BY DEF Unwritten
<1>3. Range(<<>>) = {} /\ Chronological(<<>>)
  BY RangeOfEmpty, EmptyIsChronological
<1>4. \A f \in Files : archive[f] = <<>> /\ Range(archive[f]) = {}
  BY <1>3
<1>5. Archived = {}
  BY <1>4 DEF Archived
<1>6. Conserved
  BY <1>3, <1>4, <1>5 DEF Conserved
<1>7. InOrder
  BY <1>3, <1>4, <1>5 DEF InOrder
<1>8. QED
  BY <1>1, <1>2, <1>6, <1>7 DEF IInv

(* Whatever happens to sessions, no event is lost, copied or reordered.      *)
THEOREM SessionSafe == Spec => []IInv
<1>1. Init => IInv
  BY InitIInv
<1>2. IInv /\ [Next]_sessionVars => IInv'
  BY TypeStep, UnwrittenStep, ConservedStep, InOrderStep DEF IInv
<1>3. QED
  BY <1>1, <1>2, PTL DEF Spec
=============================================================================
