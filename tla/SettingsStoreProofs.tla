-------------------------- MODULE SettingsStoreProofs --------------------------
(***************************************************************************)
(* Proofs about SettingsStore, for any number of requests and settings:    *)
(* types, that a request that runs alone leaves the live flags, the record *)
(* and the file in agreement, and what a restart may not lose.             *)
(***************************************************************************)
EXTENDS SettingsStore, FiniteSetTheorems, TLAPS

(* A change of a record is a record.                                       *)
LEMMA ChangedIsRecord ==
  ASSUME NEW record \in Records, NEW change \in Changes
  PROVE  Changed(record, change) \in Records
<1>1. PICK S \in SUBSET Fields : change \in [S -> BOOLEAN]
  BY DEF Changes, Partial
<1>2. ASSUME NEW f \in Fields
      PROVE  (IF f \in DOMAIN change THEN change[f] ELSE record[f]) \in BOOLEAN
  BY <1>1, Zenon DEF Records
<1> QED BY <1>2, Zenon DEF Changed, Records

(* The defaults are a record.                                              *)
LEMMA DefaultsAreRecord == Defaults \in Records
<1>1. ASSUME NEW f \in Fields PROVE (f \in DefaultsTrue) \in BOOLEAN
  OBVIOUS
<1> QED BY <1>1, Zenon DEF Defaults, Records

(* The text of a record is at most as long as that of a record of "false". *)
LEMMA LengthBounded ==
  ASSUME NEW r
  PROVE  Length(r) \in 0..Cardinality(Fields)
<1>1. {f \in Fields : ~r[f]} \in SUBSET Fields
  OBVIOUS
<1>2. /\ IsFiniteSet({f \in Fields : ~r[f]})
      /\ Cardinality({f \in Fields : ~r[f]}) <= Cardinality(Fields)
  BY <1>1, FieldsAreFinite, FS_Subset
<1>3. /\ Cardinality({f \in Fields : ~r[f]}) \in Nat
      /\ Cardinality(Fields) \in Nat
  BY <1>2, FieldsAreFinite, FS_CardinalityType
<1> QED BY <1>2, <1>3 DEF Length

Files == [data : Records, length : 0..Cardinality(Fields)]

(* A file with text is neither missing nor empty.                          *)
LEMMA FilesHaveText ==
  ASSUME NEW f \in Files
  PROVE  f # NoFile /\ f # Empty
<1>1. DOMAIN f = {"data", "length"}
  BY DEF Files
<1>2. DOMAIN NoFile = {"state"} /\ DOMAIN Empty = {"state"}
  BY DEF NoFile, Empty
<1> QED BY <1>1, <1>2

(* load ends with a record, whatever the file holds.                       *)
LEMMA LoadedIsRecord ==
  ASSUME NEW f, f \in {NoFile, Empty} \/ f \in Files
  PROVE  Loaded(f) \in Records
<1>1. CASE f \in Files
  BY <1>1, DefaultsAreRecord DEF Loaded, Files
<1>2. CASE f \in {NoFile, Empty}
  BY <1>2, DefaultsAreRecord DEF Loaded
<1> QED BY <1>1, <1>2

(* A write leaves a file with text, and one that was truncated before it   *)
(* is loaded back as what was written.                                     *)
LEMMA OverIsFile ==
  ASSUME NEW old, old \in {NoFile, Empty} \/ old \in Files, NEW r \in Records
  PROVE  /\ Over(old, r) \in Files
         /\ old = Empty => Loaded(Over(old, r)) = r
<1>1. Length(r) \in 0..Cardinality(Fields)
  BY LengthBounded
<1>2. Over(old, r) \in Files
  BY <1>1 DEF Over, Files
<1>3. ASSUME old = Empty PROVE Loaded(Over(old, r)) = r
  <2>1. Over(old, r) = [data |-> r, length |-> Length(r)]
    BY <1>3 DEF Over
  <2>2. Over(old, r) # NoFile /\ Over(old, r) # Empty
    BY <1>2, FilesHaveText
  <2> QED BY <2>1, <2>2 DEF Loaded
<1> QED BY <1>2, <1>3

-----------------------------------------------------------------------------
(* Types *)

(* A request that has something to set has a change left, and the flags    *)
(* and fields it still has to handle are of that change or of its save.    *)
SetHasWork == \A q \in Requests : spc[q] = "set" => todo[q] # <<>>
LeftOfChange == \A q \in Requests :
    /\ spc[q] = "set" => left[q] \subseteq DOMAIN Head(todo[q])
    /\ spc[q] \in {"idle", "write"} => left[q] = {}
    /\ spc[q] = "idle" => todo[q] = <<>>
StoreTyped == StoreTypeOK /\ SetHasWork /\ LeftOfChange

(* A change to some of the settings is one to settings of the record.      *)
LEMMA PartialIsChange ==
  ASSUME NEW G \in SUBSET Fields, NEW change \in Partial(G)
  PROVE  change \in Changes /\ DOMAIN change \in SUBSET G
<1>1. PICK S \in SUBSET G : change \in [S -> BOOLEAN]
  BY DEF Partial
<1>2. S \in SUBSET Fields /\ DOMAIN change = S
  BY <1>1
<1> QED BY <1>1, <1>2, Zenon DEF Changes, Partial

(* A change is a function from some of the settings.                       *)
LEMMA ChangeIsFunction ==
  ASSUME NEW change \in Changes
  PROVE  /\ DOMAIN change \in SUBSET Fields
         /\ \A f \in DOMAIN change : change[f] \in BOOLEAN
<1>1. PICK S \in SUBSET Fields : change \in [S -> BOOLEAN]
  BY DEF Changes, Partial
<1> QED BY <1>1

(* The settings that one or two changes name are settings of the record.   *)
LEMMA NamedAreFields ==
  ASSUME NEW changes \in Seq(Changes)
  PROVE  Named(changes) \in SUBSET Fields
<1>1. ASSUME NEW i \in DOMAIN changes PROVE DOMAIN changes[i] \in SUBSET Fields
  <2>1. changes[i] \in Changes
    OBVIOUS
  <2> QED BY <2>1, ChangeIsFunction
<1> QED BY <1>1 DEF Named

(* What a handler hands to Begin: the changes and the flags to store.      *)
Handed(changes, flags) ==
    /\ changes \in Seq(Changes) /\ changes # <<>> /\ Len(changes) <= 2
    /\ flags \subseteq DOMAIN Head(changes)
    /\ kind = "ui" => /\ Len(changes) = 1
                      /\ DOMAIN Head(changes) \ flags \subseteq Apart

(* All four handlers begin a request of that form.                         *)
LEMMA HandlersBegin ==
  ASSUME NEW q \in Requests,
         HandleUI(q) \/ HandleCamera(q) \/ HandleLux(q) \/ HandleIR(q)
  PROVE  \E changes, flags : Begin(q, changes, flags) /\ Handed(changes, flags)
<1>1. CASE HandleUI(q)
  <2>1. PICK change \in Partial(Fields \ Apart) :
           Begin(q, <<change>>, DOMAIN change)
    BY <1>1 DEF HandleUI
  <2>2. change \in Changes
    BY PartialIsChange
  <2>3. Handed(<<change>>, DOMAIN change)
    BY <2>2 DEF Handed
  <2> QED BY <2>1, <2>3
<1>2. CASE HandleCamera(q)
  <2>0. PICK f \in Apart : \E change \in [{f} -> BOOLEAN] : Begin(q, <<change>>, {})
    BY <1>2 DEF HandleCamera
  <2>1. PICK change \in [{f} -> BOOLEAN] : Begin(q, <<change>>, {})
    BY <2>0
  <2>2. change \in Changes /\ DOMAIN change \subseteq Apart
    <3>1. {f} \in SUBSET Fields
      BY ApartOfFields
    <3>2. change \in Changes
      BY <3>1, Zenon DEF Changes, Partial
    <3> QED BY <3>2
  <2>3. Handed(<<change>>, {})
    BY <2>2 DEF Handed
  <2> QED BY <2>1, <2>3
<1>3. CASE HandleLux(q)
  <2>1. PICK change \in Changes : Begin(q, <<change>>, {})
    BY <1>3 DEF HandleLux
  <2>2. Handed(<<change>>, {})
    BY <1>3 DEF Handed, HandleLux
  <2> QED BY <2>1, <2>2
<1>4. CASE HandleIR(q)
  <2>1. PICK set \in Partial(Fields \ Apart), sunrise \in Partial(Apart) :
           Begin(q, <<set, sunrise>>, {})
    BY <1>4 DEF HandleIR
  <2>2. set \in Changes /\ sunrise \in Changes
    BY ApartOfFields, PartialIsChange
  <2>3. Handed(<<set, sunrise>>, {})
    BY <1>4, <2>2 DEF Handed, HandleIR
  <2> QED BY <2>1, <2>3
<1> QED BY <1>1, <1>2, <1>3, <1>4

(* A handler hands one or two changes to its request.                      *)
LEMMA BeginTyped ==
  ASSUME StoreTyped, NEW q \in Requests, NEW changes, NEW flags,
         Begin(q, changes, flags), Handed(changes, flags)
  PROVE  StoreTyped'
<1>0. /\ changes \in Seq(Changes) /\ changes # <<>> /\ Len(changes) <= 2
      /\ flags \subseteq DOMAIN Head(changes) /\ flags \in SUBSET Fields
  <2>1. Head(changes) \in Changes
    BY DEF Handed
  <2> QED BY <2>1, ChangeIsFunction DEF Handed
<1>1. \A r \in Requests : /\ spc'[r] = IF r = q THEN "set" ELSE spc[r]
                          /\ todo'[r] = IF r = q THEN changes ELSE todo[r]
                          /\ left'[r] = IF r = q THEN flags ELSE left[r]
  BY DEF StoreTyped, StoreTypeOK, Begin
<1>2. /\ spc' \in [Requests -> {"idle", "set", "read", "write"}]
      /\ todo' \in [Requests -> Seq(Changes)] /\ left' \in [Requests -> SUBSET Fields]
      /\ \A r \in Requests : Len(todo'[r]) <= 2
  <2>1. todo' \in [Requests -> Seq(Changes)]
    BY <1>0 DEF StoreTyped, StoreTypeOK, Begin
  <2>2. spc' \in [Requests -> {"idle", "set", "read", "write"}]
    BY DEF StoreTyped, StoreTypeOK, Begin
  <2>3. left' \in [Requests -> SUBSET Fields]
    BY <1>0 DEF StoreTyped, StoreTypeOK, Begin
  <2>4. \A r \in Requests : Len(todo'[r]) <= 2
    BY <1>0, <1>1 DEF StoreTyped, StoreTypeOK
  <2> QED BY <2>1, <2>2, <2>3, <2>4
<1>3. Quiet \in BOOLEAN
  BY Zenon DEF Quiet
<1>4. alone' \in BOOLEAN /\ own' \in SUBSET Fields /\ settled' \in SUBSET Fields
  BY <1>0, <1>3, NamedAreFields DEF StoreTyped, StoreTypeOK, Begin
<1>5. SetHasWork' /\ LeftOfChange'
  BY <1>0, <1>1 DEF StoreTyped, SetHasWork, LeftOfChange
<1> QED BY <1>2, <1>4, <1>5 DEF StoreTyped, StoreTypeOK, Begin

(* The end of a save, whether it succeeded or not.                         *)
LEMMA SaveEndsTyped ==
  ASSUME StoreTyped, NEW q \in Requests, SaveEnds(q), left[q] = {},
         alone' \in BOOLEAN, own' \in SUBSET Fields, settled' \in SUBSET Fields,
         failed' \in BOOLEAN, file' \in {NoFile, Empty} \/ file' \in Files
  PROVE  StoreTyped'
<1>1. spc' \in [Requests -> {"idle", "set", "read", "write"}]
  BY DEF StoreTyped, StoreTypeOK, SaveEnds
<1>2. text' \in [Requests -> Records]
  BY DefaultsAreRecord DEF StoreTyped, StoreTypeOK, SaveEnds
<1>3. SetHasWork' /\ LeftOfChange'
  BY DEF StoreTyped, StoreTypeOK, SetHasWork, LeftOfChange, SaveEnds
<1> QED BY <1>1, <1>2, <1>3 DEF StoreTyped, StoreTypeOK, SaveEnds, Files

(* A field stored or read keeps flags and text records.                    *)
LEMMA FieldsTyped ==
  ASSUME StoreTyped, NEW q \in Requests, StoreFlag(q) \/ ReadField(q)
  PROVE  StoreTyped'
<1>1. CASE StoreFlag(q)
  <2>1. PICK f \in left[q] : /\ live' = FlagStored(Head(todo[q]), f)
                             /\ left' = [left EXCEPT ![q] = @ \ {f}]
    BY <1>1 DEF StoreFlag
  <2>2. Head(todo[q])[f] \in BOOLEAN
    <3>1. Head(todo[q]) \in Changes /\ f \in DOMAIN Head(todo[q])
      BY <1>1 DEF StoreFlag, StoreTyped, StoreTypeOK, SetHasWork, LeftOfChange
    <3> QED BY <3>1, ChangeIsFunction
  <2>3. live' \in Records
    BY <2>1, <2>2 DEF FlagStored, Records, StoreTyped, StoreTypeOK
  <2>4. /\ left' \in [Requests -> SUBSET Fields]
        /\ \A r \in Requests : left'[r] \subseteq left[r]
    BY <2>1 DEF StoreTyped, StoreTypeOK
  <2>5. SetHasWork' /\ LeftOfChange'
    BY <1>1, <2>4 DEF StoreFlag, StoreTyped, SetHasWork, LeftOfChange
  <2> QED BY <1>1, <2>3, <2>4, <2>5 DEF StoreFlag, StoreTyped, StoreTypeOK
<1>2. CASE ReadField(q)
  <2>1. PICK f \in left[q] : /\ text' = [text EXCEPT ![q][f] = mem[f]]
                             /\ left' = [left EXCEPT ![q] = @ \ {f}]
    BY <1>2 DEF ReadField
  <2>2. [text[q] EXCEPT ![f] = mem[f]] \in Records
    <3>1. text[q] \in Records /\ mem \in Records /\ f \in Fields
      BY DEF StoreTyped, StoreTypeOK
    <3>2. mem[f] \in BOOLEAN
      BY <3>1 DEF Records
    <3> QED BY <3>1, <3>2 DEF Records
  <2>3. text' \in [Requests -> Records]
    BY <2>1, <2>2 DEF StoreTyped, StoreTypeOK
  <2>4. /\ left' \in [Requests -> SUBSET Fields]
        /\ \A r \in Requests : left'[r] \subseteq left[r]
    BY <2>1 DEF StoreTyped, StoreTypeOK
  <2>5. SetHasWork' /\ LeftOfChange'
    BY <1>2, <2>4 DEF ReadField, StoreTyped, SetHasWork, LeftOfChange
  <2> QED BY <1>2, <2>3, <2>4, <2>5 DEF ReadField, StoreTyped, StoreTypeOK
<1> QED BY <1>1, <1>2

(* The other steps of Set and save.                                        *)
LEMMA SavesTyped ==
  ASSUME StoreTyped, NEW q \in Requests,
         Set(q) \/ Truncate(q) \/ Write(q) \/ WriteFails(q)
  PROVE  StoreTyped'
<1>t. /\ text[q] \in Records /\ todo[q] \in Seq(Changes)
      /\ file \in {NoFile, Empty} \/ file \in Files
      /\ own \in SUBSET Fields /\ settled \in SUBSET Fields
      /\ alone \in BOOLEAN /\ failed \in BOOLEAN
  BY DEF StoreTyped, StoreTypeOK, Files
<1>1. CASE Set(q)
  <2>1. todo[q] # <<>>
    BY <1>1 DEF StoreTyped, SetHasWork, Set
  <2>2. Head(todo[q]) \in Changes /\ Tail(todo[q]) \in Seq(Changes)
        /\ Len(Tail(todo[q])) <= 2
    BY <1>t, <2>1 DEF StoreTyped, StoreTypeOK
  <2>3. mem' \in Records
    BY <1>1, <2>2, ChangedIsRecord DEF Set, StoreTyped, StoreTypeOK
  <2>4. todo' \in [Requests -> Seq(Changes)] /\ \A r \in Requests : Len(todo'[r]) <= 2
    BY <1>1, <2>2 DEF Set, StoreTyped, StoreTypeOK
  <2>5. /\ spc' \in [Requests -> {"idle", "set", "read", "write"}]
        /\ left' \in [Requests -> SUBSET Fields]
    BY <1>1 DEF Set, StoreTyped, StoreTypeOK
  <2>6. SetHasWork' /\ LeftOfChange'
    BY <1>1 DEF Set, StoreTyped, StoreTypeOK, SetHasWork, LeftOfChange
  <2> QED BY <1>1, <2>3, <2>4, <2>5, <2>6 DEF Set, StoreTyped, StoreTypeOK
<1>2. CASE Truncate(q)
  <2>1. spc' \in [Requests -> {"idle", "set", "read", "write"}]
    BY <1>2 DEF Truncate, StoreTyped, StoreTypeOK
  <2>2. SetHasWork' /\ LeftOfChange'
    BY <1>2 DEF Truncate, StoreTyped, StoreTypeOK, SetHasWork, LeftOfChange
  <2> QED BY <1>2, <2>1, <2>2 DEF Truncate, StoreTyped, StoreTypeOK
<1>3. CASE Write(q)
  <2>1. file' \in Files /\ left[q] = {}
    BY <1>t, <1>3, OverIsFile DEF Write, StoreTyped, LeftOfChange
  <2> QED BY <1>t, <1>3, <2>1, SaveEndsTyped DEF Write
<1>4. CASE WriteFails(q)
  <2>1. left[q] = {}
    BY <1>4 DEF WriteFails, StoreTyped, LeftOfChange
  <2> QED BY <1>t, <1>4, <2>1, SaveEndsTyped DEF WriteFails
<1> QED BY <1>1, <1>2, <1>3, <1>4

(* The start of the process, whatever the file holds.                      *)
LEMMA RestartTyped ==
  ASSUME StoreTyped, Restart
  PROVE  StoreTyped'
<1>1. Loaded(file) \in Records
  BY LoadedIsRecord DEF StoreTyped, StoreTypeOK, Files
<1>2. /\ spc' \in [Requests -> {"idle", "set", "read", "write"}]
      /\ todo' \in [Requests -> Seq(Changes)]
      /\ \A q \in Requests : Len(todo'[q]) <= 2
      /\ left' \in [Requests -> SUBSET Fields] /\ text' \in [Requests -> Records]
  BY DefaultsAreRecord DEF Restart
<1>3. SetHasWork' /\ LeftOfChange'
  BY DEF SetHasWork, LeftOfChange, Restart
<1> QED BY <1>1, <1>2, <1>3 DEF Restart, StoreTyped, StoreTypeOK

(* The first start.                                                        *)
LEMMA InitStoreTyped == StoreInit => StoreTyped
<1> SUFFICES ASSUME StoreInit PROVE StoreTyped
  OBVIOUS
<1>1. /\ spc \in [Requests -> {"idle", "set", "read", "write"}]
      /\ todo \in [Requests -> Seq(Changes)]
      /\ \A q \in Requests : Len(todo[q]) <= 2
      /\ left \in [Requests -> SUBSET Fields] /\ text \in [Requests -> Records]
  BY DefaultsAreRecord DEF StoreInit
<1>2. SetHasWork /\ LeftOfChange
  BY DEF SetHasWork, LeftOfChange, StoreInit
<1> QED BY <1>1, <1>2, DefaultsAreRecord DEF StoreInit, StoreTyped, StoreTypeOK

(* Every step keeps the types.                                             *)
LEMMA StepStoreTyped ==
  ASSUME StoreTyped, [StoreNext]_storeVars
  PROVE  StoreTyped'
<1>1. CASE UNCHANGED storeVars
  BY <1>1 DEF storeVars, StoreTyped, StoreTypeOK, SetHasWork, LeftOfChange
<1>2. CASE StoreNext
  <2>1. CASE Restart
    BY <2>1, RestartTyped
  <2>2. ASSUME NEW q \in Requests,
               HandleUI(q) \/ HandleCamera(q) \/ HandleLux(q) \/ HandleIR(q)
        PROVE  StoreTyped'
    BY <2>2, HandlersBegin, BeginTyped
  <2>3. ASSUME NEW q \in Requests, StoreFlag(q) \/ ReadField(q) PROVE StoreTyped'
    BY <2>3, FieldsTyped
  <2>4. ASSUME NEW q \in Requests,
               Set(q) \/ Truncate(q) \/ Write(q) \/ WriteFails(q)
        PROVE  StoreTyped'
    BY <2>4, SavesTyped
  <2> QED BY <1>2, <2>1, <2>2, <2>3, <2>4 DEF StoreNext
<1> QED BY <1>1, <1>2

(* Every variable keeps its type: what load reads is a record, however     *)
(* requests and kills have left the file.                                  *)
THEOREM StoreTypeCorrect == StoreSpec => []StoreTypeOK
<1>1. StoreTyped => StoreTypeOK
  BY DEF StoreTyped
<1> QED BY InitStoreTyped, StepStoreTyped, <1>1, PTL DEF StoreSpec

-----------------------------------------------------------------------------
(* What may be settled, and what a request that runs alone has done so far *)
Busy(q) == spc[q] # "idle"
OneAtATime == \A q, r \in Requests : Busy(q) /\ Busy(r) => q = r
\* What save has read of the record is what the record holds, over F.
ReadAgrees(q, F) ==
    /\ spc[q] = "read" => \A f \in F \ left[q] : text[q][f] = mem[f]
    /\ spc[q] = "write" => \A f \in F : text[q][f] = mem[f]
\* The flags a request of its own has stored are those of its change.
FlagsOnTheWay(q) ==
    /\ spc[q] = "set" =>
         /\ own = DOMAIN Head(todo[q]) /\ Tail(todo[q]) = <<>>
         /\ \A f \in (own \ left[q]) \ Apart : live[f] = Head(todo[q])[f]
    /\ spc[q] \in {"read", "write"} =>
         todo[q] = <<>> /\ \A f \in own \ Apart : live[f] = mem[f]
AloneOrderly ==
    /\ OneAtATime /\ (Quiet => mem = Loaded(file))
    /\ \A q \in Requests : /\ ReadAgrees(q, Fields)
                           /\ spc[q] = "write" => file = Empty
                           /\ kind = "ui" => FlagsOnTheWay(q)
\* No request under way has a change left to a field that is settled.
Undisturbed ==
    \A q \in Requests : \A i \in DOMAIN todo[q] : DOMAIN todo[q][i] \cap settled = {}
SettledHold ==
    /\ \A f \in settled : InForce(f) = mem[f]
    /\ Intact(file) => \A f \in settled : Loaded(file)[f] = mem[f]
    /\ \A q \in Requests : ReadAgrees(q, settled)
StoreInv ==
    /\ StoreTyped /\ (alone => AloneOrderly) /\ (~alone => own = {})
    /\ Undisturbed /\ SettledHold

Steps(q) == \/ StoreFlag(q) \/ Set(q) \/ ReadField(q)
            \/ Truncate(q) \/ Write(q) \/ WriteFails(q)

(* A step of a request leaves the place of the others alone, and its own   *)
(* changes, but the first once that is set.                                *)
LEMMA OthersStay ==
  ASSUME StoreTyped, NEW q \in Requests, Steps(q)
  PROVE  /\ \A r \in Requests \ {q} : /\ spc'[r] = spc[r] /\ todo'[r] = todo[r]
                                      /\ left'[r] = left[r] /\ text'[r] = text[r]
         /\ todo'[q] = IF Set(q) THEN Tail(todo[q]) ELSE todo[q]
BY DEF Steps, StoreFlag, Set, ReadField, Truncate, Write, WriteFails, SaveEnds,
       StoreTyped, StoreTypeOK

(* What a request settles when it ends.                                    *)
LEMMA SettledGrows ==
  ASSUME StoreTyped, NEW q \in Requests, Steps(q)
  PROVE  \/ settled' = settled
         \/ Write(q) /\ todo[q] = <<>> /\ settled' = settled \union own
BY DEF Steps, StoreFlag, Set, ReadField, Truncate, Write, WriteFails

(* No change that is left is to a field just settled, as a request settles *)
(* fields only if no other is under way.                                   *)
LEMMA StepUndisturbed ==
  ASSUME StoreInv, NEW q \in Requests, Steps(q)
  PROVE  Undisturbed'
<1> SUFFICES ASSUME NEW r \in Requests, NEW i \in DOMAIN todo'[r]
             PROVE  DOMAIN todo'[r][i] \cap settled' = {}
  BY DEF Undisturbed
<1>1. PICK j \in DOMAIN todo[r] : todo'[r][i] = todo[r][j]
  <2>1. CASE r = q /\ Set(q)
    <3>1. todo[q] \in Seq(Changes) /\ todo[q] # <<>> /\ todo'[q] = Tail(todo[q])
      BY <2>1, OthersStay DEF StoreInv, StoreTyped, StoreTypeOK, SetHasWork, Set
    <3>2. i + 1 \in DOMAIN todo[q] /\ Tail(todo[q])[i] = todo[q][i + 1]
      BY <2>1, <3>1
    <3> QED BY <2>1, <3>1, <3>2
  <2>2. CASE ~(r = q /\ Set(q))
    BY <2>2, OthersStay DEF StoreInv
  <2> QED BY <2>1, <2>2
<1>2. CASE settled' = settled
  BY <1>1, <1>2 DEF StoreInv, Undisturbed
<1>3. CASE Write(q) /\ todo[q] = <<>> /\ settled' = settled \union own
  <2>1. r # q
    BY <1>1, <1>3
  <2>2. spc[q] = "write" /\ todo[r] # <<>>
    BY <1>1, <1>3 DEF Write
  <2>3. Busy(q) /\ Busy(r)
    BY <2>2 DEF StoreInv, StoreTyped, LeftOfChange, Busy
  <2>4. ~alone
    BY <2>1, <2>3 DEF StoreInv, AloneOrderly, OneAtATime
  <2> QED BY <1>1, <1>3, <2>4 DEF StoreInv, Undisturbed
<1> QED BY <1>2, <1>3, SettledGrows DEF StoreInv

(* A field that is settled keeps its value in the record and its flag.     *)
LEMMA SettledStays ==
  ASSUME StoreInv, NEW q \in Requests, Steps(q), NEW f \in settled
  PROVE  mem'[f] = mem[f] /\ InForce(f)' = InForce(f)
<1>0. f \in Fields
  BY DEF StoreInv, StoreTyped, StoreTypeOK
<1>1. CASE Set(q)
  <2>1. todo[q] \in Seq(Changes) /\ todo[q] # <<>>
    BY <1>1 DEF StoreInv, StoreTyped, StoreTypeOK, SetHasWork, Set
  <2>2. f \notin DOMAIN Head(todo[q])
    BY <2>1 DEF StoreInv, Undisturbed
  <2> QED BY <1>0, <1>1, <2>2 DEF Set, Changed, InForce
<1>2. CASE StoreFlag(q)
  <2>1. todo[q] \in Seq(Changes) /\ todo[q] # <<>>
        /\ left[q] \subseteq DOMAIN Head(todo[q])
    BY <1>2 DEF StoreInv, StoreTyped, StoreTypeOK, SetHasWork, LeftOfChange, StoreFlag
  <2>2. f \notin left[q]
    BY <2>1 DEF StoreInv, Undisturbed
  <2>3. PICK g \in left[q] : live' = FlagStored(Head(todo[q]), g)
    BY <1>2 DEF StoreFlag
  <2>4. live'[f] = live[f]
    BY <1>0, <2>2, <2>3 DEF FlagStored, StoreInv, StoreTyped, StoreTypeOK, Records
  <2> QED BY <1>2, <2>4 DEF StoreFlag, InForce
<1>3. CASE ReadField(q) \/ Truncate(q) \/ Write(q) \/ WriteFails(q)
  BY <1>3 DEF ReadField, Truncate, Write, WriteFails, SaveEnds, InForce
<1> QED BY <1>1, <1>2, <1>3 DEF Steps

(* What save has read of a set of fields stays what the record holds, if   *)
(* the record keeps those.                                                 *)
LEMMA ReadStays ==
  ASSUME StoreTyped, NEW q \in Requests, Steps(q), NEW F \in SUBSET Fields,
         \A f \in F : mem'[f] = mem[f],
         NEW r \in Requests, ReadAgrees(r, F)
  PROVE  ReadAgrees(r, F)'
<1>0. CASE r # q
  BY <1>0, OthersStay DEF ReadAgrees
<1>1. CASE r = q /\ ReadField(q)
  <2>1. PICK f \in left[q] : /\ text' = [text EXCEPT ![q][f] = mem[f]]
                             /\ left' = [left EXCEPT ![q] = @ \ {f}]
    BY <1>1 DEF ReadField
  <2>2. /\ left'[q] = left[q] \ {f} /\ spc' = spc /\ spc[q] = "read"
        /\ \A g \in Fields : text'[q][g] = IF g = f THEN mem[f] ELSE text[q][g]
    BY <1>1, <2>1 DEF ReadField, StoreTyped, StoreTypeOK, Records
  <2> QED BY <1>1, <2>2 DEF ReadAgrees
<1>2. CASE r = q /\ Truncate(q)
  BY <1>2 DEF Truncate, ReadAgrees, StoreTyped, StoreTypeOK
<1>3. CASE r = q /\ Set(q)
  BY <1>3 DEF Set, ReadAgrees, StoreTyped, StoreTypeOK
<1>4. CASE r = q /\ (StoreFlag(q) \/ Write(q) \/ WriteFails(q))
  BY <1>4 DEF StoreFlag, Write, WriteFails, SaveEnds, ReadAgrees, StoreTyped, StoreTypeOK
<1> QED BY <1>0, <1>1, <1>2, <1>3, <1>4 DEF Steps

(* Which file a step leaves.                                               *)
LEMMA FileSteps ==
  ASSUME StoreTyped, NEW q \in Requests, Steps(q)
  PROVE  \/ file' = file
         \/ Truncate(q) /\ file' = Empty
         \/ Write(q) /\ file' = Over(file, text[q])
BY DEF Steps, StoreFlag, Set, ReadField, Truncate, Write, WriteFails

(* A file that holds its text, whole, is loaded back as that text.         *)
LEMMA WholeFileLoaded ==
  ASSUME NEW old, old \in {NoFile, Empty} \/ old \in Files, NEW r \in Records
  PROVE  Intact(Over(old, r)) => Loaded(Over(old, r)) = r
<1>1. Over(old, r) \in Files
  BY OverIsFile
<1>2. Over(old, r) # NoFile /\ Over(old, r) # Empty
  BY <1>1, FilesHaveText
<1>3. Over(old, r).data = r
  BY DEF Over
<1> QED BY <1>2, <1>3 DEF Intact, Loaded

(* A request that ends alone settles its own fields: it has written the    *)
(* record, and its flags are those of the record.                          *)
LEMMA OwnAgree ==
  ASSUME StoreInv, NEW q \in Requests, Write(q), todo[q] = <<>>, own # {}
  PROVE  /\ alone /\ file = Empty /\ text[q] = mem
         /\ \A f \in own : InForce(f) = mem[f]
         /\ \A r \in Requests \ {q} : spc[r] = "idle"
<1>1. alone /\ AloneOrderly /\ spc[q] = "write"
  BY DEF StoreInv, Write
<1>2. \A r \in Requests \ {q} : spc[r] = "idle"
  BY <1>1 DEF AloneOrderly, OneAtATime, Busy
<1>3. text[q] = mem
  <2>1. text[q] \in Records /\ mem \in Records
    BY DEF StoreInv, StoreTyped, StoreTypeOK
  <2>2. \A f \in Fields : text[q][f] = mem[f]
    BY <1>1 DEF AloneOrderly, ReadAgrees
  <2> QED BY <2>1, <2>2 DEF Records
<1>4. \A f \in own : InForce(f) = mem[f]
  BY <1>1 DEF AloneOrderly, FlagsOnTheWay, InForce
<1> QED BY <1>1, <1>2, <1>3, <1>4 DEF AloneOrderly

(* Settled fields keep their value in all places.                          *)
LEMMA StepSettledHold ==
  ASSUME StoreInv, NEW q \in Requests, Steps(q)
  PROVE  SettledHold'
<1>t. /\ settled \in SUBSET Fields /\ own \in SUBSET Fields
      /\ text[q] \in Records
      /\ file \in {NoFile, Empty} \/ file \in Files
      /\ StoreTyped /\ SettledHold
  BY DEF StoreInv, StoreTyped, StoreTypeOK, Files
<1>w. Intact(Over(file, text[q])) => Loaded(Over(file, text[q])) = text[q]
  BY <1>t, WholeFileLoaded
<1>1. \A f \in settled : mem'[f] = mem[f] /\ InForce(f)' = InForce(f)
  BY SettledStays
<1>2. \A f \in settled : InForce(f)' = mem'[f]
  BY <1>1, <1>t DEF SettledHold
<1>3. \A r \in Requests : ReadAgrees(r, settled)'
  <2>1. \A r \in Requests : ReadAgrees(r, settled)
    BY <1>t DEF SettledHold
  <2>2. ASSUME NEW r \in Requests, NEW f \in settled
        PROVE  /\ spc'[r] = "read" /\ f \notin left'[r] => text'[r][f] = mem'[f]
               /\ spc'[r] = "write" => text'[r][f] = mem'[f]
    <3>1. {f} \in SUBSET Fields /\ ReadAgrees(r, {f})
      BY <2>1, <1>t DEF ReadAgrees
    <3>2. ReadAgrees(r, {f})'
      BY <1>1, <1>t, <3>1, ReadStays
    <3> QED BY <3>2 DEF ReadAgrees
  <2>h. \A r \in Requests : \A f \in settled :
               /\ spc'[r] = "read" /\ f \notin left'[r] => text'[r][f] = mem'[f]
               /\ spc'[r] = "write" => text'[r][f] = mem'[f]
    BY <2>2
  <2>3. CASE settled' = settled
    BY <2>h, <2>3 DEF ReadAgrees
  <2>4. CASE Write(q) /\ todo[q] = <<>> /\ settled' = settled \union own
    <3>1. CASE own = {}
      BY <2>h, <2>4, <3>1 DEF ReadAgrees
    <3>2. CASE own # {}
      <4>1. \A r \in Requests : spc'[r] = "idle"
        BY <1>t, <2>4, <3>2, OwnAgree DEF Write, SaveEnds, StoreTyped, StoreTypeOK
      <4> QED BY <4>1 DEF ReadAgrees
    <3> QED BY <3>1, <3>2
  <2> QED BY <1>t, <2>3, <2>4, SettledGrows
<1>4. ASSUME Intact(file'), NEW f \in settled
      PROVE  Loaded(file')[f] = mem'[f]
  <2>1. CASE file' = file
    BY <1>1, <1>4, <1>t, <2>1 DEF SettledHold
  <2>2. CASE file' = Empty
    BY <1>4, <2>2 DEF Intact
  <2>3. CASE Write(q) /\ file' = Over(file, text[q])
    <3>1. Loaded(file') = text[q]
      BY <1>4, <1>w, <2>3
    <3>2. text[q][f] = mem[f]
      BY <1>t, <2>3 DEF SettledHold, ReadAgrees, Write
    <3> QED BY <1>1, <3>1, <3>2
  <2> QED BY <1>t, <2>1, <2>2, <2>3, FileSteps
<1>5. CASE settled' = settled
  BY <1>2, <1>3, <1>4, <1>5 DEF SettledHold
<1>6. CASE Write(q) /\ todo[q] = <<>> /\ settled' = settled \union own
  <2>1. ASSUME NEW f \in own, f \notin settled
        PROVE  InForce(f)' = mem'[f] /\ (Intact(file') => Loaded(file')[f] = mem'[f])
    <3>1. /\ text[q] = mem /\ InForce(f) = mem[f]
          /\ UNCHANGED <<kind, live, mem>> /\ file' = Over(file, text[q])
      BY <1>6, <2>1, OwnAgree DEF Write, SaveEnds
    <3>2. Intact(file') => Loaded(file') = text[q]
      BY <1>w, <3>1
    <3> QED BY <3>1, <3>2 DEF InForce
  <2> QED BY <1>2, <1>3, <1>4, <1>6, <2>1 DEF SettledHold
<1> QED BY <1>t, <1>5, <1>6, SettledGrows

(* A request that runs alone stays on its way.                             *)
LEMMA StepAlone ==
  ASSUME StoreInv, NEW q \in Requests, Steps(q), alone'
  PROVE  AloneOrderly'
<1>t. /\ StoreTyped /\ AloneOrderly /\ alone /\ kind' = kind
      /\ text[q] \in Records /\ mem \in Records /\ todo[q] \in Seq(Changes)
      /\ file \in {NoFile, Empty} \/ file \in Files
  BY DEF StoreInv, StoreTyped, StoreTypeOK, Files, Steps, StoreFlag, Set, ReadField,
         Truncate, Write, WriteFails, SaveEnds
<1>0. /\ Busy(q) /\ ~WriteFails(q)
      /\ \A r \in Requests \ {q} : spc[r] = "idle" /\ spc'[r] = "idle"
  <2>1. Busy(q) /\ ~WriteFails(q)
    BY DEF Steps, StoreFlag, Set, ReadField, Truncate, Write, WriteFails, Busy
  <2>2. \A r \in Requests \ {q} : spc[r] = "idle"
    BY <2>1, <1>t DEF AloneOrderly, OneAtATime, Busy
  <2> QED BY <2>1, <2>2, <1>t, OthersStay
<1>1. OneAtATime'
  BY <1>0 DEF OneAtATime, Busy
<1>2. ReadAgrees(q, Fields)'
  <2>1. CASE Set(q)
    BY <1>t, <2>1 DEF Set, ReadAgrees, StoreTyped, StoreTypeOK
  <2>2. CASE ~Set(q)
    <3>1. mem' = mem
      BY <2>2 DEF Steps, StoreFlag, ReadField, Truncate, Write, WriteFails, SaveEnds
    <3>2. ReadAgrees(q, Fields)
      BY <1>t DEF AloneOrderly
    <3> QED BY <1>t, <3>1, <3>2, ReadStays
  <2> QED BY <2>1, <2>2
<1>3. spc'[q] = "write" => file' = Empty
  <2>1. CASE Truncate(q)
    BY <2>1 DEF Truncate
  <2>2. CASE ~Truncate(q)
    BY <1>t, <1>0, <2>2 DEF AloneOrderly, Steps, StoreFlag, Set, ReadField, Write,
                            SaveEnds, StoreTyped, StoreTypeOK
  <2> QED BY <2>1, <2>2
<1>4. Quiet' => mem' = Loaded(file')
  <2> SUFFICES ASSUME Quiet' PROVE mem' = Loaded(file')
    OBVIOUS
  <2>1. spc'[q] = "idle"
    BY DEF Quiet
  <2>2. Write(q)
    BY <1>t, <1>0, <2>1 DEF Steps, StoreFlag, Set, ReadField, Truncate, Busy,
                            StoreTyped, StoreTypeOK
  <2>3. file = Empty /\ text[q] = mem
    <3>1. \A f \in Fields : text[q][f] = mem[f]
      BY <1>t, <2>2 DEF AloneOrderly, ReadAgrees, Write
    <3> QED BY <1>t, <2>2, <3>1 DEF AloneOrderly, Write, Records
  <2> QED BY <1>t, <2>2, <2>3, OverIsFile DEF Write, SaveEnds
<1>5. ASSUME kind = "ui" PROVE FlagsOnTheWay(q)'
  <2>0. FlagsOnTheWay(q)
    BY <1>t, <1>5 DEF AloneOrderly
  <2>1. CASE StoreFlag(q)
    <3>1. PICK f \in left[q] : /\ live' = FlagStored(Head(todo[q]), f)
                               /\ left' = [left EXCEPT ![q] = @ \ {f}]
      BY <2>1 DEF StoreFlag
    <3>2. /\ left'[q] = left[q] \ {f} /\ spc' = spc /\ spc[q] = "set"
          /\ own' = own /\ todo' = todo
          /\ \A g \in Fields : live'[g] = IF g = f THEN Head(todo[q])[f] ELSE live[g]
      BY <2>1, <3>1 DEF StoreFlag, FlagStored, StoreInv, StoreTyped, StoreTypeOK, Records
    <3>3. own \in SUBSET Fields
      BY DEF StoreInv, StoreTyped, StoreTypeOK
    <3> QED BY <2>0, <3>2, <3>3 DEF FlagsOnTheWay
  <2>2. CASE Set(q)
    <3>1. /\ spc'[q] = "read" /\ todo'[q] = Tail(todo[q]) /\ own' = own /\ live' = live
          /\ mem' = Changed(mem, Head(todo[q])) /\ left[q] = {} /\ spc[q] = "set"
      BY <1>t, <2>2 DEF Set, StoreTyped, StoreTypeOK
    <3>2. /\ own = DOMAIN Head(todo[q]) /\ own \in SUBSET Fields /\ Tail(todo[q]) = <<>>
          /\ \A f \in own \ Apart : live[f] = Head(todo[q])[f]
      BY <2>0, <3>1 DEF FlagsOnTheWay, StoreInv, StoreTyped, StoreTypeOK
    <3>3. \A f \in own : mem'[f] = Head(todo[q])[f]
      BY <3>1, <3>2 DEF Changed
    <3> QED BY <3>1, <3>2, <3>3 DEF FlagsOnTheWay
  <2>3. CASE ReadField(q) \/ Truncate(q)
    BY <1>t, <2>0, <2>3 DEF ReadField, Truncate, FlagsOnTheWay, StoreTyped, StoreTypeOK
  <2>4. CASE Write(q)
    BY <1>t, <2>0, <2>4 DEF Write, SaveEnds, FlagsOnTheWay, StoreTyped, StoreTypeOK
  <2> QED BY <1>0, <2>1, <2>2, <2>3, <2>4 DEF Steps
<1>6. ASSUME NEW r \in Requests
      PROVE  /\ ReadAgrees(r, Fields)'
             /\ spc'[r] = "write" => file' = Empty
             /\ kind' = "ui" => FlagsOnTheWay(r)'
  <2>1. CASE r = q
    BY <1>t, <1>2, <1>3, <1>5, <2>1
  <2>2. CASE r # q
    BY <1>0, <2>2 DEF ReadAgrees, FlagsOnTheWay
  <2> QED BY <2>1, <2>2
<1> QED BY <1>1, <1>4, <1>6 DEF AloneOrderly

(* A request that begins when none is under way is the only one; in any    *)
(* case what it names is no longer settled.                                *)
LEMMA BeginKeeps ==
  ASSUME StoreInv, NEW q \in Requests, NEW changes, NEW flags,
         Begin(q, changes, flags), Handed(changes, flags)
  PROVE  StoreInv'
<1>1. /\ \A r \in Requests : /\ spc'[r] = IF r = q THEN "set" ELSE spc[r]
                             /\ todo'[r] = IF r = q THEN changes ELSE todo[r]
                             /\ left'[r] = IF r = q THEN flags ELSE left[r]
      /\ spc[q] = "idle" /\ settled' = settled \ Named(changes)
      /\ UNCHANGED <<kind, live, mem, file, text>>
  BY DEF StoreInv, StoreTyped, StoreTypeOK, Begin
<1>2. StoreTyped'
  BY BeginTyped DEF StoreInv
<1>3. ASSUME alone' PROVE AloneOrderly'
  <2>1. Quiet /\ own' = Named(changes)
    BY <1>3 DEF Begin
  <2>2. \A r \in Requests \ {q} : spc'[r] = "idle"
    BY <1>1, <2>1 DEF Quiet
  <2>3. OneAtATime' /\ ~Quiet'
    BY <1>1, <2>2 DEF OneAtATime, Busy, Quiet
  <2>4. ASSUME kind = "ui" PROVE FlagsOnTheWay(q)'
    <3>1. /\ changes \in Seq(Changes) /\ Len(changes) = 1
          /\ DOMAIN Head(changes) \ flags \subseteq Apart
      BY <2>4 DEF Handed
    <3>2. /\ DOMAIN changes = {1} /\ Head(changes) = changes[1]
          /\ Tail(changes) = <<>>
      <4>1. changes = <<changes[1]>>
        BY <3>1
      <4>2. Tail(<<changes[1]>>) = <<>> /\ Head(<<changes[1]>>) = changes[1]
        OBVIOUS
      <4>3. DOMAIN changes = 1..Len(changes) /\ 1..1 = {1}
        BY <3>1
      <4> QED BY <3>1, <4>1, <4>2, <4>3
    <3>3. Named(changes) = DOMAIN Head(changes)
      BY <3>2 DEF Named
    <3> QED BY <1>1, <2>1, <3>1, <3>2, <3>3 DEF FlagsOnTheWay
  <2>5. ASSUME NEW r \in Requests
        PROVE  /\ ReadAgrees(r, Fields)'
               /\ spc'[r] = "write" => file' = Empty
               /\ kind' = "ui" => FlagsOnTheWay(r)'
    <3>1. CASE r = q
      BY <1>1, <2>4, <3>1 DEF ReadAgrees
    <3>2. CASE r # q
      BY <2>2, <3>2 DEF ReadAgrees, FlagsOnTheWay
    <3> QED BY <3>1, <3>2
  <2> QED BY <2>3, <2>5 DEF AloneOrderly
<1>4. ~alone' => own' = {}
  BY DEF Begin
<1>5. Undisturbed'
  BY <1>1 DEF StoreInv, Undisturbed, Named
<1>6. SettledHold'
  BY <1>1 DEF StoreInv, SettledHold, ReadAgrees, InForce
<1> QED BY <1>2, <1>3, <1>4, <1>5, <1>6 DEF StoreInv

(* The invariant holds at the first start.                                 *)
LEMMA InitInv == StoreInit => StoreInv
<1> SUFFICES ASSUME StoreInit PROVE StoreInv
  OBVIOUS
<1>1. Loaded(file) = Defaults
  BY DEF StoreInit, Loaded
<1>2. AloneOrderly /\ Undisturbed /\ SettledHold
  BY <1>1 DEF StoreInit, AloneOrderly, OneAtATime, Busy, ReadAgrees, FlagsOnTheWay,
              Undisturbed, SettledHold, InForce
<1> QED BY <1>2, InitStoreTyped DEF StoreInit, StoreInv

(* It holds after every other start: New loads what the file holds.        *)
LEMMA RestartInv ==
  ASSUME StoreInv, Restart
  PROVE  StoreInv'
<1>1. StoreTyped'
  BY RestartTyped DEF StoreInv
<1>2. mem' = Loaded(file') /\ live' = mem'
  BY DEF Restart
<1>3. \A q \in Requests : spc'[q] = "idle" /\ todo'[q] = <<>>
  BY DEF Restart
<1>4. AloneOrderly' /\ Undisturbed' /\ SettledHold'
  BY <1>2, <1>3 DEF AloneOrderly, OneAtATime, Busy, ReadAgrees, FlagsOnTheWay,
                    Undisturbed, SettledHold, InForce
<1> QED BY <1>1, <1>4 DEF Restart, StoreInv

(* Every step keeps it.                                                    *)
LEMMA StepInv ==
  ASSUME StoreInv, [StoreNext]_storeVars
  PROVE  StoreInv'
<1>1. CASE UNCHANGED storeVars
  BY <1>1, StepStoreTyped
     DEF storeVars, StoreInv, AloneOrderly, OneAtATime, Busy, Quiet, ReadAgrees,
         FlagsOnTheWay, Undisturbed, SettledHold, InForce
<1>2. CASE Restart
  BY <1>2, RestartInv
<1>3. ASSUME NEW q \in Requests,
             HandleUI(q) \/ HandleCamera(q) \/ HandleLux(q) \/ HandleIR(q)
      PROVE  StoreInv'
  BY <1>3, HandlersBegin, BeginKeeps
<1>4. ASSUME NEW q \in Requests, Steps(q) PROVE StoreInv'
  <2>1. StoreTyped'
    BY <1>4, StepStoreTyped DEF StoreInv, Steps, StoreNext
  <2>2. ~alone' => own' = {}
    BY <1>4 DEF StoreInv, Steps, StoreFlag, Set, ReadField, Truncate, Write, WriteFails
  <2> QED BY <1>4, <2>1, <2>2, StepAlone, StepUndisturbed, StepSettledHold DEF StoreInv
<1> QED BY <1>1, <1>2, <1>3, <1>4 DEF StoreNext, Steps

(* When the last request to begin had the store to itself and has ended,   *)
(* the record is what a restart would load, and the settings that such     *)
(* requests made are in force, for all three kinds of settings.            *)
THEOREM QuietAlwaysAgrees == StoreSpec => []QuietAgrees
<1>1. StoreInv => QuietAgrees
  BY DEF StoreInv, AloneOrderly, SettledHold, QuietAgrees
<1> QED BY InitInv, StepInv, <1>1, PTL DEF StoreSpec

(* A setting last made by a request that ran alone is in force after any   *)
(* restart that finds the file whole, whatever others were doing to the    *)
(* rest of the record, and however many they were.                         *)
THEOREM SettledAlwaysSurvives == StoreSpec => SettledSurvives
<1>1. StoreInv =>
        (Restart /\ Intact(file) => \A f \in settled : InForce(f)' = InForce(f))
  BY DEF StoreInv, SettledHold, Restart, InForce
<1> QED BY InitInv, StepInv, <1>1, PTL DEF StoreSpec, SettledSurvives
=============================================================================
