--------------------------- MODULE ReassemblyProofs ---------------------------
(***************************************************************************)
(* Proofs about Reassembly, for any number of chunks, room in the table    *)
(* and bounds of the network and of picam-raw: types, that no chunk is     *)
(* shown twice, that eviction costs late frames only, and the stall after  *)
(* a restart of picam-raw.                                                 *)
(***************************************************************************)
EXTENDS Reassembly, FiniteSetTheorems, WellFoundedInduction, TLAPS

Numbers == 0..(Chunks - 1)
PieceMaps == UNION {[cs -> 0..Restarts] : cs \in SUBSET Numbers}
Kept == MakeRoom(partial)

(* A set of naturals with a member has a least one.                        *)
LEMMA MinOfNats ==
  ASSUME NEW S \in SUBSET Nat, S # {}
  PROVE  Min(S) \in S /\ \A y \in S : Min(S) <= y
<1>1. \E x \in S : \A y \in S : ~(<<y, x>> \in OpToRel(<, Nat))
  BY NatLessThanWellFounded, WFMin
<1>2. \E x \in S : \A y \in S : x <= y
  <2>1. PICK x \in S : \A y \in S : ~(<<y, x>> \in OpToRel(<, Nat))
    BY <1>1
  <2>2. ASSUME NEW y \in S PROVE x <= y
    <3>1. ~(y < x)
      BY <2>1, <2>2 DEF OpToRel
    <3> QED BY <3>1
  <2> QED BY <2>2
<1> QED BY <1>2, Zenon DEF Min

(* The chunk numbers are finitely many, and any set of as many of them as  *)
(* a frame has chunks is all of them.                                      *)
LEMMA AllNumbers ==
  /\ IsFiniteSet(Numbers) /\ Cardinality(Numbers) = Chunks
  /\ \A cs \in SUBSET Numbers : Cardinality(cs) = Chunks <=> cs = Numbers
<1>1. IsFiniteSet(Numbers) /\ Cardinality(Numbers) = Chunks
  BY ReassemblyBounds, FS_Interval DEF Numbers
<1>2. ASSUME NEW cs \in SUBSET Numbers, Cardinality(cs) = Chunks PROVE cs = Numbers
  BY <1>1, <1>2, FS_Subset
<1> QED BY <1>1, <1>2

(* What is known of the pieces of a frame.                                 *)
LEMMA PiecesAre ==
  ASSUME NEW p \in PieceMaps
  PROVE  /\ DOMAIN p \subseteq Numbers
         /\ \A c \in DOMAIN p : p[c] \in 0..Restarts
  BY DEF PieceMaps

(* Another piece for a frame.                                              *)
LEMMA PutPiece ==
  ASSUME NEW p, DOMAIN p \subseteq Numbers,
         \A c \in DOMAIN p : p[c] \in 0..Restarts,
         NEW n \in Numbers, NEW s \in 0..Restarts
  PROVE  /\ Put(p, n, s) \in PieceMaps
         /\ DOMAIN Put(p, n, s) = DOMAIN p \union {n}
         /\ Put(p, n, s)[n] = s
         /\ \A c \in DOMAIN p \ {n} : Put(p, n, s)[c] = p[c]
<1>1. Put(p, n, s) \in [DOMAIN p \union {n} -> 0..Restarts]
  BY DEF Put
<1>2. DOMAIN p \union {n} \in SUBSET Numbers
  OBVIOUS
<1> QED BY <1>1, <1>2 DEF Put, PieceMaps

(* evictOldest, when there is one frame too many: the one with the lowest  *)
(* number goes, and MaxInFlight stay.                                      *)
LEMMA Eviction ==
  ASSUME ReassemblyTypeOK
  PROVE  /\ IsFiniteSet(DOMAIN partial) /\ DOMAIN Kept \subseteq DOMAIN partial
         /\ \A q \in DOMAIN Kept : Kept[q] = partial[q]
         /\ Cardinality(DOMAIN Kept) <= MaxInFlight
         /\ \A q \in DOMAIN partial \ DOMAIN Kept :
               /\ DOMAIN Kept = DOMAIN partial \ {q}
               /\ Cardinality(DOMAIN Kept) = MaxInFlight
               /\ \A r \in DOMAIN Kept : r > q
         /\ Cardinality(DOMAIN partial) = MaxInFlight + 1
              => DOMAIN Kept # DOMAIN partial
<1>1. /\ DOMAIN partial \in SUBSET Seqs /\ Seqs \in SUBSET Nat /\ IsFiniteSet(Seqs)
      /\ Cardinality(DOMAIN partial) <= MaxInFlight + 1 /\ MaxInFlight \in Nat \ {0}
  BY ReassemblyBounds, FS_Interval DEF ReassemblyTypeOK, Seqs
<1>2. IsFiniteSet(DOMAIN partial) /\ Cardinality(DOMAIN partial) \in Nat
  BY <1>1, FS_Subset, FS_CardinalityType
<1>3. CASE ~tooMany(partial)
  <2>1. Kept = partial
    BY <1>3 DEF Kept, MakeRoom
  <2>2. Cardinality(DOMAIN partial) <= MaxInFlight
    BY <1>1, <1>2, <1>3 DEF tooMany
  <2> QED BY <1>1, <1>2, <2>1, <2>2
<1>4. CASE tooMany(partial)
  <2> DEFINE q == oldest(partial)
  <2>1. Cardinality(DOMAIN partial) = MaxInFlight + 1
    BY <1>1, <1>2, <1>4 DEF tooMany
  <2>2. DOMAIN partial # {}
    BY <1>1, <2>1, FS_EmptySet
  <2>3. q \in DOMAIN partial /\ \A r \in DOMAIN partial : q <= r
    BY <1>1, <2>2, MinOfNats DEF oldest
  <2>4. Kept = [r \in DOMAIN partial \ {q} |-> partial[r]]
    BY <1>4 DEF Kept, MakeRoom, Restrict
  <2>5. DOMAIN Kept = DOMAIN partial \ {q}
    BY <2>4
  <2>6. Cardinality(DOMAIN Kept) = MaxInFlight
    <3>1. Cardinality(DOMAIN partial \ {q}) = Cardinality(DOMAIN partial) - 1
      BY <1>2, <2>3, FS_RemoveElement
    <3> QED BY <1>1, <2>1, <2>5, <3>1
  <2> HIDE DEF q
  <2>7. ASSUME NEW r \in DOMAIN Kept PROVE r > q
    <3>1. r \in Nat /\ q \in Nat /\ q <= r /\ r # q
      BY <1>1, <2>3, <2>5
    <3> QED BY <3>1
  <2>8. \A r \in DOMAIN partial \ DOMAIN Kept : r = q
    BY <2>5
  <2> QED BY <1>1, <1>2, <2>3, <2>4, <2>5, <2>6, <2>7, <2>8
<1> QED BY <1>3, <1>4

(* The table after a datagram has been filed in it.                        *)
LEMMA Filing ==
  ASSUME ReassemblyTypeOK, NEW d \in Datagrams
  PROVE  /\ DOMAIN Stored(d) = DOMAIN Kept \union {d.seq}
         /\ \A q \in DOMAIN Kept \ {d.seq} : Stored(d)[q] = partial[q]
         /\ Stored(d)[d.seq] \in PieceMaps
         /\ DOMAIN Stored(d)[d.seq] =
              (IF d.seq \in DOMAIN Kept THEN DOMAIN partial[d.seq] ELSE {})
                 \union {d.chunk}
         /\ Stored(d)[d.seq][d.chunk] = d.session
         /\ \A c \in DOMAIN Stored(d)[d.seq] \ {d.chunk} :
               Stored(d)[d.seq][c] = partial[d.seq][c]
<1> DEFINE had == IF d.seq \in DOMAIN Kept THEN Kept[d.seq] ELSE <<>>
<1>1. Stored(d) = Put(Kept, d.seq, Put(had, d.chunk, d.session))
  BY DEF Stored, Kept
<1>2. d.seq \in Seqs /\ d.chunk \in Numbers /\ d.session \in 0..Restarts
  BY DEF Datagrams, Numbers
<1>3. /\ DOMAIN had = IF d.seq \in DOMAIN Kept THEN DOMAIN partial[d.seq] ELSE {}
      /\ DOMAIN had \subseteq Numbers
      /\ \A c \in DOMAIN had : had[c] = partial[d.seq][c] /\ had[c] \in 0..Restarts
  <2>1. CASE d.seq \in DOMAIN Kept
    <3>1. had = partial[d.seq] /\ d.seq \in DOMAIN partial
      BY <2>1, Eviction
    <3>2. had \in PieceMaps
      BY <3>1 DEF ReassemblyTypeOK, PieceMaps, Numbers
    <3> QED BY <2>1, <3>1, <3>2, PiecesAre
  <2>2. CASE d.seq \notin DOMAIN Kept
    BY <2>2
  <2> QED BY <2>1, <2>2
<1> HIDE DEF had
<1>4. /\ Put(had, d.chunk, d.session) \in PieceMaps
      /\ DOMAIN Put(had, d.chunk, d.session) = DOMAIN had \union {d.chunk}
      /\ Put(had, d.chunk, d.session)[d.chunk] = d.session
      /\ \A c \in DOMAIN had \ {d.chunk} :
            Put(had, d.chunk, d.session)[c] = had[c]
  BY <1>2, <1>3, PutPiece
<1>5. /\ DOMAIN Stored(d) = DOMAIN Kept \union {d.seq}
      /\ \A q \in DOMAIN Kept \ {d.seq} : Stored(d)[q] = Kept[q]
      /\ Stored(d)[d.seq] = Put(had, d.chunk, d.session)
  BY <1>1 DEF Put
<1> QED BY <1>3, <1>4, <1>5, Eviction

(* One turn of recvLoop, with the table as Filing describes it: the frame  *)
(* goes to the mailbox exactly if it has all its chunks.                   *)
LEMMA ReceiveIs ==
  ASSUME ReassemblyTypeOK, NEW d \in net, Receive(d)
  PROVE  /\ d \in Datagrams
         /\ received' = IF session = 0 THEN received \union {d} ELSE {}
         /\ \/ net' = net \ {d} /\ duplicated' = duplicated
            \/ net' = net /\ duplicated' = TRUE
         /\ UNCHANGED <<session, nextSeq, subscribed, open>>
         /\ DOMAIN Stored(d)[d.seq] = Numbers =>
              /\ DOMAIN partial' = DOMAIN Kept \ {d.seq}
              /\ \A q \in DOMAIN partial' : partial'[q] = partial[q]
              /\ mailbox' = [seq |-> d.seq, pieces |-> Stored(d)[d.seq]]
              /\ used' = used \union
                   {[session |-> Stored(d)[d.seq][c], seq |-> d.seq, chunk |-> c] :
                      c \in Numbers}
         /\ DOMAIN Stored(d)[d.seq] # Numbers =>
              partial' = Stored(d) /\ UNCHANGED <<mailbox, used>>
<1>1. d \in Datagrams
  BY DEF ReassemblyTypeOK
<1>2. Stored(d)[d.seq] \in PieceMaps
  BY <1>1, Filing
<1>3. Cardinality(DOMAIN Stored(d)[d.seq]) = Chunks
        <=> DOMAIN Stored(d)[d.seq] = Numbers
  BY <1>2, AllNumbers, PiecesAre
<1>4. /\ received' = IF session = 0 THEN received \union {d} ELSE {}
      /\ \/ net' = net \ {d} /\ duplicated' = duplicated
         \/ net' = net /\ duplicated' = TRUE
      /\ UNCHANGED <<session, nextSeq, subscribed, open>>
  BY DEF Receive
<1>5. ASSUME DOMAIN Stored(d)[d.seq] = Numbers
      PROVE  /\ DOMAIN partial' = DOMAIN Kept \ {d.seq}
             /\ \A q \in DOMAIN partial' : partial'[q] = partial[q]
             /\ mailbox' = [seq |-> d.seq, pieces |-> Stored(d)[d.seq]]
             /\ used' = used \union
                  {[session |-> Stored(d)[d.seq][c], seq |-> d.seq, chunk |-> c] :
                     c \in Numbers}
  <2>1. /\ partial' = Removed(Stored(d), d.seq)
        /\ mailbox' = [seq |-> d.seq, pieces |-> Stored(d)[d.seq]]
        /\ used' = used \union
             {[session |-> Stored(d)[d.seq][c], seq |-> d.seq, chunk |-> c] :
                c \in Numbers}
    BY <1>3, <1>5 DEF Receive
  <2>2. partial' = [q \in DOMAIN Stored(d) \ {d.seq} |-> Stored(d)[q]]
    BY <2>1 DEF Removed, Restrict
  <2> QED BY <1>1, <2>1, <2>2, Filing
<1>6. ASSUME DOMAIN Stored(d)[d.seq] # Numbers
      PROVE  partial' = Stored(d) /\ UNCHANGED <<mailbox, used>>
  BY <1>3, <1>6 DEF Receive
<1> QED BY <1>1, <1>4, <1>5, <1>6

-----------------------------------------------------------------------------
(* Types *)

NetTyped == ReassemblyTypeOK /\ IsFiniteSet(net)

(* A frame adds no more datagrams to the network than it has chunks.       *)
LEMMA FrameSize ==
  ASSUME NEW s, NEW q
  PROVE  LET frame == [session : {s}, seq : {q}, chunk : Numbers]
         IN IsFiniteSet(frame) /\ Cardinality(frame) <= Chunks
<1> DEFINE frame == [session : {s}, seq : {q}, chunk : Numbers]
           f == [c \in Numbers |-> [session |-> s, seq |-> q, chunk |-> c]]
<1>1. f \in Surjection(Numbers, frame)
  <2>1. f \in [Numbers -> frame]
    OBVIOUS
  <2>2. ASSUME NEW d \in frame PROVE \E c \in Numbers : f[c] = d
    <3>1. d.chunk \in Numbers /\ d = [session |-> s, seq |-> q, chunk |-> d.chunk]
      OBVIOUS
    <3> QED BY <3>1
  <2> QED BY <2>1, <2>2 DEF Surjection
<1> QED BY <1>1, AllNumbers, FS_Surjection

(* picam-raw sends.                                                        *)
LEMMA SendTyped ==
  ASSUME NetTyped, SendFrame
  PROVE  NetTyped'
<1> DEFINE frame == [session : {session}, seq : {nextSeq}, chunk : Numbers]
<1>1. IsFiniteSet(frame) /\ Cardinality(frame) <= Chunks
  BY FrameSize
<1>2. /\ net' = net \union frame /\ nextSeq' = nextSeq + 1 /\ nextSeq < MaxSeq
      /\ Cardinality(net) + Chunks <= MaxNet
  BY DEF SendFrame, Numbers
<1>3. frame \subseteq Datagrams
  BY DEF Datagrams, Numbers, NetTyped, ReassemblyTypeOK
<1> HIDE DEF frame
<1>4. /\ IsFiniteSet(net \union frame)
      /\ Cardinality(net \union frame)
           = Cardinality(net) + Cardinality(frame) - Cardinality(net \cap frame)
  BY <1>1, FS_Union DEF NetTyped
<1>5. /\ Cardinality(net) \in Nat /\ Cardinality(frame) \in Nat
      /\ Cardinality(net \cap frame) \in Nat
  <2>1. IsFiniteSet(net \cap frame)
    BY <1>1, FS_Intersection
  <2> QED BY <1>1, <2>1, FS_CardinalityType DEF NetTyped
<1>6. Cardinality(net') <= MaxNet
  BY <1>1, <1>2, <1>4, <1>5, ReassemblyBounds
<1>7. nextSeq' \in Seqs
  BY <1>2, ReassemblyBounds DEF Seqs, NetTyped, ReassemblyTypeOK
<1> QED BY <1>2, <1>3, <1>4, <1>6, <1>7 DEF NetTyped, ReassemblyTypeOK, SendFrame

(* A datagram is read.                                                     *)
LEMMA ReceiveTyped ==
  ASSUME NetTyped, NEW d \in net, Receive(d)
  PROVE  NetTyped'
<1>t. ReassemblyTypeOK
  BY DEF NetTyped
<1>1. /\ d \in Datagrams /\ d.seq \in Seqs
      /\ received' \subseteq Datagrams /\ duplicated' \in BOOLEAN
      /\ UNCHANGED <<session, nextSeq, subscribed, open>>
  BY <1>t, ReceiveIs DEF ReassemblyTypeOK, Datagrams
<1>2. net' \subseteq Datagrams /\ IsFiniteSet(net') /\ Cardinality(net') <= MaxNet
  <2>1. net' \in SUBSET net
    BY <1>t, ReceiveIs
  <2>2. /\ IsFiniteSet(net') /\ Cardinality(net') <= Cardinality(net)
        /\ IsFiniteSet(net)
    BY <2>1, FS_Subset DEF NetTyped
  <2>3. Cardinality(net') \in Nat /\ Cardinality(net) \in Nat
    BY <2>2, FS_CardinalityType
  <2> QED BY <1>t, <2>1, <2>2, <2>3, ReassemblyBounds DEF ReassemblyTypeOK
<1>3. /\ DOMAIN partial' \subseteq DOMAIN Kept \union {d.seq}
      /\ \A q \in DOMAIN partial' : partial'[q] \in PieceMaps
  <2>1. \A q \in DOMAIN Kept : partial[q] \in PieceMaps
    BY <1>t, Eviction DEF ReassemblyTypeOK, PieceMaps, Numbers
  <2>2. CASE DOMAIN Stored(d)[d.seq] = Numbers
    BY <1>t, <2>1, <2>2, ReceiveIs
  <2>3. CASE DOMAIN Stored(d)[d.seq] # Numbers
    <3>1. partial' = Stored(d)
      BY <1>t, <2>3, ReceiveIs
    <3> QED BY <1>t, <1>1, <2>1, <3>1, Filing
  <2> QED BY <2>2, <2>3
<1>4. DOMAIN partial' \subseteq Seqs /\ Cardinality(DOMAIN partial') <= MaxInFlight + 1
  <2>1. /\ IsFiniteSet(DOMAIN Kept) /\ DOMAIN Kept \subseteq Seqs
        /\ Cardinality(DOMAIN Kept) <= MaxInFlight
    BY <1>t, Eviction, FS_Subset DEF ReassemblyTypeOK
  <2>2. /\ IsFiniteSet(DOMAIN Kept \union {d.seq})
        /\ Cardinality(DOMAIN Kept \union {d.seq}) =
             IF d.seq \in DOMAIN Kept THEN Cardinality(DOMAIN Kept)
                                      ELSE Cardinality(DOMAIN Kept) + 1
    BY <2>1, FS_AddElement
  <2>3. /\ IsFiniteSet(DOMAIN partial')
        /\ Cardinality(DOMAIN partial') <= Cardinality(DOMAIN Kept \union {d.seq})
    BY <1>3, <2>2, FS_Subset
  <2>4. /\ Cardinality(DOMAIN partial') \in Nat /\ Cardinality(DOMAIN Kept) \in Nat
    BY <2>1, <2>3, FS_CardinalityType
  <2> QED BY <1>1, <1>3, <2>1, <2>2, <2>3, <2>4, ReassemblyBounds
<1>5. /\ mailbox' = NoFrame \/ mailbox' \in [seq : Seqs, pieces : [Numbers -> 0..Restarts]]
      /\ used' \subseteq Datagrams
  <2>1. CASE DOMAIN Stored(d)[d.seq] = Numbers
    <3>1. Stored(d)[d.seq] \in [Numbers -> 0..Restarts]
      <4>1. Stored(d)[d.seq] \in PieceMaps
        BY <1>t, <1>1, Filing
      <4> QED BY <2>1, <4>1 DEF PieceMaps
    <3>0. /\ mailbox' = [seq |-> d.seq, pieces |-> Stored(d)[d.seq]]
          /\ used' = used \union
               {[session |-> Stored(d)[d.seq][c], seq |-> d.seq, chunk |-> c] :
                  c \in Numbers}
      BY <1>t, <2>1, ReceiveIs
    <3>2. mailbox' \in [seq : Seqs, pieces : [Numbers -> 0..Restarts]]
      BY <1>1, <3>0, <3>1
    <3>3. \A c \in Numbers :
            [session |-> Stored(d)[d.seq][c], seq |-> d.seq, chunk |-> c] \in Datagrams
      BY <1>1, <3>1 DEF Datagrams, Numbers
    <3>4. used' \subseteq Datagrams
      <4>1. used \subseteq Datagrams
        BY <1>t DEF ReassemblyTypeOK
      <4> QED BY <3>0, <3>3, <4>1
    <3> QED BY <3>2, <3>4
  <2>2. CASE DOMAIN Stored(d)[d.seq] # Numbers
    BY <1>t, <2>2, ReceiveIs DEF ReassemblyTypeOK, Numbers
  <2> QED BY <2>1, <2>2
<1> QED BY <1>t, <1>1, <1>2, <1>3, <1>4, <1>5
        DEF NetTyped, ReassemblyTypeOK, PieceMaps, Numbers

(* Every step keeps the types.                                             *)
LEMMA StepNetTyped ==
  ASSUME NetTyped, [ReassemblyNext]_reassemblyVars
  PROVE  NetTyped'
<1>1. CASE UNCHANGED reassemblyVars
  BY <1>1 DEF reassemblyVars, NetTyped, ReassemblyTypeOK
<1>2. CASE Ping
  BY <1>2 DEF Ping, NetTyped, ReassemblyTypeOK
<1>3. CASE RawRestarts
  <2>1. session' \in 0..Restarts /\ nextSeq' \in Seqs
    <3>1. session \in 0..Restarts
      BY DEF NetTyped, ReassemblyTypeOK
    <3> QED BY <1>3, <3>1, ReassemblyBounds DEF RawRestarts, Seqs
  <2> QED BY <1>3, <2>1 DEF RawRestarts, NetTyped, ReassemblyTypeOK
<1>4. CASE Close
  <2>1. IsFiniteSet(net') /\ Cardinality(net') <= MaxNet
    BY <1>4, FS_EmptySet, ReassemblyBounds DEF Close
  <2> QED BY <1>4, <2>1 DEF Close, NetTyped, ReassemblyTypeOK
<1>5. ASSUME NEW d \in net, Lose(d) PROVE NetTyped'
  <2>1. net' = net \ {d} /\ IsFiniteSet(net)
    BY <1>5 DEF Lose, NetTyped
  <2>2. IsFiniteSet(net') /\ Cardinality(net') <= Cardinality(net)
    BY <2>1, FS_Subset
  <2>3. Cardinality(net') \in Nat /\ Cardinality(net) \in Nat
    BY <2>1, <2>2, FS_CardinalityType
  <2> QED BY <1>5, <2>1, <2>2, <2>3, ReassemblyBounds DEF Lose, NetTyped, ReassemblyTypeOK
<1> QED BY <1>1, <1>2, <1>3, <1>4, <1>5, SendTyped, ReceiveTyped DEF ReassemblyNext

(* The types at the start.                                                 *)
LEMMA InitNetTyped == ReassemblyInit => NetTyped
<1> SUFFICES ASSUME ReassemblyInit PROVE NetTyped
  OBVIOUS
<1>1. DOMAIN partial = {} /\ net = {}
  BY DEF ReassemblyInit
<1>2. /\ Cardinality(net) <= MaxNet /\ IsFiniteSet(net)
      /\ Cardinality(DOMAIN partial) <= MaxInFlight + 1
  BY <1>1, FS_EmptySet, ReassemblyBounds
<1>3. session \in 0..Restarts /\ nextSeq \in Seqs
  BY ReassemblyBounds DEF ReassemblyInit, Seqs
<1> QED BY <1>1, <1>2, <1>3 DEF ReassemblyInit, NetTyped, ReassemblyTypeOK

(* Every variable keeps its type: whatever arrives, the table never holds  *)
(* more than MaxInFlight frames and the one being received, and a frame    *)
(* that is delivered has all its chunks.                                   *)
THEOREM ReassemblyTypeCorrect == ReassemblySpec => []ReassemblyTypeOK
<1>1. NetTyped => ReassemblyTypeOK
  BY DEF NetTyped
<1> QED BY InitNetTyped, StepNetTyped, <1>1, PTL DEF ReassemblySpec

-----------------------------------------------------------------------------
(* StallLasts.  The chunk's own frame, if the table holds it, is the       *)
(* oldest of more than MaxInFlight and goes; the chunk is then alone.      *)
LEMMA StalledChunkAlone ==
  ASSUME NetTyped, NEW d \in net, Receive(d),
         Cardinality({q \in DOMAIN partial : q > d.seq}) >= MaxInFlight
  PROVE  UNCHANGED mailbox
<1> DEFINE newer == {q \in DOMAIN partial : q > d.seq}
<1>t. ReassemblyTypeOK
  BY DEF NetTyped
<1>1. d \in Datagrams /\ d.seq \in Nat /\ d.chunk \in Numbers
  BY <1>t, ReassemblyBounds DEF ReassemblyTypeOK, Datagrams, Seqs, Numbers
<1>2. d.seq \notin DOMAIN Kept
  <2> SUFFICES ASSUME d.seq \in DOMAIN Kept PROVE FALSE
    OBVIOUS
  <2>1. IsFiniteSet(DOMAIN partial) /\ DOMAIN Kept \subseteq DOMAIN partial
        /\ Cardinality(DOMAIN partial) <= MaxInFlight + 1
    BY <1>t, Eviction DEF ReassemblyTypeOK
  <2>2. newer \union {d.seq} \in SUBSET DOMAIN partial /\ d.seq \notin newer
    BY <1>1, <2>1
  <2>3. IsFiniteSet(newer) /\ Cardinality(newer) >= MaxInFlight
    BY <2>1, <2>2, FS_Subset
  <2> HIDE DEF newer
  <2>4. Cardinality(newer \union {d.seq}) = Cardinality(newer) + 1
    BY <2>2, <2>3, FS_AddElement
  <2>5. Cardinality(newer \union {d.seq}) <= Cardinality(DOMAIN partial)
    BY <2>1, <2>2, FS_Subset
  <2>6. Cardinality(newer) \in Nat /\ Cardinality(DOMAIN partial) \in Nat
    BY <2>1, <2>3, FS_CardinalityType
  <2>7. Cardinality(DOMAIN partial) = MaxInFlight + 1
    BY <2>1, <2>3, <2>4, <2>5, <2>6, ReassemblyBounds
  <2>8. PICK q \in DOMAIN partial : q \notin DOMAIN Kept
    BY <1>t, <2>1, <2>7, Eviction
  <2>9. \A r \in DOMAIN Kept : r > q
    BY <1>t, <2>8, Eviction
  <2>10. newer \union {d.seq} = DOMAIN partial
    BY <2>1, <2>2, <2>3, <2>4, <2>6, <2>7, FS_Subset, ReassemblyBounds
  <2>11. d.seq > q /\ q \in Nat
    BY <1>t, <2>8, <2>9, ReassemblyBounds DEF ReassemblyTypeOK, Seqs
  <2>12. q > d.seq \/ q = d.seq
    BY <2>8, <2>10 DEF newer
  <2> QED BY <1>1, <2>11, <2>12
<1>3. DOMAIN Stored(d)[d.seq] = {d.chunk}
  BY <1>t, <1>1, <1>2, Filing
<1>4. {d.chunk} # Numbers
  <2>1. 0 \in Numbers /\ 1 \in Numbers /\ 0 # 1
    BY ReassemblyBounds DEF Numbers
  <2> QED BY <2>1
<1> QED BY <1>t, <1>3, <1>4, ReceiveIs

(* As long as MaxInFlight frames of higher numbers sit in the table, no    *)
(* chunk completes a frame: after a restart of picam-raw the lossy frames  *)
(* of the earlier session keep every new one from being shown.             *)
THEOREM StallAlwaysLasts == ReassemblySpec => StallLasts
<1>1. NetTyped =>
        \A d \in net :
          /\ Cardinality({q \in DOMAIN partial : q > d.seq}) >= MaxInFlight
          /\ Receive(d)
          => UNCHANGED mailbox
  BY StalledChunkAlone
<1> QED BY InitNetTyped, StepNetTyped, <1>1, PTL DEF ReassemblySpec, StallLasts

-----------------------------------------------------------------------------
(* PiecesShownOnce.  A datagram is known if it is on its way, filed in the *)
(* table or part of a delivered frame.  All that is known has been sent,   *)
(* and, without duplication, it is in one of the three places only.        *)
Filed == {d \in Datagrams : /\ d.seq \in DOMAIN partial
                            /\ d.chunk \in DOMAIN partial[d.seq]
                            /\ partial[d.seq][d.chunk] = d.session}
Sent(d) == d.session < session \/ (d.session = session /\ d.seq < nextSeq)
AllSent == \A d \in net \union Filed \union used : Sent(d)
EachOnce ==
    ~duplicated => net \cap Filed = {} /\ net \cap used = {} /\ Filed \cap used = {}
Delivered(d) ==
    {[session |-> Stored(d)[d.seq][c], seq |-> d.seq, chunk |-> c] : c \in Numbers}
PiecesInv == NetTyped /\ AllSent /\ EachOnce

(* What a datagram that completes its frame delivers was filed before, but *)
(* for itself.                                                             *)
LEMMA DeliveredWasFiled ==
  ASSUME NetTyped, NEW d \in Datagrams, DOMAIN Stored(d)[d.seq] = Numbers
  PROVE  Delivered(d) \subseteq Filed \union {d}
<1>t. ReassemblyTypeOK
  BY DEF NetTyped
<1>1. d = [session |-> d.session, seq |-> d.seq, chunk |-> d.chunk]
      /\ d.seq \in Seqs
  BY DEF Datagrams
<1>2. ASSUME NEW c \in Numbers, c # d.chunk
      PROVE  [session |-> Stored(d)[d.seq][c], seq |-> d.seq, chunk |-> c] \in Filed
  <2>1. d.seq \in DOMAIN Kept /\ c \in DOMAIN partial[d.seq]
        /\ Stored(d)[d.seq][c] = partial[d.seq][c]
    BY <1>t, <1>2, Filing
  <2>2. d.seq \in DOMAIN partial
    BY <1>t, <2>1, Eviction
  <2>3. Stored(d)[d.seq][c] \in 0..Restarts
    BY <1>t, Filing, PiecesAre
  <2>4. [session |-> Stored(d)[d.seq][c], seq |-> d.seq, chunk |-> c] \in Datagrams
    BY <1>1, <2>3 DEF Datagrams, Numbers
  <2> QED BY <2>1, <2>2, <2>4 DEF Filed
<1>3. [session |-> Stored(d)[d.seq][d.chunk], seq |-> d.seq, chunk |-> d.chunk] = d
  BY <1>t, <1>1, Filing
<1> QED BY <1>2, <1>3 DEF Delivered

(* Receiving files nothing but the datagram itself; and a frame that is    *)
(* delivered leaves nothing of its number behind.                          *)
LEMMA FiledStep ==
  ASSUME NetTyped, NEW d \in net, Receive(d)
  PROVE  /\ DOMAIN Stored(d)[d.seq] = Numbers =>
              /\ Filed' \subseteq {e \in Filed : e.seq # d.seq}
              /\ used' = used \union Delivered(d)
         /\ DOMAIN Stored(d)[d.seq] # Numbers =>
              Filed' \subseteq Filed \union {d} /\ used' = used
<1>t. ReassemblyTypeOK /\ d \in Datagrams
  BY ReceiveIs DEF NetTyped
<1>1. ASSUME DOMAIN Stored(d)[d.seq] = Numbers
      PROVE  /\ Filed' \subseteq {e \in Filed : e.seq # d.seq}
             /\ used' = used \union Delivered(d)
  <2>1. /\ DOMAIN partial' = DOMAIN Kept \ {d.seq}
        /\ \A q \in DOMAIN partial' : partial'[q] = partial[q]
        /\ used' = used \union Delivered(d)
    BY <1>t, <1>1, ReceiveIs DEF Delivered
  <2>2. DOMAIN partial' \subseteq DOMAIN partial \ {d.seq}
    BY <1>t, <2>1, Eviction
  <2> QED BY <2>1, <2>2 DEF Filed
<1>2. ASSUME DOMAIN Stored(d)[d.seq] # Numbers
      PROVE  Filed' \subseteq Filed \union {d} /\ used' = used
  <2>1. partial' = Stored(d) /\ used' = used
    BY <1>t, <1>2, ReceiveIs
  <2>2. ASSUME NEW e \in Filed', e # d PROVE e \in Filed
    <3>1. /\ e \in Datagrams /\ e.seq \in DOMAIN Stored(d)
          /\ e.chunk \in DOMAIN Stored(d)[e.seq]
          /\ Stored(d)[e.seq][e.chunk] = e.session
      BY <2>1 DEF Filed
    <3>2. CASE e.seq # d.seq
      <4>1. e.seq \in DOMAIN Kept /\ Stored(d)[e.seq] = partial[e.seq]
        BY <1>t, <3>1, <3>2, Filing
      <4> QED BY <1>t, <3>1, <4>1, Eviction DEF Filed
    <3>3. CASE e.seq = d.seq
      <4>1. e.chunk # d.chunk
        <5> SUFFICES ASSUME e.chunk = d.chunk PROVE FALSE
          OBVIOUS
        <5>1. e.session = d.session
          BY <1>t, <3>1, <3>3, Filing
        <5>2. e = d
          BY <1>t, <2>2, <3>1, <3>3, <5>1 DEF Datagrams
        <5> QED BY <2>2, <5>2
      <4>2. d.seq \in DOMAIN Kept /\ e.chunk \in DOMAIN partial[d.seq]
            /\ Stored(d)[d.seq][e.chunk] = partial[d.seq][e.chunk]
        <5>1. e.chunk \in DOMAIN Stored(d)[d.seq] \ {d.chunk}
          BY <3>1, <3>3, <4>1
        <5>2. DOMAIN Stored(d)[d.seq] =
                (IF d.seq \in DOMAIN Kept THEN DOMAIN partial[d.seq] ELSE {})
                   \union {d.chunk}
          BY <1>t, Filing
        <5>3. d.seq \in DOMAIN Kept /\ e.chunk \in DOMAIN partial[d.seq]
          BY <5>1, <5>2
        <5> QED BY <1>t, <5>1, <5>3, Filing
      <4> QED BY <1>t, <3>1, <3>3, <4>2, Eviction DEF Filed
    <3> QED BY <3>2, <3>3
  <2> QED BY <2>1, <2>2
<1> QED BY <1>1, <1>2

(* A received datagram moves from the network to the table, or with those  *)
(* filed there to the delivered ones.                                      *)
LEMMA ReceiveOnce ==
  ASSUME PiecesInv, NEW d \in net, Receive(d)
  PROVE  AllSent' /\ EachOnce'
<1>t. NetTyped /\ d \in Datagrams
  BY ReceiveIs DEF PiecesInv, NetTyped
<1>1. /\ \/ net' = net \ {d} /\ duplicated' = duplicated
         \/ net' = net /\ duplicated' = TRUE
      /\ session' = session /\ nextSeq' = nextSeq
  BY <1>t, ReceiveIs DEF NetTyped
<1>2. \A e : Sent(e)' <=> Sent(e)
  BY <1>1 DEF Sent
<1>3. CASE DOMAIN Stored(d)[d.seq] = Numbers
  <2>1. /\ Filed' \subseteq {e \in Filed : e.seq # d.seq}
        /\ used' = used \union Delivered(d)
        /\ Delivered(d) \subseteq Filed \union {d}
    BY <1>t, <1>3, FiledStep, DeliveredWasFiled
  <2>2. \A e \in Delivered(d) : e.seq = d.seq
    BY DEF Delivered
  <2>3. AllSent'
    BY <1>1, <1>2, <2>1 DEF PiecesInv, AllSent
  <2>4. EachOnce'
    BY <1>1, <2>1, <2>2 DEF PiecesInv, EachOnce
  <2> QED BY <2>3, <2>4
<1>4. CASE DOMAIN Stored(d)[d.seq] # Numbers
  <2>1. Filed' \subseteq Filed \union {d} /\ used' = used
    BY <1>t, <1>4, FiledStep
  <2>2. AllSent'
    BY <1>1, <1>2, <2>1 DEF PiecesInv, AllSent
  <2>3. EachOnce'
    BY <1>1, <2>1 DEF PiecesInv, EachOnce
  <2> QED BY <2>2, <2>3
<1> QED BY <1>3, <1>4

(* Every step keeps the invariant.                                         *)
LEMMA StepOnce ==
  ASSUME PiecesInv, [ReassemblyNext]_reassemblyVars
  PROVE  PiecesInv'
<1>t. NetTyped' /\ ReassemblyTypeOK
  BY StepNetTyped DEF PiecesInv, NetTyped
<1>1. CASE SendFrame
  <2> DEFINE frame == [session : {session}, seq : {nextSeq}, chunk : Numbers]
  <2>1. /\ net' = net \union frame /\ nextSeq' = nextSeq + 1
        /\ UNCHANGED <<session, partial, used, duplicated>>
    BY <1>1 DEF SendFrame, Numbers
  <2>2. Filed' = Filed
    BY <2>1 DEF Filed
  <2>3. session \in Nat /\ nextSeq \in Nat
    BY <1>t, ReassemblyBounds DEF ReassemblyTypeOK, Seqs
  <2>4. \A e \in frame : e.session = session /\ e.seq = nextSeq
    OBVIOUS
  <2>5. \A e \in frame : ~Sent(e)
    BY <2>3, <2>4 DEF Sent
  <2> HIDE DEF frame
  <2>6. \A e \in net \union Filed \union used : Sent(e)'
    <3>1. \A e \in net \union Filed \union used :
             Sent(e) /\ e.session \in Nat /\ e.seq \in Nat
      BY <1>t, ReassemblyBounds
         DEF PiecesInv, AllSent, ReassemblyTypeOK, Filed, Datagrams, Seqs
    <3> QED BY <2>1, <2>3, <3>1 DEF Sent
  <2>7. \A e \in frame : Sent(e)'
    BY <2>1, <2>3, <2>4 DEF Sent
  <2>8. AllSent'
    BY <2>1, <2>2, <2>6, <2>7 DEF AllSent
  <2>9. EachOnce'
    BY <2>1, <2>2, <2>5 DEF PiecesInv, AllSent, EachOnce
  <2> QED BY <1>t, <2>8, <2>9 DEF PiecesInv
<1>2. CASE RawRestarts
  <2>1. session' = session + 1 /\ UNCHANGED <<net, partial, used, duplicated>>
    BY <1>2 DEF RawRestarts
  <2>2. Filed' = Filed
    BY <2>1 DEF Filed
  <2>3. \A e \in net \union Filed \union used : Sent(e) /\ e.session \in Nat
    BY <1>t, ReassemblyBounds
       DEF PiecesInv, AllSent, ReassemblyTypeOK, Filed, Datagrams, Seqs
  <2>4. session \in Nat
    BY <1>t, ReassemblyBounds DEF ReassemblyTypeOK
  <2>5. \A e \in net \union Filed \union used : Sent(e)'
    BY <2>1, <2>3, <2>4 DEF Sent
  <2>6. AllSent' /\ EachOnce'
    BY <2>1, <2>2, <2>5 DEF PiecesInv, AllSent, EachOnce
  <2> QED BY <1>t, <2>6 DEF PiecesInv
<1>3. ASSUME UNCHANGED <<session, nextSeq, partial, used, duplicated>>,
             net' \subseteq net
      PROVE  PiecesInv'
  <2>1. Filed' = Filed /\ \A e : Sent(e)' <=> Sent(e)
    BY <1>3 DEF Filed, Sent
  <2>2. AllSent' /\ EachOnce'
    BY <1>3, <2>1 DEF PiecesInv, AllSent, EachOnce
  <2> QED BY <1>t, <2>2 DEF PiecesInv
<1>4. CASE UNCHANGED reassemblyVars \/ Ping \/ Close \/ \E d \in net : Lose(d)
  BY <1>3, <1>4 DEF reassemblyVars, Ping, Close, Lose
<1>5. ASSUME NEW d \in net, Receive(d) PROVE PiecesInv'
  BY <1>t, <1>5, ReceiveOnce DEF PiecesInv
<1> QED BY <1>1, <1>2, <1>4, <1>5 DEF ReassemblyNext

(* It holds at the start.                                                  *)
LEMMA InitOnce == ReassemblyInit => PiecesInv
<1> SUFFICES ASSUME ReassemblyInit PROVE AllSent /\ EachOnce
  BY InitNetTyped DEF PiecesInv
<1>1. DOMAIN partial = {} /\ net = {} /\ used = {}
  BY DEF ReassemblyInit
<1>2. Filed = {}
  BY <1>1 DEF Filed
<1> QED BY <1>1, <1>2 DEF AllSent, EachOnce

(* Unless the network duplicates, no chunk is part of two delivered        *)
(* frames: none is shown twice, and none of an earlier session of          *)
(* picam-raw that was shown is mixed into a new frame of the same number.  *)
THEOREM PiecesAlwaysShownOnce == ReassemblySpec => PiecesShownOnce
<1>1. PiecesInv /\ [ReassemblyNext]_reassemblyVars =>
        (mailbox' # mailbox /\ ~duplicated' =>
           \A c \in DOMAIN mailbox'.pieces :
              [session |-> mailbox'.pieces[c], seq |-> mailbox'.seq, chunk |-> c]
                 \notin used)
  <2> SUFFICES ASSUME PiecesInv, [ReassemblyNext]_reassemblyVars,
                      mailbox' # mailbox, ~duplicated',
                      NEW c \in DOMAIN mailbox'.pieces
               PROVE  [session |-> mailbox'.pieces[c], seq |-> mailbox'.seq,
                       chunk |-> c] \notin used
    OBVIOUS
  <2>1. PICK d \in net : Receive(d)
    BY DEF ReassemblyNext, reassemblyVars, Ping, SendFrame, RawRestarts, Close, Lose
  <2>2. /\ NetTyped /\ d \in Datagrams /\ ~duplicated
        /\ DOMAIN Stored(d)[d.seq] = Numbers
        /\ mailbox' = [seq |-> d.seq, pieces |-> Stored(d)[d.seq]]
    BY <2>1, ReceiveIs DEF PiecesInv, NetTyped
  <2>3. [session |-> mailbox'.pieces[c], seq |-> mailbox'.seq, chunk |-> c]
           \in Delivered(d)
    BY <2>2 DEF Delivered
  <2>4. Delivered(d) \subseteq Filed \union {d}
    BY <2>2, DeliveredWasFiled
  <2> QED BY <2>2, <2>3, <2>4 DEF PiecesInv, EachOnce
<1> QED BY InitOnce, StepOnce, <1>1, PTL DEF ReassemblySpec, PiecesShownOnce

-----------------------------------------------------------------------------
(* WholeFramesDelivered.  In picam-raw's first session every datagram that *)
(* was read is filed, or delivered with the rest of its frame, or as many  *)
(* newer frames have begun as the table has room for.                      *)
Newer(q) == {d.seq : d \in {e \in received : e.seq > q}}
Chunk(q, c) == [session |-> 0, seq |-> q, chunk |-> c]
Unfinished == \A q \in DOMAIN partial : DOMAIN partial[q] # Numbers
Begun == \A q \in DOMAIN partial : \E d \in received : d.seq = q
UsedWhole == \A d \in used : \A c \in Numbers : Chunk(d.seq, c) \in used
Accounted(d) ==
    \/ d.seq \in DOMAIN partial /\ d.chunk \in DOMAIN partial[d.seq]
    \/ d \in used
    \/ Cardinality(Newer(d.seq)) >= MaxInFlight
FirstSession ==
    session = 0 =>
       Begun /\ UsedWhole /\ \A d \in received : d.session = 0 /\ Accounted(d)
FramesInv == PiecesInv /\ Unfinished /\ FirstSession

(* The newer frames are finitely many, and a frame that has more of them   *)
(* once has them for ever.                                                 *)
LEMMA NewerGrows ==
  ASSUME received \subseteq Datagrams, received' \subseteq Datagrams,
         received \subseteq received', NEW q
  PROVE  /\ IsFiniteSet(Newer(q)) /\ Cardinality(Newer(q)) \in Nat
         /\ Cardinality(Newer(q)') \in Nat
         /\ Cardinality(Newer(q)) <= Cardinality(Newer(q)')
<1>1. IsFiniteSet(Seqs)
  BY ReassemblyBounds, FS_Interval DEF Seqs
<1>2. Newer(q) \in SUBSET Newer(q)' /\ Newer(q)' \in SUBSET Seqs
  BY DEF Newer, Datagrams
<1>3. IsFiniteSet(Newer(q)')
  BY <1>1, <1>2, FS_Subset
<1>4. IsFiniteSet(Newer(q)) /\ Cardinality(Newer(q)) <= Cardinality(Newer(q)')
  BY <1>2, <1>3, FS_Subset
<1> QED BY <1>3, <1>4, FS_CardinalityType

(* What eviction costs: the chunks of a frame that goes are excused.       *)
LEMMA EvictedIsLate ==
  ASSUME FramesInv, session = 0, NEW q \in DOMAIN partial \ DOMAIN Kept
  PROVE  Cardinality(Newer(q)) >= MaxInFlight
<1>t. ReassemblyTypeOK
  BY DEF FramesInv, PiecesInv, NetTyped
<1>1. /\ DOMAIN Kept \subseteq DOMAIN partial
      /\ Cardinality(DOMAIN Kept) = MaxInFlight
      /\ \A r \in DOMAIN Kept : r > q
  BY <1>t, Eviction
<1>2. DOMAIN Kept \in SUBSET Newer(q)
  <2>1. ASSUME NEW r \in DOMAIN Kept PROVE r \in Newer(q)
    <3>1. PICK e \in received : e.seq = r
      BY <1>1 DEF FramesInv, FirstSession, Begun
    <3>2. e.seq > q
      BY <1>1, <3>1
    <3> QED BY <3>1, <3>2 DEF Newer
  <2> QED BY <2>1
<1>3. IsFiniteSet(Newer(q)) /\ Cardinality(Newer(q)) \in Nat
  <2>1. IsFiniteSet(Seqs) /\ Newer(q) \in SUBSET Seqs
    <3>1. IsFiniteSet(Seqs)
      BY ReassemblyBounds, FS_Interval DEF Seqs
    <3>2. received \subseteq Datagrams
      BY <1>t DEF ReassemblyTypeOK
    <3> QED BY <3>1, <3>2 DEF Newer, Datagrams
  <2>2. IsFiniteSet(Newer(q))
    BY <2>1, FS_Subset
  <2> QED BY <2>2, FS_CardinalityType
<1>4. Cardinality(DOMAIN Kept) <= Cardinality(Newer(q))
  BY <1>2, <1>3, FS_Subset
<1> QED BY <1>1, <1>3, <1>4, ReassemblyBounds

(* A frame in the table never has all its chunks: one that has is          *)
(* delivered in the same turn of recvLoop.                                 *)
LEMMA ReceiveUnfinished ==
  ASSUME FramesInv, NEW d \in net, Receive(d)
  PROVE  Unfinished'
<1>t. ReassemblyTypeOK /\ d \in Datagrams
  BY ReceiveIs DEF FramesInv, PiecesInv, NetTyped
<1>0. DOMAIN Kept \subseteq DOMAIN partial
  BY <1>t, Eviction
<1>1. CASE DOMAIN Stored(d)[d.seq] = Numbers
  BY <1>t, <1>0, <1>1, ReceiveIs DEF FramesInv, Unfinished
<1>2. CASE DOMAIN Stored(d)[d.seq] # Numbers
  <2>1. partial' = Stored(d)
    BY <1>t, <1>2, ReceiveIs
  <2>2. ASSUME NEW q \in DOMAIN Stored(d), q # d.seq
        PROVE  DOMAIN Stored(d)[q] # Numbers
    <3>1. q \in DOMAIN Kept /\ Stored(d)[q] = partial[q]
      BY <1>t, <2>2, Filing
    <3> QED BY <1>0, <3>1 DEF FramesInv, Unfinished
  <2> QED BY <1>2, <2>1, <2>2 DEF Unfinished
<1> QED BY <1>1, <1>2

(* In the first session, what is delivered is a whole frame of it.         *)
LEMMA DeliveredOfFirst ==
  ASSUME FramesInv, session = 0, NEW d \in net, Receive(d),
         DOMAIN Stored(d)[d.seq] = Numbers
  PROVE  Delivered(d) = {Chunk(d.seq, c) : c \in Numbers}
<1>t. NetTyped /\ d \in Datagrams
  BY ReceiveIs DEF FramesInv, PiecesInv, NetTyped
<1>1. Delivered(d) \subseteq Filed \union {d}
  BY <1>t, DeliveredWasFiled
<1>2. ASSUME NEW c \in Numbers PROVE Stored(d)[d.seq][c] = 0
  <2> DEFINE e == [session |-> Stored(d)[d.seq][c], seq |-> d.seq, chunk |-> c]
  <2>1. e \in Delivered(d)
    BY DEF Delivered
  <2>2. e \in Datagrams /\ Sent(e)
    BY <1>t, <1>1, <2>1 DEF Filed, FramesInv, PiecesInv, AllSent
  <2>3. e.session \in Nat
    BY <2>2, ReassemblyBounds DEF Datagrams
  <2>4. e.session = 0
    BY <2>2, <2>3 DEF Sent
  <2> QED BY <2>4
<1> QED BY <1>2 DEF Delivered, Chunk

(* In the first session, a turn of recvLoop accounts for every datagram    *)
(* read so far, the new one included.                                      *)
LEMMA ReceiveAccounts ==
  ASSUME FramesInv, NEW d \in net, Receive(d)
  PROVE  FirstSession'
<1> SUFFICES ASSUME session = 0
             PROVE  Begun' /\ UsedWhole'
                    /\ \A e \in received' : e.session = 0 /\ Accounted(e)'
  BY ReceiveIs DEF FramesInv, PiecesInv, NetTyped, FirstSession
<1>t. NetTyped /\ ReassemblyTypeOK /\ d \in Datagrams
  BY ReceiveIs DEF FramesInv, PiecesInv, NetTyped
<1>0. /\ received' = received \union {d} /\ received \subseteq Datagrams
      /\ DOMAIN Kept \subseteq DOMAIN partial
  BY <1>t, ReceiveIs, Eviction DEF ReassemblyTypeOK
<1>1. d.session = 0
  <2>1. Sent(d) /\ d.session \in Nat
    BY <1>t, ReassemblyBounds DEF FramesInv, PiecesInv, AllSent, Datagrams
  <2> QED BY <2>1 DEF Sent
<1>2. d = Chunk(d.seq, d.chunk) /\ d.chunk \in Numbers
  BY <1>t, <1>1 DEF Datagrams, Chunk, Numbers
<1>3. DOMAIN partial' \subseteq DOMAIN Kept \union {d.seq}
  <2>1. CASE DOMAIN Stored(d)[d.seq] = Numbers
    BY <1>t, <2>1, ReceiveIs
  <2>2. CASE DOMAIN Stored(d)[d.seq] # Numbers
    BY <1>t, <2>2, ReceiveIs, Filing
  <2> QED BY <2>1, <2>2
<1>4. Begun'
  BY <1>0, <1>3 DEF FramesInv, FirstSession, Begun
<1>5. used \subseteq used'
  BY <1>t, FiledStep
<1>6. UsedWhole'
  <2>1. CASE DOMAIN Stored(d)[d.seq] = Numbers
    <3>1. used' = used \union {Chunk(d.seq, c) : c \in Numbers}
      BY <1>t, <2>1, FiledStep, DeliveredOfFirst
    <3>2. \A c \in Numbers : Chunk(d.seq, c).seq = d.seq
      BY DEF Chunk
    <3> QED BY <3>1, <3>2 DEF FramesInv, FirstSession, UsedWhole
  <2>2. CASE DOMAIN Stored(d)[d.seq] # Numbers
    <3>1. used' = used
      BY <1>t, <2>2, FiledStep
    <3> QED BY <3>1 DEF FramesInv, FirstSession, UsedWhole
  <2> QED BY <2>1, <2>2
<1>7. ASSUME NEW e \in received' PROVE e.session = 0 /\ Accounted(e)'
  <2>1. e.session = 0 /\ e \in Datagrams /\ e = Chunk(e.seq, e.chunk)
        /\ e.chunk \in Numbers
    <3>1. e.session = 0 /\ e \in Datagrams
      BY <1>t, <1>0, <1>1 DEF FramesInv, FirstSession
    <3> QED BY <3>1 DEF Datagrams, Chunk, Numbers
  <2> SUFFICES Accounted(e)'
    BY <2>1
  <2>2. /\ Cardinality(Newer(e.seq)) \in Nat /\ Cardinality(Newer(e.seq)') \in Nat
        /\ Cardinality(Newer(e.seq)) <= Cardinality(Newer(e.seq)')
    BY <1>t, <1>0, NewerGrows
  <2>3. CASE Cardinality(Newer(e.seq)) >= MaxInFlight
    BY <2>2, <2>3, ReassemblyBounds DEF Accounted
  <2>4. CASE e \in used
    BY <1>5, <2>4 DEF Accounted
  <2>5. CASE e = d \/ /\ e.seq \in DOMAIN Kept
                      /\ e.chunk \in DOMAIN partial[e.seq]
    <3>1. CASE e.seq = d.seq
      <4>1. e.chunk \in DOMAIN Stored(d)[d.seq]
        BY <1>t, <2>5, <3>1, Filing
      <4>2. CASE DOMAIN Stored(d)[d.seq] = Numbers
        <5>1. e \in used'
          BY <1>t, <2>1, <3>1, <4>2, FiledStep, DeliveredOfFirst
        <5> QED BY <5>1 DEF Accounted
      <4>3. CASE DOMAIN Stored(d)[d.seq] # Numbers
        <5>0. partial' = Stored(d)
          BY <1>t, <4>3, ReceiveIs
        <5>1. partial' = Stored(d) /\ d.seq \in DOMAIN Stored(d)
          BY <1>t, <5>0, Filing
        <5> QED BY <3>1, <4>1, <5>1 DEF Accounted
      <4> QED BY <4>2, <4>3
    <3>2. CASE e.seq # d.seq
      <4>1. e.seq \in DOMAIN Kept /\ e.chunk \in DOMAIN partial[e.seq]
        BY <2>5, <3>2
      <4>2. e.seq \in DOMAIN partial' /\ partial'[e.seq] = partial[e.seq]
        <5>1. CASE DOMAIN Stored(d)[d.seq] = Numbers
          BY <1>t, <3>2, <4>1, <5>1, ReceiveIs
        <5>2. CASE DOMAIN Stored(d)[d.seq] # Numbers
          <6>1. partial' = Stored(d)
            BY <1>t, <5>2, ReceiveIs
          <6> QED BY <1>t, <3>2, <4>1, <6>1, Filing
        <5> QED BY <5>1, <5>2
      <4> QED BY <4>1, <4>2 DEF Accounted
    <3> QED BY <3>1, <3>2
  <2>6. CASE e \in received /\ e.seq \in DOMAIN partial \ DOMAIN Kept
    <3>1. Cardinality(Newer(e.seq)) >= MaxInFlight
      BY <2>6, EvictedIsLate
    <3> QED BY <2>3, <3>1
  <2>7. e = d \/ (e \in received /\ Accounted(e))
    BY <1>0 DEF FramesInv, FirstSession
  <2> QED BY <2>3, <2>4, <2>5, <2>6, <2>7 DEF Accounted
<1> QED BY <1>4, <1>6, <1>7

(* Every step keeps the invariant.                                         *)
LEMMA StepFrames ==
  ASSUME FramesInv, [ReassemblyNext]_reassemblyVars
  PROVE  FramesInv'
<1>1. PiecesInv'
  BY StepOnce DEF FramesInv
<1>2. CASE RawRestarts
  <2>1. session' # 0
    BY <1>2, ReassemblyBounds
       DEF RawRestarts, FramesInv, PiecesInv, NetTyped, ReassemblyTypeOK
  <2> QED BY <1>1, <1>2, <2>1 DEF RawRestarts, FramesInv, Unfinished, FirstSession
<1>3. ASSUME UNCHANGED <<session, partial, received, used>> PROVE FramesInv'
  <2>1. \A q : Newer(q)' = Newer(q)
    BY <1>3 DEF Newer
  <2> QED BY <1>1, <1>3, <2>1
          DEF FramesInv, Unfinished, FirstSession, Begun, UsedWhole, Accounted
<1>4. CASE UNCHANGED reassemblyVars \/ Ping \/ SendFrame \/ Close
             \/ \E d \in net : Lose(d)
  BY <1>3, <1>4 DEF reassemblyVars, Ping, SendFrame, Close, Lose
<1>5. ASSUME NEW d \in net, Receive(d) PROVE FramesInv'
  BY <1>1, <1>5, ReceiveUnfinished, ReceiveAccounts DEF FramesInv
<1> QED BY <1>2, <1>4, <1>5 DEF ReassemblyNext

(* It holds at the start.                                                  *)
LEMMA InitFrames == ReassemblyInit => FramesInv
<1> SUFFICES ASSUME ReassemblyInit PROVE Unfinished /\ FirstSession
  BY InitOnce DEF FramesInv
<1>1. DOMAIN partial = {} /\ received = {} /\ used = {}
  BY DEF ReassemblyInit
<1> QED BY <1>1 DEF Unfinished, FirstSession, Begun, UsedWhole

(* While picam-raw has not restarted, a frame all of whose chunks arrived, *)
(* in whatever order and between those of whatever other frames, has been  *)
(* delivered, unless MaxInFlight newer frames had begun to arrive.         *)
THEOREM WholeFramesAlwaysDelivered == ReassemblySpec => []WholeFramesDelivered
<1>1. FramesInv => WholeFramesDelivered
  <2> SUFFICES ASSUME FramesInv, NEW q \in Seqs, session = 0,
                      [session : {0}, seq : {q}, chunk : Numbers] \subseteq received,
                      ~(Cardinality(Newer(q)) >= MaxInFlight)
               PROVE  [session : {0}, seq : {q}, chunk : Numbers] \subseteq used
    BY DEF WholeFramesDelivered, Newer, Numbers
  <2>0. \A e \in [session : {0}, seq : {q}, chunk : Numbers] :
           e.chunk \in Numbers /\ e = Chunk(q, e.chunk)
    BY DEF Chunk
  <2>1. ASSUME NEW c \in Numbers
        PROVE  /\ Chunk(q, c) \in received
               /\ Chunk(q, c).seq = q /\ Chunk(q, c).chunk = c
    <3>1. Chunk(q, c) \in [session : {0}, seq : {q}, chunk : Numbers]
      BY DEF Chunk
    <3> QED BY <3>1 DEF Chunk
  <2>2. \A c \in Numbers : \/ q \in DOMAIN partial /\ c \in DOMAIN partial[q]
                           \/ Chunk(q, c) \in used
    BY <2>1 DEF FramesInv, FirstSession, Accounted
  <2>3. CASE \E c \in Numbers : Chunk(q, c) \in used
    <3>1. \A c \in Numbers : Chunk(q, c) \in used
      BY <2>1, <2>3 DEF FramesInv, FirstSession, UsedWhole
    <3> QED BY <2>0, <3>1
  <2>4. CASE \A c \in Numbers : Chunk(q, c) \notin used
    <3>1. 0 \in Numbers
      BY ReassemblyBounds DEF Numbers
    <3>2. q \in DOMAIN partial /\ Numbers \subseteq DOMAIN partial[q]
      BY <2>2, <2>4, <3>1
    <3>3. DOMAIN partial[q] \subseteq Numbers
      <4>1. partial[q] \in PieceMaps
        BY <3>2 DEF FramesInv, PiecesInv, NetTyped, ReassemblyTypeOK, PieceMaps, Numbers
      <4> QED BY <4>1, PiecesAre
    <3> QED BY <3>2, <3>3 DEF FramesInv, Unfinished
  <2> QED BY <2>3, <2>4
<1> QED BY InitFrames, StepFrames, <1>1, PTL DEF ReassemblySpec
=============================================================================
