------------------------------ MODULE Reassembly ------------------------------
(***************************************************************************)
(* internal/rawframe: one Receiver puts the UDP chunks of picam-raw's      *)
(* frames together again and hands each whole frame to a callback, which   *)
(* stores it in the resolution's live Mailbox.                             *)
(*                                                                         *)
(* The network loses, reorders and duplicates datagrams, and picam-raw may *)
(* restart, after which it numbers frames from 0 again and needs the next  *)
(* ping before it sends.  A datagram that recvLoop drops on sight (short,  *)
(* empty, or of a frame of 0 chunks) is a lost one.  A chunk's payload is  *)
(* the session of picam-raw that sent it.  Every frame has Chunks chunks   *)
(* of the right size.                                                      *)
(***************************************************************************)
EXTENDS Integers, FiniteSets, Functions, FiniteSetsExt

CONSTANTS
    Chunks,          \* totalChunks of every frame
    MaxInFlight,     \* maxInFlightFrames, 32 in the code
    MaxSeq,          \* bound: frames of one session of picam-raw
    MaxNet,          \* bound: datagrams on their way
    Restarts         \* bound: restarts of picam-raw

ASSUME ReassemblyBounds == /\ Chunks \in Nat \ {0, 1} /\ MaxInFlight \in Nat \ {0}
                           /\ MaxSeq \in Nat /\ MaxNet \in Nat /\ Restarts \in Nat

VARIABLES
    \* picam-raw
    session, nextSeq, subscribed,
    net,             \* datagrams on their way
    \* the receiver
    open,            \* its socket
    partial,         \* recvLoop's table: frameSeq -> chunkSeq -> payload
    mailbox,         \* the latest frame, or NoFrame
    \* history, read by properties only
    received,        \* datagrams recvLoop has read, until picam-raw restarts
    used,            \* those that were part of a delivered frame
    duplicated       \* the network has duplicated one

reassemblyVars == <<session, nextSeq, subscribed, net, open, partial, mailbox,
          received, used, duplicated>>

Seqs == 0..MaxSeq
Datagrams == [session : 0..Restarts, seq : Seqs, chunk : 0..(Chunks - 1)]
NoFrame == <<>>

ReassemblyInit ==
    /\ session = 0 /\ nextSeq = 0 /\ subscribed = FALSE /\ net = {}
    /\ open = TRUE /\ partial = <<>> /\ mailbox = NoFrame
    /\ received = {} /\ used = {} /\ duplicated = FALSE

-----------------------------------------------------------------------------
(* picam-raw and the network *)

\* pingLoop: HELLO, at once and then every few seconds.
Ping ==
    /\ open /\ ~subscribed /\ subscribed' = TRUE
    /\ UNCHANGED <<session, nextSeq, net, open, partial, mailbox,
                   received, used, duplicated>>

SendFrame ==
    /\ open /\ subscribed /\ nextSeq < MaxSeq /\ Cardinality(net) + Chunks <= MaxNet
    /\ net' = net \union
         [session : {session}, seq : {nextSeq}, chunk : 0..(Chunks - 1)]
    /\ nextSeq' = nextSeq + 1
    /\ UNCHANGED <<session, subscribed, open, partial, mailbox,
                   received, used, duplicated>>

RawRestarts ==
    /\ open /\ session < Restarts /\ session' = session + 1
    /\ nextSeq' = 0 /\ subscribed' = FALSE /\ received' = {}
    /\ UNCHANGED <<net, open, partial, mailbox, used, duplicated>>

Lose(d) ==
    /\ net' = net \ {d}
    /\ UNCHANGED <<session, nextSeq, subscribed, open, partial, mailbox,
                   received, used, duplicated>>

-----------------------------------------------------------------------------
(* The receiver *)

oldest(table) == Min(DOMAIN table)

\* Bad: room is made one frame early (WholeFramesDelivered).
BadTooMany(table) == Cardinality(DOMAIN table) >= MaxInFlight
tooMany(table) == Cardinality(DOMAIN table) > MaxInFlight

\* Bad: no room is made (TypeOK).
BadMakeRoom(table) == table
\* Room is made for any datagram, also for one of a frame in the table, which
\* may be the very frame that goes.
MakeRoom(table) ==
    IF tooMany(table) THEN Restrict(table, DOMAIN table \ {oldest(table)})
                      ELSE table

\* The assignment table[key] = value.
Put(table, key, value) ==
    [k \in DOMAIN table \union {key} |-> IF k = key THEN value ELSE table[k]]

\* Bad: a fresh frame goes when the table is full (StallLasts).
BadStored(d) ==
    LET kept == IF d.seq \in DOMAIN partial THEN partial ELSE MakeRoom(partial)
        had == IF d.seq \in DOMAIN kept THEN kept[d.seq] ELSE <<>>
    IN Put(kept, d.seq, Put(had, d.chunk, d.session))
Stored(d) ==
    LET kept == MakeRoom(partial)
        had == IF d.seq \in DOMAIN kept THEN kept[d.seq] ELSE <<>>
    IN Put(kept, d.seq, Put(had, d.chunk, d.session))

\* Bad: a delivered frame stays in the table (PiecesShownOnce).
BadRemoved(table, seq) == table
Removed(table, seq) == Restrict(table, DOMAIN table \ {seq})

\* One turn of recvLoop.  The network duplicates one datagram at most.
Receive(d) ==
    LET table == Stored(d)
        pieces == table[d.seq]
        whole == Cardinality(DOMAIN pieces) = Chunks
    IN /\ open
       /\ received' = IF session = 0 THEN received \union {d} ELSE {}
       /\ \/ net' = net \ {d} /\ UNCHANGED duplicated
          \/ UNCHANGED net /\ ~duplicated /\ duplicated' = TRUE
       /\ IF whole
          THEN /\ partial' = Removed(table, d.seq)
               /\ mailbox' = [seq |-> d.seq, pieces |-> pieces]
               /\ used' = used \union {[session |-> pieces[c], seq |-> d.seq,
                                        chunk |-> c] : c \in DOMAIN pieces}
          ELSE partial' = table /\ UNCHANGED <<mailbox, used>>
       /\ UNCHANGED <<session, nextSeq, subscribed, open>>

\* Shutdown: the socket closes under recvLoop, and both loops return.
Close ==
    /\ open /\ open' = FALSE /\ net' = {}
    /\ UNCHANGED <<session, nextSeq, subscribed, partial, mailbox,
                   received, used, duplicated>>

ReassemblyNext ==
    \/ Ping \/ SendFrame \/ RawRestarts \/ Close
    \/ \E d \in net : Lose(d) \/ Receive(d)

ReassemblySpec == ReassemblyInit /\ [][ReassemblyNext]_reassemblyVars

-----------------------------------------------------------------------------
ReassemblyTypeOK ==
    /\ session \in 0..Restarts /\ nextSeq \in Seqs /\ subscribed \in BOOLEAN
    /\ net \subseteq Datagrams /\ Cardinality(net) <= MaxNet
    /\ open \in BOOLEAN /\ duplicated \in BOOLEAN
    /\ DOMAIN partial \subseteq Seqs
    /\ \A q \in DOMAIN partial :
          partial[q] \in UNION {[cs -> 0..Restarts] : cs \in SUBSET (0..(Chunks - 1))}
    /\ Cardinality(DOMAIN partial) <= MaxInFlight + 1
    /\ mailbox = NoFrame \/ mailbox \in
          [seq : Seqs, pieces : [0..(Chunks - 1) -> 0..Restarts]]
    /\ received \subseteq Datagrams /\ used \subseteq Datagrams

(* While picam-raw has not restarted, a frame all of whose chunks arrived, *)
(* in any order and between those of other frames, has been delivered,     *)
(* unless MaxInFlight newer frames had begun to arrive: recvLoop's         *)
(* eviction costs late frames only.                                        *)
WholeFramesDelivered ==
    \A q \in Seqs :
        LET chunks == [session : {0}, seq : {q}, chunk : 0..(Chunks - 1)]
        IN session = 0 /\ chunks \subseteq received =>
              \/ chunks \subseteq used
              \/ Cardinality({d.seq : d \in {e \in received : e.seq > q}})
                    >= MaxInFlight

(* Unless the network duplicates datagrams, no chunk is part of two        *)
(* delivered frames: a frame is not shown twice, and after a restart of    *)
(* picam-raw no shown chunk is mixed into a new frame of the same number.  *)
PiecesShownOnce ==
    [][mailbox' /= mailbox /\ ~duplicated' =>
         \A c \in DOMAIN mailbox'.pieces :
            [session |-> mailbox'.pieces[c], seq |-> mailbox'.seq, chunk |-> c]
               \notin used]_reassemblyVars

(* What a restart of picam-raw meets: as long as the table holds           *)
(* MaxInFlight frames numbered above the one a chunk belongs to, that      *)
(* chunk completes no frame.  Lossy frames of the earlier session never    *)
(* leave the table by themselves, so with MaxInFlight of them no frame is  *)
(* delivered until picam-raw's new numbers pass theirs.                    *)
StallLasts ==
    [][\A d \in net :
         /\ Cardinality({q \in DOMAIN partial : q > d.seq}) >= MaxInFlight
         /\ Receive(d)
         => UNCHANGED mailbox]_reassemblyVars
=============================================================================
