--------------------------- MODULE RecordingNames ---------------------------
(***************************************************************************)
(* The values the recording specifications share.                          *)
(***************************************************************************)
EXTENDS Naturals, Sequences, Functions

CONSTANTS
    Files,        \* names of recordings (a fresh UUID each in the program)
    None,         \* no recording (the empty path)
    MaxEvents     \* bound on the number of non-empty detection events

ASSUME NoneIsNoFile == None \notin Files
ASSUME MaxEventsIsNat == MaxEvents \in Nat

\* Non-empty detection events, numbered in the order they are reported.
Event == 1..MaxEvents

\* A finished session on its way to disk: flush's locals file and events.
NothingClosing == [file |-> None, events |-> <<>>]

\* A log holds no event twice and holds them in the order they came.
Chronological(s) == \A i, j \in DOMAIN s : i < j => s[i] < s[j]
=============================================================================
