----------------------------- MODULE KegStream -----------------------------
(***************************************************************************)
(* What the keg port promises, whatever TCP does to the bytes: the frames  *)
(* a device sent on a connection are taken in the order it sent them, each *)
(* once and as if it had come alone, up to the first one too long to be    *)
(* true or the end of the connection.  A transaction that fails loses what *)
(* was taken with it, and nothing else.                                    *)
(*                                                                         *)
(* In one thing the company a frame comes in matters: until a pin has told *)
(* that the device is a keg, its other pins are stored when they are taken *)
(* together with that pin, and lost when they are not.                     *)
(***************************************************************************)
EXTENDS Naturals, Sequences, SequencesExt

CONSTANTS
    MaxBodySize,
    Streams,        \* what devices may send on a connection
    Stranger,       \* a device of which nothing is known
    NothingStored,
    PinWrite(_),    \* whether a frame writes a pin
    identifies(_),  \* and one that only a keg has
    ingest(_, _, _) \* what becomes of a state by frames; the last: whether they are stored

VARIABLES
    stream,         \* the frames that the device of the connection sends
    taken,          \* how many of them were taken
    state           \* what is known of the device, and what is stored

streamVars == <<stream, taken, state>>

Init ==
    /\ stream = <<>> /\ taken = 0
    /\ state = [peer |-> Stranger, stored |-> NothingStored]

Connect ==
    /\ stream' \in Streams
    /\ taken' = 0
    /\ state' = [state EXCEPT !.peer = Stranger]

Sound(f) == f.cmd = "response" \/ f.third <= MaxBodySize

(* A frame by itself; none once a token was refused.  A pin of what is known *)
(* to be a keg is a keg's.                                                   *)
Alone(s, f, known, stores) ==
    IF s.peer.refused THEN s
    ELSE ingest(IF known /\ PinWrite(f) THEN [s EXCEPT !.peer.confirmed = TRUE] ELSE s,
                <<f>>, stores)

Known(frames) == \E i \in DOMAIN frames : identifies(frames[i])

(* The next n frames, one by one. *)
Each(n, stores) ==
    LET frames == SubSeq(stream, taken + 1, taken + n)
    IN FoldLeft(LAMBDA s, f : Alone(s, f, Known(frames), stores), state, frames)

Take(n) ==
    /\ ~state.peer.refused
    /\ \A i \in taken + 1 .. taken + n : Sound(stream[i])
    /\ taken' = taken + n
    /\ \E stores \in BOOLEAN : state' = Each(n, stores)
    /\ UNCHANGED stream

Next == Connect \/ \E n \in 1 .. Len(stream) - taken : Take(n)

Spec == Init /\ [][Next]_streamVars
=============================================================================
