-------------------------------- MODULE Wire --------------------------------
(***************************************************************************)
(* The keg port at the level of reads: TCP delivers what a device writes   *)
(* in pieces of any size, Framer reassembles the frames, every read that   *)
(* completes some is acknowledged once, and the batch is decoded and       *)
(* ingested together.  It implements KegStream, which knows frames only.   *)
(*                                                                         *)
(* A cell of the stream is a field: of a header the command, the message   *)
(* id and the third field, of a body what a NUL ends.  A cut within a      *)
(* field leaves its frame as incomplete as a cut before it.                *)
(***************************************************************************)
EXTENDS Plaato

CONSTANTS
    HeaderSize,     \* cells of a header: here 3
    MaxBodySize,
    readBufferSize, \* cells of one read at most
    Streams,        \* what devices may send on a connection
    MaxConnections  \* bound: connections

Token(f) == f.cmd \in {"login", "get_shared_dash"}
PinWrite(f) == f.cmd \in {"hardware", "property"}

identifies(f) == identifiesAKeg(Decode(<<f>>))

(* What the firmware sends: its token, once, and before any pin write.       *)
FromFirmware(frames) ==
    \A i \in DOMAIN frames :
        /\ Token(frames[i]) =>
              /\ frames[i].body # <<>> /\ frames[i].body[1] # Blank
              /\ \A j \in DOMAIN frames \ {i} : ~Token(frames[j])
        /\ PinWrite(frames[i]) => \E j \in 1 .. i - 1 : Token(frames[j])

ASSUME WireAssumption ==
    /\ HeaderSize = 3 /\ MaxBodySize \in Nat /\ readBufferSize \in Nat \ {0}
    /\ MaxConnections \in Nat
    /\ Streams \subseteq Seq([cmd : STRING, id : Nat, third : Nat, body : Seq(STRING)])
    /\ \A frames \in Streams :
          /\ FromFirmware(frames)
          /\ \A i \in DOMAIN frames :
                IF frames[i].cmd = "response" THEN frames[i].body = <<>>
                ELSE frames[i].third > MaxBodySize \/ frames[i].third = Len(frames[i].body)

VARIABLES
    stream,         \* the frames that the device of the connection sends
    read,           \* how many cells of them were read
    buf,            \* Framer.buf: cells of a frame that is not complete
    open,           \* whether handle still reads
    state,          \* connState, and what is stored
    (* History, read by properties and bounds only. *)
    taken,          \* how many frames were ingested
    connections

vars == <<stream, read, buf, open, state, taken, connections>>

Init ==
    /\ stream = <<>> /\ read = 0 /\ buf = <<>> /\ open = FALSE
    /\ state = [peer |-> Stranger, stored |-> NothingStored]
    /\ taken = 0 /\ connections = 0

Encode(f) == <<f.cmd, f.id, f.third>> \o f.body

Cells == FlattenSeq([i \in DOMAIN stream |-> Encode(stream[i])])

(***************************************************************************)
(* Feed: every complete frame of a buffer, what is left of it, and whether *)
(* a body is longer than a frame may be.  A frame begins after p cells.    *)
(***************************************************************************)
Header(b, p) == p + HeaderSize <= Len(b)

Reply(b, p) == b[p + 1] = "response"

Size(b, p) == IF Reply(b, p) THEN HeaderSize ELSE HeaderSize + b[p + HeaderSize]

Corrupt(b, p, limit) == Header(b, p) /\ ~Reply(b, p) /\ b[p + HeaderSize] > limit

Complete(b, p, limit) ==
    Header(b, p) /\ ~Corrupt(b, p, limit) /\ p + Size(b, p) \in 0 .. Len(b)

FrameAt(b, p) ==
    IF Reply(b, p) THEN Response(b[p + 2], b[p + HeaderSize])
    ELSE Frame(b[p + 1], b[p + 2], SubSeq(b, p + HeaderSize + 1, p + Size(b, p)))

(* Where the loop is after k frames, or after all of them. *)
Starts(b, limit) ==
    LET start[k \in 0 .. Len(b)] ==
          IF k = 0 THEN 0
          ELSE LET p == start[k - 1]
               IN IF Complete(b, p, limit) THEN p + Size(b, p) ELSE p
    IN start

FeedUpTo(b, limit) ==
    LET start == Starts(b, limit)
        n == CHOOSE k \in 0 .. Len(b) :
                /\ ~Complete(b, start[k], limit)
                /\ \A j \in 0 .. k - 1 : Complete(b, start[j], limit)
    IN [frames |-> [i \in 1 .. n |-> FrameAt(b, start[i - 1])],
        rest |-> SubSeq(b, start[n] + 1, Len(b)),
        bad |-> Corrupt(b, start[n], limit)]

(* Mutant: a length is believed. *)
FeedUnlimited(b) == FeedUpTo(b, MaxBodySize + 100)

Feed(b) == FeedUpTo(b, MaxBodySize)

(***************************************************************************)
(* handle.                                                                 *)
(***************************************************************************)

Connect ==
    /\ ~open
    /\ connections < MaxConnections /\ connections' = connections + 1
    /\ stream' \in Streams
    /\ open' = TRUE
    /\ read' = 0 /\ buf' = <<>> /\ taken' = 0
    /\ state' = [state EXCEPT !.peer = Stranger]

(* A read of n cells.  The acknowledgement goes out before the batch is      *)
(* ingested, and if it cannot the batch is dropped with the connection.  A   *)
(* transaction may fail; the connection goes on.                             *)
Read(n, sent, stores) ==
    LET got == Feed(buf \o SubSeq(Cells, read + 1, read + n))
        after == IF got.frames = <<>> \/ ~sent THEN state
                 ELSE ingest(state, got.frames, stores)
    IN /\ open
       /\ read' = read + n
       /\ buf' = got.rest
       /\ state' = after
       /\ taken' = IF sent THEN taken + Len(got.frames) ELSE taken
       /\ open' = /\ ~got.bad /\ ~after.peer.refused
                  /\ sent \/ got.frames = <<>>
       /\ UNCHANGED <<stream, connections>>

(* The device, the network, a timeout or the registry ends the connection. *)
Close ==
    /\ open
    /\ open' = FALSE
    /\ UNCHANGED <<stream, read, buf, state, taken, connections>>

Next ==
    \/ Connect \/ Close
    \/ \E n \in 1 .. readBufferSize : \E sent, stores \in BOOLEAN :
           read + n <= Len(Cells) /\ Read(n, sent, stores)

Spec == Init /\ [][Next]_vars

(***************************************************************************)
(* Properties.                                                             *)
(***************************************************************************)

(* However the stream is cut into reads, what is stored and what is known of *)
(* the device are as if each frame had come alone and in order, up to the    *)
(* last one taken: nothing is skipped, taken twice, taken out of its place,  *)
(* or taken after a frame that is too long or a token that is refused; and   *)
(* only the pins that come before the one that tells a keg, and not in one   *)
(* read with it, are lost.                                                   *)
Stream == INSTANCE KegStream
StreamTakenInOrder == Stream!Spec

(* Between two reads an open connection holds less than one frame, so a      *)
(* device cannot make the buffer grow.                                       *)
BufferBounded == open => Len(buf) < HeaderSize + MaxBodySize
=============================================================================
