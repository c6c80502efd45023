------------------------------- MODULE Plaato -------------------------------
(***************************************************************************)
(* What frames mean: the packet that Decode makes of the frames of one     *)
(* read, and what ingest does with it.  Pure operators; KegStream applies  *)
(* them to one frame at a time, Wire to whatever a read completed.         *)
(*                                                                         *)
(* A body is the sequence of its fields, which a NUL separates.  A field   *)
(* that is no number is "junk".  Pours, the history and the broadcast that *)
(* follow ApplyPacket are in other modules.                                *)
(***************************************************************************)
EXTENDS Naturals, Sequences, SequencesExt

CONSTANTS
    Tokens,             \* the auth tokens that ValidDeviceID accepts
    None,               \* no token
    hardwarePins,       \* from a pin to [name, kind, transient]
    propertyPins,       \* the same, from <<pin, property>>
    kegIdentifyingPins, \* names that only a keg sends
    includeUnknown

ASSUME PlaatoAssumption == None \notin Tokens /\ includeUnknown \in BOOLEAN

(* A frame as Blynk carries it: third is the length of the body, or the      *)
(* status of a response, which has no body.                                  *)
Frame(cmd, id, body) == [cmd |-> cmd, id |-> id, third |-> Len(body), body |-> body]
Response(id, status) == [cmd |-> "response", id |-> id, third |-> status, body |-> <<>>]

(* f with the keys of g, those of g as g has them. *)
Updated(f, g) == [x \in DOMAIN f \cup DOMAIN g |-> IF x \in DOMAIN g THEN g[x] ELSE f[x]]

(***************************************************************************)
(* Decode.                                                                 *)
(***************************************************************************)

Blank == ""  \* a field of no bytes, and a packet of no device

EmptyPacket == [deviceID |-> Blank, internal |-> <<>>, props |-> <<>>, unknown |-> <<>>]

splitBody(body) == SelectSeq(body, LAMBDA field : field # Blank)

(* Pairs of a key and a value; an odd field at the end has no value. *)
InternalOf(fields) ==
    FoldLeft(LAMBDA map, i : Updated(map, [k \in {fields[2 * i - 1]} |-> fields[2 * i]]),
             <<>>, [i \in 1 .. Len(fields) \div 2 |-> i])

parseValue(pin, raw) == pin.kind = "string" \/ raw # "junk"

(* A value that does not parse is dropped; an unknown pin is kept if asked. *)
decodePinWrite(pkt, cmd, fields) ==
    LET known == IF cmd = "hardware" THEN fields[2] \in DOMAIN hardwarePins
                 ELSE <<fields[1], fields[2]>> \in DOMAIN propertyPins
        pin == IF cmd = "hardware" THEN hardwarePins[fields[2]]
               ELSE propertyPins[<<fields[1], fields[2]>>]
    IN IF cmd = "hardware" /\ fields[1] # "vw" THEN pkt
       ELSE IF ~known
       THEN IF includeUnknown
            THEN [pkt EXCEPT !.unknown = Updated(@, [k \in {<<cmd, fields[1], fields[2]>>} |-> fields[3]])]
            ELSE pkt
       ELSE IF parseValue(pin, fields[3])
       THEN [pkt EXCEPT !.props =
                Append(@, [name |-> pin.name, value |-> fields[3], transient |-> pin.transient])]
       ELSE pkt

DecodeFrame(pkt, f) ==
    CASE f.cmd \in {"login", "get_shared_dash"} ->
           [pkt EXCEPT !.deviceID = IF f.body # <<>> /\ f.body[1] # Blank THEN f.body[1] ELSE @]
      [] f.cmd = "internal" ->
           [pkt EXCEPT !.internal = Updated(@, InternalOf(splitBody(f.body)))]
      [] f.cmd \in {"hardware", "property"} /\ Len(splitBody(f.body)) = 3 ->
           decodePinWrite(pkt, f.cmd, splitBody(f.body))
      [] OTHER -> pkt

Decode(frames) == FoldLeft(DecodeFrame, EmptyPacket, frames)

(***************************************************************************)
(* ingest: what a connection knows of its device (connState), and what the *)
(* store holds of the devices, by token.                                   *)
(***************************************************************************)

Stranger == [kegID |-> None, confirmed |-> FALSE, pendingInternal |-> <<>>, refused |-> FALSE]
NothingStored == <<>>
NewKeg == [props |-> <<>>, internal |-> <<>>, extra |-> <<>>]

identifiesAKeg(pkt) == \E i \in DOMAIN pkt.props : pkt.props[i].name \in kegIdentifyingPins

SetPin(props, p) ==
    IF p.transient THEN props ELSE Updated(props, [n \in {p.name} |-> p.value])

ApplyPacket(rows, kegID, pkt, internal) ==
    LET k == IF kegID \in DOMAIN rows THEN rows[kegID] ELSE NewKeg
    IN Updated(rows, [id \in {kegID} |->
          [props |-> FoldLeft(SetPin, k.props, pkt.props),
           internal |-> Updated(k.internal, internal),
           extra |-> Updated(k.extra, pkt.unknown)]])

(* Mutant: metadata that was held is laid over newer metadata. *)
WithPendingOver(held, fresh) == Updated(fresh, held)

WithPending(held, fresh) == Updated(held, fresh)

(* stores is whether the transaction commits; what was held is given up first. *)
ingest(s, frames, stores) ==
    LET pkt == Decode(frames)
        kegID == IF pkt.deviceID # Blank THEN pkt.deviceID ELSE s.peer.kegID
        confirmed == s.peer.confirmed \/ identifiesAKeg(pkt)
        internal == WithPending(s.peer.pendingInternal, pkt.internal)
        known == [s.peer EXCEPT !.kegID = kegID, !.confirmed = confirmed]
    IN IF pkt.deviceID # Blank /\ pkt.deviceID \notin Tokens
       THEN [s EXCEPT !.peer = [Stranger EXCEPT !.refused = TRUE]]
       ELSE IF ~confirmed
       THEN [s EXCEPT !.peer = [known EXCEPT !.pendingInternal = internal]]
       ELSE IF kegID = None THEN [s EXCEPT !.peer = known]
       ELSE [peer |-> [known EXCEPT !.pendingInternal = <<>>],
             stored |-> IF ~stores \/ (pkt.props = <<>> /\ internal = <<>> /\ pkt.unknown = <<>>)
                        THEN s.stored
                        ELSE ApplyPacket(s.stored, kegID, pkt, internal)]
=============================================================================
