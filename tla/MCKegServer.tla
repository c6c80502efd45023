---------------------------- MODULE MCKegServer ----------------------------
(***************************************************************************)
(* Small instances of KegServer: which devices are on the network and what *)
(* they say.  A scale logs in, sends metadata, then pins; an airlock logs  *)
(* in and sends a pin a keg does not have to itself.                       *)
(***************************************************************************)
EXTENDS KegServer, TLC

CONSTANTS k1, k2, c1, c2

Msg(id, pins, meta) == [id |-> id, pins |-> pins, meta |-> meta]
Login(k) == Msg(k, "none", FALSE)
Metadata == Msg(NoKeg, "none", TRUE)
Pins(p)  == Msg(NoKeg, p, FALSE)

(* Two sockets of one scale that reports pours; the second announces its token *)
(* in the segment that reports the start of a pour.                            *)
OneScaleTwice ==
    (c1 :> {Login(k1), Pins("start"), Pins("stop")}) @@
    (c2 :> {Msg(k1, "start", FALSE), Pins("stop")})

(* A scale whose metadata comes before, with and after its first pin, beside *)
(* an airlock that sends the same metadata and tries a token no device has.  *)
ScaleAndAirlock ==
    (c1 :> {Login(k1), Metadata, Msg(NoKeg, "firmware", TRUE), Pins("amount")}) @@
    (c2 :> {Login(k2), Metadata, Pins("other"), Msg(BadToken, "none", FALSE)})

SafetyNetworks == {OneScaleTwice, ScaleAndAirlock}

(* Every segment carries the token and a reading, and may be sent for ever. *)
LivenessNetworks == {[c \in {c1, c2} |-> {Msg(k1, "firmware", FALSE)}]}

HeartbeatNetworks == {[c \in {c1} |-> {Login(k1), Pins("none")}]}
=============================================================================
