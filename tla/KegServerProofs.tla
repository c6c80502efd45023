-------------------------- MODULE KegServerProofs --------------------------
(***************************************************************************)
(* Theorems about KegServer for any number of kegs, sockets and requests.  *)
(***************************************************************************)
EXTENDS KegServer, TLAPS

(***************************************************************************)
(* Type correctness.                                                       *)
(***************************************************************************)

(* The empty packet has the type of a packet.                                *)
LEMMA NothingType == Nothing \in Packet
BY DEF Nothing, Packet

(* The empty id and the nil connection are no kegs or connections.           *)
LEMMA Nils == NoKeg \notin Kegs /\ NoConn \notin Conns
BY KegServerAssumption

(* The empty packet identifies nothing.                                      *)
LEMMA NothingFacts == Nothing.id \notin Kegs /\ Nothing.pins \notin KegPins
BY KegServerAssumption DEF Nothing, KegPins

(* Changing whether a packet carries metadata leaves a packet.               *)
LEMMA MetaType ==
    ASSUME NEW p \in Packet, NEW m \in BOOLEAN
    PROVE  p.meta \in BOOLEAN /\ [p EXCEPT !.meta = m] \in Packet
BY DEF Packet

(* ApplyPacket leaves a row, whether or not there was one.                   *)
LEMMA MergeType ==
    ASSUME NEW row \in Row \cup {NoRow}, NEW p \in Packet
    PROVE  Merge(row, p) \in Row
BY DEF Merge, Packet, Row

(* SetPouring(false) leaves a row.                                           *)
LEMMA PouringType ==
    ASSUME NEW row \in Row
    PROVE  [row EXCEPT !.pouring = FALSE, !.reading = TRUE] \in Row
BY DEF Row

(* Gate keeps every type: the packet it passes on is the one it got, with    *)
(* the metadata held for it.                                                 *)
LEMMA GateType ==
    ASSUME TypeOK, NEW c \in Conns, Gate(c)
    PROVE  TypeOK'
<1> DEFINE merged == pkt[c].meta \/ held[c]
<1> USE DEF TypeOK
<1>1. pkt[c] \in Packet /\ merged \in BOOLEAN
  BY MetaType
<1>2. [pkt[c] EXCEPT !.meta = merged] \in Packet
  BY <1>1, MetaType
<1>3. pkt' \in [Conns -> Packet]
  <2>1. CASE pkt' = pkt
    BY <2>1
  <2>2. CASE pkt' = [pkt EXCEPT ![c] = Nothing]
    BY <2>2, NothingType
  <2>3. CASE pkt' = [pkt EXCEPT ![c].meta = merged]
    <3>1. pkt' = [pkt EXCEPT ![c] = [pkt[c] EXCEPT !.meta = merged]]
      BY <2>3
    <3> QED
      BY <3>1, <1>2
  <2> QED
    BY <2>1, <2>2, <2>3, Zenon DEF Gate, EndIngest, Drop
<1>4. pc' \in [Conns -> Steps]
  BY DEF Gate, EndIngest, Drop, Goto, Steps
<1>5. confirmed' \in [Conns -> BOOLEAN] /\ held' \in [Conns -> BOOLEAN]
  BY <1>1 DEF Gate, identifiesAKeg
<1> QED
  BY <1>3, <1>4, <1>5 DEF Gate, handlerVars, shutVars, ghostVars

(* ApplyPacket keeps every type; without a keg id it would write no row.     *)
LEMMA ApplyPacketType ==
    ASSUME TypeOK, NEW c \in Conns, ApplyPacket(c)
    PROVE  TypeOK'
<1> DEFINE k == kegID[c]
<1> USE DEF TypeOK
<1>1. rows' \in [Kegs -> Row \cup {NoRow}]
  <2>1. k \in Kegs => Merge(rows[k], pkt[c]) \in Row
    BY MergeType
  <2>2. CASE rows' = [rows EXCEPT ![k] = Merge(@, pkt[c])]
    BY <2>1, <2>2
  <2>3. CASE rows' = rows
    BY <2>3
  <2> QED
    BY <2>2, <2>3 DEF ApplyPacket
<1>2. pkt' \in [Conns -> Packet] /\ pc' \in [Conns -> Steps]
  BY NothingType DEF ApplyPacket, EndIngest, Drop, Goto, Steps
<1> QED
  BY <1>1, <1>2 DEF ApplyPacket, handlerVars, shutVars, ghostVars

(* SetPouring keeps every type.                                              *)
LEMMA SetPouringType ==
    ASSUME TypeOK, NEW c \in Conns, SetPouring(c)
    PROVE  TypeOK'
<1> DEFINE k == kegID[c]
<1> USE DEF TypeOK
<1>1. rows' \in [Kegs -> Row \cup {NoRow}]
  <2>1. CASE rows' = rows
    BY <2>1
  <2>2. CASE /\ rows[k] # NoRow /\ k \in Kegs
             /\ rows' = [rows EXCEPT ![k].pouring = FALSE, ![k].reading = TRUE]
    <3>1. [rows[k] EXCEPT !.pouring = FALSE, !.reading = TRUE] \in Row
      BY <2>2, PouringType
    <3>2. rows' = [rows EXCEPT ![k] = [rows[k] EXCEPT !.pouring = FALSE, !.reading = TRUE]]
      BY <2>2
    <3> QED
      BY <3>1, <3>2
  <2>3. CASE k \notin Kegs
    BY <2>3 DEF SetPouring
  <2> QED
    BY <2>1, <2>2, <2>3 DEF SetPouring
<1>2. pc' \in [Conns -> Steps]
  BY DEF SetPouring, Goto, Steps
<1> QED
  BY <1>1, <1>2 DEF SetPouring, connVars, handlerVars, shutVars, ghostVars

(* No step breaks a type; AppendLog needs to know which keg it logs.         *)
LEMMA TypeStep ==
    ASSUME TypeOK, Storing, [Next]_vars
    PROVE  TypeOK'
<1> USE DEF connVars, handlerVars, shutVars, ghostVars
<1>1. ASSUME NEW c \in Conns, Accept(c) PROVE TypeOK'
  BY <1>1 DEF TypeOK, Accept, Goto, At, Steps
<1>2. ASSUME NEW c \in Conns, StartHandler(c) PROVE TypeOK'
  BY <1>2 DEF TypeOK, StartHandler, Goto, At, Steps
<1>3. ASSUME NEW c \in Conns, Read(c) PROVE TypeOK'
  BY <1>3 DEF TypeOK, Read, Goto, At, Steps
<1>4. ASSUME NEW c \in Conns, ReadFail(c) PROVE TypeOK'
  BY <1>4 DEF TypeOK, ReadFail, Goto, At, Steps
<1>5. ASSUME NEW c \in Conns, Ack(c) PROVE TypeOK'
  BY <1>5, NothingType DEF TypeOK, Ack, Drop, Goto, At, Steps
<1>6. ASSUME NEW c \in Conns, Identify(c) PROVE TypeOK'
  BY <1>6, NothingType DEF TypeOK, Identify, Register, Drop, Goto, At, Steps
<1>7. ASSUME NEW c \in Conns, Displace(c) PROVE TypeOK'
  BY <1>7 DEF TypeOK, Displace, Goto, At, Steps
<1>8. ASSUME NEW c \in Conns, Gate(c) PROVE TypeOK'
  BY <1>8, GateType
<1>9. ASSUME NEW c \in Conns, ApplyPacket(c) PROVE TypeOK'
  BY <1>9, ApplyPacketType
<1>10. ASSUME NEW c \in Conns, AppendLog(c) PROVE TypeOK'
  BY <1>10 DEF TypeOK, AppendLog, Goto, At, Steps, Storing
<1>11. ASSUME NEW c \in Conns, PublishUpdate(c) PROVE TypeOK'
  BY <1>11, NothingType DEF TypeOK, PublishUpdate, Publish, EndIngest, Drop,
      Goto, At, Steps
<1>12. ASSUME NEW c \in Conns, KegAmount(c) PROVE TypeOK'
  BY <1>12, NothingType DEF TypeOK, KegAmount, EndIngest, Drop, Goto, At,
      Steps
<1>13. ASSUME NEW c \in Conns, CloseSocket(c) PROVE TypeOK'
  BY <1>13 DEF TypeOK, CloseSocket, Goto, At, Steps
<1>14. ASSUME NEW c \in Conns, Unregister(c) PROVE TypeOK'
  BY <1>14 DEF TypeOK, Unregister, Goto, At, Steps
<1>15. ASSUME NEW c \in Conns, SetPouring(c) PROVE TypeOK'
  BY <1>15, SetPouringType
<1>16. ASSUME NEW c \in Conns, PublishOffline(c) PROVE TypeOK'
  BY <1>16 DEF TypeOK, PublishOffline, Publish, Goto, At, Steps
<1>17. ASSUME NEW h \in Handlers, DeleteRequest(h) PROVE TypeOK'
  BY <1>17 DEF TypeOK, DeleteRequest, HGoto
<1>18. ASSUME NEW h \in Handlers, DisconnectLookup(h) PROVE TypeOK'
  BY <1>18 DEF TypeOK, DisconnectLookup, HGoto
<1>19. ASSUME NEW h \in Handlers, DisconnectClose(h) PROVE TypeOK'
  BY <1>19 DEF TypeOK, DisconnectClose, HGoto
<1>20. ASSUME NEW h \in Handlers, DeleteKeg(h) PROVE TypeOK'
  BY <1>20 DEF TypeOK, DeleteKeg, MayFail, EndRequest, HGoto
<1>21. ASSUME NEW h \in Handlers, PublishRemoved(h) PROVE TypeOK'
  BY <1>21 DEF TypeOK, PublishRemoved, EndRequest, HGoto
<1>22. CASE CloseListener
  BY <1>22 DEF TypeOK, CloseListener
<1>23. CASE CloseAll
  BY <1>23 DEF TypeOK, CloseAll
<1>24. CASE CloseOne
  BY <1>24 DEF TypeOK, CloseOne
<1>25. CASE WaitHandlers
  BY <1>25 DEF TypeOK, WaitHandlers
<1>26. CASE UNCHANGED vars
  BY <1>26 DEF TypeOK, vars
<1> QED
  BY <1>1, <1>2, <1>3, <1>4, <1>5, <1>6, <1>7, <1>8, <1>9, <1>10, <1>11,
     <1>12, <1>13, <1>14, <1>15, <1>16, <1>17, <1>18, <1>19, <1>20,
     <1>21, <1>22, <1>23, <1>24, <1>25, <1>26
  DEF Next, Serve, Delete, Shutdown, Terminated

(***************************************************************************)
(* What the goroutines rely on.                                            *)
(***************************************************************************)

(* No step takes the id or the confirmation from a goroutine that stores.    *)
LEMMA StoringStep ==
    ASSUME TypeOK, Storing, [Next]_vars
    PROVE  Storing'
<1> USE DEF connVars, handlerVars, shutVars, ghostVars
<1>1. ASSUME NEW c \in Conns, Accept(c) PROVE Storing'
  BY <1>1 DEF TypeOK, Storing, Accept, Goto, At
<1>2. ASSUME NEW c \in Conns, StartHandler(c) PROVE Storing'
  BY <1>2 DEF TypeOK, Storing, StartHandler, Goto, At
<1>3. ASSUME NEW c \in Conns, Read(c) PROVE Storing'
  BY <1>3 DEF TypeOK, Storing, Read, Goto, At
<1>4. ASSUME NEW c \in Conns, ReadFail(c) PROVE Storing'
  BY <1>4 DEF TypeOK, Storing, ReadFail, Goto, At
<1>5. ASSUME NEW c \in Conns, Ack(c) PROVE Storing'
  BY <1>5 DEF TypeOK, Storing, Ack, Drop, Goto, At
<1>6. ASSUME NEW c \in Conns, Identify(c) PROVE Storing'
  BY <1>6 DEF TypeOK, Storing, Identify, Register, Drop, Goto, At
<1>7. ASSUME NEW c \in Conns, Displace(c) PROVE Storing'
  BY <1>7 DEF TypeOK, Storing, Displace, Goto, At
<1>8. ASSUME NEW c \in Conns, Gate(c) PROVE Storing'
  <2> DEFINE isKeg == confirmed[c] \/ identifiesAKeg(pkt[c])
  <2>1. /\ confirmed' = [confirmed EXCEPT ![c] = isKeg]
        /\ confirmed[c] => isKeg
        /\ UNCHANGED kegID
    BY <1>8 DEF Gate
  <2>2. CASE pc' = [pc EXCEPT ![c] = "apply"] /\ isKeg /\ kegID[c] # NoKeg
    BY <2>1, <2>2 DEF TypeOK, Storing
  <2>3. CASE pc' \in {[pc EXCEPT ![c] = "read"], [pc EXCEPT ![c] = "close"]}
    BY <2>1, <2>3 DEF TypeOK, Storing
  <2> QED
    BY <1>8, <2>2, <2>3, Zenon DEF Gate, EndIngest, Drop, Goto
<1>9. ASSUME NEW c \in Conns, ApplyPacket(c) PROVE Storing'
  BY <1>9 DEF TypeOK, Storing, ApplyPacket, MayFail, EndIngest, Drop, Goto,
      At
<1>10. ASSUME NEW c \in Conns, AppendLog(c) PROVE Storing'
  BY <1>10 DEF TypeOK, Storing, AppendLog, Goto, At
<1>11. ASSUME NEW c \in Conns, PublishUpdate(c) PROVE Storing'
  BY <1>11 DEF TypeOK, Storing, PublishUpdate, Publish, EndIngest, Drop,
      Goto, At
<1>12. ASSUME NEW c \in Conns, KegAmount(c) PROVE Storing'
  BY <1>12 DEF TypeOK, Storing, KegAmount, EndIngest, Drop, Goto, At
<1>13. ASSUME NEW c \in Conns, CloseSocket(c) PROVE Storing'
  BY <1>13 DEF TypeOK, Storing, CloseSocket, Goto, At
<1>14. ASSUME NEW c \in Conns, Unregister(c) PROVE Storing'
  BY <1>14 DEF TypeOK, Storing, Unregister, Goto, At
<1>15. ASSUME NEW c \in Conns, SetPouring(c) PROVE Storing'
  BY <1>15 DEF TypeOK, Storing, SetPouring, MayFail, Goto, At
<1>16. ASSUME NEW c \in Conns, PublishOffline(c) PROVE Storing'
  BY <1>16 DEF TypeOK, Storing, PublishOffline, Publish, Goto, At
<1>17. ASSUME NEW h \in Handlers, DeleteRequest(h) PROVE Storing'
  BY <1>17 DEF TypeOK, Storing, DeleteRequest, HGoto
<1>18. ASSUME NEW h \in Handlers, DisconnectLookup(h) PROVE Storing'
  BY <1>18 DEF TypeOK, Storing, DisconnectLookup, HGoto
<1>19. ASSUME NEW h \in Handlers, DisconnectClose(h) PROVE Storing'
  BY <1>19 DEF TypeOK, Storing, DisconnectClose, HGoto
<1>20. ASSUME NEW h \in Handlers, DeleteKeg(h) PROVE Storing'
  BY <1>20 DEF TypeOK, Storing, DeleteKeg, MayFail, EndRequest, HGoto
<1>21. ASSUME NEW h \in Handlers, PublishRemoved(h) PROVE Storing'
  BY <1>21 DEF TypeOK, Storing, PublishRemoved, EndRequest, HGoto
<1>22. CASE CloseListener
  BY <1>22 DEF TypeOK, Storing, CloseListener
<1>23. CASE CloseAll
  BY <1>23 DEF TypeOK, Storing, CloseAll
<1>24. CASE CloseOne
  BY <1>24 DEF TypeOK, Storing, CloseOne
<1>25. CASE WaitHandlers
  BY <1>25 DEF TypeOK, Storing, WaitHandlers
<1>26. CASE UNCHANGED vars
  BY <1>26 DEF TypeOK, Storing, vars
<1> QED
  BY <1>1, <1>2, <1>3, <1>4, <1>5, <1>6, <1>7, <1>8, <1>9, <1>10, <1>11,
     <1>12, <1>13, <1>14, <1>15, <1>16, <1>17, <1>18, <1>19, <1>20,
     <1>21, <1>22, <1>23, <1>24, <1>25, <1>26
  DEF Next, Serve, Delete, Shutdown, Terminated

(* No connection has an id before its goroutine reads.                       *)
LEMMA SilentStep ==
    ASSUME TypeOK, Silent, [Next]_vars
    PROVE  Silent'
<1> USE DEF connVars, handlerVars, shutVars, ghostVars
<1>1. ASSUME NEW c \in Conns, Accept(c) PROVE Silent'
  BY <1>1 DEF TypeOK, Silent, Accept, Goto, At
<1>2. ASSUME NEW c \in Conns, StartHandler(c) PROVE Silent'
  BY <1>2 DEF TypeOK, Silent, StartHandler, Goto, At
<1>3. ASSUME NEW c \in Conns, Read(c) PROVE Silent'
  BY <1>3 DEF TypeOK, Silent, Read, Goto, At
<1>4. ASSUME NEW c \in Conns, ReadFail(c) PROVE Silent'
  BY <1>4 DEF TypeOK, Silent, ReadFail, Goto, At
<1>5. ASSUME NEW c \in Conns, Ack(c) PROVE Silent'
  BY <1>5 DEF TypeOK, Silent, Ack, Drop, Goto, At
<1>6. ASSUME NEW c \in Conns, Identify(c) PROVE Silent'
  BY <1>6 DEF TypeOK, Silent, Identify, Register, Drop, Goto, At
<1>7. ASSUME NEW c \in Conns, Displace(c) PROVE Silent'
  BY <1>7 DEF TypeOK, Silent, Displace, Goto, At
<1>8. ASSUME NEW c \in Conns, Gate(c) PROVE Silent'
  BY <1>8 DEF TypeOK, Silent, Gate, identifiesAKeg, EndIngest, Drop, Goto,
      At
<1>9. ASSUME NEW c \in Conns, ApplyPacket(c) PROVE Silent'
  BY <1>9 DEF TypeOK, Silent, ApplyPacket, MayFail, EndIngest, Drop, Goto,
      At
<1>10. ASSUME NEW c \in Conns, AppendLog(c) PROVE Silent'
  BY <1>10 DEF TypeOK, Silent, AppendLog, Goto, At
<1>11. ASSUME NEW c \in Conns, PublishUpdate(c) PROVE Silent'
  BY <1>11 DEF TypeOK, Silent, PublishUpdate, Publish, EndIngest, Drop,
      Goto, At
<1>12. ASSUME NEW c \in Conns, KegAmount(c) PROVE Silent'
  BY <1>12 DEF TypeOK, Silent, KegAmount, EndIngest, Drop, Goto, At
<1>13. ASSUME NEW c \in Conns, CloseSocket(c) PROVE Silent'
  BY <1>13 DEF TypeOK, Silent, CloseSocket, Goto, At
<1>14. ASSUME NEW c \in Conns, Unregister(c) PROVE Silent'
  BY <1>14 DEF TypeOK, Silent, Unregister, Goto, At
<1>15. ASSUME NEW c \in Conns, SetPouring(c) PROVE Silent'
  BY <1>15 DEF TypeOK, Silent, SetPouring, MayFail, Goto, At
<1>16. ASSUME NEW c \in Conns, PublishOffline(c) PROVE Silent'
  BY <1>16 DEF TypeOK, Silent, PublishOffline, Publish, Goto, At
<1>17. ASSUME NEW h \in Handlers, DeleteRequest(h) PROVE Silent'
  BY <1>17 DEF TypeOK, Silent, DeleteRequest, HGoto
<1>18. ASSUME NEW h \in Handlers, DisconnectLookup(h) PROVE Silent'
  BY <1>18 DEF TypeOK, Silent, DisconnectLookup, HGoto
<1>19. ASSUME NEW h \in Handlers, DisconnectClose(h) PROVE Silent'
  BY <1>19 DEF TypeOK, Silent, DisconnectClose, HGoto
<1>20. ASSUME NEW h \in Handlers, DeleteKeg(h) PROVE Silent'
  BY <1>20 DEF TypeOK, Silent, DeleteKeg, MayFail, EndRequest, HGoto
<1>21. ASSUME NEW h \in Handlers, PublishRemoved(h) PROVE Silent'
  BY <1>21 DEF TypeOK, Silent, PublishRemoved, EndRequest, HGoto
<1>22. CASE CloseListener
  BY <1>22 DEF TypeOK, Silent, CloseListener
<1>23. CASE CloseAll
  BY <1>23 DEF TypeOK, Silent, CloseAll
<1>24. CASE CloseOne
  BY <1>24 DEF TypeOK, Silent, CloseOne
<1>25. CASE WaitHandlers
  BY <1>25 DEF TypeOK, Silent, WaitHandlers
<1>26. CASE UNCHANGED vars
  BY <1>26 DEF TypeOK, Silent, vars
<1> QED
  BY <1>1, <1>2, <1>3, <1>4, <1>5, <1>6, <1>7, <1>8, <1>9, <1>10, <1>11,
     <1>12, <1>13, <1>14, <1>15, <1>16, <1>17, <1>18, <1>19, <1>20,
     <1>21, <1>22, <1>23, <1>24, <1>25, <1>26
  DEF Next, Serve, Delete, Shutdown, Terminated

(* No step invents a token or a pin the device did not send.                 *)
LEMMA FromDeviceStep ==
    ASSUME TypeOK, FromDevice, [Next]_vars
    PROVE  FromDevice'
<1> USE DEF connVars, handlerVars, shutVars, ghostVars
<1>1. ASSUME NEW c \in Conns, Accept(c) PROVE FromDevice'
  BY <1>1 DEF TypeOK, FromDevice, Announces, SendsKegPins, Accept, Goto, At
<1>2. ASSUME NEW c \in Conns, StartHandler(c) PROVE FromDevice'
  BY <1>2 DEF TypeOK, FromDevice, Announces, SendsKegPins, StartHandler,
      Goto, At
<1>3. ASSUME NEW c \in Conns, Read(c) PROVE FromDevice'
  BY <1>3 DEF TypeOK, FromDevice, Announces, SendsKegPins, Read, Goto, At
<1>4. ASSUME NEW c \in Conns, ReadFail(c) PROVE FromDevice'
  BY <1>4 DEF TypeOK, FromDevice, Announces, SendsKegPins, ReadFail, Goto,
      At
<1>5. ASSUME NEW c \in Conns, Ack(c) PROVE FromDevice'
  BY <1>5, NothingFacts DEF TypeOK, FromDevice, Announces, SendsKegPins,
      Ack, Drop, Goto, At
<1>6. ASSUME NEW c \in Conns, Identify(c) PROVE FromDevice'
  BY <1>6, NothingFacts DEF TypeOK, FromDevice, Announces, SendsKegPins,
      Identify, Register, Drop, Goto, At
<1>7. ASSUME NEW c \in Conns, Displace(c) PROVE FromDevice'
  BY <1>7 DEF TypeOK, FromDevice, Announces, SendsKegPins, Displace, Goto,
      At
<1>8. ASSUME NEW c \in Conns, Gate(c) PROVE FromDevice'
  <2> DEFINE isKeg == confirmed[c] \/ identifiesAKeg(pkt[c])
             merged == pkt[c].meta \/ held[c]
  <2>1. /\ confirmed' = [confirmed EXCEPT ![c] = isKeg]
        /\ UNCHANGED <<device, kegID>>
    BY <1>8 DEF Gate
  <2>2. isKeg => SendsKegPins(c)
    BY DEF FromDevice, identifiesAKeg
  <2>3. \A x \in Conns : pkt'[x].id \in {pkt[x].id, Nothing.id}
                        /\ pkt'[x].pins \in {pkt[x].pins, Nothing.pins}
    <3>1. CASE pkt' = pkt
      BY <3>1
    <3>2. CASE pkt' = [pkt EXCEPT ![c] = Nothing]
      BY <3>2 DEF TypeOK
    <3>3. CASE pkt' = [pkt EXCEPT ![c].meta = merged]
      BY <3>3 DEF TypeOK, Packet
    <3> QED
      BY <1>8, <3>1, <3>2, <3>3, Zenon DEF Gate, EndIngest, Drop
  <2>4. \A x \in Conns : confirmed'[x] => SendsKegPins(x)
    BY <2>1, <2>2 DEF TypeOK, FromDevice
  <2> QED
    BY <2>1, <2>3, <2>4, NothingFacts DEF FromDevice, Announces, SendsKegPins
<1>9. ASSUME NEW c \in Conns, ApplyPacket(c) PROVE FromDevice'
  BY <1>9, NothingFacts DEF TypeOK, FromDevice, Announces, SendsKegPins,
      ApplyPacket, MayFail, EndIngest, Drop, Goto, At
<1>10. ASSUME NEW c \in Conns, AppendLog(c) PROVE FromDevice'
  BY <1>10 DEF TypeOK, FromDevice, Announces, SendsKegPins, AppendLog, Goto,
      At
<1>11. ASSUME NEW c \in Conns, PublishUpdate(c) PROVE FromDevice'
  BY <1>11, NothingFacts DEF TypeOK, FromDevice, Announces, SendsKegPins,
      PublishUpdate, Publish, EndIngest, Drop, Goto, At
<1>12. ASSUME NEW c \in Conns, KegAmount(c) PROVE FromDevice'
  BY <1>12, NothingFacts DEF TypeOK, FromDevice, Announces, SendsKegPins,
      KegAmount, EndIngest, Drop, Goto, At
<1>13. ASSUME NEW c \in Conns, CloseSocket(c) PROVE FromDevice'
  BY <1>13 DEF TypeOK, FromDevice, Announces, SendsKegPins, CloseSocket,
      Goto, At
<1>14. ASSUME NEW c \in Conns, Unregister(c) PROVE FromDevice'
  BY <1>14 DEF TypeOK, FromDevice, Announces, SendsKegPins, Unregister,
      Goto, At
<1>15. ASSUME NEW c \in Conns, SetPouring(c) PROVE FromDevice'
  BY <1>15 DEF TypeOK, FromDevice, Announces, SendsKegPins, SetPouring,
      MayFail, Goto, At
<1>16. ASSUME NEW c \in Conns, PublishOffline(c) PROVE FromDevice'
  BY <1>16 DEF TypeOK, FromDevice, Announces, SendsKegPins, PublishOffline,
      Publish, Goto, At
<1>17. ASSUME NEW h \in Handlers, DeleteRequest(h) PROVE FromDevice'
  BY <1>17 DEF TypeOK, FromDevice, Announces, SendsKegPins, DeleteRequest,
      HGoto
<1>18. ASSUME NEW h \in Handlers, DisconnectLookup(h) PROVE FromDevice'
  BY <1>18 DEF TypeOK, FromDevice, Announces, SendsKegPins,
      DisconnectLookup, HGoto
<1>19. ASSUME NEW h \in Handlers, DisconnectClose(h) PROVE FromDevice'
  BY <1>19 DEF TypeOK, FromDevice, Announces, SendsKegPins, DisconnectClose,
      HGoto
<1>20. ASSUME NEW h \in Handlers, DeleteKeg(h) PROVE FromDevice'
  BY <1>20 DEF TypeOK, FromDevice, Announces, SendsKegPins, DeleteKeg,
      MayFail, EndRequest, HGoto
<1>21. ASSUME NEW h \in Handlers, PublishRemoved(h) PROVE FromDevice'
  BY <1>21 DEF TypeOK, FromDevice, Announces, SendsKegPins, PublishRemoved,
      EndRequest, HGoto
<1>22. CASE CloseListener
  BY <1>22 DEF TypeOK, FromDevice, Announces, SendsKegPins, CloseListener
<1>23. CASE CloseAll
  BY <1>23 DEF TypeOK, FromDevice, Announces, SendsKegPins, CloseAll
<1>24. CASE CloseOne
  BY <1>24 DEF TypeOK, FromDevice, Announces, SendsKegPins, CloseOne
<1>25. CASE WaitHandlers
  BY <1>25 DEF TypeOK, FromDevice, Announces, SendsKegPins, WaitHandlers
<1>26. CASE UNCHANGED vars
  BY <1>26 DEF TypeOK, FromDevice, Announces, SendsKegPins, vars
<1> QED
  BY <1>1, <1>2, <1>3, <1>4, <1>5, <1>6, <1>7, <1>8, <1>9, <1>10, <1>11,
     <1>12, <1>13, <1>14, <1>15, <1>16, <1>17, <1>18, <1>19, <1>20,
     <1>21, <1>22, <1>23, <1>24, <1>25, <1>26
  DEF Next, Serve, Delete, Shutdown, Terminated

(* Nothing is taken out of the registry to be closed before CloseAll.        *)
LEMMA NothingClosingStep ==
    ASSUME NothingClosing, [Next]_vars
    PROVE  NothingClosing'
<1> USE DEF connVars, handlerVars, shutVars, ghostVars
<1>1. ASSUME NEW c \in Conns, Accept(c) PROVE NothingClosing'
  BY <1>1 DEF NothingClosing, Accept, Goto, At
<1>2. ASSUME NEW c \in Conns, StartHandler(c) PROVE NothingClosing'
  BY <1>2 DEF NothingClosing, StartHandler, Goto, At
<1>3. ASSUME NEW c \in Conns, Read(c) PROVE NothingClosing'
  BY <1>3 DEF NothingClosing, Read, Goto, At
<1>4. ASSUME NEW c \in Conns, ReadFail(c) PROVE NothingClosing'
  BY <1>4 DEF NothingClosing, ReadFail, Goto, At
<1>5. ASSUME NEW c \in Conns, Ack(c) PROVE NothingClosing'
  BY <1>5 DEF NothingClosing, Ack, Drop, Goto, At
<1>6. ASSUME NEW c \in Conns, Identify(c) PROVE NothingClosing'
  BY <1>6 DEF NothingClosing, Identify, Register, Drop, Goto, At
<1>7. ASSUME NEW c \in Conns, Displace(c) PROVE NothingClosing'
  BY <1>7 DEF NothingClosing, Displace, Goto, At
<1>8. ASSUME NEW c \in Conns, Gate(c) PROVE NothingClosing'
  BY <1>8 DEF NothingClosing, Gate, identifiesAKeg, EndIngest, Drop, Goto,
      At
<1>9. ASSUME NEW c \in Conns, ApplyPacket(c) PROVE NothingClosing'
  BY <1>9 DEF NothingClosing, ApplyPacket, MayFail, EndIngest, Drop, Goto,
      At
<1>10. ASSUME NEW c \in Conns, AppendLog(c) PROVE NothingClosing'
  BY <1>10 DEF NothingClosing, AppendLog, Goto, At
<1>11. ASSUME NEW c \in Conns, PublishUpdate(c) PROVE NothingClosing'
  BY <1>11 DEF NothingClosing, PublishUpdate, Publish, EndIngest, Drop,
      Goto, At
<1>12. ASSUME NEW c \in Conns, KegAmount(c) PROVE NothingClosing'
  BY <1>12 DEF NothingClosing, KegAmount, EndIngest, Drop, Goto, At
<1>13. ASSUME NEW c \in Conns, CloseSocket(c) PROVE NothingClosing'
  BY <1>13 DEF NothingClosing, CloseSocket, Goto, At
<1>14. ASSUME NEW c \in Conns, Unregister(c) PROVE NothingClosing'
  BY <1>14 DEF NothingClosing, Unregister, Goto, At
<1>15. ASSUME NEW c \in Conns, SetPouring(c) PROVE NothingClosing'
  BY <1>15 DEF NothingClosing, SetPouring, MayFail, Goto, At
<1>16. ASSUME NEW c \in Conns, PublishOffline(c) PROVE NothingClosing'
  BY <1>16 DEF NothingClosing, PublishOffline, Publish, Goto, At
<1>17. ASSUME NEW h \in Handlers, DeleteRequest(h) PROVE NothingClosing'
  BY <1>17 DEF NothingClosing, DeleteRequest, HGoto
<1>18. ASSUME NEW h \in Handlers, DisconnectLookup(h) PROVE NothingClosing'
  BY <1>18 DEF NothingClosing, DisconnectLookup, HGoto
<1>19. ASSUME NEW h \in Handlers, DisconnectClose(h) PROVE NothingClosing'
  BY <1>19 DEF NothingClosing, DisconnectClose, HGoto
<1>20. ASSUME NEW h \in Handlers, DeleteKeg(h) PROVE NothingClosing'
  BY <1>20 DEF NothingClosing, DeleteKeg, MayFail, EndRequest, HGoto
<1>21. ASSUME NEW h \in Handlers, PublishRemoved(h) PROVE NothingClosing'
  BY <1>21 DEF NothingClosing, PublishRemoved, EndRequest, HGoto
<1>22. CASE CloseListener
  BY <1>22 DEF NothingClosing, CloseListener
<1>23. CASE CloseAll
  BY <1>23 DEF NothingClosing, CloseAll
<1>24. CASE CloseOne
  BY <1>24 DEF NothingClosing, CloseOne
<1>25. CASE WaitHandlers
  BY <1>25 DEF NothingClosing, WaitHandlers
<1>26. CASE UNCHANGED vars
  BY <1>26 DEF NothingClosing, vars
<1> QED
  BY <1>1, <1>2, <1>3, <1>4, <1>5, <1>6, <1>7, <1>8, <1>9, <1>10, <1>11,
     <1>12, <1>13, <1>14, <1>15, <1>16, <1>17, <1>18, <1>19, <1>20,
     <1>21, <1>22, <1>23, <1>24, <1>25, <1>26
  DEF Next, Serve, Delete, Shutdown, Terminated

(* A keg without rival sockets keeps its owner.                              *)
LEMMA SoleOwnerStep ==
    ASSUME TypeOK, Silent, SoleOwner, [Next]_vars
    PROVE  SoleOwner'
<1> USE DEF connVars, handlerVars, shutVars, ghostVars, Silent
<1>1. ASSUME NEW c \in Conns, Accept(c) PROVE SoleOwner'
  BY <1>1 DEF TypeOK, SoleOwner, Identified, Accept, Goto, At
<1>2. ASSUME NEW c \in Conns, StartHandler(c) PROVE SoleOwner'
  BY <1>2 DEF TypeOK, SoleOwner, Identified, StartHandler, Goto, At
<1>3. ASSUME NEW c \in Conns, Read(c) PROVE SoleOwner'
  BY <1>3 DEF TypeOK, SoleOwner, Identified, Read, Goto, At
<1>4. ASSUME NEW c \in Conns, ReadFail(c) PROVE SoleOwner'
  BY <1>4 DEF TypeOK, SoleOwner, Identified, ReadFail, Goto, At
<1>5. ASSUME NEW c \in Conns, Ack(c) PROVE SoleOwner'
  BY <1>5 DEF TypeOK, SoleOwner, Identified, Ack, Drop, Goto, At
<1>6. ASSUME NEW c \in Conns, Identify(c) PROVE SoleOwner'
  BY <1>6, Nils DEF TypeOK, SoleOwner, Identified, Identify, Register, Drop,
      Goto, At
<1>7. ASSUME NEW c \in Conns, Displace(c) PROVE SoleOwner'
  BY <1>7 DEF TypeOK, SoleOwner, Identified, Displace, Goto, At
<1>8. ASSUME NEW c \in Conns, Gate(c) PROVE SoleOwner'
  BY <1>8 DEF TypeOK, SoleOwner, Identified, Gate, identifiesAKeg,
      EndIngest, Drop, Goto, At
<1>9. ASSUME NEW c \in Conns, ApplyPacket(c) PROVE SoleOwner'
  BY <1>9 DEF TypeOK, SoleOwner, Identified, ApplyPacket, MayFail,
      EndIngest, Drop, Goto, At
<1>10. ASSUME NEW c \in Conns, AppendLog(c) PROVE SoleOwner'
  BY <1>10 DEF TypeOK, SoleOwner, Identified, AppendLog, Goto, At
<1>11. ASSUME NEW c \in Conns, PublishUpdate(c) PROVE SoleOwner'
  BY <1>11 DEF TypeOK, SoleOwner, Identified, PublishUpdate, Publish,
      EndIngest, Drop, Goto, At
<1>12. ASSUME NEW c \in Conns, KegAmount(c) PROVE SoleOwner'
  BY <1>12 DEF TypeOK, SoleOwner, Identified, KegAmount, EndIngest, Drop,
      Goto, At
<1>13. ASSUME NEW c \in Conns, CloseSocket(c) PROVE SoleOwner'
  BY <1>13 DEF TypeOK, SoleOwner, Identified, CloseSocket, Goto, At
<1>14. ASSUME NEW c \in Conns, Unregister(c) PROVE SoleOwner'
  BY <1>14 DEF TypeOK, SoleOwner, Identified, Unregister, Goto, At
<1>15. ASSUME NEW c \in Conns, SetPouring(c) PROVE SoleOwner'
  BY <1>15 DEF TypeOK, SoleOwner, Identified, SetPouring, MayFail, Goto, At
<1>16. ASSUME NEW c \in Conns, PublishOffline(c) PROVE SoleOwner'
  BY <1>16 DEF TypeOK, SoleOwner, Identified, PublishOffline, Publish, Goto,
      At
<1>17. ASSUME NEW h \in Handlers, DeleteRequest(h) PROVE SoleOwner'
  BY <1>17 DEF TypeOK, SoleOwner, Identified, DeleteRequest, HGoto
<1>18. ASSUME NEW h \in Handlers, DisconnectLookup(h) PROVE SoleOwner'
  BY <1>18 DEF TypeOK, SoleOwner, Identified, DisconnectLookup, HGoto
<1>19. ASSUME NEW h \in Handlers, DisconnectClose(h) PROVE SoleOwner'
  BY <1>19 DEF TypeOK, SoleOwner, Identified, DisconnectClose, HGoto
<1>20. ASSUME NEW h \in Handlers, DeleteKeg(h) PROVE SoleOwner'
  BY <1>20 DEF TypeOK, SoleOwner, Identified, DeleteKeg, MayFail,
      EndRequest, HGoto
<1>21. ASSUME NEW h \in Handlers, PublishRemoved(h) PROVE SoleOwner'
  BY <1>21 DEF TypeOK, SoleOwner, Identified, PublishRemoved, EndRequest,
      HGoto
<1>22. CASE CloseListener
  BY <1>22 DEF TypeOK, SoleOwner, Identified, CloseListener
<1>23. CASE CloseAll
  BY <1>23 DEF TypeOK, SoleOwner, Identified, CloseAll
<1>24. CASE CloseOne
  BY <1>24 DEF TypeOK, SoleOwner, Identified, CloseOne
<1>25. CASE WaitHandlers
  BY <1>25 DEF TypeOK, SoleOwner, Identified, WaitHandlers
<1>26. CASE UNCHANGED vars
  BY <1>26 DEF TypeOK, SoleOwner, Identified, vars
<1> QED
  BY <1>1, <1>2, <1>3, <1>4, <1>5, <1>6, <1>7, <1>8, <1>9, <1>10, <1>11,
     <1>12, <1>13, <1>14, <1>15, <1>16, <1>17, <1>18, <1>19, <1>20,
     <1>21, <1>22, <1>23, <1>24, <1>25, <1>26
  DEF Next, Serve, Delete, Shutdown, Terminated

(* What a goroutine finds in its own state: it stores only for a confirmed   *)
(* keg whose id it knows, and all it knows came from its device.             *)
THEOREM Goroutines == Spec => []GoroutineInv
<1>1. Init => GoroutineInv
  <2> SUFFICES ASSUME Init PROVE GoroutineInv
    OBVIOUS
  <2>1. TypeOK
    BY KegServerAssumption, NothingType DEF Init, TypeOK, Steps
  <2>2. Storing /\ Silent /\ NothingClosing /\ SoleOwner
    BY DEF Init, Storing, Silent, NothingClosing, SoleOwner, Identified
  <2>3. FromDevice
    BY KegServerAssumption, NothingFacts DEF Init, FromDevice
  <2> QED
    BY <2>1, <2>2, <2>3 DEF GoroutineInv
<1>2. GoroutineInv /\ [Next]_vars => GoroutineInv'
  BY TypeStep, StoringStep, SilentStep, FromDeviceStep, NothingClosingStep,
     SoleOwnerStep
  DEF GoroutineInv
<1> QED
  BY <1>1, <1>2, PTL DEF Spec

(***************************************************************************)
(* The registry.                                                           *)
(***************************************************************************)

(* No step leaves an open, identified connection unreachable.                *)
LEMMA ReachableStep ==
    ASSUME GoroutineInv, OpenIsReachable, [Next]_vars
    PROVE  OpenIsReachable'
<1> USE DEF connVars, handlerVars, shutVars, ghostVars, GoroutineInv, Silent,
            NothingClosing
<1>1. ASSUME NEW c \in Conns, Accept(c) PROVE OpenIsReachable'
  BY <1>1 DEF TypeOK, OpenIsReachable, Identified, Accept, Goto, At
<1>2. ASSUME NEW c \in Conns, StartHandler(c) PROVE OpenIsReachable'
  BY <1>2 DEF TypeOK, OpenIsReachable, Identified, StartHandler, Goto, At
<1>3. ASSUME NEW c \in Conns, Read(c) PROVE OpenIsReachable'
  BY <1>3 DEF TypeOK, OpenIsReachable, Identified, Read, Goto, At
<1>4. ASSUME NEW c \in Conns, ReadFail(c) PROVE OpenIsReachable'
  BY <1>4 DEF TypeOK, OpenIsReachable, Identified, ReadFail, Goto, At
<1>5. ASSUME NEW c \in Conns, Ack(c) PROVE OpenIsReachable'
  BY <1>5 DEF TypeOK, OpenIsReachable, Identified, Ack, Drop, Goto, At
<1>6. ASSUME NEW c \in Conns, Identify(c) PROVE OpenIsReachable'
  BY <1>6 DEF TypeOK, OpenIsReachable, Identified, Identify, Register, Drop,
      Goto, At
<1>7. ASSUME NEW c \in Conns, Displace(c) PROVE OpenIsReachable'
  BY <1>7 DEF TypeOK, OpenIsReachable, Identified, Displace, Goto, At
<1>8. ASSUME NEW c \in Conns, Gate(c) PROVE OpenIsReachable'
  BY <1>8 DEF TypeOK, OpenIsReachable, Identified, Gate, identifiesAKeg,
      EndIngest, Drop, Goto, At
<1>9. ASSUME NEW c \in Conns, ApplyPacket(c) PROVE OpenIsReachable'
  BY <1>9 DEF TypeOK, OpenIsReachable, Identified, ApplyPacket, MayFail,
      EndIngest, Drop, Goto, At
<1>10. ASSUME NEW c \in Conns, AppendLog(c) PROVE OpenIsReachable'
  BY <1>10 DEF TypeOK, OpenIsReachable, Identified, AppendLog, Goto, At
<1>11. ASSUME NEW c \in Conns, PublishUpdate(c) PROVE OpenIsReachable'
  BY <1>11 DEF TypeOK, OpenIsReachable, Identified, PublishUpdate, Publish,
      EndIngest, Drop, Goto, At
<1>12. ASSUME NEW c \in Conns, KegAmount(c) PROVE OpenIsReachable'
  BY <1>12 DEF TypeOK, OpenIsReachable, Identified, KegAmount, EndIngest,
      Drop, Goto, At
<1>13. ASSUME NEW c \in Conns, CloseSocket(c) PROVE OpenIsReachable'
  BY <1>13 DEF TypeOK, OpenIsReachable, Identified, CloseSocket, Goto, At
<1>14. ASSUME NEW c \in Conns, Unregister(c) PROVE OpenIsReachable'
  BY <1>14 DEF TypeOK, OpenIsReachable, Identified, Unregister, Goto, At
<1>15. ASSUME NEW c \in Conns, SetPouring(c) PROVE OpenIsReachable'
  BY <1>15 DEF TypeOK, OpenIsReachable, Identified, SetPouring, MayFail,
      Goto, At
<1>16. ASSUME NEW c \in Conns, PublishOffline(c) PROVE OpenIsReachable'
  BY <1>16 DEF TypeOK, OpenIsReachable, Identified, PublishOffline, Publish,
      Goto, At
<1>17. ASSUME NEW h \in Handlers, DeleteRequest(h) PROVE OpenIsReachable'
  BY <1>17 DEF TypeOK, OpenIsReachable, Identified, DeleteRequest, HGoto
<1>18. ASSUME NEW h \in Handlers, DisconnectLookup(h) PROVE OpenIsReachable'
  BY <1>18 DEF TypeOK, OpenIsReachable, Identified, DisconnectLookup, HGoto
<1>19. ASSUME NEW h \in Handlers, DisconnectClose(h) PROVE OpenIsReachable'
  BY <1>19 DEF TypeOK, OpenIsReachable, Identified, DisconnectClose, HGoto
<1>20. ASSUME NEW h \in Handlers, DeleteKeg(h) PROVE OpenIsReachable'
  BY <1>20 DEF TypeOK, OpenIsReachable, Identified, DeleteKeg, MayFail,
      EndRequest, HGoto
<1>21. ASSUME NEW h \in Handlers, PublishRemoved(h) PROVE OpenIsReachable'
  BY <1>21 DEF TypeOK, OpenIsReachable, Identified, PublishRemoved,
      EndRequest, HGoto
<1>22. CASE CloseListener
  BY <1>22 DEF TypeOK, OpenIsReachable, Identified, CloseListener
<1>23. CASE CloseAll
  BY <1>23 DEF TypeOK, OpenIsReachable, Identified, CloseAll
<1>24. CASE CloseOne
  BY <1>24 DEF TypeOK, OpenIsReachable, Identified, CloseOne
<1>25. CASE WaitHandlers
  BY <1>25 DEF TypeOK, OpenIsReachable, Identified, WaitHandlers
<1>26. CASE UNCHANGED vars
  BY <1>26 DEF TypeOK, OpenIsReachable, Identified, vars
<1> QED
  BY <1>1, <1>2, <1>3, <1>4, <1>5, <1>6, <1>7, <1>8, <1>9, <1>10, <1>11,
     <1>12, <1>13, <1>14, <1>15, <1>16, <1>17, <1>18, <1>19, <1>20,
     <1>21, <1>22, <1>23, <1>24, <1>25, <1>26
  DEF Next, Serve, Delete, Shutdown, Terminated

(* A reconnecting keg stays reachable: for any number of sockets and however *)
(* the goroutines' registrations, displacements and teardowns interleave, an *)
(* open connection with a token is the one Lookup returns, unless somebody   *)
(* is about to close it.                                                     *)
THEOREM Reachable == Spec => []OpenIsReachable
<1>1. Init => OpenIsReachable
  BY DEF Init, OpenIsReachable, Identified
<1>2. GoroutineInv /\ OpenIsReachable /\ [Next]_vars => OpenIsReachable'
  BY ReachableStep
<1> QED
  BY <1>1, <1>2, Goroutines, PTL DEF Spec

(* An entry leaves the registry by Unregister or CloseAll only.              *)
LEMMA EntryLeavesStep ==
    ASSUME TypeOK, Next, NEW k \in Kegs,
           registry[k] # NoConn, registry'[k] = NoConn
    PROVE  pc[registry[k]] = "unregister" \/ phase = "closed"
<1> USE DEF connVars, handlerVars, shutVars, ghostVars
<1>1. CASE UNCHANGED registry
  BY <1>1
<1>2. ASSUME NEW c \in Conns, Identify(c)
      PROVE  registry'[k] # NoConn
  BY <1>2, Nils DEF TypeOK, Identify, Register
<1>3. ASSUME NEW c \in Conns, Unregister(c)
      PROVE  pc[registry[k]] = "unregister"
  BY <1>3 DEF TypeOK, Unregister, At
<1>4. CASE CloseAll
  BY <1>4 DEF CloseAll
<1> QED
  BY <1>1, <1>2, <1>3, <1>4
  DEF Next, Serve, Delete, Shutdown, Terminated, Accept, StartHandler, Read,
      ReadFail, Ack, Displace, Gate, ApplyPacket, AppendLog, PublishUpdate,
      KegAmount, CloseSocket, SetPouring, PublishOffline, DeleteRequest,
      DisconnectLookup, DisconnectClose, DeleteKeg, PublishRemoved,
      CloseListener, CloseOne, WaitHandlers, vars

(* No step takes a connection out of the registry but that connection's own  *)
(* Unregister and CloseAll; in particular the teardown of a displaced one    *)
(* never removes its replacement.                                            *)
THEOREM EntryLeaves == Spec => EntryLeavesWithOwner
<1> DEFINE A == \A k \in Kegs : registry[k] # NoConn /\ registry'[k] = NoConn =>
                    pc[registry[k]] = "unregister" \/ phase = "closed"
<1>1. GoroutineInv /\ [Next]_vars => [A]_vars
  BY EntryLeavesStep DEF GoroutineInv
<1> QED
  BY <1>1, Goroutines, PTL DEF Spec, EntryLeavesWithOwner

(* A connection has one token for life: the one its device has.              *)
LEMMA OneToken ==
    ASSUME OneTokenPerDevice, TypeOK, FromDevice, NEW c \in Conns,
           kegID[c] \in Kegs, pkt[c].id \in Kegs
    PROVE  kegID[c] = pkt[c].id
BY DEF OneTokenPerDevice, TypeOK, FromDevice, Announces

(* No step leaves an entry behind for a connection that has ended.           *)
LEMMA TracksLiveStep ==
    ASSUME OneTokenPerDevice, GoroutineInv, RegistryTracksLive, [Next]_vars
    PROVE  RegistryTracksLive'
<1> USE DEF connVars, handlerVars, shutVars, ghostVars, GoroutineInv
<1>1. ASSUME NEW c \in Conns, Accept(c) PROVE RegistryTracksLive'
  BY <1>1 DEF TypeOK, RegistryTracksLive, Identified, Accept, Goto, At
<1>2. ASSUME NEW c \in Conns, StartHandler(c) PROVE RegistryTracksLive'
  BY <1>2 DEF TypeOK, RegistryTracksLive, Identified, StartHandler, Goto, At
<1>3. ASSUME NEW c \in Conns, Read(c) PROVE RegistryTracksLive'
  BY <1>3 DEF TypeOK, RegistryTracksLive, Identified, Read, Goto, At
<1>4. ASSUME NEW c \in Conns, ReadFail(c) PROVE RegistryTracksLive'
  BY <1>4 DEF TypeOK, RegistryTracksLive, Identified, ReadFail, Goto, At
<1>5. ASSUME NEW c \in Conns, Ack(c) PROVE RegistryTracksLive'
  BY <1>5 DEF TypeOK, RegistryTracksLive, Identified, Ack, Drop, Goto, At
<1>6. ASSUME NEW c \in Conns, Identify(c) PROVE RegistryTracksLive'
  BY <1>6, OneToken, Nils DEF TypeOK, RegistryTracksLive, Identified,
      Identify, Register, Drop, Goto, At
<1>7. ASSUME NEW c \in Conns, Displace(c) PROVE RegistryTracksLive'
  BY <1>7 DEF TypeOK, RegistryTracksLive, Identified, Displace, Goto, At
<1>8. ASSUME NEW c \in Conns, Gate(c) PROVE RegistryTracksLive'
  BY <1>8 DEF TypeOK, RegistryTracksLive, Identified, Gate, identifiesAKeg,
      EndIngest, Drop, Goto, At
<1>9. ASSUME NEW c \in Conns, ApplyPacket(c) PROVE RegistryTracksLive'
  BY <1>9 DEF TypeOK, RegistryTracksLive, Identified, ApplyPacket, MayFail,
      EndIngest, Drop, Goto, At
<1>10. ASSUME NEW c \in Conns, AppendLog(c) PROVE RegistryTracksLive'
  BY <1>10 DEF TypeOK, RegistryTracksLive, Identified, AppendLog, Goto, At
<1>11. ASSUME NEW c \in Conns, PublishUpdate(c) PROVE RegistryTracksLive'
  BY <1>11 DEF TypeOK, RegistryTracksLive, Identified, PublishUpdate,
      Publish, EndIngest, Drop, Goto, At
<1>12. ASSUME NEW c \in Conns, KegAmount(c) PROVE RegistryTracksLive'
  BY <1>12 DEF TypeOK, RegistryTracksLive, Identified, KegAmount, EndIngest,
      Drop, Goto, At
<1>13. ASSUME NEW c \in Conns, CloseSocket(c) PROVE RegistryTracksLive'
  BY <1>13, Nils DEF TypeOK, RegistryTracksLive, Identified, CloseSocket,
      Goto, At
<1>14. ASSUME NEW c \in Conns, Unregister(c) PROVE RegistryTracksLive'
  BY <1>14, Nils DEF TypeOK, RegistryTracksLive, Identified, Unregister,
      Goto, At
<1>15. ASSUME NEW c \in Conns, SetPouring(c) PROVE RegistryTracksLive'
  BY <1>15 DEF TypeOK, RegistryTracksLive, Identified, SetPouring, MayFail,
      Goto, At
<1>16. ASSUME NEW c \in Conns, PublishOffline(c) PROVE RegistryTracksLive'
  BY <1>16 DEF TypeOK, RegistryTracksLive, Identified, PublishOffline,
      Publish, Goto, At
<1>17. ASSUME NEW h \in Handlers, DeleteRequest(h) PROVE RegistryTracksLive'
  BY <1>17 DEF TypeOK, RegistryTracksLive, Identified, DeleteRequest, HGoto
<1>18. ASSUME NEW h \in Handlers, DisconnectLookup(h) PROVE RegistryTracksLive'
  BY <1>18 DEF TypeOK, RegistryTracksLive, Identified, DisconnectLookup,
      HGoto
<1>19. ASSUME NEW h \in Handlers, DisconnectClose(h) PROVE RegistryTracksLive'
  BY <1>19 DEF TypeOK, RegistryTracksLive, Identified, DisconnectClose,
      HGoto
<1>20. ASSUME NEW h \in Handlers, DeleteKeg(h) PROVE RegistryTracksLive'
  BY <1>20 DEF TypeOK, RegistryTracksLive, Identified, DeleteKeg, MayFail,
      EndRequest, HGoto
<1>21. ASSUME NEW h \in Handlers, PublishRemoved(h) PROVE RegistryTracksLive'
  BY <1>21 DEF TypeOK, RegistryTracksLive, Identified, PublishRemoved,
      EndRequest, HGoto
<1>22. CASE CloseListener
  BY <1>22 DEF TypeOK, RegistryTracksLive, Identified, CloseListener
<1>23. CASE CloseAll
  BY <1>23, Nils DEF TypeOK, RegistryTracksLive, Identified, CloseAll
<1>24. CASE CloseOne
  BY <1>24 DEF TypeOK, RegistryTracksLive, Identified, CloseOne
<1>25. CASE WaitHandlers
  BY <1>25 DEF TypeOK, RegistryTracksLive, Identified, WaitHandlers
<1>26. CASE UNCHANGED vars
  BY <1>26 DEF TypeOK, RegistryTracksLive, Identified, vars
<1> QED
  BY <1>1, <1>2, <1>3, <1>4, <1>5, <1>6, <1>7, <1>8, <1>9, <1>10, <1>11,
     <1>12, <1>13, <1>14, <1>15, <1>16, <1>17, <1>18, <1>19, <1>20,
     <1>21, <1>22, <1>23, <1>24, <1>25, <1>26
  DEF Next, Serve, Delete, Shutdown, Terminated

(* When every device has one token, no entry of the registry outlives its    *)
(* connection, and each is filed under the id its connection announced.      *)
THEOREM TracksLive ==
    ASSUME OneTokenPerDevice
    PROVE  Spec => []RegistryTracksLive
<1>1. Init => RegistryTracksLive
  BY Nils DEF Init, RegistryTracksLive
<1>2. GoroutineInv /\ RegistryTracksLive /\ [Next]_vars => RegistryTracksLive'
  BY TracksLiveStep
<1> QED
  BY <1>1, <1>2, Goroutines, PTL DEF Spec

(***************************************************************************)
(* The directory.                                                          *)
(***************************************************************************)

(* A connection of which nobody knows the keg has not been closed by others: *)
(* whoever is displaced, found for a delete or taken out of the registry was *)
(* in it.  A teardown begins by closing the socket.                          *)
Torn == {"unregister", "clear", "announce", "done"}
SocketInv ==
    /\ \A c \in Conns : kegID[c] = NoKeg /\ pc[c] \notin Torn \cup {"none"} => c \in open
    /\ \A c \in Conns : pc[c] \in Torn => c \notin open
    /\ \A d \in Conns : stale[d] # NoConn => kegID[stale[d]] # NoKeg
    /\ \A h \in Handlers : victim[h] # NoConn => kegID[victim[h]] # NoKeg
    /\ \A c \in closing : kegID[c] # NoKeg

(* Sockets are closed by their own goroutine or for a reason.                *)
LEMMA SocketStep ==
    ASSUME GoroutineInv, RegistryTracksLive, SocketInv, [Next]_vars
    PROVE  SocketInv'
<1> USE DEF connVars, handlerVars, shutVars, ghostVars, GoroutineInv, Torn
<1>1. ASSUME NEW c \in Conns, Accept(c) PROVE SocketInv'
  BY <1>1 DEF TypeOK, SocketInv, Accept, Goto, At
<1>2. ASSUME NEW c \in Conns, StartHandler(c) PROVE SocketInv'
  BY <1>2 DEF TypeOK, SocketInv, StartHandler, Goto, At
<1>3. ASSUME NEW c \in Conns, Read(c) PROVE SocketInv'
  BY <1>3 DEF TypeOK, SocketInv, Read, Goto, At
<1>4. ASSUME NEW c \in Conns, ReadFail(c) PROVE SocketInv'
  BY <1>4 DEF TypeOK, SocketInv, ReadFail, Goto, At
<1>5. ASSUME NEW c \in Conns, Ack(c) PROVE SocketInv'
  BY <1>5 DEF TypeOK, SocketInv, Ack, Drop, Goto, At
<1>6. ASSUME NEW c \in Conns, Identify(c) PROVE SocketInv'
  BY <1>6, Nils DEF TypeOK, SocketInv, Identify, Register, Drop, Goto, At,
      RegistryTracksLive
<1>7. ASSUME NEW c \in Conns, Displace(c) PROVE SocketInv'
  BY <1>7, Nils DEF TypeOK, SocketInv, Displace, Goto, At
<1>8. ASSUME NEW c \in Conns, Gate(c) PROVE SocketInv'
  BY <1>8 DEF TypeOK, SocketInv, Gate, identifiesAKeg, EndIngest, Drop, Goto,
      At
<1>9. ASSUME NEW c \in Conns, ApplyPacket(c) PROVE SocketInv'
  BY <1>9 DEF TypeOK, SocketInv, ApplyPacket, MayFail, EndIngest, Drop, Goto,
      At
<1>10. ASSUME NEW c \in Conns, AppendLog(c) PROVE SocketInv'
  BY <1>10 DEF TypeOK, SocketInv, AppendLog, Goto, At
<1>11. ASSUME NEW c \in Conns, PublishUpdate(c) PROVE SocketInv'
  BY <1>11 DEF TypeOK, SocketInv, PublishUpdate, Publish, EndIngest, Drop,
      Goto, At
<1>12. ASSUME NEW c \in Conns, KegAmount(c) PROVE SocketInv'
  BY <1>12 DEF TypeOK, SocketInv, KegAmount, EndIngest, Drop, Goto, At
<1>13. ASSUME NEW c \in Conns, CloseSocket(c) PROVE SocketInv'
  BY <1>13, Nils DEF TypeOK, SocketInv, CloseSocket, Goto, At
<1>14. ASSUME NEW c \in Conns, Unregister(c) PROVE SocketInv'
  BY <1>14, Nils DEF TypeOK, SocketInv, Unregister, Goto, At
<1>15. ASSUME NEW c \in Conns, SetPouring(c) PROVE SocketInv'
  BY <1>15 DEF TypeOK, SocketInv, SetPouring, MayFail, Goto, At
<1>16. ASSUME NEW c \in Conns, PublishOffline(c) PROVE SocketInv'
  BY <1>16 DEF TypeOK, SocketInv, PublishOffline, Publish, Goto, At
<1>17. ASSUME NEW h \in Handlers, DeleteRequest(h) PROVE SocketInv'
  BY <1>17 DEF TypeOK, SocketInv, DeleteRequest, HGoto
<1>18. ASSUME NEW h \in Handlers, DisconnectLookup(h) PROVE SocketInv'
  BY <1>18, Nils DEF TypeOK, SocketInv, DisconnectLookup, HGoto,
      RegistryTracksLive
<1>19. ASSUME NEW h \in Handlers, DisconnectClose(h) PROVE SocketInv'
  BY <1>19, Nils DEF TypeOK, SocketInv, DisconnectClose, HGoto
<1>20. ASSUME NEW h \in Handlers, DeleteKeg(h) PROVE SocketInv'
  BY <1>20, Nils DEF TypeOK, SocketInv, DeleteKeg, MayFail, EndRequest, HGoto
<1>21. ASSUME NEW h \in Handlers, PublishRemoved(h) PROVE SocketInv'
  BY <1>21, Nils DEF TypeOK, SocketInv, PublishRemoved, EndRequest, HGoto
<1>22. CASE CloseListener
  BY <1>22 DEF TypeOK, SocketInv, CloseListener
<1>23. CASE CloseAll
  BY <1>23, Nils DEF TypeOK, SocketInv, CloseAll, RegistryTracksLive
<1>24. CASE CloseOne
  BY <1>24, Nils DEF TypeOK, SocketInv, CloseOne
<1>25. CASE WaitHandlers
  BY <1>25 DEF TypeOK, SocketInv, WaitHandlers
<1>26. CASE UNCHANGED vars
  BY <1>26 DEF TypeOK, SocketInv, vars
<1> QED
  BY <1>1, <1>2, <1>3, <1>4, <1>5, <1>6, <1>7, <1>8, <1>9, <1>10, <1>11,
     <1>12, <1>13, <1>14, <1>15, <1>16, <1>17, <1>18, <1>19, <1>20, <1>21,
     <1>22, <1>23, <1>24, <1>25, <1>26
  DEF Next, Serve, Delete, Shutdown, Terminated

(* What a step does to the directory.                                        *)
Same == UNCHANGED <<registry, lostKeg, closedSockets, ShutDown>>

(* A step that touches no token, no socket and no entry of the registry, and *)
(* accepts nobody, leaves the directory alone.                               *)
LEMMA SameDirectory ==
    ASSUME UNCHANGED <<registry, kegID, open, ShutDown>>,
           \A c \in Conns : pc[c] = "none" <=> pc'[c] = "none"
    PROVE  Same
BY DEF Same, lostKeg, closedSockets

(* A step that closes a socket of a connection, or that of nobody.           *)
LEMMA ClosesOne ==
    ASSUME TypeOK, SocketInv, NEW c \in Conns \cup {NoConn}, open' = open \ {c},
           UNCHANGED <<registry, kegID, ShutDown>>,
           \A d \in Conns : pc[d] = "none" <=> pc'[d] = "none",
           c \in Conns => pc[c] # "none"
    PROVE  Directory!Next \/ Same
<1>1. UNCHANGED <<registry, lostKeg>>
  BY DEF lostKeg
<1>2. CASE c = NoConn
  <2>1. UNCHANGED open
    BY <1>2, Nils DEF TypeOK
  <2> QED
    BY <2>1, SameDirectory
<1>3. CASE c \in Conns
  <2>1. closedSockets' = closedSockets \cup {c}
    BY <1>3 DEF closedSockets
  <2>2. Directory!Close(c)
    BY <1>1, <2>1 DEF Directory!Close
  <2> QED
    BY <1>3, <2>2 DEF Directory!Next
<1> QED
  BY <1>2, <1>3

(* Every step is one of the directory, or none.                              *)
LEMMA DirectoryStep ==
    ASSUME OneTokenPerDevice, GoroutineInv, RegistryTracksLive, SocketInv,
           [Next]_vars
    PROVE  Directory!Next \/ Same
<1> USE DEF connVars, handlerVars, shutVars, ghostVars, GoroutineInv
<1>1. ASSUME NEW c \in Conns, Accept(c) PROVE Directory!Next \/ Same
  <2>1. UNCHANGED <<registry, kegID, ShutDown>>
    BY <1>1 DEF Accept, ShutDown
  <2>2. UNCHANGED <<lostKeg, closedSockets>>
    BY <1>1, <2>1 DEF Accept, Goto, At, TypeOK, SocketInv, Torn, lostKeg, closedSockets
  <2> QED
    BY <2>1, <2>2 DEF Same
<1>2. ASSUME NEW c \in Conns, StartHandler(c) PROVE Same
  BY <1>2, SameDirectory DEF StartHandler, Goto, At, TypeOK, ShutDown
<1>3. ASSUME NEW c \in Conns, Read(c) PROVE Same
  BY <1>3, SameDirectory DEF Read, Goto, At, TypeOK, ShutDown
<1>4. ASSUME NEW c \in Conns, ReadFail(c) PROVE Same
  BY <1>4, SameDirectory DEF ReadFail, Goto, At, TypeOK, ShutDown
<1>5. ASSUME NEW c \in Conns, Ack(c) PROVE Same
  BY <1>5, SameDirectory DEF Ack, Drop, Goto, At, TypeOK, ShutDown
<1>6. ASSUME NEW c \in Conns, Identify(c) PROVE Directory!Next \/ Same
  <2>1. CASE /\ UNCHANGED <<registry, kegID, open, ShutDown>>
              /\ \A d \in Conns : pc[d] = "none" <=> pc'[d] = "none"
    BY <2>1, SameDirectory
  <2>2. ASSUME NEW k \in Kegs, pkt[c].id = k, k # kegID[c], Register(c, k),
               kegID' = [kegID EXCEPT ![c] = k], Goto(c, "displace")
        PROVE  Directory!Take(k, c)
    <3>1. kegID[c] = NoKeg
      BY <2>2, OneToken DEF TypeOK
    <3>2. c \notin lostKeg /\ \A j \in Kegs : registry[j] # c
      BY <3>1, Nils DEF lostKeg, RegistryTracksLive
    <3>3. c \notin closedSockets
      BY <1>6, <3>1 DEF Identify, At, SocketInv, Torn, closedSockets
    <3>4. registry' = [registry EXCEPT ![k] = c]
      BY <2>2 DEF Register
    <3>5. lostKeg' = lostKeg \cup ({registry[j] : j \in {k}} \ {NoConn})
      <4>1. ASSUME NEW d \in Conns
            PROVE  d \in lostKeg' <=> d \in lostKeg \/ registry[k] = d
        <5>1. CASE d = c
          BY <2>2, <3>1, <3>2, <3>4, <5>1, Nils DEF lostKeg, TypeOK
        <5>2. CASE d # c
          <6>1. kegID'[d] = kegID[d]
            BY <2>2, <5>2 DEF TypeOK
          <6>2. registry'[kegID[d]] = d <=> registry[kegID[d]] = d /\ kegID[d] # k
            BY <2>2, <3>4, <5>2, Nils DEF TypeOK, RegistryTracksLive
          <6> QED
            BY <6>1, <6>2, Nils DEF lostKeg, RegistryTracksLive
        <5> QED
          BY <5>1, <5>2
      <4>2. registry[k] \in Conns \cup {NoConn}
        BY DEF TypeOK
      <4> QED
        BY <4>1, <4>2, Nils DEF lostKeg
    <3>6. UNCHANGED <<closedSockets, ShutDown>>
      BY <1>6, <2>2 DEF Identify, At, Goto, TypeOK, closedSockets, ShutDown
    <3> QED
      BY <3>2, <3>3, <3>4, <3>5, <3>6 DEF Directory!Take, Directory!Loses
  <2> QED
    BY <1>6, <2>1, <2>2 DEF Identify, Drop, Goto, At, TypeOK, Directory!Next, ShutDown
<1>7. ASSUME NEW c \in Conns, Displace(c) PROVE Directory!Next \/ Same
  <2>1. stale[c] \in Conns \cup {NoConn}
    BY DEF TypeOK
  <2>2. stale[c] \in Conns => pc[stale[c]] # "none"
    BY Nils DEF SocketInv, Silent
  <2>3. /\ open' = open \ {stale[c]} /\ UNCHANGED <<registry, kegID, ShutDown>>
        /\ \A d \in Conns : pc[d] = "none" <=> pc'[d] = "none"
    BY <1>7 DEF Displace, Goto, At, TypeOK, ShutDown
  <2> QED
    BY <2>1, <2>2, <2>3, ClosesOne
<1>8. ASSUME NEW c \in Conns, Gate(c) PROVE Same
  BY <1>8, SameDirectory DEF Gate, identifiesAKeg, EndIngest, Drop, Goto, At,
      TypeOK, ShutDown
<1>9. ASSUME NEW c \in Conns, ApplyPacket(c) PROVE Same
  BY <1>9, SameDirectory DEF ApplyPacket, MayFail, EndIngest, Drop, Goto, At,
      TypeOK, ShutDown
<1>10. ASSUME NEW c \in Conns, AppendLog(c) PROVE Same
  BY <1>10, SameDirectory DEF AppendLog, Goto, At, TypeOK, ShutDown
<1>11. ASSUME NEW c \in Conns, PublishUpdate(c) PROVE Same
  BY <1>11, SameDirectory DEF PublishUpdate, Publish, EndIngest, Drop, Goto,
      At, TypeOK, ShutDown
<1>12. ASSUME NEW c \in Conns, KegAmount(c) PROVE Same
  BY <1>12, SameDirectory DEF KegAmount, EndIngest, Drop, Goto, At, TypeOK,
      ShutDown
<1>13. ASSUME NEW c \in Conns, CloseSocket(c) PROVE Directory!Next \/ Same
  <2>1. /\ pc[c] # "none" /\ open' = open \ {c}
        /\ UNCHANGED <<registry, kegID, ShutDown>>
        /\ \A d \in Conns : pc[d] = "none" <=> pc'[d] = "none"
    BY <1>13 DEF CloseSocket, Goto, At, TypeOK, ShutDown
  <2> QED
    BY <2>1, ClosesOne
<1>14. ASSUME NEW c \in Conns, Unregister(c) PROVE Directory!Next \/ Same
  <2>1. CASE UNCHANGED registry
    BY <1>14, <2>1, SameDirectory DEF Unregister, Goto, At, TypeOK, ShutDown
  <2>2. CASE registry[kegID[c]] = c /\ registry' = [registry EXCEPT ![kegID[c]] = NoConn]
    <3> DEFINE k == kegID[c]
    <3>1. /\ UNCHANGED <<open, kegID, ShutDown>>
          /\ \A d \in Conns : pc[d] = "none" <=> pc'[d] = "none"
      BY <1>14 DEF Unregister, Goto, At, TypeOK, ShutDown
    <3>2. UNCHANGED closedSockets
      BY <3>1 DEF closedSockets
    <3>3. c \in closedSockets
      BY <1>14 DEF Unregister, At, SocketInv, Torn, closedSockets
    <3>4. CASE k \in Kegs
      <4>1. lostKeg' = lostKeg \cup ({registry[j] : j \in {k}} \ {NoConn})
        BY <2>2, <3>1, <3>4, Nils DEF lostKeg, TypeOK
      <4>2. Directory!Leave(k)
        BY <2>2, <3>1, <3>2, <3>3, <4>1 DEF Directory!Leave, Directory!Loses
      <4> QED
        BY <3>4, <4>2 DEF Directory!Next
    <3>5. CASE k \notin Kegs
      <4>1. UNCHANGED registry
        BY <2>2, <3>5 DEF TypeOK
      <4> QED
        BY <3>1, <4>1, SameDirectory
    <3> QED
      BY <3>4, <3>5
  <2> QED
    BY <1>14, <2>1, <2>2 DEF Unregister
<1>15. ASSUME NEW c \in Conns, SetPouring(c) PROVE Same
  BY <1>15, SameDirectory DEF SetPouring, MayFail, Goto, At, TypeOK, ShutDown
<1>16. ASSUME NEW c \in Conns, PublishOffline(c) PROVE Same
  BY <1>16, SameDirectory DEF PublishOffline, Publish, Goto, At, TypeOK,
      ShutDown
<1>17. ASSUME NEW h \in Handlers, DeleteRequest(h) PROVE Same
  BY <1>17, SameDirectory DEF DeleteRequest, HGoto, ShutDown
<1>18. ASSUME NEW h \in Handlers, DisconnectLookup(h) PROVE Same
  BY <1>18, SameDirectory DEF DisconnectLookup, HGoto, ShutDown
<1>19. ASSUME NEW h \in Handlers, DisconnectClose(h) PROVE Directory!Next \/ Same
  <2>1. victim[h] \in Conns \cup {NoConn}
    BY DEF TypeOK
  <2>2. victim[h] \in Conns => pc[victim[h]] # "none"
    BY Nils DEF SocketInv, Silent
  <2>3. open' = open \ {victim[h]} /\ UNCHANGED <<registry, kegID, pc, ShutDown>>
    BY <1>19 DEF DisconnectClose, ShutDown
  <2> QED
    BY <2>1, <2>2, <2>3, ClosesOne
<1>20. ASSUME NEW h \in Handlers, DeleteKeg(h) PROVE Same
  BY <1>20, SameDirectory DEF DeleteKeg, MayFail, EndRequest, HGoto, ShutDown
<1>21. ASSUME NEW h \in Handlers, PublishRemoved(h) PROVE Same
  BY <1>21, SameDirectory DEF PublishRemoved, EndRequest, HGoto, ShutDown
<1>22. ASSUME CloseListener PROVE Same
  BY <1>22, SameDirectory DEF CloseListener, ShutDown
<1>23. CASE CloseAll
  <2>1. /\ registry' = [k \in Kegs |-> NoConn] /\ UNCHANGED <<kegID, open, pc>>
        /\ ~ShutDown /\ ShutDown'
    BY <1>23 DEF CloseAll, ShutDown
  <2>2. UNCHANGED closedSockets
    BY <2>1 DEF closedSockets
  <2>3. lostKeg' = lostKeg \cup ({registry[k] : k \in Kegs} \ {NoConn})
    <3>1. lostKeg' = {c \in Conns : kegID[c] \in Kegs}
      BY <2>1, Nils DEF lostKeg, TypeOK
    <3>2. \A k \in Kegs : registry[k] # NoConn =>
             registry[k] \in Conns /\ kegID[registry[k]] \in Kegs
      BY DEF TypeOK, RegistryTracksLive
    <3>3. \A c \in Conns : kegID[c] \in Kegs => c \in lostKeg \/ registry[kegID[c]] = c
      BY Nils DEF lostKeg
    <3>4. lostKeg \subseteq {c \in Conns : kegID[c] \in Kegs}
      BY DEF lostKeg, TypeOK
    <3> QED
      BY <3>1, <3>2, <3>3, <3>4, Nils
  <2>4. Directory!LeaveAll
    BY <2>1, <2>2, <2>3 DEF ShutDown, Directory!LeaveAll, Directory!Loses
  <2> QED
    BY <2>4 DEF Directory!Next
<1>24. CASE CloseOne
  <2>1. CASE UNCHANGED open
    BY <1>24, <2>1, SameDirectory DEF CloseOne, ShutDown
  <2>2. ASSUME NEW c \in closing, open' = open \ {c}
        PROVE  Directory!Next \/ Same
    <3>1. c \in Conns /\ pc[c] # "none"
      BY DEF TypeOK, SocketInv, Silent
    <3>2. UNCHANGED <<registry, kegID, pc, ShutDown>>
      BY <1>24, <2>2 DEF CloseOne, ShutDown
    <3> QED
      BY <2>2, <3>1, <3>2, ClosesOne
  <2> QED
    BY <1>24, <2>1, <2>2 DEF CloseOne
<1>25. ASSUME WaitHandlers PROVE Same
  BY <1>25, SameDirectory DEF WaitHandlers, ShutDown
<1>26. ASSUME UNCHANGED vars PROVE Same
  BY <1>26, SameDirectory DEF vars, ShutDown
<1> QED
  BY <1>1, <1>2, <1>3, <1>4, <1>5, <1>6, <1>7, <1>8, <1>9, <1>10, <1>11,
     <1>12, <1>13, <1>14, <1>15, <1>16, <1>17, <1>18, <1>19, <1>20, <1>21,
     <1>22, <1>23, <1>24, <1>25, <1>26
  DEF Next, Serve, Delete, Shutdown, Terminated

(* The registry keeps what a directory promises: a connection takes its keg  *)
(* from whoever had it, with an open socket; it is not found again once it   *)
(* was displaced, ended or shut down; and Unregister removes an entry only   *)
(* after its socket was closed.                                              *)
THEOREM DirectoryImplemented ==
    ASSUME OneTokenPerDevice
    PROVE  Spec => DirectoryKept
<1>1. Init => Directory!Init
  BY Nils DEF Init, Directory!Init, lostKeg, closedSockets, ShutDown
<1>2. Init => SocketInv
  BY Nils DEF Init, SocketInv, Torn
<1>3. GoroutineInv /\ RegistryTracksLive /\ SocketInv /\ [Next]_vars => SocketInv'
  BY SocketStep
<1>4. GoroutineInv /\ RegistryTracksLive /\ SocketInv /\ [Next]_vars =>
         [Directory!Next]_<<registry, lostKeg, closedSockets, ShutDown>>
  BY DirectoryStep DEF Same
<1> QED
  BY <1>1, <1>2, <1>3, <1>4, Goroutines, TracksLive, PTL
  DEF Spec, DirectoryKept, Directory!Spec, Directory!directoryVars

(***************************************************************************)
(* What is stored.                                                         *)
(***************************************************************************)

(* No step stores a keg for a device that is not one.                        *)
LEMMA NoPhantomStep ==
    ASSUME OneTokenPerDevice, GoroutineInv, NoPhantomKeg, [Next]_vars
    PROVE  NoPhantomKeg'
<1> USE DEF connVars, handlerVars, shutVars, ghostVars, GoroutineInv
<1>1. ASSUME NEW c \in Conns, Accept(c) PROVE NoPhantomKeg'
  BY <1>1 DEF TypeOK, NoPhantomKeg, SendsKegPins, Accept, Goto, At
<1>2. ASSUME NEW c \in Conns, StartHandler(c) PROVE NoPhantomKeg'
  BY <1>2 DEF TypeOK, NoPhantomKeg, SendsKegPins, StartHandler, Goto, At
<1>3. ASSUME NEW c \in Conns, Read(c) PROVE NoPhantomKeg'
  BY <1>3 DEF TypeOK, NoPhantomKeg, SendsKegPins, Read, Goto, At
<1>4. ASSUME NEW c \in Conns, ReadFail(c) PROVE NoPhantomKeg'
  BY <1>4 DEF TypeOK, NoPhantomKeg, SendsKegPins, ReadFail, Goto, At
<1>5. ASSUME NEW c \in Conns, Ack(c) PROVE NoPhantomKeg'
  BY <1>5 DEF TypeOK, NoPhantomKeg, SendsKegPins, Ack, Drop, Goto, At
<1>6. ASSUME NEW c \in Conns, Identify(c) PROVE NoPhantomKeg'
  BY <1>6, OneToken, Nils DEF TypeOK, NoPhantomKeg, SendsKegPins, Identify,
      Register, Drop, Goto, At
<1>7. ASSUME NEW c \in Conns, Displace(c) PROVE NoPhantomKeg'
  BY <1>7 DEF TypeOK, NoPhantomKeg, SendsKegPins, Displace, Goto, At
<1>8. ASSUME NEW c \in Conns, Gate(c) PROVE NoPhantomKeg'
  BY <1>8 DEF TypeOK, NoPhantomKeg, SendsKegPins, Gate, identifiesAKeg,
      EndIngest, Drop, Goto, At
<1>9. ASSUME NEW c \in Conns, ApplyPacket(c) PROVE NoPhantomKeg'
  BY <1>9 DEF TypeOK, NoPhantomKeg, SendsKegPins, ApplyPacket, MayFail,
      EndIngest, Drop, Goto, At, Storing, FromDevice, SendsKegPins
<1>10. ASSUME NEW c \in Conns, AppendLog(c) PROVE NoPhantomKeg'
  BY <1>10 DEF TypeOK, NoPhantomKeg, SendsKegPins, AppendLog, Goto, At
<1>11. ASSUME NEW c \in Conns, PublishUpdate(c) PROVE NoPhantomKeg'
  BY <1>11 DEF TypeOK, NoPhantomKeg, SendsKegPins, PublishUpdate, Publish,
      EndIngest, Drop, Goto, At
<1>12. ASSUME NEW c \in Conns, KegAmount(c) PROVE NoPhantomKeg'
  BY <1>12 DEF TypeOK, NoPhantomKeg, SendsKegPins, KegAmount, EndIngest,
      Drop, Goto, At
<1>13. ASSUME NEW c \in Conns, CloseSocket(c) PROVE NoPhantomKeg'
  BY <1>13 DEF TypeOK, NoPhantomKeg, SendsKegPins, CloseSocket, Goto, At
<1>14. ASSUME NEW c \in Conns, Unregister(c) PROVE NoPhantomKeg'
  BY <1>14 DEF TypeOK, NoPhantomKeg, SendsKegPins, Unregister, Goto, At
<1>15. ASSUME NEW c \in Conns, SetPouring(c) PROVE NoPhantomKeg'
  BY <1>15 DEF TypeOK, NoPhantomKeg, SendsKegPins, SetPouring, MayFail,
      Goto, At
<1>16. ASSUME NEW c \in Conns, PublishOffline(c) PROVE NoPhantomKeg'
  BY <1>16 DEF TypeOK, NoPhantomKeg, SendsKegPins, PublishOffline, Publish,
      Goto, At
<1>17. ASSUME NEW h \in Handlers, DeleteRequest(h) PROVE NoPhantomKeg'
  BY <1>17 DEF TypeOK, NoPhantomKeg, SendsKegPins, DeleteRequest, HGoto
<1>18. ASSUME NEW h \in Handlers, DisconnectLookup(h) PROVE NoPhantomKeg'
  BY <1>18 DEF TypeOK, NoPhantomKeg, SendsKegPins, DisconnectLookup, HGoto
<1>19. ASSUME NEW h \in Handlers, DisconnectClose(h) PROVE NoPhantomKeg'
  BY <1>19 DEF TypeOK, NoPhantomKeg, SendsKegPins, DisconnectClose, HGoto
<1>20. ASSUME NEW h \in Handlers, DeleteKeg(h) PROVE NoPhantomKeg'
  BY <1>20 DEF TypeOK, NoPhantomKeg, SendsKegPins, DeleteKeg, MayFail,
      EndRequest, HGoto
<1>21. ASSUME NEW h \in Handlers, PublishRemoved(h) PROVE NoPhantomKeg'
  BY <1>21 DEF TypeOK, NoPhantomKeg, SendsKegPins, PublishRemoved,
      EndRequest, HGoto
<1>22. CASE CloseListener
  BY <1>22 DEF TypeOK, NoPhantomKeg, SendsKegPins, CloseListener
<1>23. CASE CloseAll
  BY <1>23 DEF TypeOK, NoPhantomKeg, SendsKegPins, CloseAll
<1>24. CASE CloseOne
  BY <1>24 DEF TypeOK, NoPhantomKeg, SendsKegPins, CloseOne
<1>25. CASE WaitHandlers
  BY <1>25 DEF TypeOK, NoPhantomKeg, SendsKegPins, WaitHandlers
<1>26. CASE UNCHANGED vars
  BY <1>26 DEF TypeOK, NoPhantomKeg, SendsKegPins, vars
<1> QED
  BY <1>1, <1>2, <1>3, <1>4, <1>5, <1>6, <1>7, <1>8, <1>9, <1>10, <1>11,
     <1>12, <1>13, <1>14, <1>15, <1>16, <1>17, <1>18, <1>19, <1>20,
     <1>21, <1>22, <1>23, <1>24, <1>25, <1>26
  DEF Next, Serve, Delete, Shutdown, Terminated

(* Whatever devices are on the network, only one that sends keg-only pins is *)
(* ever stored as a keg.                                                     *)
THEOREM NoPhantom ==
    ASSUME OneTokenPerDevice
    PROVE  Spec => []NoPhantomKeg
<1>1. Init => NoPhantomKeg
  BY DEF Init, NoPhantomKeg
<1>2. GoroutineInv /\ NoPhantomKeg /\ [Next]_vars => NoPhantomKeg'
  BY NoPhantomStep
<1> QED
  BY <1>1, <1>2, Goroutines, PTL DEF Spec

(* No step leaves a pouring flag without somebody to clear it.               *)
LEMMA PourEndsStep ==
    ASSUME OneTokenPerDevice, ~StoreFails,
           GoroutineInv, PourEndsWithConnection, [Next]_vars
    PROVE  PourEndsWithConnection'
<1> USE DEF connVars, handlerVars, shutVars, ghostVars, GoroutineInv
<1>1. ASSUME NEW c \in Conns, Accept(c) PROVE PourEndsWithConnection'
  BY <1>1 DEF TypeOK, PourEndsWithConnection, Accept, Goto, At
<1>2. ASSUME NEW c \in Conns, StartHandler(c) PROVE PourEndsWithConnection'
  BY <1>2 DEF TypeOK, PourEndsWithConnection, StartHandler, Goto, At
<1>3. ASSUME NEW c \in Conns, Read(c) PROVE PourEndsWithConnection'
  BY <1>3 DEF TypeOK, PourEndsWithConnection, Read, Goto, At
<1>4. ASSUME NEW c \in Conns, ReadFail(c) PROVE PourEndsWithConnection'
  BY <1>4 DEF TypeOK, PourEndsWithConnection, ReadFail, Goto, At
<1>5. ASSUME NEW c \in Conns, Ack(c) PROVE PourEndsWithConnection'
  BY <1>5 DEF TypeOK, PourEndsWithConnection, Ack, Drop, Goto, At
<1>6. ASSUME NEW c \in Conns, Identify(c) PROVE PourEndsWithConnection'
  BY <1>6, OneToken, Nils DEF TypeOK, PourEndsWithConnection, Identify,
      Register, Drop, Goto, At
<1>7. ASSUME NEW c \in Conns, Displace(c) PROVE PourEndsWithConnection'
  BY <1>7 DEF TypeOK, PourEndsWithConnection, Displace, Goto, At
<1>8. ASSUME NEW c \in Conns, Gate(c) PROVE PourEndsWithConnection'
  BY <1>8 DEF TypeOK, PourEndsWithConnection, Gate, identifiesAKeg,
      EndIngest, Drop, Goto, At
<1>9. ASSUME NEW c \in Conns, ApplyPacket(c) PROVE PourEndsWithConnection'
  <2> DEFINE k == kegID[c]
  <2>1. /\ k \in Kegs /\ confirmed[c] /\ pc[c] = "apply"
        /\ UNCHANGED <<registry, kegID, confirmed, rivals, phase>>
    BY <1>9 DEF Storing, ApplyPacket, At
  <2>2. \A d \in Conns \ {c} : pc'[d] = pc[d]
    BY <1>9 DEF TypeOK, ApplyPacket, EndIngest, Drop, Goto
  <2>3. \A j \in Kegs \ {k} : rows'[j] = rows[j]
    BY <1>9 DEF TypeOK, ApplyPacket
  <2> SUFFICES ASSUME NEW j \in Kegs, j \notin rivals, phase \in {"up", "closed"},
                      rows'[j] # NoRow, rows'[j].pouring
               PROVE  \E d \in Conns : /\ kegID[d] = j /\ confirmed[d]
                                       /\ registry[j] = d \/ pc'[d] = "clear"
    BY <2>1 DEF PourEndsWithConnection
  <2>4. CASE j = k
    BY <2>1, <2>4, Nils DEF SoleOwner, Identified
  <2>5. CASE j # k
    BY <2>1, <2>2, <2>3, <2>5 DEF PourEndsWithConnection
  <2> QED
    BY <2>4, <2>5
<1>10. ASSUME NEW c \in Conns, AppendLog(c) PROVE PourEndsWithConnection'
  BY <1>10 DEF TypeOK, PourEndsWithConnection, AppendLog, Goto, At
<1>11. ASSUME NEW c \in Conns, PublishUpdate(c) PROVE PourEndsWithConnection'
  BY <1>11 DEF TypeOK, PourEndsWithConnection, PublishUpdate, Publish,
      EndIngest, Drop, Goto, At
<1>12. ASSUME NEW c \in Conns, KegAmount(c) PROVE PourEndsWithConnection'
  BY <1>12 DEF TypeOK, PourEndsWithConnection, KegAmount, EndIngest, Drop,
      Goto, At
<1>13. ASSUME NEW c \in Conns, CloseSocket(c) PROVE PourEndsWithConnection'
  BY <1>13 DEF TypeOK, PourEndsWithConnection, CloseSocket, Goto, At
<1>14. ASSUME NEW c \in Conns, Unregister(c) PROVE PourEndsWithConnection'
  BY <1>14 DEF TypeOK, PourEndsWithConnection, Unregister, Goto, At
<1>15. ASSUME NEW c \in Conns, SetPouring(c) PROVE PourEndsWithConnection'
  <2> DEFINE k == kegID[c]
  <2>1. /\ pc[c] = "clear"
        /\ UNCHANGED <<registry, kegID, confirmed, rivals, phase>>
    BY <1>15 DEF SetPouring, At
  <2>2. \A d \in Conns \ {c} : pc'[d] = pc[d]
    BY <1>15 DEF TypeOK, SetPouring, Goto
  <2>3. \A j \in Kegs \ {k} : rows'[j] = rows[j]
    BY <1>15 DEF TypeOK, SetPouring
  <2>4. phase # "stopped" /\ k \in Kegs /\ rows'[k] # NoRow => ~rows'[k].pouring
    <3>1. CASE /\ rows[k] # NoRow /\ k \in Kegs
               /\ rows' = [rows EXCEPT ![k].pouring = FALSE, ![k].reading = TRUE]
      BY <3>1 DEF TypeOK, Row
    <3>2. CASE rows' = rows /\ (rows[k] = NoRow \/ phase = "stopped")
      BY <3>2
    <3> QED
      BY <1>15, <3>1, <3>2 DEF SetPouring, MayFail
  <2> SUFFICES ASSUME NEW j \in Kegs, j \notin rivals, phase \in {"up", "closed"},
                      rows'[j] # NoRow, rows'[j].pouring
               PROVE  \E d \in Conns : /\ kegID[d] = j /\ confirmed[d]
                                       /\ registry[j] = d \/ pc'[d] = "clear"
    BY <2>1 DEF PourEndsWithConnection
  <2>5. j # k
    BY <2>4
  <2> QED
    BY <2>1, <2>2, <2>3, <2>5 DEF PourEndsWithConnection
<1>16. ASSUME NEW c \in Conns, PublishOffline(c) PROVE PourEndsWithConnection'
  BY <1>16 DEF TypeOK, PourEndsWithConnection, PublishOffline, Publish,
      Goto, At
<1>17. ASSUME NEW h \in Handlers, DeleteRequest(h) PROVE PourEndsWithConnection'
  BY <1>17 DEF TypeOK, PourEndsWithConnection, DeleteRequest, HGoto
<1>18. ASSUME NEW h \in Handlers, DisconnectLookup(h) PROVE PourEndsWithConnection'
  BY <1>18 DEF TypeOK, PourEndsWithConnection, DisconnectLookup, HGoto
<1>19. ASSUME NEW h \in Handlers, DisconnectClose(h) PROVE PourEndsWithConnection'
  BY <1>19 DEF TypeOK, PourEndsWithConnection, DisconnectClose, HGoto
<1>20. ASSUME NEW h \in Handlers, DeleteKeg(h) PROVE PourEndsWithConnection'
  BY <1>20 DEF TypeOK, PourEndsWithConnection, DeleteKeg, MayFail,
      EndRequest, HGoto
<1>21. ASSUME NEW h \in Handlers, PublishRemoved(h) PROVE PourEndsWithConnection'
  BY <1>21 DEF TypeOK, PourEndsWithConnection, PublishRemoved, EndRequest,
      HGoto
<1>22. CASE CloseListener
  BY <1>22 DEF TypeOK, PourEndsWithConnection, CloseListener
<1>23. CASE CloseAll
  BY <1>23 DEF TypeOK, PourEndsWithConnection, CloseAll
<1>24. CASE CloseOne
  BY <1>24 DEF TypeOK, PourEndsWithConnection, CloseOne
<1>25. CASE WaitHandlers
  BY <1>25 DEF TypeOK, PourEndsWithConnection, WaitHandlers
<1>26. CASE UNCHANGED vars
  BY <1>26 DEF TypeOK, PourEndsWithConnection, vars
<1> QED
  BY <1>1, <1>2, <1>3, <1>4, <1>5, <1>6, <1>7, <1>8, <1>9, <1>10, <1>11,
     <1>12, <1>13, <1>14, <1>15, <1>16, <1>17, <1>18, <1>19, <1>20,
     <1>21, <1>22, <1>23, <1>24, <1>25, <1>26
  DEF Next, Serve, Delete, Shutdown, Terminated

(* While the database answers and no second socket competes for the keg, a   *)
(* stored pouring flag has a live connection, or its teardown, behind it.    *)
THEOREM PourEnds ==
    ASSUME OneTokenPerDevice, ~StoreFails
    PROVE  Spec => []PourEndsWithConnection
<1>1. Init => PourEndsWithConnection
  BY DEF Init, PourEndsWithConnection
<1>2. GoroutineInv /\ PourEndsWithConnection /\ [Next]_vars => PourEndsWithConnection'
  BY PourEndsStep
<1> QED
  BY <1>1, <1>2, Goroutines, PTL DEF Spec

(* A row is written by ApplyPacket and SetPouring and removed by DeleteKeg,  *)
(* and SetPouring finds one to write.                                        *)
LEMMA PacketsCreateStep ==
    ASSUME TypeOK, Next, NEW k \in Kegs, rows[k] = NoRow, rows'[k] # NoRow
    PROVE  \E c \in Conns : pc[c] = "apply" /\ kegID[c] = k /\ pc'[c] # "apply"
<1> USE DEF connVars, handlerVars, shutVars, ghostVars
<1>1. ~UNCHANGED rows
  OBVIOUS
<1>2. ASSUME NEW c \in Conns, ApplyPacket(c)
      PROVE  pc[c] = "apply" /\ kegID[c] = k /\ pc'[c] # "apply"
  BY <1>2 DEF TypeOK, ApplyPacket, EndIngest, Drop, Goto, At
<1>3. ASSUME NEW c \in Conns, SetPouring(c)
      PROVE  FALSE
  <2>1. /\ rows[kegID[c]] # NoRow
        /\ rows' = [rows EXCEPT ![kegID[c]].pouring = FALSE,
                               ![kegID[c]].reading = TRUE]
    BY <1>1, <1>3 DEF SetPouring
  <2> QED
    BY <2>1 DEF TypeOK
<1>4. ASSUME NEW h \in Handlers, DeleteKeg(h)
      PROVE  FALSE
  BY <1>4 DEF TypeOK, DeleteKeg
<1> QED
  BY <1>1, <1>2, <1>3, <1>4
  DEF Next, Serve, Delete, Shutdown, Terminated, Accept, StartHandler, Read,
      ReadFail, Ack, Identify, Displace, Gate, AppendLog, PublishUpdate,
      KegAmount, CloseSocket, Unregister, PublishOffline, DeleteRequest,
      DisconnectLookup, DisconnectClose, PublishRemoved,
      CloseListener, CloseAll, CloseOne, WaitHandlers, vars

(* Whatever runs after a delete (a teardown, a second delete, a shutdown),   *)
(* only a packet of that keg's own connection makes its row again.           *)
THEOREM OnlyPacketsMakeKegs == Spec => OnlyPacketsCreate
<1> DEFINE A == \A k \in Kegs : rows[k] = NoRow /\ rows'[k] # NoRow =>
          \E c \in Conns : pc[c] = "apply" /\ kegID[c] = k /\ pc'[c] # "apply"
<1>1. GoroutineInv /\ [Next]_vars => [A]_vars
  BY PacketsCreateStep DEF GoroutineInv
<1> QED
  BY <1>1, Goroutines, PTL DEF Spec, OnlyPacketsCreate

(* SetPouring leaves a row there, with its metadata, and no other touched.   *)
LEMMA ClearedRow ==
    ASSUME TypeOK, NEW k \in Kegs, rows[k] # NoRow,
           rows' = [rows EXCEPT ![k].pouring = FALSE, ![k].reading = TRUE]
    PROVE  /\ rows'[k] # NoRow /\ rows'[k].meta = rows[k].meta
           /\ \A j \in Kegs \ {k} : rows'[j] = rows[j]
<1>1. rows[k] \in Row
  BY DEF TypeOK
<1>2. rows'[k] = [rows[k] EXCEPT !.pouring = FALSE, !.reading = TRUE]
  BY DEF TypeOK
<1>3. rows'[k] \in Row
  BY <1>1, <1>2 DEF Row
<1>4. rows'[k].meta = rows[k].meta
  BY <1>1, <1>2 DEF Row
<1> QED
  BY <1>3, <1>4, KegServerAssumption DEF TypeOK

(* What a keg's badge rests on between its delete and the removal's message: *)
(* a keg shown connected is stored, or its removal has yet to be published.  *)
Removal(k) == \E h \in Handlers : hpc[h] = "removed" /\ hkeg[h] = k
ShownStored == \A k \in Kegs : shown[k] => rows[k] # NoRow \/ Removal(k)
BadgeInv == ShownStored /\ StaleBadgeExplained

(* No step leaves an offline keg's badge without somebody to correct it.     *)
LEMMA BadgeStep ==
    ASSUME ~StoreFails, GoroutineInv, BadgeInv, [Next]_vars
    PROVE  BadgeInv'
<1> USE Nils DEF connVars, handlerVars, shutVars, ghostVars, GoroutineInv
<1>1. ASSUME NEW c \in Conns, Accept(c) PROVE BadgeInv'
  BY <1>1 DEF TypeOK, BadgeInv, ShownStored, Removal, StaleBadgeExplained,
      Accept, Goto, At
<1>2. ASSUME NEW c \in Conns, StartHandler(c) PROVE BadgeInv'
  BY <1>2 DEF TypeOK, BadgeInv, ShownStored, Removal, StaleBadgeExplained,
      StartHandler, Goto, At
<1>3. ASSUME NEW c \in Conns, Read(c) PROVE BadgeInv'
  BY <1>3 DEF TypeOK, BadgeInv, ShownStored, Removal, StaleBadgeExplained,
      Read, Goto, At
<1>4. ASSUME NEW c \in Conns, ReadFail(c) PROVE BadgeInv'
  BY <1>4 DEF TypeOK, BadgeInv, ShownStored, Removal, StaleBadgeExplained,
      ReadFail, Goto, At
<1>5. ASSUME NEW c \in Conns, Ack(c) PROVE BadgeInv'
  BY <1>5 DEF TypeOK, BadgeInv, ShownStored, Removal, StaleBadgeExplained,
      Ack, Drop, Goto, At
<1>6. ASSUME NEW c \in Conns, Identify(c) PROVE BadgeInv'
  BY <1>6 DEF TypeOK, BadgeInv, ShownStored, Removal, StaleBadgeExplained,
      Identify, Register, Drop, Goto, At
<1>7. ASSUME NEW c \in Conns, Displace(c) PROVE BadgeInv'
  BY <1>7 DEF TypeOK, BadgeInv, ShownStored, Removal, StaleBadgeExplained,
      Displace, Goto, At
<1>8. ASSUME NEW c \in Conns, Gate(c) PROVE BadgeInv'
  BY <1>8 DEF TypeOK, BadgeInv, ShownStored, Removal, StaleBadgeExplained,
      Gate, identifiesAKeg, EndIngest, Drop, Goto, At
<1>9. ASSUME NEW c \in Conns, ApplyPacket(c) PROVE BadgeInv'
  <2>1. /\ pc[c] = "apply" /\ \A d \in Conns \ {c} : pc'[d] = pc[d]
        /\ UNCHANGED <<registry, kegID, confirmed, shown, hpc, hkeg, phase>>
    BY <1>9 DEF TypeOK, ApplyPacket, EndIngest, Drop, Goto, At
  <2>2. \A k \in Kegs : rows[k] # NoRow => rows'[k] # NoRow
    <3>1. kegID[c] \in Kegs => Merge(rows[kegID[c]], pkt[c]) # NoRow
      <4>1. ASSUME kegID[c] \in Kegs PROVE Merge(rows[kegID[c]], pkt[c]) \in Row
        <5>1. rows[kegID[c]] \in Row \cup {NoRow} /\ pkt[c] \in Packet
          BY <4>1 DEF TypeOK
        <5> QED
          BY <5>1, MergeType
      <4> QED
        BY <4>1, KegServerAssumption
    <3> QED
      BY <1>9, <3>1 DEF TypeOK, ApplyPacket
  <2>3. ShownStored'
    BY <2>1, <2>2 DEF BadgeInv, ShownStored, Removal
  <2>4. StaleBadgeExplained'
    BY <2>1 DEF BadgeInv, StaleBadgeExplained
  <2> QED
    BY <2>3, <2>4 DEF BadgeInv
<1>10. ASSUME NEW c \in Conns, AppendLog(c) PROVE BadgeInv'
  BY <1>10 DEF TypeOK, BadgeInv, ShownStored, Removal, StaleBadgeExplained,
      AppendLog, Goto, At
<1>11. ASSUME NEW c \in Conns, PublishUpdate(c) PROVE BadgeInv'
  BY <1>11 DEF TypeOK, BadgeInv, ShownStored, Removal, StaleBadgeExplained,
      PublishUpdate, Publish, EndIngest, Drop, Goto, At
<1>12. ASSUME NEW c \in Conns, KegAmount(c) PROVE BadgeInv'
  BY <1>12 DEF TypeOK, BadgeInv, ShownStored, Removal, StaleBadgeExplained,
      KegAmount, EndIngest, Drop, Goto, At
<1>13. ASSUME NEW c \in Conns, CloseSocket(c) PROVE BadgeInv'
  BY <1>13 DEF TypeOK, BadgeInv, ShownStored, Removal, StaleBadgeExplained,
      CloseSocket, Goto, At
<1>14. ASSUME NEW c \in Conns, Unregister(c) PROVE BadgeInv'
  BY <1>14 DEF TypeOK, BadgeInv, ShownStored, Removal, StaleBadgeExplained,
      Unregister, Goto, At
<1>15. ASSUME NEW c \in Conns, SetPouring(c) PROVE BadgeInv'
  <2>1. /\ pc[c] = "clear" /\ \A d \in Conns \ {c} : pc'[d] = pc[d]
        /\ UNCHANGED <<registry, kegID, confirmed, shown, hpc, hkeg, phase>>
    BY <1>15 DEF TypeOK, SetPouring, Goto, At
  <2>2. \A k \in Kegs : rows[k] # NoRow => rows'[k] # NoRow
    <3>1. CASE /\ rows[kegID[c]] # NoRow
               /\ rows' = [rows EXCEPT ![kegID[c]].pouring = FALSE,
                                      ![kegID[c]].reading = TRUE]
      <4>1. CASE kegID[c] \in Kegs
        BY <3>1, <4>1, ClearedRow
      <4>2. CASE kegID[c] \notin Kegs
        BY <3>1, <4>2 DEF TypeOK
      <4> QED
        BY <4>1, <4>2
    <3> QED
      BY <1>15, <3>1 DEF SetPouring
  <2>3. ShownStored'
    BY <2>1, <2>2 DEF BadgeInv, ShownStored, Removal
  <2>4. pc'[c] = "announce" \/ rows[kegID[c]] = NoRow \/ phase = "stopped"
    BY <1>15 DEF TypeOK, SetPouring, MayFail, Goto
  <2>5. StaleBadgeExplained'
    <3> SUFFICES ASSUME NEW k \in Kegs, shown[k], registry[k] = NoConn,
                        phase \in {"up", "closed"}
                 PROVE  \/ \E d \in Conns :
                              /\ kegID[d] = k
                              /\ \/ pc'[d] \in {"clear", "announce"}
                                 \/ pc'[d] = "done" /\ ~confirmed[d]
                        \/ Removal(k)
      BY <2>1 DEF StaleBadgeExplained, Removal
    <3>1. CASE kegID[c] = k
      BY <2>4, <3>1 DEF BadgeInv, ShownStored
    <3>2. CASE kegID[c] # k
      BY <2>1, <3>2 DEF BadgeInv, StaleBadgeExplained, Removal
    <3> QED
      BY <3>1, <3>2
  <2> QED
    BY <2>3, <2>5 DEF BadgeInv
<1>16. ASSUME NEW c \in Conns, PublishOffline(c) PROVE BadgeInv'
  <2>1. /\ pc[c] = "announce" /\ \A d \in Conns \ {c} : pc'[d] = pc[d]
        /\ UNCHANGED <<registry, rows, kegID, confirmed, hpc, hkeg, phase>>
        /\ \A k \in Kegs \ {kegID[c]} : shown'[k] = shown[k]
    BY <1>16 DEF TypeOK, PublishOffline, Publish, Goto, At
  <2>2. kegID[c] \in Kegs =>
            shown'[kegID[c]] = IF rows[kegID[c]] = NoRow THEN shown[kegID[c]]
                               ELSE registry[kegID[c]] # NoConn
    BY <1>16 DEF TypeOK, PublishOffline, Publish
  <2>3. ShownStored'
    BY <2>1, <2>2 DEF BadgeInv, ShownStored, Removal
  <2>4. StaleBadgeExplained'
    <3> SUFFICES ASSUME NEW k \in Kegs, shown'[k], registry[k] = NoConn,
                        phase \in {"up", "closed"}
                 PROVE  \/ \E d \in Conns :
                              /\ kegID[d] = k
                              /\ \/ pc'[d] \in {"clear", "announce"}
                                 \/ pc'[d] = "done" /\ ~confirmed[d]
                        \/ Removal(k)
      BY <2>1 DEF StaleBadgeExplained, Removal
    <3>1. CASE kegID[c] = k
      BY <2>2, <3>1 DEF BadgeInv, ShownStored
    <3>2. CASE kegID[c] # k
      BY <2>1, <3>2 DEF BadgeInv, StaleBadgeExplained, Removal
    <3> QED
      BY <3>1, <3>2
  <2> QED
    BY <2>3, <2>4 DEF BadgeInv
<1>17. ASSUME NEW h \in Handlers, DeleteRequest(h) PROVE BadgeInv'
  BY <1>17 DEF TypeOK, BadgeInv, ShownStored, Removal, StaleBadgeExplained,
      DeleteRequest, HGoto
<1>18. ASSUME NEW h \in Handlers, DisconnectLookup(h) PROVE BadgeInv'
  BY <1>18 DEF TypeOK, BadgeInv, ShownStored, Removal, StaleBadgeExplained,
      DisconnectLookup, HGoto
<1>19. ASSUME NEW h \in Handlers, DisconnectClose(h) PROVE BadgeInv'
  BY <1>19 DEF TypeOK, BadgeInv, ShownStored, Removal, StaleBadgeExplained,
      DisconnectClose, HGoto
<1>20. ASSUME NEW h \in Handlers, DeleteKeg(h) PROVE BadgeInv'
  BY <1>20 DEF TypeOK, BadgeInv, ShownStored, Removal, StaleBadgeExplained,
      DeleteKeg, MayFail, EndRequest, HGoto
<1>21. ASSUME NEW h \in Handlers, PublishRemoved(h) PROVE BadgeInv'
  BY <1>21 DEF TypeOK, BadgeInv, ShownStored, Removal, StaleBadgeExplained,
      PublishRemoved, EndRequest, HGoto
<1>22. CASE CloseListener
  BY <1>22 DEF TypeOK, BadgeInv, ShownStored, Removal, StaleBadgeExplained,
      CloseListener
<1>23. CASE CloseAll
  BY <1>23 DEF TypeOK, BadgeInv, ShownStored, Removal, StaleBadgeExplained,
      CloseAll
<1>24. CASE CloseOne
  BY <1>24 DEF TypeOK, BadgeInv, ShownStored, Removal, StaleBadgeExplained,
      CloseOne
<1>25. CASE WaitHandlers
  BY <1>25 DEF TypeOK, BadgeInv, ShownStored, Removal, StaleBadgeExplained,
      WaitHandlers
<1>26. CASE UNCHANGED vars
  BY <1>26 DEF TypeOK, BadgeInv, ShownStored, Removal, StaleBadgeExplained, vars
<1> QED
  BY <1>1, <1>2, <1>3, <1>4, <1>5, <1>6, <1>7, <1>8, <1>9, <1>10, <1>11,
     <1>12, <1>13, <1>14, <1>15, <1>16, <1>17, <1>18, <1>19, <1>20, <1>21, <1>22,
     <1>23, <1>24, <1>25, <1>26
  DEF Next, Serve, Delete, Shutdown, Terminated

(* While the database answers, an offline keg is shown offline, or somebody  *)
(* is about to say so; the one gap is a device that never proved to be a     *)
(* keg on the connection it dropped.  More than one socket may compete, and  *)
(* a device may change its token.                                            *)
THEOREM BadgeExplained ==
    ASSUME ~StoreFails
    PROVE  Spec => []StaleBadgeExplained
<1>1. Init => BadgeInv
  BY DEF Init, BadgeInv, ShownStored, StaleBadgeExplained
<1>2. GoroutineInv /\ BadgeInv /\ [Next]_vars => BadgeInv'
  BY BadgeStep
<1>3. BadgeInv => StaleBadgeExplained
  BY DEF BadgeInv
<1> QED
  BY <1>1, <1>2, <1>3, Goroutines, PTL DEF Spec

(* Where metadata that is owed can be while its connection lives: held, in   *)
(* the packet on its way to the row, in the row, or gone with a delete.      *)
Stored(c) ==
    \/ kegID[c] \in deleted
    \/ kegID[c] \in Kegs /\ rows[kegID[c]] # NoRow /\ rows[kegID[c]].meta
Deliverable(c) == ~confirmed[c] /\ pkt[c].pins \notin KegPins
OnItsWay(c) ==
    /\ pkt[c].meta
    /\ \/ /\ pc[c] \in {"ack", "identify"}
          /\ kegID[c] # NoKeg \/ pkt[c].id \in Kegs \/ Deliverable(c)
       \/ pc[c] \in {"displace", "gate"} /\ (kegID[c] # NoKeg \/ Deliverable(c))
       \/ pc[c] = "apply"
Ending == {"close", "unregister", "clear", "announce", "done"}
MetaInv ==
    phase # "stopped" =>
        \A c \in Conns : owed[c] /\ pc[c] \notin Ending =>
            held[c] \/ Stored(c) \/ OnItsWay(c)

(* A packet's metadata reaches the row it is applied to.                     *)
LEMMA MergeMeta ==
    ASSUME NEW row \in Row \cup {NoRow}, NEW p \in Packet
    PROVE  /\ p.meta => Merge(row, p).meta
           /\ row # NoRow /\ row.meta => Merge(row, p).meta
BY DEF Merge, Packet, Row

(* No step loses metadata that is owed.                                      *)
LEMMA MetaStep ==
    ASSUME OneTokenPerDevice, ~StoreFails, GoroutineInv, MetaInv, [Next]_vars
    PROVE  MetaInv'
<1> USE Nils DEF connVars, handlerVars, shutVars, ghostVars, GoroutineInv
<1>1. ASSUME NEW c \in Conns, Accept(c) PROVE MetaInv'
  BY <1>1 DEF TypeOK, MetaInv, Stored, OnItsWay, Deliverable, Ending, Accept,
      Goto, At
<1>2. ASSUME NEW c \in Conns, StartHandler(c) PROVE MetaInv'
  BY <1>2 DEF TypeOK, MetaInv, Stored, OnItsWay, Deliverable, Ending,
      StartHandler, Goto, At
<1>3. ASSUME NEW c \in Conns, Read(c) PROVE MetaInv'
  <2>1. /\ pc[c] = "read" /\ pc'[c] = "ack"
        /\ \A d \in Conns \ {c} :
              /\ pc'[d] = pc[d] /\ pkt'[d] = pkt[d] /\ owed'[d] = owed[d]
        /\ UNCHANGED <<kegID, confirmed, held, rows, deleted, phase>>
    BY <1>3 DEF TypeOK, Read, Goto, At
  <2>2. owed'[c] => owed[c] \/ (pkt'[c].meta /\ ~Nameless(c, pkt'[c]))
    BY <1>3 DEF TypeOK, Read
  <2>3. \A d \in Conns : Stored(d)' = Stored(d)
    BY <2>1 DEF Stored
  <2>4. ASSUME NEW d \in Conns, d # c, owed'[d], pc'[d] \notin Ending,
               phase' # "stopped"
        PROVE  held'[d] \/ Stored(d)' \/ OnItsWay(d)'
    BY <2>1, <2>3, <2>4 DEF MetaInv, OnItsWay, Deliverable
  <2>5. ASSUME owed'[c], phase' # "stopped"
        PROVE  held'[c] \/ Stored(c)' \/ OnItsWay(c)'
    <3>1. CASE owed[c]
      BY <2>1, <2>3, <2>5, <3>1 DEF MetaInv, OnItsWay, Ending
    <3>2. CASE pkt'[c].meta /\ ~Nameless(c, pkt'[c])
      BY <2>1, <3>2 DEF OnItsWay, Deliverable, Nameless
    <3> QED
      BY <2>2, <2>5, <3>1, <3>2
  <2> QED
    BY <2>4, <2>5 DEF MetaInv
<1>4. ASSUME NEW c \in Conns, ReadFail(c) PROVE MetaInv'
  BY <1>4 DEF TypeOK, MetaInv, Stored, OnItsWay, Deliverable, Ending,
      ReadFail, Goto, At
<1>5. ASSUME NEW c \in Conns, Ack(c) PROVE MetaInv'
  BY <1>5 DEF TypeOK, MetaInv, Stored, OnItsWay, Deliverable, Ending, Ack,
      Drop, Goto, At
<1>6. ASSUME NEW c \in Conns, Identify(c) PROVE MetaInv'
  BY <1>6, OneToken DEF TypeOK, MetaInv, Stored, OnItsWay, Deliverable,
      Ending, Identify, Register, Drop, Goto, At
<1>7. ASSUME NEW c \in Conns, Displace(c) PROVE MetaInv'
  BY <1>7 DEF TypeOK, MetaInv, Stored, OnItsWay, Deliverable, Ending,
      Displace, Goto, At
<1>8. ASSUME NEW c \in Conns, Gate(c) PROVE MetaInv'
  <2> DEFINE merged == pkt[c].meta \/ held[c]
  <2>1. /\ pc[c] = "gate"
        /\ \A d \in Conns \ {c} :
              /\ pc'[d] = pc[d] /\ pkt'[d] = pkt[d]
              /\ held'[d] = held[d] /\ confirmed'[d] = confirmed[d]
        /\ UNCHANGED <<kegID, rows, deleted, owed, phase>>
    BY <1>8 DEF TypeOK, Gate, EndIngest, Drop, Goto, At
  <2>2. \A d \in Conns : Stored(d)' = Stored(d)
    BY <2>1 DEF Stored
  <2>3. ASSUME NEW d \in Conns, d # c, owed[d], pc'[d] \notin Ending,
               phase # "stopped"
        PROVE  held'[d] \/ Stored(d)' \/ OnItsWay(d)'
    BY <2>1, <2>2, <2>3 DEF MetaInv, OnItsWay, Deliverable
  <2>4. ASSUME owed[c], pc'[c] \notin Ending, phase # "stopped"
        PROVE  held'[c] \/ Stored(c)' \/ OnItsWay(c)'
    <3>1. \/ held[c] \/ Stored(c)
          \/ pkt[c].meta /\ (kegID[c] # NoKeg \/ Deliverable(c))
      BY <2>1, <2>4 DEF MetaInv, OnItsWay, Ending
    <3>2. CASE ~(confirmed[c] \/ identifiesAKeg(pkt[c]))
      <4>1. held'[c] = merged
        BY <1>8, <3>2 DEF TypeOK, Gate
      <4> QED
        BY <2>2, <3>1, <4>1
    <3>3. CASE (confirmed[c] \/ identifiesAKeg(pkt[c])) /\ kegID[c] = NoKeg
      <4>1. held'[c] = held[c]
        BY <1>8, <3>3 DEF Gate
      <4> QED
        BY <2>2, <3>1, <3>3, <4>1 DEF Deliverable, identifiesAKeg
    <3>4. CASE (confirmed[c] \/ identifiesAKeg(pkt[c])) /\ kegID[c] # NoKeg
      <4>1. CASE merged
        <5>1. pkt' = [pkt EXCEPT ![c].meta = merged] /\ pc' = [pc EXCEPT ![c] = "apply"]
          BY <1>8, <3>4, <4>1 DEF Gate, Goto
        <5>2. pkt[c] \in Packet
          BY DEF TypeOK
        <5>3. pkt'[c].meta /\ pc'[c] = "apply"
          BY <4>1, <5>1, <5>2 DEF TypeOK, Packet
        <5> QED
          BY <5>3 DEF OnItsWay
      <4>2. CASE ~merged
        BY <2>2, <3>1, <4>2
      <4> QED
        BY <4>1, <4>2
    <3> QED
      BY <3>2, <3>3, <3>4
  <2> QED
    BY <2>1, <2>3, <2>4 DEF MetaInv
<1>9. ASSUME NEW c \in Conns, ApplyPacket(c) PROVE MetaInv'
  <2> DEFINE k == kegID[c]
  <2>1. /\ k \in Kegs /\ pc[c] = "apply"
        /\ \A d \in Conns \ {c} : pc'[d] = pc[d] /\ pkt'[d] = pkt[d]
        /\ UNCHANGED <<kegID, confirmed, held, deleted, owed, phase>>
    BY <1>9 DEF TypeOK, Storing, ApplyPacket, EndIngest, Drop, Goto, At
  <2>2. SUFFICES ASSUME phase # "stopped" PROVE MetaInv'
    BY <2>1 DEF MetaInv
  <2>3. rows' = [rows EXCEPT ![k] = Merge(rows[k], pkt[c])]
    BY <1>9, <2>2 DEF ApplyPacket, MayFail
  <2>4. /\ rows'[k] = Merge(rows[k], pkt[c]) /\ rows'[k] # NoRow
        /\ \A j \in Kegs \ {k} : rows'[j] = rows[j]
    <3>1. rows[k] \in Row \cup {NoRow} /\ pkt[c] \in Packet
      BY <2>1 DEF TypeOK
    <3>2. Merge(rows[k], pkt[c]) \in Row
      BY <3>1, MergeType
    <3>3. Merge(rows[k], pkt[c]) # NoRow
      BY <3>2, KegServerAssumption
    <3> QED
      BY <2>1, <2>3, <3>3 DEF TypeOK
  <2>5. /\ pkt[c].meta => rows'[k].meta
        /\ rows[k] # NoRow /\ rows[k].meta => rows'[k].meta
    BY <2>1, <2>4, MergeMeta DEF TypeOK
  <2>6. \A d \in Conns : Stored(d) => Stored(d)'
    BY <2>1, <2>4, <2>5 DEF Stored
  <2>7. ASSUME NEW d \in Conns, d # c, owed[d], pc'[d] \notin Ending
        PROVE  held'[d] \/ Stored(d)' \/ OnItsWay(d)'
    BY <2>1, <2>2, <2>6, <2>7 DEF MetaInv, OnItsWay, Deliverable
  <2>8. ASSUME owed[c]
        PROVE  held'[c] \/ Stored(c)'
    <3>1. held[c] \/ Stored(c) \/ pkt[c].meta
      BY <2>1, <2>2, <2>8 DEF MetaInv, OnItsWay, Ending
    <3>2. pkt[c].meta => Stored(c)'
      BY <2>1, <2>4, <2>5 DEF Stored
    <3> QED
      BY <2>1, <2>6, <3>1, <3>2
  <2> QED
    BY <2>1, <2>7, <2>8 DEF MetaInv
<1>10. ASSUME NEW c \in Conns, AppendLog(c) PROVE MetaInv'
  BY <1>10 DEF TypeOK, MetaInv, Stored, OnItsWay, Deliverable, Ending,
      AppendLog, Goto, At
<1>11. ASSUME NEW c \in Conns, PublishUpdate(c) PROVE MetaInv'
  BY <1>11 DEF TypeOK, MetaInv, Stored, OnItsWay, Deliverable, Ending,
      PublishUpdate, Publish, EndIngest, Drop, Goto, At
<1>12. ASSUME NEW c \in Conns, KegAmount(c) PROVE MetaInv'
  BY <1>12 DEF TypeOK, MetaInv, Stored, OnItsWay, Deliverable, Ending,
      KegAmount, EndIngest, Drop, Goto, At
<1>13. ASSUME NEW c \in Conns, CloseSocket(c) PROVE MetaInv'
  BY <1>13 DEF TypeOK, MetaInv, Stored, OnItsWay, Deliverable, Ending,
      CloseSocket, Goto, At
<1>14. ASSUME NEW c \in Conns, Unregister(c) PROVE MetaInv'
  BY <1>14 DEF TypeOK, MetaInv, Stored, OnItsWay, Deliverable, Ending,
      Unregister, Goto, At
<1>15. ASSUME NEW c \in Conns, SetPouring(c) PROVE MetaInv'
  <2>1. /\ pc[c] = "clear" /\ pc'[c] \in Ending
        /\ \A d \in Conns \ {c} : pc'[d] = pc[d]
        /\ UNCHANGED <<kegID, confirmed, held, pkt, deleted, owed, phase>>
    BY <1>15 DEF TypeOK, SetPouring, Goto, At, Ending
  <2>2. \A k \in Kegs : rows[k] # NoRow /\ rows[k].meta =>
                          rows'[k] # NoRow /\ rows'[k].meta
    <3>1. CASE /\ rows[kegID[c]] # NoRow
               /\ rows' = [rows EXCEPT ![kegID[c]].pouring = FALSE,
                                      ![kegID[c]].reading = TRUE]
      <4>1. CASE kegID[c] \in Kegs
        BY <3>1, <4>1, ClearedRow
      <4>2. CASE kegID[c] \notin Kegs
        BY <3>1, <4>2 DEF TypeOK
      <4> QED
        BY <4>1, <4>2
    <3> QED
      BY <1>15, <3>1 DEF SetPouring
  <2>3. \A d \in Conns : Stored(d) => Stored(d)'
    BY <2>1, <2>2 DEF Stored
  <2> QED
    BY <2>1, <2>3 DEF MetaInv, OnItsWay, Deliverable
<1>16. ASSUME NEW c \in Conns, PublishOffline(c) PROVE MetaInv'
  BY <1>16 DEF TypeOK, MetaInv, Stored, OnItsWay, Deliverable, Ending,
      PublishOffline, Publish, Goto, At
<1>17. ASSUME NEW h \in Handlers, DeleteRequest(h) PROVE MetaInv'
  BY <1>17 DEF TypeOK, MetaInv, Stored, OnItsWay, Deliverable, Ending,
      DeleteRequest, HGoto
<1>18. ASSUME NEW h \in Handlers, DisconnectLookup(h) PROVE MetaInv'
  BY <1>18 DEF TypeOK, MetaInv, Stored, OnItsWay, Deliverable, Ending,
      DisconnectLookup, HGoto
<1>19. ASSUME NEW h \in Handlers, DisconnectClose(h) PROVE MetaInv'
  BY <1>19 DEF TypeOK, MetaInv, Stored, OnItsWay, Deliverable, Ending,
      DisconnectClose, HGoto
<1>20. ASSUME NEW h \in Handlers, DeleteKeg(h) PROVE MetaInv'
  BY <1>20 DEF TypeOK, MetaInv, Stored, OnItsWay, Deliverable, Ending,
      DeleteKeg, MayFail, EndRequest, HGoto
<1>21. ASSUME NEW h \in Handlers, PublishRemoved(h) PROVE MetaInv'
  BY <1>21 DEF TypeOK, MetaInv, Stored, OnItsWay, Deliverable, Ending,
      PublishRemoved, EndRequest, HGoto
<1>22. CASE CloseListener
  BY <1>22 DEF TypeOK, MetaInv, Stored, OnItsWay, Deliverable, Ending,
      CloseListener
<1>23. CASE CloseAll
  BY <1>23 DEF TypeOK, MetaInv, Stored, OnItsWay, Deliverable, Ending, CloseAll
<1>24. CASE CloseOne
  BY <1>24 DEF TypeOK, MetaInv, Stored, OnItsWay, Deliverable, Ending, CloseOne
<1>25. CASE WaitHandlers
  BY <1>25 DEF TypeOK, MetaInv, Stored, OnItsWay, Deliverable, Ending,
      WaitHandlers
<1>26. CASE UNCHANGED vars
  BY <1>26 DEF TypeOK, MetaInv, Stored, OnItsWay, Deliverable, Ending, vars
<1> QED
  BY <1>1, <1>2, <1>3, <1>4, <1>5, <1>6, <1>7, <1>8, <1>9, <1>10, <1>11,
     <1>12, <1>13, <1>14, <1>15, <1>16, <1>17, <1>18, <1>19, <1>20, <1>21, <1>22,
     <1>23, <1>24, <1>25, <1>26
  DEF Next, Serve, Delete, Shutdown, Terminated

(* While the database answers, metadata sent before the device proved to be  *)
(* a keg is held until it has, and then stored with the keg.                 *)
THEOREM MetadataIsKept ==
    ASSUME OneTokenPerDevice, ~StoreFails
    PROVE  Spec => []MetadataKept
<1>1. Init => MetaInv
  BY DEF Init, MetaInv
<1>2. GoroutineInv /\ MetaInv /\ [Next]_vars => MetaInv'
  BY MetaStep
<1>3. MetaInv => MetadataKept
  BY DEF MetaInv, MetadataKept, Stored, OnItsWay, Ending
<1> QED
  BY <1>1, <1>2, <1>3, Goroutines, PTL DEF Spec

=============================================================================
