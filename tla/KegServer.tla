----------------------------- MODULE KegServer -----------------------------
(***************************************************************************)
(* The TCP side of open-plaato-keg: one goroutine per device connection    *)
(* (keg.Server.handle, ingest, finish), the Registry of live connections,  *)
(* the keg rows those connections write, the HTTP handler that forgets a   *)
(* keg, and the shutdown sequence of main.go.                              *)
(*                                                                         *)
(* A step of a goroutine is what it does between two points at which       *)
(* another goroutine can get in: a blocking read, the registry's lock, a   *)
(* socket write or close, one SQLite transaction, one Publish.  pc[c]      *)
(* names the step the goroutine of connection c takes next.                *)
(***************************************************************************)

CONSTANTS
    Kegs,       \* well-formed auth tokens, which are also the keg ids
    Conns,      \* sockets the listener may accept; each is used once
    Handlers,   \* HTTP requests for DELETE /api/kegs/{id} that may overlap
    NoKeg,      \* the empty keg id: the device has not announced its token
    BadToken,   \* a token ValidDeviceID rejects
    NoConn,     \* the nil *Conn
    NoRow,      \* the keg is not stored
    Networks,   \* the networks considered: what the device behind c can send
    StoreFails  \* whether a transaction may fail while the server is up

(***************************************************************************)
(* What ingest tells apart in a decoded packet: the token it announces,    *)
(* the strongest of its pins, and whether it carries device metadata.      *)
(* "other" is a pin that any Plaato device may send; "start" and "stop"    *)
(* are is_pouring on and off.                                              *)
(***************************************************************************)
KegPins == {"firmware", "amount", "start", "stop"}
Readings == {"amount", "start", "stop"}
Packet == [id : Kegs \cup {NoKeg, BadToken},
           pins : {"none", "other"} \cup KegPins,
           meta : BOOLEAN]
Row == [pouring : BOOLEAN, reading : BOOLEAN, meta : BOOLEAN]

ASSUME KegServerAssumption ==
    /\ NoKeg \notin Kegs /\ BadToken \notin Kegs /\ NoKeg # BadToken
    /\ NoConn \notin Conns
    /\ NoRow \notin Row
    /\ Networks \subseteq [Conns -> SUBSET Packet]
    /\ StoreFails \in BOOLEAN

VARIABLES
    pc,         \* pc[c]: the next step of the goroutine serving c
    open,       \* sockets this server has not closed
    kegID,      \* connState.kegID
    confirmed,  \* connState.confirmed
    held,       \* connState.pendingInternal is not empty
    pkt,        \* pkt[c]: the packet being ingested
    stale,      \* stale[c]: the connection c's Register displaced
    registry,   \* Registry.conns
    rows,       \* the kegs table
    logged,     \* kegs with rows in keg_log
    hpc, hkeg, victim,  \* each DELETE request: its step, keg, connection
    phase,      \* how far main's shutdown has come
    closing,    \* what CloseAll took out of the registry and has yet to close
    device,     \* device[c]: the packets the device behind c can send
    (* History, read by properties only. *)
    rivals,     \* kegs that have had one connection displace another
    deleted,    \* kegs an operator has deleted
    shown,      \* shown[k]: the connection state when k was last published
    owed        \* owed[c]: c's device sent metadata the server must keep

connVars == <<kegID, confirmed, held, pkt, stale>>
handlerVars == <<hpc, hkeg, victim>>
shutVars == <<phase, closing>>
ghostVars == <<device, rivals, deleted, shown, owed>>
vars == <<pc, open, connVars, registry, rows, logged,
          handlerVars, shutVars, ghostVars>>

Nothing == [id |-> NoKeg, pins |-> "none", meta |-> FALSE]

Init ==
    /\ pc = [c \in Conns |-> "none"]
    /\ open = {}
    /\ kegID = [c \in Conns |-> NoKeg]
    /\ confirmed = [c \in Conns |-> FALSE]
    /\ held = [c \in Conns |-> FALSE]
    /\ pkt = [c \in Conns |-> Nothing]
    /\ stale = [c \in Conns |-> NoConn]
    /\ registry = [k \in Kegs |-> NoConn]
    /\ rows = [k \in Kegs |-> NoRow]
    /\ logged = {}
    /\ hpc = [h \in Handlers |-> "idle"]
    /\ hkeg = [h \in Handlers |-> NoKeg]
    /\ victim = [h \in Handlers |-> NoConn]
    /\ phase = "up" /\ closing = {}
    /\ device \in Networks
    /\ rivals = {} /\ deleted = {}
    /\ shown = [k \in Kegs |-> FALSE]
    /\ owed = [c \in Conns |-> FALSE]

Goto(c, step) == pc' = [pc EXCEPT ![c] = step]
At(c, step) == pc[c] = step

(* A published update is rendered with the registry's answer at that time;  *)
(* one for a keg that is no longer stored is not rendered at all.           *)
Publish(k) ==
    shown' = [shown EXCEPT ![k] = IF rows[k] = NoRow THEN @ ELSE registry[k] # NoConn]

(* The database is closed once run has returned. *)
MayFail == StoreFails \/ phase = "stopped"

(***************************************************************************)
(* Accepting and reading.                                                  *)
(***************************************************************************)

(* Accept has returned the socket; the WaitGroup does not count it yet. *)
Accept(c) ==
    /\ At(c, "none") /\ phase = "up"
    /\ open' = open \cup {c}
    /\ Goto(c, "accepted")
    /\ UNCHANGED <<connVars, registry, rows, logged, handlerVars,
                   shutVars, ghostVars>>

(* wg.Add(1) and the go statement. *)
StartHandler(c) ==
    /\ At(c, "accepted")
    /\ Goto(c, "read")
    /\ UNCHANGED <<open, connVars, registry, rows, logged, handlerVars,
                   shutVars, ghostVars>>

(* The ids and pins that make a packet's metadata undeliverable: it shows a  *)
(* keg whose token nobody knows, which ingest drops with a warning.          *)
Nameless(c, p) ==
    /\ kegID[c] = NoKeg /\ p.id \notin Kegs
    /\ confirmed[c] \/ p.pins \in KegPins

(* A read that completes at least one frame. *)
Read(c) ==
    /\ At(c, "read") /\ c \in open
    /\ \E p \in device[c] :
        /\ pkt' = [pkt EXCEPT ![c] = p]
        /\ owed' = [owed EXCEPT ![c] = @ \/ (p.meta /\ ~Nameless(c, p))]
    /\ Goto(c, "ack")
    /\ UNCHANGED <<open, kegID, confirmed, held, stale, registry, rows, logged,
                   handlerVars, shutVars, device, rivals, deleted,
                   shown>>

(* EOF, a minute of silence, a malformed stream, or a socket closed here. *)
ReadFail(c) ==
    /\ At(c, "read")
    /\ Goto(c, "close")
    /\ UNCHANGED <<open, connVars, registry, rows, logged, handlerVars,
                   shutVars, ghostVars>>

(* The packet is done with.  When nothing was wrong handle reads again,      *)
(* unless the frames just taken were followed by a malformed one.            *)
Drop(c, step) == pkt' = [pkt EXCEPT ![c] = Nothing] /\ Goto(c, step)
EndIngest(c) == Drop(c, "read") \/ Drop(c, "close")

(* The acknowledgement is written before ingest; the write may fail. *)
Ack(c) ==
    /\ At(c, "ack")
    /\ \/ c \in open /\ Goto(c, "identify") /\ UNCHANGED pkt
       \/ Drop(c, "close")
    /\ UNCHANGED <<open, kegID, confirmed, held, stale, registry, rows, logged,
                   handlerVars, shutVars, ghostVars>>

(***************************************************************************)
(* Ingesting.                                                              *)
(***************************************************************************)

(* Swaps c into the registry and remembers whom it displaced. *)
Register(c, k) ==
    /\ registry' = [registry EXCEPT ![k] = c]
    /\ stale' = [stale EXCEPT ![c] = IF registry[k] = c THEN NoConn ELSE registry[k]]
    /\ rivals' = IF registry[k] \in {NoConn, c} THEN rivals ELSE rivals \cup {k}

(* The packet's token: refused, taken as the connection's id, or no news. *)
Identify(c) ==
    LET token == pkt[c].id IN
    /\ At(c, "identify")
    /\ \/ /\ token = BadToken
          /\ Drop(c, "close")
          /\ UNCHANGED <<kegID, registry, stale, rivals>>
       \/ /\ token \in Kegs \ {kegID[c]}
          /\ kegID' = [kegID EXCEPT ![c] = token]
          /\ Register(c, token)
          /\ Goto(c, "displace")
          /\ UNCHANGED pkt
       \/ /\ token \in {NoKeg, kegID[c]}
          /\ Goto(c, "gate")
          /\ UNCHANGED <<kegID, pkt, registry, stale, rivals>>
    /\ UNCHANGED <<open, confirmed, held, rows, logged, handlerVars,
                   shutVars, device, deleted, shown, owed>>

(* Mutant: the displaced connection's socket is left open. *)
DisplaceLeavesStaleOpen(c) ==
    /\ At(c, "displace")
    /\ stale' = [stale EXCEPT ![c] = NoConn]
    /\ Goto(c, "gate")
    /\ UNCHANGED <<open, kegID, confirmed, held, pkt, registry, rows, logged,
                   handlerVars, shutVars, ghostVars>>

(* Register's stale.Close(), outside the registry's lock. *)
Displace(c) ==
    /\ At(c, "displace")
    /\ open' = open \ {stale[c]}
    /\ stale' = [stale EXCEPT ![c] = NoConn]
    /\ Goto(c, "gate")
    /\ UNCHANGED <<kegID, confirmed, held, pkt, registry, rows, logged,
                   handlerVars, shutVars, ghostVars>>

(* Mutant: metadata makes a keg. *)
MetadataIdentifies(p) == p.pins \in KegPins \/ p.meta

identifiesAKeg(p) == p.pins \in KegPins

(* Mutant: a confirmed packet is stored without asking for which keg. *)
GateStoresNameless(c) ==
    LET p      == pkt[c]
        isKeg  == confirmed[c] \/ identifiesAKeg(p)
        merged == p.meta \/ held[c]
    IN
    /\ At(c, "gate")
    /\ confirmed' = [confirmed EXCEPT ![c] = isKeg]
    /\ held' = [held EXCEPT ![c] = ~isKeg /\ merged]
    /\ IF isKeg /\ (p.pins # "none" \/ merged)
       THEN Goto(c, "apply") /\ pkt' = [pkt EXCEPT ![c].meta = merged]
       ELSE EndIngest(c)
    /\ UNCHANGED <<open, kegID, stale, registry, rows, logged,
                   handlerVars, shutVars, ghostVars>>

(* Mutant: a confirmed packet forgets what was held for it. *)
GateForgetsHeld(c) ==
    LET p     == pkt[c]
        isKeg == confirmed[c] \/ identifiesAKeg(p)
    IN
    /\ At(c, "gate")
    /\ confirmed' = [confirmed EXCEPT ![c] = isKeg]
    /\ held' = [held EXCEPT ![c] = ~isKeg /\ (@ \/ p.meta)]
    /\ IF isKeg /\ kegID[c] # NoKeg /\ (p.pins # "none" \/ p.meta)
       THEN Goto(c, "apply") /\ UNCHANGED pkt
       ELSE EndIngest(c)
    /\ UNCHANGED <<open, kegID, stale, registry, rows, logged,
                   handlerVars, shutVars, ghostVars>>

(* Confirms the device, holds its metadata or releases what was held; all    *)
(* of it is the connection's own state.                                      *)
Gate(c) ==
    LET p      == pkt[c]
        isKeg  == confirmed[c] \/ identifiesAKeg(p)
        merged == p.meta \/ held[c]
    IN
    /\ At(c, "gate")
    /\ confirmed' = [confirmed EXCEPT ![c] = isKeg]
    /\ \/ /\ ~isKeg
          /\ held' = [held EXCEPT ![c] = merged]
          /\ EndIngest(c)
       \/ /\ isKeg /\ kegID[c] = NoKeg
          /\ EndIngest(c)
          /\ UNCHANGED held
       \/ /\ isKeg /\ kegID[c] # NoKeg
          /\ held' = [held EXCEPT ![c] = FALSE]
          /\ IF p.pins = "none" /\ ~merged
             THEN EndIngest(c)
             ELSE /\ pkt' = [pkt EXCEPT ![c].meta = merged]
                  /\ Goto(c, "apply")
    /\ UNCHANGED <<open, kegID, stale, registry, rows, logged,
                   handlerVars, shutVars, ghostVars>>

(* The row a packet leaves behind: what it does not mention keeps its value. *)
Merge(row, p) ==
    LET old == IF row = NoRow
               THEN [pouring |-> FALSE, reading |-> FALSE, meta |-> FALSE]
               ELSE row
    IN [pouring |-> (old.pouring \/ p.pins = "start") /\ p.pins # "stop",
        reading |-> old.reading \/ p.pins \in Readings,
        meta    |-> old.meta \/ p.meta]

(* ApplyPacket: one transaction, which creates the row if there is none. *)
ApplyPacket(c) ==
    LET k == kegID[c] IN
    /\ At(c, "apply")
    /\ \/ /\ phase # "stopped"
          /\ rows' = [rows EXCEPT ![k] = Merge(@, pkt[c])]
          /\ Goto(c, IF Merge(rows[k], pkt[c]).reading THEN "log" ELSE "publish")
          /\ UNCHANGED pkt
       \/ /\ MayFail
          /\ EndIngest(c)
          /\ UNCHANGED rows
    /\ UNCHANGED <<open, kegID, confirmed, held, stale, registry, logged, handlerVars,
                   shutVars, ghostVars>>

(* AppendLog, if the throttle grants a row and the insert succeeds. *)
AppendLog(c) ==
    /\ At(c, "log")
    /\ \/ phase # "stopped" /\ logged' = logged \cup {kegID[c]}
       \/ UNCHANGED logged
    /\ Goto(c, "publish")
    /\ UNCHANGED <<open, connVars, registry, rows, handlerVars,
                   shutVars, ghostVars>>

PublishUpdate(c) ==
    /\ At(c, "publish")
    /\ Publish(kegID[c])
    /\ IF pkt[c].pins = "amount"
       THEN Goto(c, "consume") /\ UNCHANGED pkt
       ELSE EndIngest(c)
    /\ UNCHANGED <<open, kegID, confirmed, held, stale, registry, rows, logged, handlerVars,
                   shutVars, device, rivals, deleted, owed>>

(* The volume goes to the consumers last; what BarHelper does with it is the *)
(* subject of a module of its own.                                           *)
KegAmount(c) ==
    /\ At(c, "consume")
    /\ EndIngest(c)
    /\ UNCHANGED <<open, kegID, confirmed, held, stale, registry, rows, logged,
                   handlerVars, shutVars, ghostVars>>

(***************************************************************************)
(* finish, the deferred teardown.                                          *)
(***************************************************************************)

CloseSocket(c) ==
    /\ At(c, "close")
    /\ open' = open \ {c}
    /\ Goto(c, IF kegID[c] = NoKeg THEN "done" ELSE "unregister")
    /\ UNCHANGED <<connVars, registry, rows, logged, handlerVars,
                   shutVars, ghostVars>>

(* Mutants: every connection cleans up, an unconfirmed one does not leave the *)
(* registry, and the pouring flag is not cleared.                            *)
UnregisterAnyway(c) ==
    /\ At(c, "unregister")
    /\ registry' = [registry EXCEPT ![kegID[c]] = NoConn]
    /\ Goto(c, IF confirmed[c] THEN "clear" ELSE "done")
    /\ UNCHANGED <<open, connVars, rows, logged, handlerVars,
                   shutVars, ghostVars>>

UnregisterKegsOnly(c) ==
    LET mine == registry[kegID[c]] = c /\ confirmed[c] IN
    /\ At(c, "unregister")
    /\ registry' = [registry EXCEPT ![kegID[c]] = IF mine THEN NoConn ELSE @]
    /\ Goto(c, IF mine THEN "clear" ELSE "done")
    /\ UNCHANGED <<open, connVars, rows, logged, handlerVars,
                   shutVars, ghostVars>>

UnregisterLeavesFlag(c) ==
    LET mine == registry[kegID[c]] = c IN
    /\ At(c, "unregister")
    /\ registry' = [registry EXCEPT ![kegID[c]] = IF mine THEN NoConn ELSE @]
    /\ Goto(c, "done")
    /\ UNCHANGED <<open, connVars, rows, logged, handlerVars,
                   shutVars, ghostVars>>

(* Only the connection that still owns the id cleans up after it, and only  *)
(* if its device proved to be a keg.                                        *)
Unregister(c) ==
    LET k == kegID[c] IN
    /\ At(c, "unregister")
    /\ \/ /\ registry[k] # c
          /\ Goto(c, "done")
          /\ UNCHANGED registry
       \/ /\ registry[k] = c
          /\ registry' = [registry EXCEPT ![k] = NoConn]
          /\ Goto(c, IF confirmed[c] THEN "clear" ELSE "done")
    /\ UNCHANGED <<open, connVars, rows, logged, handlerVars,
                   shutVars, ghostVars>>

(* Mutants: a missing row is written, and the offline badge is not announced. *)
SetPouringCreates(c) ==
    /\ At(c, "clear")
    /\ phase # "stopped"
    /\ rows' = [rows EXCEPT ![kegID[c]] =
                   [Merge(@, Nothing) EXCEPT !.pouring = FALSE]]
    /\ Goto(c, "announce")
    /\ UNCHANGED <<open, connVars, registry, logged, handlerVars,
                   shutVars, ghostVars>>

SetPouringSilently(c) ==
    LET k == kegID[c] IN
    /\ At(c, "clear")
    /\ rows' = IF rows[k] = NoRow THEN rows ELSE [rows EXCEPT ![k].pouring = FALSE]
    /\ Goto(c, "done")
    /\ UNCHANGED <<open, connVars, registry, logged, handlerVars,
                   shutVars, ghostVars>>

(* SetPouring(false): never creates a keg; a failure is only logged. *)
SetPouring(c) ==
    LET k == kegID[c] IN
    /\ At(c, "clear")
    /\ \/ /\ rows[k] # NoRow /\ phase # "stopped"
          /\ rows' = [rows EXCEPT ![k].pouring = FALSE, ![k].reading = TRUE]
          /\ Goto(c, "announce")
       \/ /\ rows[k] = NoRow \/ MayFail
          /\ Goto(c, "done")
          /\ UNCHANGED rows
    /\ UNCHANGED <<open, connVars, registry, logged, handlerVars,
                   shutVars, ghostVars>>

PublishOffline(c) ==
    /\ At(c, "announce")
    /\ Publish(kegID[c])
    /\ Goto(c, "done")
    /\ UNCHANGED <<open, connVars, registry, rows, logged, handlerVars,
                   shutVars, device, rivals, deleted, owed>>

(***************************************************************************)
(* handleDeleteKeg: look the keg up, close its socket, delete, publish.    *)
(***************************************************************************)

HGoto(h, step) == hpc' = [hpc EXCEPT ![h] = step]

EndRequest(h) ==
    /\ HGoto(h, "idle")
    /\ hkeg' = [hkeg EXCEPT ![h] = NoKeg]
    /\ victim' = [victim EXCEPT ![h] = NoConn]

(* A request for a keg that is not stored is answered 404 and changes       *)
(* nothing.  The HTTP server takes no request once shutdown has begun.      *)
DeleteRequest(h) ==
    /\ hpc[h] = "idle" /\ phase = "up"
    /\ \E k \in Kegs :
        /\ rows[k] # NoRow
        /\ hkeg' = [hkeg EXCEPT ![h] = k]
    /\ HGoto(h, "lookup")
    /\ UNCHANGED <<pc, open, connVars, registry, rows, logged, victim,
                   shutVars, ghostVars>>

(* Commander.Disconnect is a Lookup and, apart from it, a Close. *)
DisconnectLookup(h) ==
    LET c == registry[hkeg[h]] IN
    /\ hpc[h] = "lookup"
    /\ victim' = [victim EXCEPT ![h] = c]
    /\ HGoto(h, IF c = NoConn THEN "delete" ELSE "disconnect")
    /\ UNCHANGED <<pc, open, connVars, registry, rows, logged, hkeg,
                   shutVars, ghostVars>>

DisconnectClose(h) ==
    /\ hpc[h] = "disconnect"
    /\ open' = open \ {victim[h]}
    /\ HGoto(h, "delete")
    /\ UNCHANGED <<pc, connVars, registry, rows, logged, hkeg, victim,
                   shutVars, ghostVars>>

(* Deleting a keg that is already gone succeeds. *)
DeleteKeg(h) ==
    LET k == hkeg[h] IN
    /\ hpc[h] = "delete"
    /\ \/ /\ phase # "stopped"
          /\ rows' = [rows EXCEPT ![k] = NoRow]
          /\ logged' = logged \ {k}
          /\ deleted' = deleted \cup {k}
          /\ HGoto(h, "removed")
          /\ UNCHANGED <<hkeg, victim>>
       \/ /\ MayFail
          /\ EndRequest(h)
          /\ UNCHANGED <<rows, logged, deleted>>
    /\ UNCHANGED <<pc, open, connVars, registry, shutVars, device,
                   rivals, shown, owed>>

(* Browsers drop a removed keg, so none shows it connected. *)
PublishRemoved(h) ==
    /\ hpc[h] = "removed"
    /\ shown' = [shown EXCEPT ![hkeg[h]] = FALSE]
    /\ EndRequest(h)
    /\ UNCHANGED <<pc, open, connVars, registry, rows, logged,
                   shutVars, device, rivals, deleted, owed>>

(***************************************************************************)
(* shutdown in main.go, after the HTTP server has drained or given up.     *)
(***************************************************************************)

CloseListener ==
    /\ phase = "up"
    /\ phase' = "closed"
    /\ UNCHANGED <<pc, open, connVars, registry, rows, logged,
                   handlerVars, closing, ghostVars>>

(* CloseAll empties the map under the lock and closes outside it. *)
CloseAll ==
    /\ phase = "closed"
    /\ phase' = "closing"
    /\ closing' = {registry[k] : k \in Kegs} \ {NoConn}
    /\ registry' = [k \in Kegs |-> NoConn]
    /\ UNCHANGED <<pc, open, connVars, rows, logged, handlerVars,
                   ghostVars>>

(* Mutant: CloseAll forgets the connections without closing them. *)
CloseNone ==
    /\ phase = "closing"
    /\ phase' = "waiting"
    /\ UNCHANGED <<closing, pc, open, connVars, registry, rows, logged,
                   handlerVars, ghostVars>>

CloseOne ==
    /\ phase = "closing"
    /\ \/ \E c \in closing :
            /\ open' = open \ {c}
            /\ closing' = closing \ {c}
            /\ UNCHANGED phase
       \/ /\ closing = {}
          /\ phase' = "waiting"
          /\ UNCHANGED <<open, closing>>
    /\ UNCHANGED <<pc, connVars, registry, rows, logged, handlerVars,
                   ghostVars>>

Running == {c \in Conns : pc[c] \notin {"none", "accepted", "done"}}

(* wg.Wait returns, run returns and the database is closed. *)
WaitHandlers ==
    /\ phase = "waiting" /\ Running = {}
    /\ phase' = "stopped"
    /\ UNCHANGED <<pc, open, connVars, registry, rows, logged,
                   handlerVars, closing, ghostVars>>

Terminated ==
    /\ phase = "stopped"
    /\ \A c \in Conns : pc[c] \in {"none", "done"}
    /\ \A h \in Handlers : hpc[h] = "idle"
    /\ UNCHANGED vars

(***************************************************************************)
(* The specification.                                                      *)
(***************************************************************************)

(* What the goroutine of c does without waiting for its device. *)
Serve(c) ==
    \/ StartHandler(c) \/ Ack(c) \/ Identify(c) \/ Displace(c) \/ Gate(c)
    \/ ApplyPacket(c) \/ AppendLog(c) \/ PublishUpdate(c) \/ KegAmount(c)
    \/ CloseSocket(c) \/ Unregister(c) \/ SetPouring(c) \/ PublishOffline(c)

Delete(h) ==
    \/ DisconnectLookup(h) \/ DisconnectClose(h) \/ DeleteKeg(h)
    \/ PublishRemoved(h)

Shutdown == CloseListener \/ CloseAll \/ CloseOne \/ WaitHandlers

Next ==
    \/ \E c \in Conns : Accept(c) \/ Read(c) \/ ReadFail(c) \/ Serve(c)
    \/ \E h \in Handlers : DeleteRequest(h) \/ Delete(h)
    \/ Shutdown
    \/ Terminated

Spec == Init /\ [][Next]_vars

(* The scheduler runs every goroutine that can run, and the read deadline    *)
(* ends a read that stays idle.  Devices, operators and signals owe nothing. *)
Fairness ==
    /\ \A c \in Conns : WF_vars(Serve(c)) /\ WF_vars(ReadFail(c))
    /\ \A h \in Handlers : WF_vars(Delete(h))
    /\ WF_vars(CloseAll) /\ WF_vars(CloseOne) /\ WF_vars(WaitHandlers)

FairSpec == Spec /\ Fairness

(***************************************************************************)
(* Properties.                                                             *)
(***************************************************************************)

Steps == {"none", "accepted", "read", "ack", "identify", "displace", "gate",
          "apply", "log", "publish", "consume",
          "close", "unregister", "clear", "announce", "done"}

TypeOK ==
    /\ pc \in [Conns -> Steps]
    /\ open \subseteq Conns
    /\ kegID \in [Conns -> Kegs \cup {NoKeg}]
    /\ confirmed \in [Conns -> BOOLEAN]
    /\ held \in [Conns -> BOOLEAN]
    /\ pkt \in [Conns -> Packet]
    /\ stale \in [Conns -> Conns \cup {NoConn}]
    /\ registry \in [Kegs -> Conns \cup {NoConn}]
    /\ rows \in [Kegs -> Row \cup {NoRow}]
    /\ logged \subseteq Kegs
    /\ hpc \in [Handlers -> {"idle", "lookup", "disconnect", "delete", "removed"}]
    /\ hkeg \in [Handlers -> Kegs \cup {NoKeg}]
    /\ \A h \in Handlers : hpc[h] # "idle" => hkeg[h] \in Kegs
    /\ victim \in [Handlers -> Conns \cup {NoConn}]
    /\ phase \in {"up", "closed", "closing", "waiting", "stopped"}
    /\ closing \subseteq Conns
    /\ device \in [Conns -> SUBSET Packet]
    /\ rivals \subseteq Kegs /\ deleted \subseteq Kegs
    /\ shown \in [Kegs -> BOOLEAN]
    /\ owed \in [Conns -> BOOLEAN]

(* The device behind a socket has one token. *)
OneTokenPerDevice ==
    \A net \in Networks : \A c \in Conns : \A p, q \in net[c] :
        p.id \in Kegs /\ q.id \in Kegs => p.id = q.id

(* The goroutine of c has the device's token and is not yet being torn down. *)
Identified(c) ==
    /\ kegID[c] # NoKeg
    /\ pc[c] \in {"read", "ack", "identify", "displace", "gate", "apply", "log",
                  "publish", "consume"}

(* What the goroutines rely on without checking it.  A connection that       *)
(* stores is confirmed and has its id; one that has not read has none; what  *)
(* it knows of its device came from its device; CloseAll finds nothing left  *)
(* to close from before; and until two sockets compete for a keg, the one    *)
(* that announced it owns it.                                                *)
Storing ==
    \A c \in Conns : pc[c] \in {"apply", "log", "publish", "consume"} =>
        kegID[c] \in Kegs /\ confirmed[c]

Silent == \A c \in Conns : pc[c] \in {"none", "accepted"} => kegID[c] = NoKeg

Announces(c, k) == \E p \in device[c] : p.id = k
SendsKegPins(c) == \E p \in device[c] : p.pins \in KegPins

FromDevice ==
    /\ device \in Networks
    /\ \A c \in Conns :
        /\ pkt[c].id \in Kegs => Announces(c, pkt[c].id)
        /\ pkt[c].pins \in KegPins => SendsKegPins(c)
        /\ kegID[c] \in Kegs => Announces(c, kegID[c])
        /\ confirmed[c] => SendsKegPins(c)

NothingClosing == phase \in {"up", "closed"} => closing = {}

SoleOwner ==
    phase \in {"up", "closed"} =>
        \A c \in Conns : Identified(c) /\ kegID[c] \notin rivals =>
            registry[kegID[c]] = c

GoroutineInv ==
    TypeOK /\ Storing /\ Silent /\ FromDevice /\ NothingClosing /\ SoleOwner

(* The registry tracks live connections: an entry is for the keg its         *)
(* connection announced, and that connection's goroutine has yet to run      *)
(* Unregister, so no entry can outlive its socket.                           *)
RegistryTracksLive ==
    \A k \in Kegs : \A c \in Conns :
        registry[k] = c =>
            /\ kegID[c] = k
            /\ Identified(c) \/ pc[c] \in {"close", "unregister"}

(* A keg that reconnects is reachable: a connection whose socket is open and *)
(* whose token is known is the one Lookup returns, unless somebody is about  *)
(* to close it, having displaced it or taken it out of the registry.         *)
OpenIsReachable ==
    \A c \in Conns :
        c \in open /\ Identified(c) =>
            \/ registry[kegID[c]] = c
            \/ \E d \in Conns : pc[d] = "displace" /\ stale[d] = c
            \/ c \in closing

(* Device metadata alone never makes a keg: what is stored was reported by a *)
(* connection that announced that id and whose device sends keg-only pins.   *)
NoPhantomKeg ==
    \A k \in Kegs : rows[k] # NoRow =>
        \E c \in Conns :
            kegID[c] = k /\ confirmed[c] /\ SendsKegPins(c)

(* A keg that drops mid-pour does not pour for ever.  While the server is up *)
(* and no second socket has displaced the keg's connection, the flag is set  *)
(* only while its confirmed connection is registered or about to clear it.   *)
PourEndsWithConnection ==
    \A k \in Kegs :
        /\ k \notin rivals /\ phase \in {"up", "closed"}
        /\ rows[k] # NoRow /\ rows[k].pouring
        => \E c \in Conns :
            /\ kegID[c] = k /\ confirmed[c]
            /\ registry[k] = c \/ pc[c] = "clear"

(* The offline badge: a keg that is offline was last published as offline,    *)
(* unless its teardown or its removal is still to publish.  The one gap is a  *)
(* connection that dropped before its device had proved to be a keg.          *)
StaleBadgeExplained ==
    \A k \in Kegs :
        shown[k] /\ registry[k] = NoConn /\ phase \in {"up", "closed"} =>
            \/ \E c \in Conns : /\ kegID[c] = k
                               /\ \/ pc[c] \in {"clear", "announce"}
                                  \/ pc[c] = "done" /\ ~confirmed[c]
            \/ \E h \in Handlers : hpc[h] = "removed" /\ hkeg[h] = k

(* Metadata sent before the device proved to be a keg is not lost: once the  *)
(* connection reads again, it is held or stored, until the keg is deleted or *)
(* the database closed.                                                      *)
MetadataKept ==
    \A c \in Conns :
        owed[c] /\ pc[c] = "read" /\ phase # "stopped" =>
            \/ held[c]
            \/ kegID[c] \in deleted
            \/ kegID[c] \in Kegs /\ rows[kegID[c]] # NoRow /\ rows[kegID[c]].meta

(* Only device data makes a keg: a teardown, a delete or a shutdown that     *)
(* lands after a delete cannot bring the row back.                           *)
OnlyPacketsCreate ==
    [][\A k \in Kegs : rows[k] = NoRow /\ rows'[k] # NoRow =>
          \E c \in Conns : pc[c] = "apply" /\ kegID[c] = k /\ pc'[c] # "apply"]_vars

(* Whoever looks a keg up finds one connection, the last that announced it;  *)
(* one that was displaced, ended or was closed in a shutdown is not found    *)
(* again, nor one whose socket was closed before it announced the keg.       *)
lostKeg == {c \in Conns : kegID[c] # NoKeg /\ registry[kegID[c]] # c}
closedSockets == {c \in Conns : pc[c] # "none"} \ open

ShutDown == phase \notin {"up", "closed"}

Directory == INSTANCE KegDirectory
    WITH serving <- registry, past <- lostKeg, closed <- closedSockets, shut <- ShutDown

DirectoryKept == Directory!Spec

(* A displaced connection never takes its replacement out of the registry,   *)
(* and nothing but its own teardown or shutdown takes out a connection whose *)
(* socket the server has not been asked to close.                            *)
EntryLeavesWithOwner ==
    [][\A k \in Kegs : registry[k] # NoConn /\ registry'[k] = NoConn =>
          pc[registry[k]] = "unregister" \/ phase = "closed"]_vars

(* A connection that lost its keg to a newer one ends, although nothing      *)
(* tells its goroutine: the newcomer closes its socket.                      *)
DisplacedEnds ==
    \A c \in Conns :
        (Identified(c) /\ registry[kegID[c]] # c) ~> (pc[c] = "done")

(* Deleting a connected keg ends the connection found for it, and shutdown   *)
(* ends every connection that was registered, however much its device keeps  *)
(* sending: their sockets are closed under their goroutines.                 *)
ClosedByOthersEnds ==
    \A c \in Conns :
        (c \in closing \/ \E h \in Handlers : hpc[h] = "disconnect" /\ victim[h] = c)
            ~> (pc[c] = "done")

(* Shutdown ends: no socket can make it wait for ever.                       *)
ShutdownEnds == (phase = "closing") ~> (phase = "stopped")

=============================================================================
