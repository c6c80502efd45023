----------------------------- MODULE UpdateHub -----------------------------
(***************************************************************************)
(* The path of a keg's change from the store to the browsers: events.Bus,  *)
(* the two goroutines of ws.Hub.Run (the receiver, which only records that *)
(* a keg changed, and the flusher, which reads it and broadcasts), one     *)
(* ServeHTTP goroutine per browser connection, and the kegs page, which    *)
(* takes the messages and also reloads the whole list every minute.        *)
(*                                                                         *)
(* What a message says of a keg is its version: the number of the commit   *)
(* that wrote the row it was read from, Absent for a removal.              *)
(***************************************************************************)
EXTENDS Naturals, Sequences, FiniteSetsExt

CONSTANTS
    Kegs,
    Writers,       \* goroutines that commit a change and then publish it
    Pages,         \* browser pages; each reconnects when its socket closes
    Loads,         \* requests of the whole list that a page may have under way
    NoKeg,
    NoReply,
    BusBuffer,     \* subscriberBuffer
    ClientBuffer,  \* clientBuffer
    MaxWrites,     \* bound: how many commits are made
    MaxJoins,      \* bound: how often a page connects
    ReadFails      \* whether a read of the database may fail

ASSUME UpdateHubAssumption ==
    /\ NoKeg \notin Kegs /\ NoReply \notin [Kegs -> Nat]
    /\ BusBuffer \in Nat \ {0} /\ ClientBuffer \in Nat \ {0}
    /\ MaxWrites \in Nat /\ MaxJoins \in Nat
    /\ ReadFails \in BOOLEAN

Absent == 0
Version == 0 .. MaxWrites
Kind == {"updated", "removed"}
Event == [kind : Kind, keg : Kegs]
NoEvent == [kind |-> "updated", keg |-> NoKeg]
Message == [keg : Kegs, version : Version]
List == [Kegs -> Version]

VARIABLES
    row,        \* row[k]: the version of k's stored row, or Absent
    written,    \* commits made so far
    unpublished,\* unpublished[w]: the event w has committed and yet to publish
    subscribed, \* Run's channel is among the bus's subscribers
    bus,        \* that channel
    hand,       \* the event the receiver has taken off the channel
    pending,    \* Hub.pending, "none" for a keg that is not a key
    signal,     \* mark has written pending and has yet to signal wake
    wake,       \* the wake channel holds its token
    receiver,   \* the receiver: running or returned
    flusher,    \* the flusher's next step
    batch,      \* what takePending returned and flush has yet to send
    current,    \* the message flush has read and has yet to broadcast
    stopping,   \* the context is cancelled
    page,       \* page[p]: the step of p's ServeHTTP goroutine
    joins,      \* how often p has connected
    send,       \* client.send of p's connection
    snapshot,   \* snapshot[p]: what ListKegs returned and p has yet to send
    reply,      \* reply[p][l]: the list on its way to p, the answer to request l
    view,       \* view[p][k]: what page p shows for k
    (* History, read by properties only. *)
    crossed,    \* kegs whose delete and another change overlapped
    missed,     \* <<p, k>>: a named gap kept k's state from p until the next message
    forgotten   \* <<p, k>>: k was removed while p was away, showing it

storeVars == <<row, written, unpublished>>
recvVars == <<hand, pending, signal, receiver>>
flushVars == <<flusher, batch, current>>
connVars == <<page, joins, send, snapshot>>
pageVars == <<connVars, reply, view>>
ghostVars == <<crossed, missed, forgotten>>
vars == <<storeVars, subscribed, bus, recvVars, wake, flushVars, stopping,
          pageVars, ghostVars>>

NoPending == [k \in Kegs |-> "none"]
NoMessage == [keg |-> NoKeg, version |-> Absent]

Init ==
    /\ row = [k \in Kegs |-> Absent] /\ written = 0
    /\ unpublished = [w \in Writers |-> NoEvent]
    /\ subscribed = FALSE /\ bus = <<>>
    /\ hand = NoEvent /\ pending = NoPending /\ signal = FALSE /\ wake = FALSE
    /\ receiver = "init" /\ flusher = "init"
    /\ batch = NoPending /\ current = NoMessage
    /\ stopping = FALSE
    /\ page = [p \in Pages |-> "away"]
    /\ joins = [p \in Pages |-> 0]
    /\ send = [p \in Pages |-> <<>>]
    /\ snapshot = [p \in Pages |-> {}]
    /\ reply = [p \in Pages |-> [l \in Loads |-> NoReply]]
    /\ view = [p \in Pages |-> [k \in Kegs |-> Absent]]
    /\ crossed = {} /\ missed = {} /\ forgotten = {}

(***************************************************************************)
(* The writers: ingest, finish and the API handlers commit, then publish.  *)
(***************************************************************************)

Commit(w, k, kind) ==
    LET rival == \E v \in Writers \ {w} :
            /\ unpublished[v].keg = k
            /\ "removed" \in {kind, unpublished[v].kind}
    IN
    /\ unpublished[w] = NoEvent
    /\ written < MaxWrites
    /\ written' = written + 1
    /\ \/ kind = "updated" /\ row' = [row EXCEPT ![k] = written + 1]
       \/ kind = "removed" /\ row[k] # Absent /\ row' = [row EXCEPT ![k] = Absent]
    /\ unpublished' = [unpublished EXCEPT ![w] = [kind |-> kind, keg |-> k]]
    /\ crossed' = IF rival THEN crossed \cup {k} ELSE crossed
    /\ UNCHANGED <<subscribed, bus, recvVars, wake, flushVars, stopping,
                   pageVars, missed, forgotten>>

(* Publish never blocks: with no subscriber, or its buffer full, the event   *)
(* is gone.                                                                  *)
Publish(w) ==
    LET e == unpublished[w] IN
    /\ e # NoEvent
    /\ unpublished' = [unpublished EXCEPT ![w] = NoEvent]
    /\ IF subscribed /\ Len(bus) < BusBuffer
       THEN bus' = Append(bus, e) /\ UNCHANGED missed
       ELSE missed' = missed \cup (Pages \X {e.keg}) /\ UNCHANGED bus
    /\ UNCHANGED <<row, written, subscribed, recvVars, wake, flushVars, stopping,
                   pageVars, crossed, forgotten>>

(***************************************************************************)
(* The receiver.                                                           *)
(***************************************************************************)

(* Run subscribes, starts the receiver and enters the flusher's loop. *)
Subscribe ==
    /\ flusher = "init"
    /\ subscribed' = TRUE
    /\ receiver' = "running" /\ flusher' = "wait"
    /\ UNCHANGED <<storeVars, bus, hand, pending, signal, wake, batch, current,
                   stopping, pageVars, ghostVars>>

Receive ==
    /\ receiver = "running" /\ hand = NoEvent /\ ~signal
    /\ bus # <<>>
    /\ hand' = Head(bus) /\ bus' = Tail(bus)
    /\ UNCHANGED <<storeVars, subscribed, pending, signal, receiver, wake, flushVars,
                   stopping, pageVars, ghostVars>>

(* Mutant: an event for a keg that is already pending changes nothing. *)
MarkKeepsFirst ==
    /\ hand # NoEvent
    /\ pending' = [pending EXCEPT ![hand.keg] = IF @ = "none" THEN hand.kind ELSE @]
    /\ hand' = NoEvent
    /\ signal' = TRUE
    /\ UNCHANGED <<storeVars, subscribed, bus, receiver, wake, flushVars, stopping,
                   pageVars, ghostVars>>

(* mark writes the map under its lock and signals after releasing it. *)
Mark ==
    /\ hand # NoEvent
    /\ pending' = [pending EXCEPT ![hand.keg] = hand.kind]
    /\ hand' = NoEvent
    /\ signal' = TRUE
    /\ UNCHANGED <<storeVars, subscribed, bus, receiver, wake, flushVars, stopping,
                   pageVars, ghostVars>>

Wake ==
    /\ signal
    /\ wake' = TRUE
    /\ signal' = FALSE
    /\ UNCHANGED <<storeVars, subscribed, bus, hand, pending, receiver, flushVars,
                   stopping, pageVars, ghostVars>>

(***************************************************************************)
(* The flusher.                                                            *)
(***************************************************************************)

AwaitWake ==
    /\ flusher = "wait" /\ wake
    /\ wake' = FALSE
    /\ flusher' = "take"
    /\ UNCHANGED <<storeVars, subscribed, bus, recvVars, batch, current, stopping,
                   pageVars, ghostVars>>

(* takePending swaps the map for an empty one. *)
TakePending ==
    /\ flusher = "take"
    /\ batch' = pending
    /\ pending' = NoPending
    /\ flusher' = IF pending = NoPending THEN "wait" ELSE "count"
    /\ UNCHANGED <<storeVars, subscribed, bus, hand, signal, receiver, wake, current,
                   stopping, pageVars, ghostVars>>

Joined == {p \in Pages : page[p] # "away"}

(* With nobody listening the batch is thrown away. *)
CountClients ==
    /\ flusher = "count"
    /\ IF Joined = {}
       THEN flusher' = "wait" /\ batch' = NoPending
       ELSE flusher' = "next" /\ UNCHANGED batch
    /\ UNCHANGED <<storeVars, subscribed, bus, recvVars, wake, current, stopping,
                   pageVars, ghostVars>>

(* The next keg of the batch, in no particular order: a removal goes out as  *)
(* it is, an update with the row read now, or not at all without one.        *)
ReadKeg(k) ==
    /\ flusher = "next" /\ batch[k] # "none"
    /\ batch' = [batch EXCEPT ![k] = "none"]
    /\ \/ /\ batch[k] = "updated" => row[k] # Absent
          /\ current' = [keg |-> k, version |-> IF batch[k] = "removed" THEN Absent
                                                                     ELSE row[k]]
          /\ flusher' = "broadcast"
          /\ UNCHANGED missed
       \/ /\ batch[k] = "updated"
          /\ \/ row[k] = Absent /\ UNCHANGED missed
             \/ ReadFails /\ missed' = missed \cup (Pages \X {k})
          /\ UNCHANGED <<current, flusher>>
    /\ UNCHANGED <<storeVars, subscribed, bus, recvVars, wake, stopping,
                   pageVars, crossed, forgotten>>

(* Mutant: a flush ends by clearing the token that came while it ran. *)
EndFlushDrainsWake ==
    /\ flusher = "next" /\ batch = NoPending
    /\ flusher' = "wait"
    /\ wake' = FALSE
    /\ UNCHANGED <<storeVars, subscribed, bus, recvVars, batch, current,
                   stopping, pageVars, ghostVars>>

EndFlush ==
    /\ flusher = "next" /\ batch = NoPending
    /\ flusher' = "wait"
    /\ UNCHANGED <<storeVars, subscribed, bus, recvVars, wake, batch, current,
                   stopping, pageVars, ghostVars>>

(* Mutant: the buffer is one longer than the code's. *)
OfferOneMore(queue, m) == IF Len(queue) <= ClientBuffer THEN Append(queue, m) ELSE queue

(* A non-blocking send: a client with a full buffer misses the message. *)
Offer(queue, m) == IF Len(queue) < ClientBuffer THEN Append(queue, m) ELSE queue
Missing(p, m) ==
    IF Len(send[p]) >= ClientBuffer THEN {<<p, m.keg>>} ELSE {}

(* A message corrects what was missed if it is queued and current, with no   *)
(* older message or removal on its way behind it.                            *)
Outdated(k) ==
    LET removal == [kind |-> "removed", keg |-> k] IN
    \/ row[k] # Absent /\ (\E i \in DOMAIN bus : bus[i] = removal)
    \/ row[k] # Absent /\ "removed" \in {pending[k], batch[k]}
    \/ row[k] # Absent /\ hand = removal
    \/ current.keg = k /\ current.version # row[k]
Corrected(p, m) ==
    IF Len(send[p]) < ClientBuffer /\ m.version = row[m.keg] /\ ~Outdated(m.keg)
    THEN {<<p, m.keg>>} ELSE {}

Broadcast ==
    /\ flusher = "broadcast"
    /\ send' = [p \in Pages |-> IF p \in Joined THEN Offer(send[p], current) ELSE send[p]]
    /\ missed' = (missed \cup UNION {Missing(p, current) : p \in Joined})
                    \ UNION {Corrected(p, current) : p \in Joined}
    /\ forgotten' = forgotten \ (Joined \X {current.keg})
    /\ current' = NoMessage
    /\ flusher' = "next"
    /\ UNCHANGED <<storeVars, subscribed, bus, recvVars, wake, batch, stopping,
                   page, joins, snapshot, reply, view, crossed>>

(***************************************************************************)
(* One browser connection.                                                 *)
(***************************************************************************)

(* The upgrade, and the new client's entry in the hub. *)
Join(p) ==
    /\ page[p] = "away" /\ joins[p] < MaxJoins
    /\ joins' = [joins EXCEPT ![p] = @ + 1]
    /\ page' = [page EXCEPT ![p] = "list"]
    /\ send' = [send EXCEPT ![p] = <<>>]
    /\ UNCHANGED <<storeVars, subscribed, bus, recvVars, wake, flushVars, stopping,
                   snapshot, reply, view, ghostVars>>

(* ListKegs returns stored kegs only: nothing tells the page of a keg that   *)
(* was removed while it was away.  A failed read skips the snapshot.         *)
ListKegs(p) ==
    LET stored == {k \in Kegs : row[k] # Absent} IN
    /\ page[p] = "list"
    /\ \/ /\ snapshot' = [snapshot EXCEPT ![p] = {[keg |-> k, version |-> row[k]] : k \in stored}]
          /\ page' = [page EXCEPT ![p] = "snapshot"]
          /\ forgotten' = forgotten \cup
                {<<p, k>> : k \in {x \in Kegs \ stored : view[p][x] # Absent}}
          /\ UNCHANGED missed
       \/ /\ ReadFails
          /\ page' = [page EXCEPT ![p] = "stream"]
          /\ missed' = missed \cup ({p} \X Kegs)
          /\ UNCHANGED <<snapshot, forgotten>>
    /\ UNCHANGED <<storeVars, subscribed, bus, recvVars, wake, flushVars, stopping,
                   joins, send, reply, view, crossed>>

(* The snapshot shares the buffer with the broadcasts that came meanwhile,   *)
(* and goes behind them, though it was read before.                          *)
SendSnapshot(p) ==
    /\ page[p] = "snapshot"
    /\ \/ \E m \in snapshot[p] :
            LET overtaken == \E i \in DOMAIN send[p] :
                    send[p][i].keg = m.keg /\ send[p][i].version # m.version
            IN
            /\ snapshot' = [snapshot EXCEPT ![p] = @ \ {m}]
            /\ send' = [send EXCEPT ![p] = Offer(@, m)]
            /\ missed' = (missed \cup Missing(p, m)
                            \cup (IF overtaken THEN {<<p, m.keg>>} ELSE {}))
                            \ Corrected(p, m)
            /\ UNCHANGED page
       \/ /\ snapshot[p] = {}
          /\ page' = [page EXCEPT ![p] = "stream"]
          /\ UNCHANGED <<snapshot, send, missed>>
    /\ UNCHANGED <<storeVars, subscribed, bus, recvVars, wake, flushVars, stopping,
                   joins, reply, view, crossed, forgotten>>

(* The frame reaches the page, which shows what it says. *)
WriteMessage(p) ==
    /\ page[p] = "stream" /\ send[p] # <<>>
    /\ view' = [view EXCEPT ![p][Head(send[p]).keg] = Head(send[p]).version]
    /\ send' = [send EXCEPT ![p] = Tail(@)]
    /\ UNCHANGED <<storeVars, subscribed, bus, recvVars, wake, flushVars, stopping,
                   page, joins, snapshot, reply, ghostVars>>

(* The socket closes or a write fails: the client leaves the hub with all    *)
(* that was queued for it, and the page keeps what it shows until it         *)
(* connects again.                                                           *)
Leave(p) ==
    /\ page[p] = "stream"
    /\ page' = [page EXCEPT ![p] = "away"]
    /\ send' = [send EXCEPT ![p] = <<>>]
    /\ UNCHANGED <<storeVars, subscribed, bus, recvVars, wake, flushVars, stopping,
                   joins, snapshot, reply, view, ghostVars>>

(***************************************************************************)
(* The reload.  loadAll runs when the page opens and every minute, socket  *)
(* or no socket, and replaces all that the page shows.                     *)
(***************************************************************************)

(* The server reads the rows; the answer travels on a connection of its own. *)
AnswerLoad(p, l) ==
    /\ reply[p][l] = NoReply
    /\ reply' = [reply EXCEPT ![p][l] = row]
    /\ UNCHANGED <<storeVars, subscribed, bus, recvVars, wake, flushVars, stopping,
                   connVars, view, ghostVars>>

(* A list answered before a change and shown after it undoes what the page   *)
(* showed, if no message about the keg is still to come.  One that is        *)
(* current corrects what was missed, unless an older word is on its way.     *)
Undone(p, list) ==
    {<<p, k>> : k \in {x \in Kegs :
        /\ list[x] # row[x] /\ view[p][x] = row[x]
        /\ \A i \in DOMAIN send[p] : send[p][i].keg # x}}
Healed(p, list) ==
    {<<p, k>> : k \in {x \in Kegs :
        /\ list[x] = row[x] /\ ~Outdated(x)
        /\ \A i \in DOMAIN send[p] : send[p][i].keg = x => send[p][i].version = row[x]
        /\ \A m \in snapshot[p] : m.keg = x => m.version = row[x]}}

(* Mutant: the reload adds and replaces kegs without removing any. *)
ShowListKeepsGone(p, list) ==
    view' = [view EXCEPT ![p] = [k \in Kegs |-> IF list[k] = Absent THEN @[k] ELSE list[k]]]

ShowList(p, list) == view' = [view EXCEPT ![p] = list]

TakeReply(p, l) ==
    LET list == reply[p][l] IN
    /\ list # NoReply
    /\ reply' = [reply EXCEPT ![p][l] = NoReply]
    /\ ShowList(p, list)
    /\ missed' = (missed \cup Undone(p, list)) \ Healed(p, list)
    /\ forgotten' = forgotten \ Healed(p, list)
    /\ UNCHANGED <<storeVars, subscribed, bus, recvVars, wake, flushVars, stopping,
                   connVars, crossed>>

(* The read or the request fails: the page keeps what it shows. *)
LoseReply(p, l) ==
    /\ reply[p][l] # NoReply
    /\ reply' = [reply EXCEPT ![p][l] = NoReply]
    /\ UNCHANGED <<storeVars, subscribed, bus, recvVars, wake, flushVars, stopping,
                   connVars, view, ghostVars>>

(***************************************************************************)
(* Shutdown: each goroutine of Run returns from its select.                *)
(***************************************************************************)

Cancel ==
    /\ ~stopping /\ flusher # "init"
    /\ stopping' = TRUE
    /\ UNCHANGED <<storeVars, subscribed, bus, recvVars, wake, flushVars,
                   pageVars, ghostVars>>

(* The receiver returns on the context, or on the closed channel. *)
ReceiverReturns ==
    /\ receiver = "running" /\ hand = NoEvent /\ ~signal
    /\ stopping
    /\ receiver' = "returned"
    /\ UNCHANGED <<storeVars, subscribed, bus, hand, pending, signal, wake, flushVars,
                   stopping, pageVars, ghostVars>>

FlusherReturns ==
    /\ flusher = "wait" /\ stopping
    /\ flusher' = "returned"
    /\ subscribed' = FALSE
    /\ UNCHANGED <<storeVars, bus, recvVars, wake, batch, current, stopping,
                   pageVars, ghostVars>>

(***************************************************************************)
(* The specification.                                                      *)
(***************************************************************************)

Receiver == Receive \/ Mark \/ Wake \/ ReceiverReturns

Flusher ==
    \/ AwaitWake \/ TakePending \/ CountClients \/ EndFlush \/ Broadcast
    \/ FlusherReturns
    \/ \E k \in Kegs : ReadKeg(k)

Stream(p) == ListKegs(p) \/ SendSnapshot(p) \/ WriteMessage(p)

Reload(p) == \E l \in Loads : AnswerLoad(p, l) \/ TakeReply(p, l) \/ LoseReply(p, l)

Next ==
    \/ \E w \in Writers, k \in Kegs, kind \in Kind : Commit(w, k, kind)
    \/ \E w \in Writers : Publish(w)
    \/ Subscribe \/ Receiver \/ Flusher \/ Cancel
    \/ \E p \in Pages : Join(p) \/ Stream(p) \/ Leave(p) \/ Reload(p)

Spec == Init /\ [][Next]_vars

(* Every goroutine that can run is run; a frame is written or, after         *)
(* writeTimeout, the connection closed.                                      *)
Fairness ==
    /\ \A w \in Writers : WF_vars(Publish(w))
    /\ WF_vars(Receiver) /\ WF_vars(Flusher)
    /\ \A p \in Pages : WF_vars(Stream(p))

FairSpec == Spec /\ Fairness

(***************************************************************************)
(* Properties.                                                             *)
(***************************************************************************)

TypeOK ==
    /\ row \in [Kegs -> Version] /\ written \in Version
    /\ unpublished \in [Writers -> Event \cup {NoEvent}]
    /\ subscribed \in BOOLEAN
    /\ bus \in Seq(Event)
    /\ hand \in Event \cup {NoEvent}
    /\ pending \in [Kegs -> Kind \cup {"none"}]
    /\ signal \in BOOLEAN /\ wake \in BOOLEAN
    /\ receiver \in {"init", "running", "returned"}
    /\ flusher \in {"init", "wait", "take", "count", "next", "broadcast", "returned"}
    /\ batch \in [Kegs -> Kind \cup {"none"}]
    /\ current \in Message \cup {NoMessage}
    /\ stopping \in BOOLEAN
    /\ page \in [Pages -> {"away", "list", "snapshot", "stream"}]
    /\ joins \in [Pages -> 0 .. MaxJoins]
    /\ send \in [Pages -> Seq(Message)]
    /\ \A p \in Pages : Len(send[p]) <= ClientBuffer
    /\ snapshot \in [Pages -> SUBSET Message]
    /\ reply \in [Pages -> [Loads -> List \cup {NoReply}]]
    /\ view \in [Pages -> List]
    /\ crossed \subseteq Kegs /\ missed \subseteq Pages \X Kegs

(* No wakeup is lost: while a change waits in pending, the wake channel      *)
(* holds a token, or one of the two goroutines is at the step that will see  *)
(* to it.  This is what lets mark drop its signal when the slot is full.     *)
NoLostWakeup ==
    (\E k \in Kegs : pending[k] # "none") =>
        wake \/ signal \/ flusher \in {"take", "returned"}

(* A change to k is on its way to the pages. *)
Underway(k) ==
    \/ \E w \in Writers : unpublished[w].keg = k
    \/ \E i \in DOMAIN bus : bus[i].keg = k
    \/ hand.keg = k \/ pending[k] # "none" \/ batch[k] # "none"
    \/ current.keg = k /\ current.version = row[k]

(* What p will show for k once everything queued for it is written. *)
Expected(p, k) ==
    LET ofKeg == {i \in DOMAIN send[p] : send[p][i].keg = k}
    IN IF ofKeg = {} THEN view[p][k] ELSE send[p][Max(ofKeg)].version

(* No update is missed: what a listening page shows, or is queued to show,   *)
(* is what is stored, unless the change is on its way.  The named gaps are   *)
(* those the code accepts until the next message or reload (a full buffer, a *)
(* failed read, a snapshot overtaken by a broadcast, a removal while the     *)
(* page was away, a reload that was answered before a change and shown after *)
(* it) and a delete that overlaps another change of the same keg.            *)
NoMissedUpdate ==
    ~stopping =>
        \A p \in Pages : \A k \in Kegs \ crossed :
            page[p] = "stream" /\ <<p, k>> \notin missed \cup forgotten =>
                Expected(p, k) = row[k] \/ Underway(k)

(* Coalescing converges: a page that stays connected ends up showing what is *)
(* stored, however many commits were folded into one message.                *)
PagesConverge ==
    \A p \in Pages : \A k \in Kegs :
        <>[](/\ page[p] = "stream" /\ ~stopping
              /\ k \notin crossed /\ <<p, k>> \notin missed \cup forgotten)
            => <>[](view[p][k] = row[k])

(* Reloads heal: whatever went wrong on the way of the messages (no socket,  *)
(* an event or a message dropped, a removal nobody told the page of, a       *)
(* delete and an update that crossed, a reload that came late), once the     *)
(* commits stop a page whose reloads go on being answered shows what is      *)
(* stored, and no keg that is gone.                                          *)
PagesHeal ==
    (\A p \in Pages, l \in Loads : WF_vars(AnswerLoad(p, l)) /\ SF_vars(TakeReply(p, l)))
        => \A p \in Pages, k \in Kegs : <>[](view[p][k] = row[k])

=============================================================================
