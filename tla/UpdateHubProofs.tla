-------------------------- MODULE UpdateHubProofs --------------------------
(***************************************************************************)
(* Theorems about UpdateHub for any number of kegs, writers and pages, and *)
(* any buffer sizes.                                                       *)
(***************************************************************************)
EXTENDS UpdateHub, WellFoundedInduction, TLAPS

(* No wakeup is lost between mark, which writes pending and then signals     *)
(* without blocking, and the flusher, which takes a token and then the map:  *)
(* the invariant is inductive as it stands.                                  *)
THEOREM WakeupSafe == Spec => []NoLostWakeup
<1>1. Init => NoLostWakeup
  BY DEF Init, NoLostWakeup, NoPending
<1>2. NoLostWakeup /\ [Next]_vars => NoLostWakeup'
  <2> SUFFICES ASSUME NoLostWakeup, [Next]_vars PROVE NoLostWakeup'
    OBVIOUS
  <2> USE DEF NoLostWakeup, storeVars, recvVars, flushVars, pageVars, connVars, ghostVars
  <2>1. ASSUME NEW w \in Writers, NEW k \in Kegs, NEW kind \in Kind,
               Commit(w, k, kind)
        PROVE  NoLostWakeup'
    BY <2>1 DEF Commit
  <2>2. ASSUME NEW w \in Writers, Publish(w) PROVE NoLostWakeup'
    BY <2>2 DEF Publish
  <2>3. CASE Subscribe
    BY <2>3 DEF Subscribe
  <2>4. CASE Receiver
    BY <2>4 DEF Receiver, Receive, Mark, Wake, ReceiverReturns
  <2>5. CASE AwaitWake \/ CountClients \/ EndFlush \/ Broadcast \/ FlusherReturns
    BY <2>5 DEF AwaitWake, CountClients, EndFlush, Broadcast, FlusherReturns
  <2>6. CASE TakePending
    BY <2>6 DEF TakePending, NoPending
  <2>7. ASSUME NEW k \in Kegs, ReadKeg(k) PROVE NoLostWakeup'
    BY <2>7 DEF ReadKeg
  <2>8. ASSUME NEW p \in Pages, Join(p) \/ Stream(p) \/ Leave(p) \/ Reload(p)
        PROVE  NoLostWakeup'
    BY <2>8 DEF Join, Stream, ListKegs, SendSnapshot, WriteMessage, Leave,
                Reload, AnswerLoad, TakeReply, LoseReply
  <2>9. CASE Cancel
    BY <2>9 DEF Cancel
  <2>10. CASE UNCHANGED vars
    BY <2>10 DEF vars
  <2> QED
    BY <2>1, <2>2, <2>3, <2>4, <2>5, <2>6, <2>7, <2>8, <2>9, <2>10
    DEF Next, Flusher
<1> QED
  BY <1>1, <1>2, PTL DEF Spec

(***************************************************************************)
(* Type correctness.  A broadcast appends current to every queue, so the   *)
(* invariant has to say that current is a message whenever the flusher is  *)
(* at that step.                                                           *)
(***************************************************************************)

MessageInHand == flusher = "broadcast" => current \in Message
TypeInv == TypeOK /\ MessageInHand

(* A queue offered a message holds messages, and never more than its buffer. *)
LEMMA OfferFits ==
    ASSUME NEW q \in Seq(Message), Len(q) <= ClientBuffer, NEW m \in Message
    PROVE  Offer(q, m) \in Seq(Message) /\ Len(Offer(q, m)) <= ClientBuffer
  BY UpdateHubAssumption DEF Offer

(* The writers: the number of the next commit is a version, and what is      *)
(* published goes on the bus as an event.                                    *)
LEMMA WriterTypes ==
    ASSUME TypeInv, NEW w \in Writers,
           (\E k \in Kegs, kind \in Kind : Commit(w, k, kind)) \/ Publish(w)
    PROVE  TypeInv'
<1> USE UpdateHubAssumption
        DEF TypeInv, TypeOK, MessageInHand, recvVars, flushVars, pageVars, connVars
<1>1. ASSUME NEW k \in Kegs, NEW kind \in Kind, Commit(w, k, kind)
      PROVE  TypeInv'
  <2>1. written + 1 \in Version /\ Absent \in Version
    BY <1>1 DEF Commit, Version, Absent
  <2>2. written' \in Version /\ row' \in [Kegs -> Version]
    BY <1>1, <2>1 DEF Commit
  <2>3. unpublished' \in [Writers -> Event \cup {NoEvent}]
    BY <1>1 DEF Commit, Event
  <2>4. crossed' \subseteq Kegs
    BY <1>1 DEF Commit
  <2> QED
    BY <1>1, <2>2, <2>3, <2>4 DEF Commit
<1>2. CASE Publish(w)
  <2>1. unpublished[w] \in Event
    BY <1>2 DEF Publish
  <2>2. unpublished[w].keg \in Kegs
    BY <2>1 DEF Event
  <2>3. missed' \subseteq Pages \X Kegs
    BY <1>2, <2>2 DEF Publish
  <2>4. bus' \in Seq(Event)
    <3>1. bus' = bus \/ bus' = Append(bus, unpublished[w])
      BY <1>2 DEF Publish
    <3>2. Append(bus, unpublished[w]) \in Seq(Event)
      BY <2>1
    <3> QED
      BY <3>1, <3>2
  <2>5. unpublished' \in [Writers -> Event \cup {NoEvent}]
    BY <1>2 DEF Publish
  <2> QED
    BY <1>2, <2>3, <2>4, <2>5 DEF Publish
<1> QED
  BY <1>1, <1>2

(* The receiver: what it takes off the bus, and marks, is an event.          *)
LEMMA ReceiverTypes ==
    ASSUME TypeInv, Subscribe \/ Receiver \/ Cancel
    PROVE  TypeInv'
<1> USE UpdateHubAssumption
        DEF TypeInv, TypeOK, MessageInHand, storeVars, recvVars, flushVars, pageVars, connVars,
            ghostVars
<1>1. CASE Subscribe \/ Cancel
  BY <1>1 DEF Subscribe, Cancel
<1>2. CASE Receive
  <2>1. hand' \in Event /\ bus' \in Seq(Event)
    BY <1>2 DEF Receive
  <2> QED
    BY <1>2, <2>1 DEF Receive
<1>3. CASE Mark
  <2>1. pending' \in [Kegs -> Kind \cup {"none"}]
    BY <1>3 DEF Mark, Event
  <2> QED
    BY <1>3, <2>1 DEF Mark
<1>4. CASE Wake \/ ReceiverReturns
  BY <1>4 DEF Wake, ReceiverReturns
<1> QED
  BY <1>1, <1>2, <1>3, <1>4 DEF Receiver

(* The flusher: what it reads for a keg is a message, and it offers it only  *)
(* to queues with room.                                                      *)
LEMMA FlusherTypes ==
    ASSUME TypeInv, Flusher
    PROVE  TypeInv'
<1> USE UpdateHubAssumption
        DEF TypeInv, TypeOK, MessageInHand, storeVars, recvVars, flushVars, pageVars, connVars,
            ghostVars
<1>1. CASE AwaitWake \/ EndFlush \/ FlusherReturns
  BY <1>1 DEF AwaitWake, EndFlush, FlusherReturns
<1>2. CASE TakePending \/ CountClients
  BY <1>2 DEF TakePending, CountClients, NoPending
<1>3. ASSUME NEW k \in Kegs, ReadKeg(k) PROVE TypeInv'
  <2>1. batch' \in [Kegs -> Kind \cup {"none"}]
    BY <1>3 DEF ReadKeg
  <2>2. missed' \subseteq Pages \X Kegs
    BY <1>3 DEF ReadKeg
  <2>3. /\ current' \in Message \cup {NoMessage}
        /\ flusher' = "broadcast" => current' \in Message
        /\ flusher' \in {"next", "broadcast"}
    BY <1>3 DEF ReadKeg, Message, Version, Absent
  <2> QED
    BY <1>3, <2>1, <2>2, <2>3 DEF ReadKeg
<1>4. CASE Broadcast
  <2>1. current \in Message
    BY <1>4 DEF Broadcast
  <2>2. /\ send' \in [Pages -> Seq(Message)]
        /\ \A p \in Pages : Len(send'[p]) <= ClientBuffer
    BY <1>4, <2>1, OfferFits DEF Broadcast
  <2>3. \A p \in Pages : Missing(p, current) \subseteq Pages \X Kegs
    BY <2>1 DEF Missing, Message
  <2>4. missed' \subseteq Pages \X Kegs
    BY <1>4, <2>3 DEF Broadcast, Joined
  <2> QED
    BY <1>4, <2>2, <2>4 DEF Broadcast
<1> QED
  BY <1>1, <1>2, <1>3, <1>4 DEF Flusher

(* The reload: a list answers for every keg, and what it undoes is of one.   *)
LEMMA ReloadTypes ==
    ASSUME TypeInv, NEW p \in Pages, Reload(p)
    PROVE  TypeInv'
<1> USE DEF TypeInv, TypeOK, MessageInHand, storeVars, recvVars, flushVars, connVars,
            ghostVars
<1>1. PICK l \in Loads : AnswerLoad(p, l) \/ TakeReply(p, l) \/ LoseReply(p, l)
  BY DEF Reload
<1>2. CASE AnswerLoad(p, l) \/ LoseReply(p, l)
  <2>1. row \in List
    BY DEF List
  <2>2. PICK r \in List \cup {NoReply} : reply' = [reply EXCEPT ![p][l] = r]
    BY <1>2, <2>1 DEF AnswerLoad, LoseReply
  <2>3. [reply[p] EXCEPT ![l] = r] \in [Loads -> List \cup {NoReply}]
    OBVIOUS
  <2>4. reply' \in [Pages -> [Loads -> List \cup {NoReply}]]
    BY <2>2, <2>3
  <2> QED BY <1>2, <2>4 DEF AnswerLoad, LoseReply
<1>3. CASE TakeReply(p, l)
  <2>1. reply[p][l] \in List
    BY <1>3 DEF TakeReply
  <2>2. reply' \in [Pages -> [Loads -> List \cup {NoReply}]] /\ view' \in [Pages -> List]
    BY <1>3, <2>1 DEF TakeReply, ShowList
  <2>3. missed' \subseteq Pages \X Kegs
    BY <1>3 DEF TakeReply, Undone
  <2> QED BY <1>3, <2>2, <2>3 DEF TakeReply
<1> QED BY <1>1, <1>2, <1>3

(* The connections: a snapshot is made of messages, and shares the buffer.   *)
LEMMA PageTypes ==
    ASSUME TypeInv, NEW p \in Pages, Join(p) \/ Stream(p) \/ Leave(p)
    PROVE  TypeInv'
<1> USE UpdateHubAssumption
        DEF TypeInv, TypeOK, MessageInHand, storeVars, recvVars, flushVars, pageVars, connVars,
            ghostVars
<1>1. CASE Join(p) \/ Leave(p)
  <2>1. <<>> \in Seq(Message) /\ Len(<<>>) <= ClientBuffer
    OBVIOUS
  <2>2. send' = [send EXCEPT ![p] = <<>>]
    BY <1>1 DEF Join, Leave
  <2>3. /\ send' \in [Pages -> Seq(Message)]
        /\ \A q \in Pages : Len(send'[q]) <= ClientBuffer
    BY <2>1, <2>2
  <2>4. joins' = joins \/ (joins' = [joins EXCEPT ![p] = @ + 1] /\ joins[p] < MaxJoins)
    BY <1>1 DEF Join, Leave
  <2>5. joins[p] < MaxJoins => joins[p] + 1 \in 0 .. MaxJoins
    <3>1. joins[p] \in 0 .. MaxJoins
      OBVIOUS
    <3> QED
      BY <3>1
  <2>6. joins' \in [Pages -> 0 .. MaxJoins]
    BY <2>4, <2>5
  <2>7. page' \in [Pages -> {"away", "list", "snapshot", "stream"}]
    BY <1>1 DEF Join, Leave
  <2> QED
    BY <1>1, <2>3, <2>6, <2>7 DEF Join, Leave
<1>2. CASE ListKegs(p)
  <2>1. snapshot' \in [Pages -> SUBSET Message]
    <3>1. {[keg |-> k, version |-> row[k]] : k \in {j \in Kegs : row[j] # Absent}}
            \subseteq Message
      BY DEF Message
    <3> QED BY <1>2, <3>1 DEF ListKegs
  <2>2. missed' \subseteq Pages \X Kegs
    BY <1>2 DEF ListKegs
  <2>3. page' \in [Pages -> {"away", "list", "snapshot", "stream"}]
    BY <1>2 DEF ListKegs
  <2> QED
    BY <1>2, <2>1, <2>2, <2>3 DEF ListKegs
<1>3. CASE SendSnapshot(p)
  <2>1. CASE snapshot[p] = {} /\ page' = [page EXCEPT ![p] = "stream"]
             /\ UNCHANGED <<snapshot, send, missed>>
    BY <1>3, <2>1 DEF SendSnapshot
  <2>2. ASSUME NEW m \in snapshot[p],
               snapshot' = [snapshot EXCEPT ![p] = @ \ {m}],
               send' = [send EXCEPT ![p] = Offer(@, m)],
               missed' \subseteq missed \cup Missing(p, m) \cup {<<p, m.keg>>},
               UNCHANGED page
        PROVE  TypeInv'
    <3>1. m \in Message
      BY <2>2
    <3>2. Offer(send[p], m) \in Seq(Message) /\ Len(Offer(send[p], m)) <= ClientBuffer
      BY <3>1, OfferFits
    <3>3. missed' \subseteq Pages \X Kegs
      BY <2>2, <3>1 DEF Missing, Message
    <3>4. /\ send' \in [Pages -> Seq(Message)]
          /\ \A q \in Pages : Len(send'[q]) <= ClientBuffer
      BY <2>2, <3>2
    <3>5. snapshot' \in [Pages -> SUBSET Message]
      BY <2>2
    <3> QED
      BY <1>3, <2>2, <3>3, <3>4, <3>5 DEF SendSnapshot
  <2> QED
    BY <1>3, <2>1, <2>2 DEF SendSnapshot
<1>4. CASE WriteMessage(p)
  <2>1. Head(send[p]) \in Message
    BY <1>4 DEF WriteMessage
  <2>2. view' \in [Pages -> List]
    BY <1>4, <2>1 DEF WriteMessage, Message, List
  <2>3. /\ send' \in [Pages -> Seq(Message)]
        /\ \A q \in Pages : Len(send'[q]) <= ClientBuffer
    BY <1>4 DEF WriteMessage
  <2> QED
    BY <1>4, <2>2, <2>3 DEF WriteMessage
<1> QED
  BY <1>1, <1>2, <1>3, <1>4 DEF Stream

(* The hub starts within its types.                                          *)
LEMMA InitTypes == Init => TypeInv
<1> SUFFICES ASSUME Init PROVE TypeInv
  OBVIOUS
<1> USE UpdateHubAssumption DEF Init
<1>1. Absent \in Version
  BY DEF Absent, Version
<1>2. /\ row \in [Kegs -> Version] /\ written \in Version
      /\ view \in [Pages -> List]
      /\ reply \in [Pages -> [Loads -> List \cup {NoReply}]]
  BY <1>1 DEF Absent, List
<1>3. /\ bus \in Seq(Event) /\ send \in [Pages -> Seq(Message)]
      /\ \A p \in Pages : Len(send[p]) <= ClientBuffer
  OBVIOUS
<1>4. /\ unpublished \in [Writers -> Event \cup {NoEvent}]
      /\ hand \in Event \cup {NoEvent}
      /\ pending \in [Kegs -> Kind \cup {"none"}]
      /\ batch \in [Kegs -> Kind \cup {"none"}]
      /\ current \in Message \cup {NoMessage}
  BY DEF NoPending
<1>5. /\ page \in [Pages -> {"away", "list", "snapshot", "stream"}]
      /\ joins \in [Pages -> 0 .. MaxJoins]
      /\ snapshot \in [Pages -> SUBSET Message]
  OBVIOUS
<1> QED
  BY <1>2, <1>3, <1>4, <1>5 DEF TypeInv, TypeOK, MessageInHand

(* Every step keeps the hub within its types.                                *)
LEMMA NextTypes == TypeInv /\ [Next]_vars => TypeInv'
<1>1. TypeInv /\ UNCHANGED vars => TypeInv'
  BY DEF TypeInv, TypeOK, MessageInHand, vars, storeVars, recvVars, flushVars,
         pageVars, connVars, ghostVars
<1> QED
  BY <1>1, WriterTypes, ReceiverTypes, FlusherTypes, PageTypes, ReloadTypes DEF Next

(* The hub's state stays within its types, and no client's queue outgrows    *)
(* its buffer, however many pages come and go and whoever broadcasts.        *)
THEOREM HubTypesSafe == Spec => []TypeOK
<1>1. TypeInv => TypeOK
  BY DEF TypeInv
<1> QED
  BY <1>1, InitTypes, NextTypes, PTL DEF Spec

(***************************************************************************)
(* No update is missed.  The path of a change has four places before the   *)
(* flusher reads its keg (the bus, the receiver's hand, pending, the       *)
(* batch), one after it (current), and for each page a queue, a snapshot   *)
(* and a view.  The invariant follows the newest event of a keg through    *)
(* the first, and the last word said to a page through the others.         *)
(***************************************************************************)

(* The i-th entry of q is the last that is about keg k, and a queue that is  *)
(* silent about k has none.                                                  *)
IsLast(q, k, i) ==
    /\ i \in DOMAIN q /\ q[i].keg = k
    /\ \A j \in DOMAIN q : j > i => q[j].keg # k
Silent(q, k) == \A i \in DOMAIN q : q[i].keg # k

(* The last that queue q says of k is version v, and what p will show for k  *)
(* when its queue is written: that, or what it shows now.                    *)
Says(q, k, v) == \E i \in DOMAIN q : IsLast(q, k, i) /\ q[i].version = v

Shows(p, k, v) ==
    \/ Says(send[p], k, v)
    \/ Silent(send[p], k) /\ view[p][k] = v

(* A writer has committed a change of k and yet to publish it; the kind of   *)
(* event that tells what is stored of k.                                     *)
Owed(k) == \E w \in Writers : unpublished[w].keg = k
Right(k) == IF row[k] = Absent THEN "removed" ELSE "updated"

(* The newest event for k that the flusher has yet to read is of kind t. The *)
(* places are looked at in the order new events enter: the bus, the hand of  *)
(* the receiver, pending, and the batch.                                     *)
Newest(k, t) ==
    \/ \E i \in DOMAIN bus : IsLast(bus, k, i) /\ bus[i].kind = t
    \/ /\ Silent(bus, k)
       /\ \/ hand.keg = k /\ hand.kind = t
          \/ /\ hand.keg # k
             /\ pending[k] = t \/ (pending[k] = "none" /\ batch[k] = t)

(* A message of the snapshot that would go behind a broadcast of another     *)
(* version: SendSnapshot counts it as a named gap.                           *)
Overtaken(p, m) == \E i \in DOMAIN send[p] :
                      send[p][i].keg = m.keg /\ send[p][i].version # m.version

(* What p is going to show for k, from what is in its queue and what of its  *)
(* snapshot it has yet to send, is version v.                                *)
Awaits(p, k, v) ==
    \/ page[p] = "list" /\ Says(send[p], k, v)
    \/ /\ page[p] = "snapshot"
       /\ \E m \in snapshot[p] : m.keg = k /\ m.version = v /\ ~Overtaken(p, m)
    \/ /\ page[p] = "snapshot" /\ \A m \in snapshot[p] : m.keg # k
       /\ Shows(p, k, v)
    \/ page[p] = "stream" /\ Shows(p, k, v)

(* The batch is empty, and no message is in hand, unless the flusher is at a *)
(* step that has one.                                                        *)
StepInv ==
    /\ flusher \in {"init", "wait", "take", "returned"} => batch = NoPending
    /\ flusher # "broadcast" => current = NoMessage

(* Unless changes of k overlapped, the event that a writer owes for k tells  *)
(* what is stored.                                                           *)
KindInv ==
    \A w \in Writers : \A k \in Kegs \ crossed :
        unpublished[w].keg = k => unpublished[w].kind = Right(k)

(* With nothing named between p and k, and no publish of k outstanding: the  *)
(* newest event tells what is stored (no removal is newest for a stored      *)
(* keg); a message in hand that is outdated has a newer event behind it; and *)
(* what p awaits, if it is not what is stored, will be corrected by an event *)
(* or by the message in hand.                                                *)
Seen(p, k) ==
    <<p, k>> \notin missed /\ ~Owed(k) =>
        /\ row[k] # Absent => ~Newest(k, "removed")
        /\ current.keg = k /\ current.version # row[k] => Newest(k, Right(k))
        /\ <<p, k>> \notin forgotten =>
              \A v \in Version : v # row[k] /\ Awaits(p, k, v) =>
                  Newest(k, Right(k)) \/ current.keg = k

SeenInv == \A p \in Pages : \A k \in Kegs \ crossed : Seen(p, k)

(* The inductive invariant.                                                  *)
HubInv == TypeInv /\ StepInv /\ KindInv /\ SeenInv

(* An entry put at the end of a queue is the last about its keg, and changes *)
(* nothing for another.                                                      *)
LEMMA AppendLast ==
    ASSUME NEW S, NEW q \in Seq(S), NEW m \in S, NEW k
    PROVE  /\ m.keg = k => /\ IsLast(Append(q, m), k, Len(q) + 1)
                           /\ Append(q, m)[Len(q) + 1] = m
                           /\ \A i : IsLast(Append(q, m), k, i) => i = Len(q) + 1
                           /\ ~Silent(Append(q, m), k)
           /\ m.keg # k => /\ \A i : IsLast(Append(q, m), k, i) <=> IsLast(q, k, i)
                           /\ \A i \in DOMAIN q : Append(q, m)[i] = q[i]
                           /\ Silent(Append(q, m), k) <=> Silent(q, k)
<1> DEFINE r == Append(q, m)
           n == Len(q)
<1>1. /\ n \in Nat /\ DOMAIN q = 1 .. n /\ DOMAIN r = 1 .. n + 1 /\ r[n + 1] = m
      /\ \A i \in 1 .. n : r[i] = q[i]
  OBVIOUS
<1> HIDE DEF r, n
<1>2. \A i \in 1 .. n + 1 : i # n + 1 => i \in 1 .. n
  BY <1>1
<1>3. n + 1 \in 1 .. n + 1 /\ \A i \in 1 .. n : n + 1 > i /\ i \in 1 .. n + 1
  BY <1>1
<1>4. CASE m.keg = k
  <2>1. IsLast(r, k, n + 1)
    BY <1>1, <1>4 DEF IsLast
  <2>2. ASSUME NEW i, IsLast(r, k, i) PROVE i = n + 1
    BY <1>1, <1>2, <1>3, <1>4, <2>2 DEF IsLast
  <2>3. ~Silent(r, k)
    BY <1>1, <1>3, <1>4 DEF Silent
  <2> QED BY <1>1, <1>4, <2>1, <2>2, <2>3 DEF r, n
<1>5. CASE m.keg # k
  <2>1. ASSUME NEW i PROVE IsLast(r, k, i) <=> IsLast(q, k, i)
    BY <1>1, <1>2, <1>3, <1>5 DEF IsLast
  <2>2. Silent(r, k) <=> Silent(q, k)
    BY <1>1, <1>2, <1>3, <1>5 DEF Silent
  <2> QED BY <1>1, <1>5, <2>1, <2>2 DEF r, n
<1> QED BY <1>4, <1>5

(* Taking the first entry off a queue keeps what was last, unless it was     *)
(* that.                                                                     *)
LEMMA TailLast ==
    ASSUME NEW S, NEW q \in Seq(S), q # <<>>, NEW k
    PROVE  /\ \A i \in DOMAIN Tail(q) : i + 1 \in DOMAIN q /\ Tail(q)[i] = q[i + 1]
           /\ \A i \in DOMAIN q : i = 1 \/ i - 1 \in DOMAIN Tail(q)
           /\ \A i \in DOMAIN Tail(q) : IsLast(Tail(q), k, i) <=> IsLast(q, k, i + 1)
           /\ Silent(q, k) <=> Silent(Tail(q), k) /\ Head(q).keg # k
           /\ Silent(Tail(q), k) /\ Head(q).keg = k => IsLast(q, k, 1)
           /\ \A i \in DOMAIN Tail(q) : IsLast(q, k, 1) => Tail(q)[i].keg # k
           /\ Head(q) = q[1] /\ 1 \in DOMAIN q
           /\ DOMAIN q \subseteq Nat /\ DOMAIN Tail(q) \subseteq Nat
<1> DEFINE r == Tail(q)
           n == Len(r)
<1>1. /\ n \in Nat /\ DOMAIN r = 1 .. n /\ DOMAIN q = 1 .. n + 1 /\ Head(q) = q[1]
      /\ \A i \in 1 .. n : r[i] = q[i + 1]
  OBVIOUS
<1> HIDE DEF r, n
<1>2. \A i \in 1 .. n + 1 : i = 1 \/ i - 1 \in 1 .. n
  BY <1>1
<1>3. \A i \in 1 .. n : i + 1 \in 1 .. n + 1 /\ i + 1 > 1
  BY <1>1
<1>4. ASSUME NEW i \in 1 .. n PROVE IsLast(r, k, i) <=> IsLast(q, k, i + 1)
  <2>1. ASSUME IsLast(r, k, i) PROVE IsLast(q, k, i + 1)
    <3>1. ASSUME NEW j \in 1 .. n + 1, j > i + 1 PROVE q[j].keg # k
      <4>1. j - 1 \in 1 .. n /\ j - 1 > i /\ q[j] = r[j - 1]
        BY <1>1, <3>1
      <4> QED BY <1>1, <2>1, <4>1 DEF IsLast
    <3> QED BY <1>1, <1>3, <2>1, <3>1 DEF IsLast
  <2>2. ASSUME IsLast(q, k, i + 1) PROVE IsLast(r, k, i)
    <3>1. ASSUME NEW j \in 1 .. n, j > i PROVE r[j].keg # k
      <4>1. j + 1 \in 1 .. n + 1 /\ j + 1 > i + 1 /\ r[j] = q[j + 1]
        BY <1>1, <3>1
      <4> QED BY <1>1, <2>2, <4>1 DEF IsLast
    <3> QED BY <1>1, <2>2, <3>1 DEF IsLast
  <2> QED BY <2>1, <2>2
<1>5. ASSUME NEW j \in 1 .. n + 1, j > 1 PROVE j - 1 \in 1 .. n /\ q[j] = r[j - 1]
  BY <1>1, <1>5
<1>6. Silent(q, k) <=> Silent(r, k) /\ Head(q).keg # k
  <2>1. ASSUME Silent(r, k), Head(q).keg # k, NEW j \in 1 .. n + 1 PROVE q[j].keg # k
    <3>1. CASE j = 1
      BY <1>1, <2>1, <3>1
    <3>2. CASE j > 1
      BY <1>1, <1>5, <2>1, <3>2 DEF Silent
    <3> QED BY <1>1, <3>1, <3>2
  <2>2. 1 \in 1 .. n + 1
    BY <1>1
  <2> QED BY <1>1, <1>3, <2>1, <2>2 DEF Silent
<1>7. Silent(r, k) /\ Head(q).keg = k => IsLast(q, k, 1)
  BY <1>1, <1>5 DEF Silent, IsLast
<1>8. \A i \in 1 .. n : IsLast(q, k, 1) => r[i].keg # k
  BY <1>1, <1>3 DEF IsLast
<1>9. 1 \in 1 .. n + 1 /\ 1 .. n \subseteq Nat /\ 1 .. n + 1 \subseteq Nat
  BY <1>1
<1> QED BY <1>1, <1>2, <1>3, <1>4, <1>6, <1>7, <1>8, <1>9 DEF r, n

(* A set of indices that is not empty has its maximum, as Max chooses it:    *)
(* the index whose distance from n is minimal in the order of the naturals.  *)
LEMMA LastIndex ==
    ASSUME NEW n \in Nat, NEW S \in SUBSET (1 .. n), S # {}
    PROVE  Max(S) \in S /\ \A i \in S : i <= Max(S)
<1> DEFINE R == {p \in Nat \X Nat : p[1] < p[2]}
           M == {n - i : i \in S}
<1>1. IsWellFoundedOn(R, Nat)
  BY NatLessThanWellFounded DEF OpToRel
<1>2. M \in SUBSET Nat /\ M # {}
  <2>1. \A i \in S : n - i \in Nat
    OBVIOUS
  <2> QED BY <2>1
<1>3. PICK m \in M : \A y \in M : <<y, m>> \notin R
  <2> HIDE DEF R, M
  <2> QED BY <1>1, <1>2, WFMin
<1>4. PICK x \in S : m = n - x
  BY <1>3
<1>5. ASSUME NEW i \in S PROVE i <= x
  <2>1. n - i \in M /\ n - i \in Nat /\ n - x \in Nat
    BY <1>2
  <2>2. ~(n - i < n - x)
    BY <1>3, <1>4, <2>1
  <2>3. i \in Nat /\ x \in Nat
    OBVIOUS
  <2> HIDE DEF R, M
  <2> QED BY <2>2, <2>3
<1> QED BY <1>5 DEF Max

(* A queue that is not silent about k has a last entry about it: the maximum *)
(* of the indices, which Expected reads.                                     *)
LEMMA SomeLast ==
    ASSUME NEW S, NEW q \in Seq(S), NEW k, ~Silent(q, k)
    PROVE  /\ Max({i \in DOMAIN q : q[i].keg = k}) \in DOMAIN q
           /\ IsLast(q, k, Max({i \in DOMAIN q : q[i].keg = k}))
<1> DEFINE T == {i \in DOMAIN q : q[i].keg = k}
           m == Max(T)
<1>1. Len(q) \in Nat /\ DOMAIN q = 1 .. Len(q)
  OBVIOUS
<1>2. T # {}
  BY DEF Silent
<1>3. m \in T /\ \A j \in T : j <= m
  <2>1. T \in SUBSET (1 .. Len(q))
    BY <1>1
  <2> HIDE DEF T
  <2> QED BY <1>1, <1>2, <2>1, LastIndex
<1> HIDE DEF m
<1>4. m \in DOMAIN q /\ q[m].keg = k
  BY <1>3
<1>5. \A j \in DOMAIN q : j > m => q[j].keg # k
  <2> SUFFICES ASSUME NEW j \in DOMAIN q, j > m, q[j].keg = k PROVE FALSE
    OBVIOUS
  <2>1. j <= m
    BY <1>3
  <2> QED BY <1>1, <1>4, <2>1
<1>6. IsLast(q, k, m)
  BY <1>4, <1>5 DEF IsLast
<1> QED BY <1>4, <1>6 DEF m

(* Expected is what the page will show.                                      *)
LEMMA ShowsExpected ==
    ASSUME TypeOK, NEW p \in Pages, NEW k \in Kegs
    PROVE  Shows(p, k, Expected(p, k)) /\ Expected(p, k) \in Version
<1> DEFINE q == send[p]
           S == {i \in DOMAIN q : q[i].keg = k}
<1>1. q \in Seq(Message) /\ view[p][k] \in Version
  BY DEF TypeOK, List
<1>2. /\ Len(q) \in Nat /\ DOMAIN q = 1 .. Len(q)
      /\ \A i \in DOMAIN q : q[i] \in Message
  BY <1>1
<1>3. Expected(p, k) = IF S = {} THEN view[p][k] ELSE q[Max(S)].version
  BY DEF Expected
<1> HIDE DEF q
<1>4. CASE S = {}
  <2>1. Silent(q, k)
    BY <1>4 DEF Silent
  <2> QED BY <1>1, <1>3, <1>4, <2>1 DEF Shows, q
<1>5. CASE S # {}
  <2> DEFINE i == Max(S)
  <2>1. i \in DOMAIN q /\ IsLast(q, k, i)
    BY <1>1, <1>5, SomeLast DEF Silent
  <2>2. Expected(p, k) = q[i].version
    BY <1>3, <1>5
  <2> HIDE DEF i
  <2>3. Says(q, k, Expected(p, k)) /\ q[i].version \in Version
    BY <1>2, <2>1, <2>2 DEF Says, Message
  <2> QED BY <2>2, <2>3 DEF Shows, q
<1> QED BY <1>4, <1>5

(* What is newest of a keg is on its way.                                    *)
LEMMA NewestUnderway ==
    ASSUME NEW k \in Kegs, NEW t \in Kind, Newest(k, t) PROVE Underway(k)
BY DEF Newest, IsLast, Underway, Kind

(* The invariant implies the property: what a listening page expects is what *)
(* it awaits.                                                                *)
LEMMA SeenSuffices ==
    ASSUME HubInv PROVE NoMissedUpdate
<1> SUFFICES ASSUME NEW p \in Pages, NEW k \in Kegs \ crossed, page[p] = "stream",
                    <<p, k>> \notin missed \cup forgotten, Expected(p, k) # row[k]
             PROVE  Underway(k)
  BY DEF NoMissedUpdate
<1>1. TypeOK /\ Seen(p, k)
  BY DEF HubInv, TypeInv, SeenInv
<1>2. CASE Owed(k)
  BY <1>2 DEF Owed, Underway
<1>3. CASE ~Owed(k)
  <2>1. Expected(p, k) \in Version /\ Awaits(p, k, Expected(p, k))
    BY <1>1, ShowsExpected DEF Awaits
  <2>2. Newest(k, Right(k)) \/ current.keg = k
    BY <1>1, <1>3, <2>1 DEF Seen
  <2>3. current.keg = k /\ current.version # row[k] => Newest(k, Right(k))
    BY <1>1, <1>3 DEF Seen
  <2>4. Right(k) \in Kind
    BY DEF Right, Kind
  <2> QED BY <2>2, <2>3, <2>4, NewestUnderway DEF Underway
<1> QED BY <1>2, <1>3

(* What keeps Seen.                                                          *)
LEMMA SeenStays ==
    ASSUME NEW p \in Pages, NEW k \in Kegs, Seen(p, k),
           <<p, k>> \notin missed' => <<p, k>> \notin missed,
           <<p, k>> \notin forgotten' => <<p, k>> \notin forgotten,
           Owed(k) => Owed(k)',
           row'[k] = row[k],
           current.keg = k \/ current'.keg = k => UNCHANGED current,
           \A t \in Kind : Newest(k, t)' <=> Newest(k, t),
           <<p, k>> \notin missed' \cup forgotten' =>
               \A v \in Version : Awaits(p, k, v)' => v = row[k] \/ Awaits(p, k, v)
    PROVE  Seen(p, k)'
<1>1. Right(k)' = Right(k) /\ Right(k) \in Kind /\ "removed" \in Kind
  BY DEF Right, Kind
<1> QED BY <1>1 DEF Seen

(* What is newest depends on the four places alone.                          *)
LEMMA NewestSame ==
    ASSUME UNCHANGED <<bus, hand, pending, batch>>, NEW k, NEW t
    PROVE  Newest(k, t)' <=> Newest(k, t)
BY DEF Newest, Silent, IsLast

(* What a page awaits depends on its own connection alone.                   *)
LEMMA AwaitsSame ==
    ASSUME NEW p, UNCHANGED <<page[p], send[p], snapshot[p], view[p]>>, NEW k, NEW v
    PROVE  Awaits(p, k, v)' <=> Awaits(p, k, v)
BY DEF Awaits, Shows, Says, Silent, IsLast, Overtaken

(* A step that touches no keg's events and no page.                          *)
LEMMA SeenFramed ==
    ASSUME HubInv, UNCHANGED <<row, unpublished, crossed, missed, forgotten, current,
                               page, send, snapshot, view>>,
           \A k \in Kegs, t \in Kind : Newest(k, t)' <=> Newest(k, t)
    PROVE  SeenInv' /\ KindInv'
<1>1. ASSUME NEW p \in Pages, NEW k \in Kegs \ crossed PROVE Seen(p, k)'
  <2>1. Seen(p, k)
    BY DEF HubInv, SeenInv
  <2>2. \A v : Awaits(p, k, v)' <=> Awaits(p, k, v)
    BY AwaitsSame
  <2> QED BY <2>1, <2>2, SeenStays DEF Owed
<1>2. KindInv'
  BY DEF HubInv, KindInv, Right
<1> QED BY <1>1, <1>2 DEF SeenInv

(* A commit makes a change that is owed, so that nothing is claimed of its   *)
(* keg until it is published.                                                *)
LEMMA CommitSeen ==
    ASSUME HubInv, NEW w \in Writers, NEW j \in Kegs, NEW kind \in Kind, Commit(w, j, kind)
    PROVE  StepInv' /\ SeenInv' /\ KindInv'
<1> USE DEF recvVars, flushVars, pageVars, connVars
<1>1. /\ unpublished[w] = NoEvent /\ NoEvent.keg \notin Kegs
      /\ unpublished' = [unpublished EXCEPT ![w] = [kind |-> kind, keg |-> j]]
      /\ unpublished \in [Writers -> Event \cup {NoEvent}]
      /\ written \in Nat
      /\ row \in [Kegs -> Version]
  BY UpdateHubAssumption DEF Commit, HubInv, TypeInv, TypeOK, NoEvent, Version
<1>2. /\ unpublished'[w].keg = j /\ unpublished'[w].kind = kind
      /\ \A v \in Writers \ {w} : unpublished'[v] = unpublished[v]
  BY <1>1
<1>3. /\ \A k \in Kegs \ {j} : row'[k] = row[k]
      /\ Right(j)' = kind
      /\ kind = "updated" \/ row[j] # Absent
  BY <1>1 DEF Commit, Right, Absent
<1>4. StepInv'
  BY DEF Commit, HubInv, StepInv
<1>5. KindInv'
  <2> SUFFICES ASSUME NEW v \in Writers, NEW k \in Kegs \ crossed', unpublished'[v].keg = k
               PROVE  unpublished'[v].kind = Right(k)'
    BY DEF KindInv
  <2>0. k \notin crossed
    BY DEF Commit
  <2>1. CASE v = w
    BY <1>2, <1>3, <2>1
  <2>2. CASE v # w /\ k # j
    BY <1>2, <1>3, <2>0, <2>2 DEF HubInv, KindInv, Right
  <2>3. CASE v # w /\ k = j
    <3>1. unpublished[v].keg = j /\ "removed" \notin {kind, unpublished[v].kind}
      BY <1>2, <2>3 DEF Commit
    <3>2. unpublished[v] \in Event
      BY <1>1, <3>1 DEF NoEvent
    <3> QED BY <1>2, <1>3, <2>3, <3>1, <3>2 DEF Event, Kind
  <2> QED BY <2>1, <2>2, <2>3
<1>6. ASSUME NEW p \in Pages, NEW k \in Kegs \ crossed' PROVE Seen(p, k)'
  <2>1. CASE k = j
    BY <1>2, <2>1 DEF Seen, Owed
  <2>2. CASE k # j
    <3>1. Seen(p, k)
      BY DEF Commit, HubInv, SeenInv
    <3>2. Owed(k) => Owed(k)'
      BY <1>1, <1>2 DEF Owed
    <3>3. \A t \in Kind : Newest(k, t)' <=> Newest(k, t)
      BY NewestSame DEF Commit
    <3>4. \A v : Awaits(p, k, v)' <=> Awaits(p, k, v)
      BY AwaitsSame DEF Commit
    <3>5. UNCHANGED <<missed, forgotten, current>>
      BY DEF Commit
    <3> QED BY <1>3, <2>2, <3>1, <3>2, <3>3, <3>4, <3>5, SeenStays
  <2> QED BY <2>1, <2>2
<1> QED BY <1>4, <1>5, <1>6 DEF SeenInv

(* A published event is the newest of its keg, and tells what is stored; one *)
(* that the bus has no room for is a named gap.                              *)
LEMMA PublishSeen ==
    ASSUME HubInv, NEW w \in Writers, Publish(w)
    PROVE  StepInv' /\ SeenInv' /\ KindInv'
<1> USE DEF recvVars, flushVars, pageVars, connVars
<1> DEFINE e == unpublished[w]
           j == e.keg
<1>1. /\ e \in Event /\ NoEvent.keg \notin Kegs /\ bus \in Seq(Event)
      /\ unpublished' = [unpublished EXCEPT ![w] = NoEvent]
      /\ unpublished \in [Writers -> Event \cup {NoEvent}]
  BY UpdateHubAssumption DEF Publish, HubInv, TypeInv, TypeOK, NoEvent
<1>2. /\ unpublished'[w].keg \notin Kegs /\ j \in Kegs /\ e.kind \in Kind
      /\ \A v \in Writers \ {w} : unpublished'[v] = unpublished[v]
  BY <1>1 DEF Event
<1>3. /\ UNCHANGED <<row, crossed, forgotten, current, page, send, snapshot, view,
                     hand, pending, batch, flusher>>
      /\ \/ bus' = Append(bus, e) /\ UNCHANGED missed
         \/ missed' = missed \cup (Pages \X {j}) /\ UNCHANGED bus
  BY DEF Publish
<1>4. StepInv'
  BY <1>3 DEF HubInv, StepInv
<1>5. KindInv'
  BY <1>2, <1>3 DEF HubInv, KindInv, Right
<1> HIDE DEF e
<1>6. ASSUME NEW p \in Pages, NEW k \in Kegs \ crossed PROVE Seen(p, k)'
  <2>1. Seen(p, k)
    BY DEF HubInv, SeenInv
  <2>2. CASE k # j
    <3>1. Owed(k) => Owed(k)'
      BY <1>2, <2>2 DEF Owed, e
    <3>2. \A t \in Kind : Newest(k, t)' <=> Newest(k, t)
      <4> SUFFICES ASSUME NEW t \in Kind PROVE Newest(k, t)' <=> Newest(k, t)
        OBVIOUS
      <4>1. CASE UNCHANGED bus
        BY <1>3, <4>1, NewestSame
      <4>2. CASE bus' = Append(bus, e)
        <5>1. /\ \A i : IsLast(bus', k, i) <=> IsLast(bus, k, i)
              /\ \A i \in DOMAIN bus : bus'[i] = bus[i]
              /\ Silent(bus', k) <=> Silent(bus, k)
          <6>1. /\ \A i : IsLast(Append(bus, e), k, i) <=> IsLast(bus, k, i)
                /\ \A i \in DOMAIN bus : Append(bus, e)[i] = bus[i]
                /\ Silent(Append(bus, e), k) <=> Silent(bus, k)
            <7>1. e \in Event /\ bus \in Seq(Event) /\ e.keg # k
              BY <1>1, <2>2 DEF e
            <7> QED BY <7>1, AppendLast
          <6> QED BY <4>2, <6>1
        <5>2. \A i : IsLast(bus', k, i) => i \in DOMAIN bus' /\ i \in DOMAIN bus
          BY <5>1 DEF IsLast
        <5>3. \A i : IsLast(bus, k, i) => i \in DOMAIN bus'
          BY <5>1 DEF IsLast
        <5> QED BY <1>3, <5>1, <5>2, <5>3 DEF Newest
      <4> QED BY <1>3, <4>1, <4>2
    <3>3. \A v : Awaits(p, k, v)' <=> Awaits(p, k, v)
      BY <1>3, AwaitsSame
    <3>4. <<p, k>> \notin missed' => <<p, k>> \notin missed
      BY <1>3
    <3> QED BY <1>3, <2>1, <3>1, <3>2, <3>3, <3>4, SeenStays
  <2>3. CASE k = j
    <3>1. CASE missed' = missed \cup (Pages \X {j})
      BY <2>3, <3>1 DEF Seen
    <3>2. CASE bus' = Append(bus, e)
      <4>1. /\ IsLast(bus', k, Len(bus) + 1) /\ bus'[Len(bus) + 1] = e
            /\ \A i : IsLast(bus', k, i) => i = Len(bus) + 1
            /\ ~Silent(bus', k)
        BY <1>1, <2>3, <3>2, AppendLast
      <4>2. Len(bus) + 1 \in DOMAIN bus'
        BY <4>1 DEF IsLast
      <4>3. e.kind = Right(k)
        BY <1>1, <2>3 DEF HubInv, KindInv, e
      <4>4. \A t : Newest(k, t)' <=> t = e.kind
        BY <4>1, <4>2 DEF Newest
      <4>6. Newest(k, Right(k))' 
        BY <1>3, <4>3, <4>4 DEF Right
      <4>7. row'[k] # Absent => ~Newest(k, "removed")'
        BY <1>3, <4>3, <4>4 DEF Right
      <4> QED BY <4>6, <4>7 DEF Seen
    <3> QED BY <1>3, <3>1, <3>2
  <2> QED BY <2>2, <2>3
<1> QED BY <1>3, <1>4, <1>5, <1>6 DEF SeenInv

(* An event keeps its place as it goes from the bus to the hand.             *)
LEMMA ReceiveNewest ==
    ASSUME HubInv, Receive, NEW k \in Kegs, NEW t \in Kind
    PROVE  Newest(k, t)' <=> Newest(k, t)
<1>1. /\ bus \in Seq(Event) /\ bus # <<>> /\ bus' = Tail(bus) /\ hand' = Head(bus)
      /\ hand.keg # k /\ UNCHANGED <<pending, batch>>
  BY UpdateHubAssumption DEF Receive, HubInv, TypeInv, TypeOK, NoEvent, flushVars
<1> DEFINE r == Tail(bus)
           h == Head(bus)
<1>2. /\ \A i \in DOMAIN r : i + 1 \in DOMAIN bus /\ r[i] = bus[i + 1]
      /\ \A i \in DOMAIN bus : i = 1 \/ i - 1 \in DOMAIN r
      /\ \A i \in DOMAIN r : IsLast(r, k, i) <=> IsLast(bus, k, i + 1)
      /\ Silent(bus, k) <=> Silent(r, k) /\ h.keg # k
      /\ Silent(r, k) /\ h.keg = k => IsLast(bus, k, 1)
      /\ \A i \in DOMAIN r : IsLast(bus, k, 1) => r[i].keg # k
      /\ h = bus[1] /\ 1 \in DOMAIN bus
      /\ DOMAIN bus \subseteq Nat /\ DOMAIN r \subseteq Nat
  BY <1>1, TailLast
<1> HIDE DEF r, h
<1>3. bus' = r /\ hand' = h
  BY <1>1 DEF r, h
<1>4. Newest(k, t)' <=> \/ \E i \in DOMAIN r : IsLast(r, k, i) /\ r[i].kind = t
                        \/ Silent(r, k) /\ h.keg = k /\ h.kind = t
                        \/ /\ Silent(r, k) /\ h.keg # k
                           /\ pending[k] = t \/ (pending[k] = "none" /\ batch[k] = t)
  BY <1>1, <1>3 DEF Newest
<1>5. (\E i \in DOMAIN bus : IsLast(bus, k, i) /\ bus[i].kind = t) <=>
         \/ \E i \in DOMAIN r : IsLast(r, k, i) /\ r[i].kind = t
         \/ Silent(r, k) /\ h.keg = k /\ h.kind = t
  <2>1. ASSUME NEW i \in DOMAIN bus, IsLast(bus, k, i), bus[i].kind = t, i # 1
        PROVE  \E x \in DOMAIN r : IsLast(r, k, x) /\ r[x].kind = t
    <3>1. i - 1 \in DOMAIN r /\ (i - 1) + 1 = i
      BY <1>2, <2>1
    <3> QED BY <1>2, <2>1, <3>1
  <2>2. ASSUME IsLast(bus, k, 1), bus[1].kind = t
        PROVE  Silent(r, k) /\ h.keg = k /\ h.kind = t
    BY <1>2, <2>2 DEF IsLast, Silent
  <2>3. ASSUME NEW i \in DOMAIN r, IsLast(r, k, i), r[i].kind = t
        PROVE  \E x \in DOMAIN bus : IsLast(bus, k, x) /\ bus[x].kind = t
    BY <1>2, <2>3
  <2> QED BY <1>2, <2>1, <2>2, <2>3
<1> QED BY <1>1, <1>2, <1>4, <1>5 DEF Newest

(* Marking overwrites what was pending for the keg: the event in hand is the *)
(* newer one.                                                                *)
LEMMA MarkNewest ==
    ASSUME HubInv, Mark, NEW k \in Kegs, NEW t \in Kind
    PROVE  Newest(k, t)' <=> Newest(k, t)
<1>1. /\ hand \in Event /\ hand'.keg # k /\ UNCHANGED <<bus, batch>>
      /\ pending' = [pending EXCEPT ![hand.keg] = hand.kind]
      /\ pending \in [Kegs -> Kind \cup {"none"}]
  BY UpdateHubAssumption DEF Mark, HubInv, TypeInv, TypeOK, NoEvent, flushVars
<1>2. /\ hand.keg = k => pending'[k] = hand.kind /\ hand.kind # "none"
      /\ hand.keg # k => pending'[k] = pending[k]
  BY <1>1 DEF Event, Kind
<1>3. t # "none"
  BY DEF Kind
<1> QED BY <1>1, <1>2, <1>3 DEF Newest, Silent, IsLast

(* Taking pending makes it the batch, which was empty.                       *)
LEMMA TakeNewest ==
    ASSUME HubInv, TakePending, NEW k \in Kegs, NEW t \in Kind
    PROVE  Newest(k, t)' <=> Newest(k, t)
<1>1. /\ batch[k] = "none" /\ pending'[k] = "none" /\ batch'[k] = pending[k]
      /\ UNCHANGED <<bus, hand>>
  BY DEF TakePending, HubInv, StepInv, NoPending
<1>2. t # "none"
  BY DEF Kind
<1> QED BY <1>1, <1>2 DEF Newest, Silent, IsLast

(* No step of the receiver changes what is newest of any keg.                *)
LEMMA ReceiverSeen ==
    ASSUME HubInv, Receiver \/ Subscribe \/ Cancel PROVE StepInv' /\ SeenInv' /\ KindInv'
<1> USE DEF storeVars, recvVars, flushVars, pageVars, connVars, ghostVars
<1>1. StepInv'
  BY DEF Receiver, Receive, Mark, Wake, ReceiverReturns, Subscribe, Cancel, HubInv, StepInv
<1>2. UNCHANGED <<row, unpublished, crossed, missed, forgotten, current,
                  page, send, snapshot, view>>
  BY DEF Receiver, Receive, Mark, Wake, ReceiverReturns, Subscribe, Cancel
<1>3. ASSUME NEW k \in Kegs, NEW t \in Kind PROVE Newest(k, t)' <=> Newest(k, t)
  <2>1. CASE Wake \/ ReceiverReturns \/ Subscribe \/ Cancel
    BY <2>1, NewestSame DEF Wake, ReceiverReturns, Subscribe, Cancel
  <2> QED BY <2>1, ReceiveNewest, MarkNewest DEF Receiver
<1> QED BY <1>1, <1>2, <1>3, SeenFramed

(* A batch that nobody listens to is lost, and with it no claim.             *)
LEMMA CountSeen ==
    ASSUME HubInv, CountClients PROVE StepInv' /\ SeenInv' /\ KindInv'
<1> USE DEF storeVars, recvVars, flushVars, pageVars, connVars, ghostVars
<1>1. UNCHANGED <<row, unpublished, crossed, missed, forgotten, current,
                  page, send, snapshot, view, bus, hand, pending>>
  BY DEF CountClients
<1>2. current = NoMessage /\ flusher' \in {"wait", "next"} /\ (flusher' = "wait" => batch' = NoPending)
  BY DEF CountClients, HubInv, StepInv
<1>3. StepInv'
  BY <1>1, <1>2 DEF StepInv
<1>4. CASE UNCHANGED batch
  BY <1>1, <1>3, <1>4, NewestSame, SeenFramed
<1>5. CASE Joined = {} /\ batch' = NoPending
  <2>1. ASSUME NEW p \in Pages, NEW k \in Kegs \ crossed PROVE Seen(p, k)'
    <3>1. Seen(p, k)
      BY DEF HubInv, SeenInv
    <3>2. page'[p] = "away"
      BY <1>1, <1>5 DEF Joined
    <3>3. \A v : ~Awaits(p, k, v)'
      BY <3>2 DEF Awaits
    <3>4. ASSUME NEW t \in Kind, Newest(k, t)' PROVE Newest(k, t)
      <4>1. batch'[k] = "none" /\ t # "none"
        BY <1>5 DEF NoPending, Kind
      <4> QED BY <1>1, <3>4, <4>1 DEF Newest, Silent, IsLast
    <3>5. current'.keg # k
      BY <1>1, <1>2, UpdateHubAssumption DEF NoMessage
    <3>6. "removed" \in Kind
      BY DEF Kind
    <3>7. UNCHANGED <<missed, row>> /\ (Owed(k) => Owed(k)')
      BY <1>1 DEF Owed
    <3> QED BY <3>1, <3>3, <3>4, <3>5, <3>6, <3>7 DEF Seen
  <2>2. KindInv'
    BY <1>1 DEF HubInv, KindInv, Right
  <2> QED BY <1>1, <1>3, <2>1, <2>2 DEF SeenInv
<1> QED BY <1>4, <1>5 DEF CountClients

(* Reading a keg of the batch makes a message of the row as it is now, so    *)
(* that what was newest either is newer than the read or is what the message *)
(* says.                                                                     *)
LEMMA ReadSeen ==
    ASSUME HubInv, NEW j \in Kegs, ReadKeg(j) PROVE StepInv' /\ SeenInv' /\ KindInv'
<1> USE DEF storeVars, recvVars, flushVars, pageVars, connVars, ghostVars
<1>1. /\ UNCHANGED <<row, unpublished, crossed, forgotten, page, send, snapshot, view,
                     bus, hand, pending>>
      /\ batch' = [batch EXCEPT ![j] = "none"]
      /\ batch[j] \in Kind /\ flusher = "next"
      /\ batch \in [Kegs -> Kind \cup {"none"}] /\ pending \in [Kegs -> Kind \cup {"none"}]
      /\ bus \in Seq(Event) /\ hand \in Event \cup {NoEvent}
  BY DEF ReadKeg, HubInv, TypeInv, TypeOK
<1>2. current = NoMessage /\ current.keg \notin Kegs
  BY <1>1, UpdateHubAssumption DEF HubInv, StepInv, NoMessage
<1>3. \/ /\ batch[j] = "updated" => row[j] # Absent
         /\ current' = [keg |-> j, version |-> IF batch[j] = "removed" THEN Absent ELSE row[j]]
         /\ flusher' = "broadcast" /\ UNCHANGED missed
      \/ /\ batch[j] = "updated" /\ row[j] = Absent
         /\ UNCHANGED <<missed, current, flusher>>
      \/ /\ missed' = missed \cup (Pages \X {j})
         /\ UNCHANGED <<current, flusher>>
  BY DEF ReadKeg
<1>4. StepInv'
  BY <1>1, <1>2, <1>3 DEF StepInv
<1>5. KindInv'
  BY <1>1 DEF HubInv, KindInv, Right
<1>6. ASSUME NEW p \in Pages, NEW k \in Kegs \ crossed PROVE Seen(p, k)'
  <2>1. Seen(p, k) /\ (Owed(k) => Owed(k)')
    BY <1>1 DEF HubInv, SeenInv, Owed
  <2>2. \A v : Awaits(p, k, v)' <=> Awaits(p, k, v)
    BY <1>1, AwaitsSame
  <2>3. CASE k # j
    <3>1. batch'[k] = batch[k]
      BY <1>1, <2>3
    <3>2. \A t \in Kind : Newest(k, t)' <=> Newest(k, t)
      BY <1>1, <3>1 DEF Newest, Silent, IsLast
    <3>3. current.keg # k /\ current'.keg # k
      BY <1>2, <1>3, <2>3
    <3>4. <<p, k>> \notin missed' => <<p, k>> \notin missed
      BY <1>3
    <3> QED BY <1>1, <2>1, <2>2, <3>2, <3>3, <3>4, SeenStays
  <2>4. CASE k = j
    <3> SUFFICES ASSUME <<p, k>> \notin missed', ~Owed(k)' PROVE Seen(p, k)'
      BY DEF Seen
    <3>1. <<p, k>> \notin missed /\ ~Owed(k) /\ UNCHANGED missed
      BY <1>3, <2>1, <2>4
    <3>2. batch'[k] = "none"
      BY <1>1, <2>4
    <3>3. ASSUME NEW t \in Kind, Newest(k, t)' PROVE Newest(k, t)
      <4>1. t # "none"
        BY DEF Kind
      <4> QED BY <1>1, <3>2, <3>3, <4>1 DEF Newest, Silent, IsLast
    <3>4. ASSUME NEW t \in Kind, batch[k] # t, Newest(k, t) PROVE Newest(k, t)'
      BY <1>1, <3>2, <3>4 DEF Newest, Silent, IsLast
    <3>5. Right(k)' = Right(k) /\ Right(k) \in Kind /\ "removed" \in Kind
      BY <1>1 DEF Right, Kind
    <3>6. row'[k] # Absent => ~Newest(k, "removed")'
      BY <1>1, <2>1, <3>1, <3>3, <3>5 DEF Seen
    <3>7. ASSUME current'.keg = k, current'.version # row'[k] PROVE Newest(k, Right(k))'
      <4>1. batch[k] = "removed" /\ row[k] # Absent
        BY <1>1, <1>2, <1>3, <2>4, <3>1, <3>7 DEF Kind
      <4>2. ~Newest(k, "removed") /\ Right(k) = "updated" /\ Right(k)' = "updated"
        BY <1>1, <2>1, <3>1, <4>1 DEF Seen, Right
      <4>3. \E t \in Kind : Newest(k, t)
        <5>1. CASE Silent(bus, k)
          <6>1. hand.keg = k => hand.kind \in Kind
            BY <1>1, UpdateHubAssumption DEF NoEvent, Event
          <6>2. pending[k] \in Kind \/ pending[k] = "none"
            BY <1>1
          <6> QED BY <4>1, <5>1, <6>1, <6>2, <3>5 DEF Newest
        <5>2. CASE ~Silent(bus, k)
          <6>1. PICK i \in DOMAIN bus : IsLast(bus, k, i)
            BY <1>1, <5>2, SomeLast
          <6>2. bus[i] \in Event
            BY <1>1
          <6>3. bus[i].kind \in Kind
            BY <6>2 DEF Event
          <6> QED BY <6>1, <6>3 DEF Newest
        <5> QED BY <5>1, <5>2
      <4>4. Newest(k, "updated") /\ "updated" \in Kind
        BY <4>2, <4>3 DEF Kind
      <4>5. Newest(k, "updated")'
        BY <3>4, <4>1, <4>4
      <4> QED BY <4>2, <4>5
    <3>8. ASSUME <<p, k>> \notin forgotten', NEW v \in Version, v # row'[k], Awaits(p, k, v)',
                 current'.keg # k
          PROVE  Newest(k, Right(k))'
      <4>1. batch[k] = "updated" /\ row[k] = Absent
        BY <1>3, <2>4, <3>1, <3>8
      <4>2. Newest(k, "removed") /\ Right(k)' = "removed"
        BY <1>1, <1>2, <2>1, <2>2, <3>1, <3>8, <4>1 DEF Seen, Right
      <4>3. Newest(k, "removed")'
        BY <3>4, <3>5, <4>1, <4>2
      <4> QED BY <4>2, <4>3
    <3> QED BY <3>6, <3>7, <3>8 DEF Seen
  <2> QED BY <2>3, <2>4
<1> QED BY <1>1, <1>4, <1>5, <1>6 DEF SeenInv

(* Nothing older about the keg is on its way to the pages.                   *)
LEMMA NothingOlder ==
    ASSUME HubInv, NEW k \in Kegs, ~Outdated(k)
    PROVE  /\ row[k] # Absent => ~Newest(k, "removed")
           /\ current.keg = k => current.version = row[k]
<1> DEFINE removal == [kind |-> "removed", keg |-> k]
<1>2. current.keg = k => current.version = row[k]
  BY DEF Outdated
<1>3. ASSUME row[k] # Absent PROVE ~Newest(k, "removed")
  <2>1. /\ \A i \in DOMAIN bus : bus[i] # removal
        /\ hand # removal /\ pending[k] # "removed" /\ batch[k] # "removed"
    BY <1>3 DEF Outdated
  <2>2. bus \in Seq(Event) /\ hand \in Event \cup {NoEvent} /\ NoEvent.keg # k
    BY UpdateHubAssumption DEF HubInv, TypeInv, TypeOK, NoEvent
  <2>3. \A i \in DOMAIN bus : bus[i] \in Event
    BY <2>2
  <2>4. \A e \in Event : e.keg = k /\ e.kind = "removed" => e = removal
    BY DEF Event
  <2>5. ~(hand.keg = k /\ hand.kind = "removed")
    BY <2>1, <2>2, <2>4
  <2>6. \A i \in DOMAIN bus : ~(bus[i].keg = k /\ bus[i].kind = "removed")
    BY <2>1, <2>3, <2>4
  <2> HIDE DEF removal
  <2> QED BY <2>1, <2>5, <2>6 DEF Newest, IsLast
<1> QED BY <1>2, <1>3

(* What corrects a page is up to date, and nothing older comes behind it.    *)
LEMMA CorrectedClean ==
    ASSUME HubInv, NEW p \in Pages, NEW m \in Message, NEW k \in Kegs,
           <<p, k>> \in Corrected(p, m)
    PROVE  /\ m.keg = k /\ m.version = row[k] /\ Len(send[p]) < ClientBuffer
           /\ row[k] # Absent => ~Newest(k, "removed")
           /\ current.keg = k => current.version = row[k]
<1>1. m.keg = k /\ m.version = row[k] /\ Len(send[p]) < ClientBuffer /\ ~Outdated(k)
  BY DEF Corrected
<1> QED BY <1>1, NothingOlder

(* A message that goes into p's queue is the last that it says of its keg,   *)
(* and says nothing of another.                                              *)
LEMMA OfferAwaits ==
    ASSUME NEW p \in Pages, NEW m \in Message, send[p] \in Seq(Message),
           send'[p] = Offer(send[p], m), page'[p] = page[p], view'[p] = view[p],
           snapshot'[p] = snapshot[p] \/ snapshot'[p] = snapshot[p] \ {m},
           NEW k \in Kegs, NEW v
    PROVE  /\ k # m.keg /\ Awaits(p, k, v)' => Awaits(p, k, v)
           /\ k = m.keg /\ Len(send[p]) < ClientBuffer /\ Awaits(p, k, v)' => v = m.version
<1> DEFINE q == send[p]
           r == Append(q, m)
<1>1. CASE ~(Len(q) < ClientBuffer)
  <2>1. send'[p] = q
    BY <1>1 DEF Offer
  <2>2. k # m.keg /\ Awaits(p, k, v)' => Awaits(p, k, v)
    BY <2>1 DEF Awaits, Shows, Says, Silent, IsLast, Overtaken
  <2> QED BY <1>1, <2>2
<1>2. CASE Len(q) < ClientBuffer
  <2>1. send'[p] = r
    BY <1>2 DEF Offer
  <2>2. /\ DOMAIN q = 1 .. Len(q) /\ DOMAIN r = 1 .. Len(q) + 1 /\ Len(q) \in Nat
        /\ r[Len(q) + 1] = m /\ \A i \in DOMAIN q : r[i] = q[i]
    OBVIOUS
  <2>3. Len(q) + 1 \in DOMAIN r /\ \A i \in DOMAIN q : i \in DOMAIN r
    BY <2>2
  <2>4. /\ m.keg = k => /\ \A i : IsLast(r, k, i) => i = Len(q) + 1
                        /\ ~Silent(r, k)
        /\ m.keg # k => /\ \A i : IsLast(r, k, i) <=> IsLast(q, k, i)
                        /\ Silent(r, k) <=> Silent(q, k)
    BY AppendLast
  <2> HIDE DEF r, q
  <2>5. ASSUME k = m.keg, Awaits(p, k, v)' PROVE v = m.version
    <3>1. ASSUME Says(r, k, v) PROVE v = m.version
      BY <2>2, <2>4, <2>5, <3>1 DEF Says
    <3>2. Shows(p, k, v)' => Says(r, k, v)
      BY <2>1, <2>4, <2>5 DEF Shows
    <3>3. ASSUME NEW x \in snapshot'[p], x.keg = k, x.version = v, ~Overtaken(p, x)'
          PROVE  v = m.version
      BY <2>1, <2>2, <2>3, <2>5, <3>3 DEF Overtaken
    <3> QED BY <2>1, <2>5, <3>1, <3>2, <3>3 DEF Awaits
  <2>6. ASSUME k # m.keg, Awaits(p, k, v)' PROVE Awaits(p, k, v)
    <3>1. Says(r, k, v) => Says(q, k, v)
      BY <2>2, <2>4, <2>6 DEF Says, IsLast
    <3>2. Shows(p, k, v)' => Shows(p, k, v)
      BY <2>1, <2>4, <2>6, <3>1 DEF Shows, q
    <3>3. ASSUME NEW x \in snapshot'[p], ~Overtaken(p, x)'
          PROVE  x \in snapshot[p] /\ ~Overtaken(p, x)
      BY <2>1, <2>2, <2>3, <3>3 DEF Overtaken, q
    <3>4. \A x \in snapshot[p] : x.keg = k => x \in snapshot'[p]
      BY <2>6
    <3> QED BY <2>1, <2>6, <3>1, <3>2, <3>3, <3>4 DEF Awaits, q
  <2> QED BY <1>2, <2>5, <2>6 DEF q
<1> QED BY <1>1, <1>2

(* A broadcast puts its message last in every queue with room; a page whose  *)
(* queue has none has a named gap, unless another message closes it.         *)
LEMMA BroadcastSeen ==
    ASSUME HubInv, Broadcast PROVE StepInv' /\ SeenInv' /\ KindInv'
<1> USE DEF storeVars, recvVars, flushVars, pageVars, connVars, ghostVars
<1> DEFINE m == current
<1>1. /\ UNCHANGED <<row, unpublished, crossed, page, snapshot, view,
                     bus, hand, pending, batch>>
      /\ send' = [p \in Pages |-> IF p \in Joined THEN Offer(send[p], m) ELSE send[p]]
      /\ missed' = (missed \cup UNION {Missing(p, m) : p \in Joined})
                      \ UNION {Corrected(p, m) : p \in Joined}
      /\ forgotten' = forgotten \ (Joined \X {m.keg})
      /\ current' = NoMessage /\ flusher' = "next"
  BY DEF Broadcast
<1>2. /\ m \in Message /\ m.keg \in Kegs
      /\ send \in [Pages -> Seq(Message)]
  BY DEF Broadcast, HubInv, TypeInv, TypeOK, MessageInHand, Message
<1>3. StepInv'
  BY <1>1 DEF StepInv
<1>4. KindInv'
  BY <1>1 DEF HubInv, KindInv, Right
<1>5. current'.keg \notin Kegs
  BY <1>1, UpdateHubAssumption DEF NoMessage
<1> HIDE DEF m
<1>6. ASSUME NEW p \in Pages, NEW k \in Kegs \ crossed PROVE Seen(p, k)'
  <2>1. Seen(p, k) /\ (Owed(k) <=> Owed(k)')
    BY <1>1 DEF HubInv, SeenInv, Owed
  <2>2. \A t \in Kind : Newest(k, t)' <=> Newest(k, t)
    BY <1>1, NewestSame
  <2>3. /\ page'[p] = page[p] /\ view'[p] = view[p] /\ snapshot'[p] = snapshot[p]
        /\ p \in Joined => send'[p] = Offer(send[p], m)
        /\ p \notin Joined => send'[p] = send[p]
    BY <1>1
  <2>4. p \notin Joined => \A v : ~Awaits(p, k, v)'
    BY <2>3 DEF Joined, Awaits
  <2>5. CASE k # m.keg
    <3>1. \A v : Awaits(p, k, v)' => Awaits(p, k, v)
      BY <1>2, <2>3, <2>4, <2>5, OfferAwaits
    <3>2. <<p, k>> \in missed' <=> <<p, k>> \in missed
      <4>1. ASSUME NEW x PROVE <<p, k>> \notin Missing(x, m)
        BY <2>5 DEF Missing
      <4>2. ASSUME NEW x PROVE <<p, k>> \notin Corrected(x, m)
        BY <2>5 DEF Corrected
      <4> QED BY <1>1, <4>1, <4>2
    <3>3. <<p, k>> \in forgotten' <=> <<p, k>> \in forgotten
      BY <1>1, <2>5
    <3>4. current.keg # k /\ current'.keg # k
      BY <1>5, <2>5 DEF m
    <3> QED BY <1>1, <2>1, <2>2, <3>1, <3>2, <3>3, <3>4, SeenStays
  <2>6. CASE k = m.keg
    <3> SUFFICES ASSUME <<p, k>> \notin missed', ~Owed(k)' PROVE Seen(p, k)'
      BY DEF Seen
    <3>1. Right(k)' = Right(k) /\ Right(k) \in Kind /\ "removed" \in Kind
      BY <1>1 DEF Right, Kind
    <3>2. CASE <<p, k>> \in missed
      <4>1. PICK x \in Joined : <<p, k>> \in Corrected(x, m)
        BY <1>1, <3>2
      <4>2. x = p /\ <<p, k>> \in Corrected(p, m)
        BY <4>1 DEF Corrected
      <4>3. /\ m.version = row[k] /\ Len(send[p]) < ClientBuffer
            /\ row[k] # Absent => ~Newest(k, "removed")
        BY <1>2, <4>2, CorrectedClean
      <4>4. \A v : Awaits(p, k, v)' => v = row[k]
        BY <1>2, <2>3, <2>6, <4>1, <4>2, <4>3, OfferAwaits
      <4> QED BY <1>1, <1>5, <2>2, <3>1, <4>3, <4>4 DEF Seen
    <3>3. CASE <<p, k>> \notin missed
      <4>1. /\ row[k] # Absent => ~Newest(k, "removed")
            /\ m.version # row[k] => Newest(k, Right(k))
        BY <2>1, <2>6, <3>3 DEF Seen, m
      <4>2. ASSUME NEW v, Awaits(p, k, v)' PROVE v = m.version
        <5>1. p \in Joined
          BY <2>4, <4>2
        <5>2. <<p, k>> \notin Missing(p, m) \/ <<p, k>> \in Corrected(p, m)
          <6>1. CASE \E x \in Joined : <<p, k>> \in Corrected(x, m)
            BY <6>1 DEF Corrected
          <6>2. CASE ~ \E x \in Joined : <<p, k>> \in Corrected(x, m)
            BY <1>1, <5>1, <6>2
          <6> QED BY <6>1, <6>2
        <5>3. Len(send[p]) < ClientBuffer
          <6>1. Len(send[p]) \in Nat /\ ClientBuffer \in Nat
            BY <1>2, UpdateHubAssumption
          <6> QED BY <2>6, <5>2, <6>1 DEF Missing, Corrected
        <5> QED BY <1>2, <2>3, <2>6, <4>2, <5>1, <5>3, OfferAwaits
      <4> QED BY <1>1, <1>5, <2>2, <3>1, <4>1, <4>2 DEF Seen
    <3> QED BY <3>2, <3>3
  <2> QED BY <2>5, <2>6
<1> QED BY <1>1, <1>3, <1>4, <1>6 DEF SeenInv

(* The steps of the flusher together.                                        *)
LEMMA FlusherSeen ==
    ASSUME HubInv, Flusher PROVE StepInv' /\ SeenInv' /\ KindInv'
<1> USE DEF storeVars, recvVars, flushVars, pageVars, connVars, ghostVars
<1>1. CASE AwaitWake \/ EndFlush \/ FlusherReturns
  <2>1. UNCHANGED <<row, unpublished, crossed, missed, forgotten, current,
                    page, send, snapshot, view, bus, hand, pending, batch>>
    BY <1>1 DEF AwaitWake, EndFlush, FlusherReturns
  <2>2. StepInv'
    BY <1>1, <2>1 DEF AwaitWake, EndFlush, FlusherReturns, HubInv, StepInv
  <2> QED BY <2>1, <2>2, NewestSame, SeenFramed
<1>2. CASE TakePending
  <2>1. UNCHANGED <<row, unpublished, crossed, missed, forgotten, current,
                    page, send, snapshot, view>>
    BY <1>2 DEF TakePending
  <2>2. StepInv'
    BY <1>2 DEF TakePending, HubInv, StepInv
  <2> QED BY <1>2, <2>1, <2>2, TakeNewest, SeenFramed
<1> QED BY <1>1, <1>2, CountSeen, ReadSeen, BroadcastSeen DEF Flusher

(* A connection opens and closes with an empty queue, and a page that is not *)
(* streaming awaits nothing of it; a frame written moves what was queued     *)
(* first into the view.                                                      *)
LEMMA ConnectSeen ==
    ASSUME HubInv, NEW x \in Pages, Join(x) \/ Leave(x) \/ WriteMessage(x)
    PROVE  StepInv' /\ SeenInv' /\ KindInv'
<1> USE DEF storeVars, recvVars, flushVars, pageVars, connVars, ghostVars
<1>1. UNCHANGED <<row, unpublished, crossed, missed, forgotten, current, flusher, batch,
                  bus, hand, pending, snapshot>>
  BY DEF Join, Leave, WriteMessage
<1>2. StepInv' /\ KindInv'
  BY <1>1 DEF HubInv, StepInv, KindInv, Right
<1>3. ASSUME NEW p \in Pages, p # x
      PROVE  UNCHANGED <<page[p], send[p], snapshot[p], view[p]>>
  BY <1>3 DEF Join, Leave, WriteMessage, HubInv, TypeInv, TypeOK
<1>4. ASSUME NEW p \in Pages, NEW k \in Kegs, NEW v \in Version, Awaits(p, k, v)'
      PROVE  Awaits(p, k, v)
  <2>1. CASE p # x
    BY <1>3, <1>4, <2>1, AwaitsSame
  <2>2. CASE p = x /\ Leave(x)
    <3>1. page'[p] = "away"
      BY <2>2 DEF Leave, HubInv, TypeInv, TypeOK
    <3> QED BY <1>4, <3>1 DEF Awaits
  <2>3. CASE p = x /\ Join(x)
    <3>1. page'[p] = "list" /\ send'[p] = <<>>
      BY <2>3 DEF Join, HubInv, TypeInv, TypeOK
    <3>2. ~Says(<<>>, k, v)
      BY DEF Says
    <3> QED BY <1>4, <3>1, <3>2 DEF Awaits
  <2>4. CASE p = x /\ WriteMessage(x)
    <3> DEFINE q == send[p]
               h == Head(q)
               r == Tail(q)
    <3>1. /\ page[p] = "stream" /\ page'[p] = "stream"
          /\ q \in Seq(Message) /\ q # <<>> /\ send'[p] = r
          /\ view' = [view EXCEPT ![p][h.keg] = h.version]
          /\ view[p] \in [Kegs -> Version] /\ view \in [Pages -> [Kegs -> Version]]
      BY <2>4 DEF WriteMessage, HubInv, TypeInv, TypeOK, List
    <3>2. /\ h.keg = k => view'[p][k] = h.version
          /\ h.keg # k => view'[p][k] = view[p][k]
      BY <3>1
    <3>3. /\ \A i \in DOMAIN r : i + 1 \in DOMAIN q /\ r[i] = q[i + 1]
          /\ \A i \in DOMAIN r : IsLast(r, k, i) <=> IsLast(q, k, i + 1)
          /\ Silent(q, k) <=> Silent(r, k) /\ h.keg # k
          /\ Silent(r, k) /\ h.keg = k => IsLast(q, k, 1)
          /\ h = q[1] /\ 1 \in DOMAIN q
      BY <3>1, TailLast
    <3> HIDE DEF h, r, q
    <3>4. Shows(p, k, v)'
      BY <1>4, <3>1 DEF Awaits
    <3>5. Says(r, k, v) \/ (Silent(r, k) /\ view'[p][k] = v)
      BY <3>1, <3>4 DEF Shows
    <3>6. CASE Says(r, k, v)
      <4>1. Says(q, k, v)
        BY <3>3, <3>6 DEF Says
      <4> QED BY <3>1, <4>1 DEF Awaits, Shows, q
    <3>7. CASE Silent(r, k) /\ view'[p][k] = v /\ h.keg = k
      <4>1. Says(q, k, v)
        BY <3>2, <3>3, <3>7 DEF Says
      <4> QED BY <3>1, <4>1 DEF Awaits, Shows, q
    <3>8. CASE Silent(r, k) /\ view'[p][k] = v /\ h.keg # k
      BY <3>1, <3>2, <3>3, <3>8 DEF Awaits, Shows, q
    <3> QED BY <3>5, <3>6, <3>7, <3>8
  <2> QED BY <2>1, <2>2, <2>3, <2>4
<1>5. ASSUME NEW p \in Pages, NEW k \in Kegs \ crossed PROVE Seen(p, k)'
  <2>1. Seen(p, k) /\ (Owed(k) <=> Owed(k)')
    BY <1>1 DEF HubInv, SeenInv, Owed
  <2>2. \A t \in Kind : Newest(k, t)' <=> Newest(k, t)
    BY <1>1, NewestSame
  <2> QED BY <1>1, <1>4, <2>1, <2>2, SeenStays
<1> QED BY <1>1, <1>2, <1>5 DEF SeenInv

(* The snapshot is read from the rows: it says what is stored, and a keg     *)
(* that it does not hold but the page still shows is a named gap.            *)
LEMMA ListSeen ==
    ASSUME HubInv, NEW x \in Pages, ListKegs(x)
    PROVE  StepInv' /\ SeenInv' /\ KindInv'
<1> USE DEF storeVars, recvVars, flushVars, pageVars, connVars, ghostVars
<1> DEFINE stored == {k \in Kegs : row[k] # Absent}
<1>1. UNCHANGED <<row, unpublished, crossed, current, flusher, batch,
                  bus, hand, pending, send, view>>
  BY DEF ListKegs
<1>2. StepInv' /\ KindInv'
  BY <1>1 DEF HubInv, StepInv, KindInv, Right
<1>3. /\ page[x] = "list" /\ page \in [Pages -> {"away", "list", "snapshot", "stream"}]
      /\ snapshot \in [Pages -> SUBSET Message]
  BY DEF ListKegs, HubInv, TypeInv, TypeOK
<1>4. \/ /\ snapshot' = [snapshot EXCEPT ![x] = {[keg |-> k, version |-> row[k]] : k \in stored}]
         /\ page' = [page EXCEPT ![x] = "snapshot"]
         /\ forgotten' = forgotten \cup
                {<<x, k>> : k \in {y \in Kegs \ stored : view[x][y] # Absent}}
         /\ UNCHANGED missed
      \/ /\ page' = [page EXCEPT ![x] = "stream"]
         /\ missed' = missed \cup ({x} \X Kegs)
         /\ UNCHANGED <<snapshot, forgotten>>
  BY DEF ListKegs
<1> HIDE DEF stored
<1>5. ASSUME NEW p \in Pages, NEW k \in Kegs, NEW v \in Version,
             <<p, k>> \notin missed' \cup forgotten', Awaits(p, k, v)'
      PROVE  v = row[k] \/ Awaits(p, k, v)
  <2>1. CASE p # x
    <3>1. UNCHANGED <<page[p], send[p], snapshot[p], view[p]>>
      BY <1>1, <1>3, <1>4, <2>1
    <3> QED BY <1>5, <3>1, AwaitsSame
  <2>2. CASE p = x
    <3>1. /\ snapshot'[p] = {[keg |-> y, version |-> row[y]] : y \in stored}
          /\ page'[p] = "snapshot"
          /\ forgotten' = forgotten \cup
                {<<x, y>> : y \in {z \in Kegs \ stored : view[x][z] # Absent}}
      BY <1>3, <1>4, <1>5, <2>2
    <3>2. CASE \E m \in snapshot'[p] : m.keg = k /\ m.version = v
      BY <3>1, <3>2
    <3>3. CASE (\A m \in snapshot'[p] : m.keg # k) /\ Shows(p, k, v)'
      <4>1. k \notin stored
        <5> SUFFICES ASSUME k \in stored PROVE FALSE
          OBVIOUS
        <5>1. [keg |-> k, version |-> row[k]] \in snapshot'[p]
          BY <3>1
        <5> QED BY <3>3, <5>1
      <4>2. row[k] = Absent
        BY <4>1 DEF stored
      <4>3. view[p][k] = Absent
        BY <1>5, <2>2, <3>1, <4>1
      <4>4. Shows(p, k, v)
        BY <1>1, <3>3 DEF Shows, Says, Silent, IsLast
      <4> QED BY <1>3, <2>2, <4>2, <4>3, <4>4 DEF Shows, Awaits
    <3> QED BY <1>5, <3>1, <3>2, <3>3 DEF Awaits
  <2> QED BY <2>1, <2>2
<1>6. ASSUME NEW p \in Pages, NEW k \in Kegs \ crossed PROVE Seen(p, k)'
  <2>1. Seen(p, k) /\ (Owed(k) <=> Owed(k)')
    BY <1>1 DEF HubInv, SeenInv, Owed
  <2>2. \A t \in Kind : Newest(k, t)' <=> Newest(k, t)
    BY <1>1, NewestSame
  <2>3. /\ <<p, k>> \notin missed' => <<p, k>> \notin missed
        /\ <<p, k>> \notin forgotten' => <<p, k>> \notin forgotten
    BY <1>4
  <2> QED BY <1>1, <1>5, <2>1, <2>2, <2>3, SeenStays
<1> QED BY <1>1, <1>2, <1>6 DEF SeenInv

(* A message of the snapshot goes behind what is queued: it is what the page *)
(* was awaiting, or it is overtaken, a named gap.                            *)
LEMMA SnapshotSeen ==
    ASSUME HubInv, NEW x \in Pages, SendSnapshot(x)
    PROVE  StepInv' /\ SeenInv' /\ KindInv'
<1> USE DEF storeVars, recvVars, flushVars, pageVars, connVars, ghostVars
<1>1. UNCHANGED <<row, unpublished, crossed, current, flusher, batch,
                  bus, hand, pending, view, forgotten>>
  BY DEF SendSnapshot
<1>2. StepInv' /\ KindInv'
  BY <1>1 DEF HubInv, StepInv, KindInv, Right
<1>3. /\ page[x] = "snapshot" /\ page \in [Pages -> {"away", "list", "snapshot", "stream"}]
      /\ snapshot \in [Pages -> SUBSET Message]
      /\ send \in [Pages -> Seq(Message)]
  BY DEF SendSnapshot, HubInv, TypeInv, TypeOK
<1>4. ASSUME NEW p \in Pages, NEW k \in Kegs \ crossed
      PROVE  /\ Seen(p, k) /\ (Owed(k) <=> Owed(k)')
             /\ \A t \in Kind : Newest(k, t)' <=> Newest(k, t)
             /\ Right(k)' = Right(k)
  BY <1>1, NewestSame DEF HubInv, SeenInv, Owed, Right
<1>5. ASSUME snapshot[x] = {}, page' = [page EXCEPT ![x] = "stream"],
             UNCHANGED <<snapshot, send, missed>>,
             NEW p \in Pages, NEW k \in Kegs \ crossed
      PROVE  Seen(p, k)'
  <2>1. ASSUME NEW v, Awaits(p, k, v)' PROVE Awaits(p, k, v)
    <3>1. CASE p # x
      <4>1. UNCHANGED <<page[p], send[p], snapshot[p], view[p]>>
        BY <1>1, <1>3, <1>5, <3>1
      <4> QED BY <2>1, <4>1, AwaitsSame
    <3>2. CASE p = x
      <4>1. page'[p] = "stream"
        BY <1>3, <1>5, <3>2
      <4>2. Shows(p, k, v)'
        BY <2>1, <4>1 DEF Awaits
      <4>3. Shows(p, k, v)
        BY <1>1, <1>5, <4>2 DEF Shows, Says, Silent, IsLast
      <4> QED BY <1>3, <1>5, <3>2, <4>3 DEF Awaits
    <3> QED BY <3>1, <3>2
  <2> QED BY <1>1, <1>4, <1>5, <2>1, SeenStays
<1>6. ASSUME NEW m \in snapshot[x],
             snapshot' = [snapshot EXCEPT ![x] = @ \ {m}],
             send' = [send EXCEPT ![x] = Offer(@, m)],
             missed' = (missed \cup Missing(x, m)
                          \cup (IF Overtaken(x, m) THEN {<<x, m.keg>>} ELSE {}))
                          \ Corrected(x, m),
             UNCHANGED page,
             NEW p \in Pages, NEW k \in Kegs \ crossed
      PROVE  Seen(p, k)'
  <2>1. m \in Message
    BY <1>3, <1>6
  <2>2. CASE p # x \/ k # m.keg
    <3>1. ASSUME NEW v, Awaits(p, k, v)' PROVE Awaits(p, k, v)
      <4>1. CASE p # x
        <5>1. UNCHANGED <<page[p], send[p], snapshot[p], view[p]>>
          BY <1>1, <1>3, <1>6, <4>1
        <5> QED BY <3>1, <5>1, AwaitsSame
      <4>2. CASE p = x
        <5>1. /\ send[p] \in Seq(Message) /\ send'[p] = Offer(send[p], m)
              /\ page'[p] = page[p] /\ view'[p] = view[p]
              /\ snapshot'[p] = snapshot[p] \ {m}
          BY <1>1, <1>3, <1>6, <4>2
        <5> QED BY <2>1, <2>2, <3>1, <4>2, <5>1, OfferAwaits
      <4> QED BY <4>1, <4>2
    <3>2. <<p, k>> \in missed' <=> <<p, k>> \in missed
      <4>1. <<p, k>> \notin Missing(x, m)
        BY <2>2 DEF Missing
      <4>2. <<p, k>> \notin Corrected(x, m)
        BY <2>2 DEF Corrected
      <4> QED BY <1>6, <2>2, <4>1, <4>2
    <3> QED BY <1>1, <1>4, <3>1, <3>2, SeenStays
  <2>3. CASE p = x /\ k = m.keg
    <3>1. /\ send[p] \in Seq(Message) /\ send'[p] = Offer(send[p], m)
          /\ page'[p] = page[p] /\ view'[p] = view[p]
          /\ snapshot'[p] = snapshot[p] \ {m}
      BY <1>1, <1>3, <1>6, <2>3
    <3>2. Right(k) \in Kind /\ "removed" \in Kind
      BY DEF Right, Kind
    <3>3. CASE <<p, k>> \in Corrected(p, m)
      <4>1. /\ m.version = row[k] /\ Len(send[p]) < ClientBuffer
            /\ row[k] # Absent => ~Newest(k, "removed")
            /\ current.keg = k => current.version = row[k]
        BY <2>1, <3>3, CorrectedClean
      <4>2. ASSUME NEW v, Awaits(p, k, v)' PROVE v = row[k]
        BY <2>1, <2>3, <3>1, <4>1, <4>2, OfferAwaits
      <4> QED BY <1>1, <1>4, <3>2, <4>1, <4>2 DEF Seen
    <3>4. CASE <<p, k>> \notin Corrected(p, m)
      <4> SUFFICES ASSUME <<p, k>> \notin missed' PROVE Seen(p, k)'
        BY DEF Seen
      <4>1. /\ <<p, k>> \notin missed /\ ~Overtaken(p, m)
            /\ <<p, k>> \notin Missing(p, m)
        BY <1>6, <2>3, <3>4
      <4>2. Len(send[p]) < ClientBuffer
        <5>1. Len(send[p]) \in Nat /\ ClientBuffer \in Nat
          BY <3>1, UpdateHubAssumption
        <5> QED BY <2>3, <4>1, <5>1 DEF Missing
      <4>3. ASSUME NEW v, Awaits(p, k, v)' PROVE Awaits(p, k, v)
        <5>1. v = m.version
          BY <2>1, <2>3, <3>1, <4>2, <4>3, OfferAwaits
        <5> QED BY <1>3, <1>6, <2>3, <4>1, <5>1 DEF Awaits
      <4> QED BY <1>1, <1>4, <4>1, <4>3, SeenStays
    <3> QED BY <3>3, <3>4
  <2> QED BY <2>2, <2>3
<1>7. SeenInv'
  <2> SUFFICES ASSUME NEW p \in Pages, NEW k \in Kegs \ crossed PROVE Seen(p, k)'
    BY <1>1 DEF SeenInv
  <2>1. \/ snapshot[x] = {} /\ page' = [page EXCEPT ![x] = "stream"]
           /\ UNCHANGED <<snapshot, send, missed>>
        \/ \E m \in snapshot[x] :
             /\ snapshot' = [snapshot EXCEPT ![x] = @ \ {m}]
             /\ send' = [send EXCEPT ![x] = Offer(@, m)]
             /\ missed' = (missed \cup Missing(x, m)
                             \cup (IF Overtaken(x, m) THEN {<<x, m.keg>>} ELSE {}))
                             \ Corrected(x, m)
             /\ UNCHANGED page
    BY DEF SendSnapshot, Overtaken
  <2> QED BY <1>5, <1>6, <2>1
<1> QED BY <1>2, <1>7

(* A list that replaces what a page shows: of a keg no message is queued     *)
(* for, the page then awaits what the list says.  That is what is stored, or *)
(* the page awaited something else before, or the list undid it.             *)
LEMMA ReloadSeen ==
    ASSUME HubInv, NEW x \in Pages, Reload(x)
    PROVE  StepInv' /\ SeenInv' /\ KindInv'
<1> USE DEF storeVars, recvVars, flushVars, connVars, ghostVars
<1>1. PICK l \in Loads : AnswerLoad(x, l) \/ TakeReply(x, l) \/ LoseReply(x, l)
  BY DEF Reload
<1>2. UNCHANGED <<row, unpublished, crossed, current, flusher, batch, bus, hand, pending,
                  page, send, snapshot>>
  BY <1>1 DEF AnswerLoad, TakeReply, LoseReply
<1>3. StepInv' /\ KindInv'
  BY <1>2 DEF HubInv, StepInv, KindInv, Right
<1>4. CASE AnswerLoad(x, l) \/ LoseReply(x, l)
  <2>1. UNCHANGED <<missed, forgotten, view>>
    BY <1>4 DEF AnswerLoad, LoseReply
  <2> QED BY <1>2, <1>3, <2>1, NewestSame, SeenFramed
<1>5. CASE TakeReply(x, l)
  <2> DEFINE list == reply[x][l]
  <2>1. /\ list \in [Kegs -> Version]
        /\ view \in [Pages -> [Kegs -> Version]]
        /\ view' = [view EXCEPT ![x] = list]
        /\ missed' = (missed \cup Undone(x, list)) \ Healed(x, list)
        /\ forgotten' = forgotten \ Healed(x, list)
    BY <1>5 DEF TakeReply, ShowList, HubInv, TypeInv, TypeOK, List
  <2> HIDE DEF list
  <2>2. ASSUME NEW p \in Pages, NEW k \in Kegs \ crossed PROVE Seen(p, k)'
    <3>1. /\ Seen(p, k) /\ (Owed(k) <=> Owed(k)')
          /\ \A t \in Kind : Newest(k, t)' <=> Newest(k, t)
          /\ Right(k)' = Right(k) /\ Right(k) \in Kind /\ "removed" \in Kind
      BY <1>2, NewestSame DEF HubInv, SeenInv, Owed, Right, Kind
    <3>2. CASE p # x
      <4>1. UNCHANGED <<page[p], send[p], snapshot[p], view[p]>>
        BY <1>2, <2>1, <3>2
      <4>2. /\ <<p, k>> \notin Undone(x, list) /\ <<p, k>> \notin Healed(x, list)
        BY <3>2 DEF Undone, Healed
      <4>3. \A v : Awaits(p, k, v)' <=> Awaits(p, k, v)
        BY <4>1, AwaitsSame
      <4> QED BY <1>2, <2>1, <3>1, <4>2, <4>3, SeenStays
    <3>3. CASE p = x /\ <<p, k>> \in Healed(p, list)
      <4>1. /\ list[k] = row[k] /\ ~Outdated(k)
            /\ \A i \in DOMAIN send[p] : send[p][i].keg = k => send[p][i].version = row[k]
            /\ \A m \in snapshot[p] : m.keg = k => m.version = row[k]
        BY <3>3 DEF Healed
      <4>2. view'[p][k] = row[k]
        BY <2>1, <3>3, <4>1
      <4>3. ASSUME NEW v, Awaits(p, k, v)' PROVE v = row[k]
        BY <1>2, <4>1, <4>2, <4>3 DEF Awaits, Shows, Says, Silent, IsLast, Overtaken
      <4>4. /\ row[k] # Absent => ~Newest(k, "removed")
            /\ current.keg = k => current.version = row[k]
        BY <4>1, NothingOlder
      <4> QED BY <1>2, <3>1, <4>3, <4>4 DEF Seen
    <3>4. CASE p = x /\ <<p, k>> \notin Healed(p, list)
      <4> SUFFICES ASSUME <<p, k>> \notin missed' PROVE Seen(p, k)'
        BY DEF Seen
      <4>1. /\ <<p, k>> \notin missed /\ <<p, k>> \notin Undone(p, list)
            /\ <<p, k>> \notin forgotten' => <<p, k>> \notin forgotten
        BY <2>1, <3>4
      <4>2. view'[p][k] = list[k] /\ view[p][k] \in Version
        BY <2>1, <3>4
      <4>3. ASSUME NEW v \in Version, v # row[k], Awaits(p, k, v)'
            PROVE  \E u \in Version : u # row[k] /\ Awaits(p, k, u)
        <5>1. CASE Awaits(p, k, v)
          BY <4>3, <5>1
        <5>2. CASE ~Awaits(p, k, v)
          <6>1. /\ Silent(send[p], k) /\ v = list[k]
                /\ \/ page[p] = "stream"
                   \/ page[p] = "snapshot" /\ \A m \in snapshot[p] : m.keg # k
            BY <1>2, <4>2, <4>3, <5>2 DEF Awaits, Shows, Says, Silent, IsLast, Overtaken
          <6>2. view[p][k] # row[k]
            BY <4>1, <4>3, <6>1 DEF Undone, Silent
          <6>3. Awaits(p, k, view[p][k])
            BY <6>1 DEF Awaits, Shows
          <6> QED BY <4>2, <6>2, <6>3
        <5> QED BY <5>1, <5>2
      <4> QED BY <1>2, <3>1, <4>1, <4>3 DEF Seen
    <3> QED BY <3>2, <3>3, <3>4
  <2> QED BY <1>2, <1>3, <2>2 DEF SeenInv
<1> QED BY <1>1, <1>4, <1>5

(* At the start no page is connected and nothing is in hand.                 *)
LEMMA HubStarts == Init => HubInv
<1> SUFFICES ASSUME Init PROVE HubInv
  OBVIOUS
<1>1. StepInv
  BY DEF Init, StepInv
<1>2. KindInv
  BY UpdateHubAssumption DEF Init, KindInv, NoEvent
<1>3. SeenInv
  <2> SUFFICES ASSUME NEW p \in Pages, NEW k \in Kegs PROVE Seen(p, k)
    BY DEF SeenInv
  <2>1. \A v : ~Awaits(p, k, v)
    BY DEF Init, Awaits
  <2> QED BY <2>1, UpdateHubAssumption DEF Init, Seen, NoMessage
<1> QED BY <1>1, <1>2, <1>3, InitTypes DEF HubInv

(* The invariant is inductive.                                               *)
LEMMA HubKept == HubInv /\ [Next]_vars => HubInv'
<1> SUFFICES ASSUME HubInv, [Next]_vars PROVE HubInv'
  OBVIOUS
<1>1. TypeInv'
  BY NextTypes DEF HubInv
<1>2. CASE UNCHANGED vars
  <2> USE DEF vars, storeVars, recvVars, flushVars, pageVars, connVars, ghostVars
  <2>1. StepInv'
    BY <1>2 DEF HubInv, StepInv
  <2>2. SeenInv' /\ KindInv'
    BY <1>2, NewestSame, SeenFramed
  <2> QED BY <1>1, <2>1, <2>2 DEF HubInv
<1>3. CASE Next
  BY <1>1, <1>3, CommitSeen, PublishSeen, ReceiverSeen, FlusherSeen, ConnectSeen, ListSeen,
     SnapshotSeen, ReloadSeen DEF Next, Stream, HubInv
<1> QED BY <1>2, <1>3

(* No update is missed. For any number of kegs, writers and pages and any    *)
(* buffers: what a streaming page shows or has queued is what is stored, or  *)
(* the change is on its way, unless one of the named gaps lies between.      *)
THEOREM NoUpdateMissed == Spec => []NoMissedUpdate
<1>1. HubInv => NoMissedUpdate
  BY SeenSuffices
<1> QED BY <1>1, HubStarts, HubKept, PTL DEF Spec

=============================================================================
