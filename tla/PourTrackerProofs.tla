------------------------- MODULE PourTrackerProofs -------------------------
(***************************************************************************)
(* Theorems about PourTracker, for any kegs, packets, units and settings.  *)
(***************************************************************************)
EXTENDS PourTracker, TLAPS

(* Nothing is later than now, and a window begins after the keg was last     *)
(* deleted.                                                                  *)
Timely ==
    /\ \A p \in pours : p.startedAt <= p.endedAt /\ p.endedAt <= now
    /\ \A k \in Kegs :
        /\ clearedAt[k] <= now /\ deletedAt[k] <= now
        /\ Open(k) => row[k].startedAt <= now /\ deletedAt[k] <= row[k].startedAt

PourInv ==
    TypeOK /\ Timely /\ WindowsDisjoint /\ NothingCountedTwice /\ HistoryIsNew

(* The row a packet or a teardown finds. *)
Found(k) == IF row[k] = NoRow THEN newKeg ELSE row[k]

(* What a change of k's row to r must bring for trackPour to be right: the   *)
(* window as it was, no amount forgotten, every fall accounted for.          *)
Change(k, r) ==
    /\ r \in Row
    /\ r.startedAt = Found(k).startedAt /\ r.startAmount = Found(k).startAmount
    /\ Found(k).amount # None => r.amount # None
    /\ fell' \in [Kegs -> Nat] /\ \A j \in Kegs \ {k} : fell'[j] = fell[j]
    /\ fell'[k] = fell[k] + Fall(Found(k).amount, r.amount)
    /\ UNCHANGED <<now, minimum, cuts>>
    /\ trackPour(k, r, Found(k).pouring, Found(k).amount)

LEMMA FoundType ==
    ASSUME TypeOK, NEW k \in Kegs
    PROVE  /\ Found(k) \in Row
           /\ Found(k).startedAt = None <=> Found(k).startAmount = None
           /\ Found(k).startedAt # None => Found(k).pouring /\ Found(k).amount # None
           /\ Open(k) <=> Found(k).startedAt # None
           /\ Open(k) => Found(k) = row[k]
BY PourAssumption DEF TypeOK, Found, newKeg, Row, Open

(* The window after the change, in each of the three cases. *)
LEMMA WindowType ==
    ASSUME TypeOK, NEW k \in Kegs, NEW r, Change(k, r),
           NEW w, w = Window(r, Found(k).pouring, Found(k).amount)
    PROVE  /\ w \in Row
           /\ w.amount = r.amount /\ w.pouring = r.pouring
           /\ w.startedAt = None <=> w.startAmount = None
           /\ w.startedAt # None =>
                 /\ w.pouring /\ w.amount # None
                 /\ \/ Found(k).startedAt = None /\ w.startedAt = now
                       /\ Found(k).amount # None /\ w.startAmount = Found(k).amount
                    \/ /\ w.startedAt = Found(k).startedAt
                       /\ w.startAmount = Found(k).startAmount
<1> DEFINE old == Found(k)
<1>1. /\ old \in Row /\ r \in Row /\ now \in Nat
      /\ r.startedAt = old.startedAt /\ r.startAmount = old.startAmount
      /\ old.amount # None => r.amount # None
      /\ old.startedAt = None <=> old.startAmount = None
      /\ old.startedAt # None => old.pouring /\ old.amount # None
  BY FoundType DEF Change, TypeOK
<1>2. CASE Opens(r, old.pouring)
  <2>1. old.startedAt = None /\ now # None /\ now \in Nat /\ r.pouring
    BY <1>1, <1>2, PourAssumption DEF Opens, Row
  <2>2. CASE old.amount = None
    <3>1. w = [r EXCEPT !.startedAt = None, !.startAmount = None]
      BY <1>2, <2>2 DEF Window
    <3> QED
      BY <1>1, <2>1, <3>1 DEF Row
  <2>3. CASE old.amount # None
    <3>1. w = [r EXCEPT !.startedAt = now, !.startAmount = old.amount]
      BY <1>2, <2>3 DEF Window
    <3> QED
      BY <1>1, <2>1, <2>3, <3>1 DEF Row
  <2> QED
    BY <2>2, <2>3
<1>3. CASE Closes(r, old.pouring)
  BY <1>1, <1>3, PourAssumption DEF Window, Opens, Closes, Row
<1>4. CASE ~Opens(r, old.pouring) /\ ~Closes(r, old.pouring)
  BY <1>1, <1>4, PourAssumption DEF Window, Opens, Closes, Row
<1> QED
  BY <1>2, <1>3, <1>4

(* What trackPour does to the row, and to the table when the window is a     *)
(* pour: it was open, and what it measured is known.                         *)
LEMMA TrackRow ==
    ASSUME TypeOK, NEW k \in Kegs, NEW r, Change(k, r)
    PROVE  /\ row' = [row EXCEPT ![k] = Window(r, Found(k).pouring, Found(k).amount)]
           /\ row'[k] = Window(r, Found(k).pouring, Found(k).amount)
           /\ \A j \in Kegs \ {k} : row'[j] = row[j]
           /\ row'[k] \in Row /\ row'[k] # NoRow
<1>1. row' = [row EXCEPT ![k] = Window(r, Found(k).pouring, Found(k).amount)]
  BY DEF Change, trackPour
<1>2. row'[k] = Window(r, Found(k).pouring, Found(k).amount)
      /\ \A j \in Kegs \ {k} : row'[j] = row[j]
  BY <1>1 DEF TypeOK
<1>3. row'[k] \in Row
  BY <1>2, WindowType
<1> QED
  BY <1>1, <1>2, <1>3, PourAssumption

LEMMA TrackTable ==
    ASSUME TypeOK, NEW k \in Kegs, NEW r, Change(k, r)
    PROVE  \/ /\ IsPour(r, Found(k).pouring) /\ insertPour(k, r)
              /\ Open(k) /\ ~r.pouring
              /\ Found(k).startedAt \in Nat /\ r.startedAt = Found(k).startedAt
              /\ Found(k).amount \in Int /\ r.amount \in Int
              /\ Found(k).startAmount \in Int /\ r.startAmount = Found(k).startAmount
              /\ row'[k].startedAt = None
           \/ UNCHANGED <<pours, nextID, counted>>
<1>1. CASE IsPour(r, Found(k).pouring)
  <2>1. row'[k].startedAt = None
    BY <1>1, TrackRow, WindowType DEF IsPour, Closes
  <2>2. insertPour(k, r)
    BY <1>1 DEF Change, trackPour
  <2>3. Found(k).startedAt # None /\ Found(k).amount # None
    BY <1>1, FoundType DEF IsPour, Change
  <2> QED
    BY <1>1, <2>1, <2>2, <2>3, FoundType, PourAssumption DEF IsPour, Closes, Change, Row
<1>2. CASE ~IsPour(r, Found(k).pouring)
  BY <1>2 DEF Change, trackPour
<1> QED
  BY <1>1, <1>2

LEMMA ChangeType ==
    ASSUME TypeOK, Timely, NEW k \in Kegs, NEW r, Change(k, r) PROVE TypeOK'
<1>1. row' \in [Kegs -> Row \cup {NoRow}]
  BY TrackRow DEF TypeOK
<1>2. ASSUME NEW j \in Kegs, row'[j] # NoRow
      PROVE  /\ row'[j].startedAt = None <=> row'[j].startAmount = None
             /\ row'[j].startedAt # None => row'[j].pouring /\ row'[j].amount # None
  <2>1. CASE j = k
    BY <2>1, TrackRow, WindowType
  <2>2. CASE j # k
    BY <1>2, <2>2, TrackRow DEF TypeOK
  <2> QED
    BY <2>1, <2>2
<1>3. /\ pours' \subseteq Pour /\ nextID' \in Nat /\ \A p \in pours' : p.id < nextID'
      /\ counted' \in [Kegs -> Int]
  <2>1. CASE UNCHANGED <<pours, nextID, counted>>
    BY <2>1 DEF TypeOK
  <2>2. CASE /\ insertPour(k, r) /\ r.startedAt \in Nat
             /\ r.amount \in Int /\ r.startAmount \in Int
    <3>1. /\ now \in Nat /\ nextID \in Nat /\ counted \in [Kegs -> Int]
          /\ Measured(r) \in Int
      BY <2>2 DEF TypeOK, Measured
    <3>2. ASSUME NEW p \in pours' PROVE p \in Pour /\ p.id < nextID'
      <4>1. CASE p \in pours
        BY <2>2, <3>1, <4>1 DEF TypeOK, insertPour, Pour
      <4>2. CASE p = [id |-> nextID, keg |-> k, startedAt |-> r.startedAt,
                      endedAt |-> now, hidden |-> FALSE]
        BY <2>2, <3>1, <4>2 DEF insertPour, Pour
      <4> QED
        BY <2>2, <4>1, <4>2 DEF insertPour
    <3> QED
      BY <2>2, <3>1, <3>2 DEF insertPour
  <2> QED
    BY <2>1, <2>2, TrackTable
<1> QED
  BY <1>1, <1>2, <1>3 DEF TypeOK, Change, cuts

LEMMA ChangeTimely ==
    ASSUME TypeOK, Timely, NEW k \in Kegs, NEW r, Change(k, r) PROVE Timely'
<1> USE DEF Change, cuts
<1>1. \A p \in pours' : p.startedAt <= p.endedAt /\ p.endedAt <= now'
  <2>1. CASE UNCHANGED <<pours, nextID, counted>>
    BY <2>1 DEF Timely
  <2>2. CASE insertPour(k, r) /\ Open(k) /\ r.startedAt = row[k].startedAt
    BY <2>2 DEF Timely, insertPour, TypeOK
  <2> QED
    BY <2>1, <2>2, TrackTable, FoundType
<1>2. ASSUME NEW j \in Kegs, Open(j)'
      PROVE  row'[j].startedAt <= now' /\ deletedAt'[j] <= row'[j].startedAt
  <2>1. CASE j # k
    BY <1>2, <2>1, TrackRow DEF Timely, Open
  <2>2. CASE j = k
    <3>1. \/ row'[k].startedAt = now
          \/ Open(k) /\ row'[k].startedAt = row[k].startedAt
      BY <1>2, <2>2, TrackRow, WindowType, FoundType DEF Open
    <3>2. deletedAt[k] <= now /\ now \in Nat /\ deletedAt[k] \in Nat
      BY DEF Timely, TypeOK
    <3> QED
      BY <2>2, <3>1, <3>2 DEF Timely
  <2> QED
    BY <2>1, <2>2
<1> QED
  BY <1>1, <1>2 DEF Timely

LEMMA ChangeDisjoint ==
    ASSUME TypeOK, Timely, WindowsDisjoint, NEW k \in Kegs, NEW r, Change(k, r)
    PROVE  WindowsDisjoint'
<1> USE DEF Change
<1>1. ASSUME NEW p \in pours', NEW q \in pours', p.keg = q.keg, p # q
      PROVE  Before(p, q) \/ Before(q, p)
  <2>1. CASE UNCHANGED <<pours, nextID, counted>>
    BY <1>1, <2>1 DEF WindowsDisjoint
  <2>2. CASE insertPour(k, r) /\ Open(k) /\ r.startedAt = row[k].startedAt
    <3> DEFINE new == [id |-> nextID, keg |-> k, startedAt |-> r.startedAt,
                       endedAt |-> now, hidden |-> FALSE]
    <3>1. pours' = pours \cup {new}
      BY <2>2 DEF insertPour
    <3>2. ASSUME NEW o \in pours, o.keg = k PROVE Before(o, new)
      BY <2>2, <3>2 DEF WindowsDisjoint, Before
    <3>3. new.keg = k
      OBVIOUS
    <3> HIDE DEF new
    <3> QED
      BY <1>1, <3>1, <3>2, <3>3 DEF WindowsDisjoint
  <2> QED
    BY <2>1, <2>2, TrackTable, FoundType
<1>2. ASSUME NEW j \in Kegs, Open(j)', NEW p \in pours', p.keg = j
      PROVE  p.endedAt <= row'[j].startedAt
  <2>1. p \in pours
    <3>1. CASE UNCHANGED <<pours, nextID, counted>>
      BY <1>2, <3>1
    <3>2. CASE insertPour(k, r) /\ row'[k].startedAt = None
      <4>1. j # k
        BY <1>2, <3>2 DEF Open
      <4> QED
        BY <1>2, <3>2, <4>1 DEF insertPour
    <3> QED
      BY <3>1, <3>2, TrackTable
  <2>2. CASE j # k
    BY <1>2, <2>1, <2>2, TrackRow DEF WindowsDisjoint, Open
  <2>3. CASE j = k
    <3>1. \/ row'[k].startedAt = now
          \/ Open(k) /\ row'[k].startedAt = row[k].startedAt
      BY <1>2, <2>3, TrackRow, WindowType, FoundType DEF Open
    <3> QED
      BY <1>2, <2>1, <2>3, <3>1 DEF WindowsDisjoint, Timely
  <2> QED
    BY <2>2, <2>3
<1> QED
  BY <1>1, <1>2 DEF WindowsDisjoint

LEMMA ChangeCounts ==
    ASSUME TypeOK, NothingCountedTwice, NEW k \in Kegs, NEW r, Change(k, r)
    PROVE  NothingCountedTwice'
<1> DEFINE old == Found(k)
           f == Fall(old.amount, r.amount)
<1>1. ASSUME NEW j \in Kegs, j # k
      PROVE  /\ counted'[j] <= fell'[j]
             /\ Open(j)' /\ row'[j].amount # None =>
                   counted'[j] + Measured(row[j])' <= fell'[j]
  <2>1. counted'[j] = counted[j] /\ fell'[j] = fell[j] /\ row'[j] = row[j]
    BY <1>1, TrackTable, TrackRow DEF insertPour, TypeOK, Change
  <2> QED
    BY <1>1, <2>1 DEF NothingCountedTwice, Open, Measured, Change
<1>2. /\ counted'[k] <= fell'[k]
      /\ Open(k)' /\ row'[k].amount # None =>
            counted'[k] + Measured(row[k])' <= fell'[k]
  <2>1. /\ counted[k] <= fell[k]
        /\ Open(k) => counted[k] + (old.startAmount - old.amount) <= fell[k]
    BY FoundType DEF NothingCountedTwice, Change, Measured
  <2>2. /\ counted[k] \in Int /\ fell[k] \in Int
        /\ f \in Nat /\ fell'[k] = fell[k] + f
        /\ old.amount # None => old.amount \in Int /\ r.amount \in Int
                                /\ old.amount - r.amount <= f
    <3>1. /\ old.amount # None => old.amount \in Int
          /\ r.amount # None => r.amount \in Int
      BY FoundType, PourAssumption DEF Change, Row
    <3> QED
      BY <3>1 DEF TypeOK, Fall, Change
  <2>3. CASE /\ insertPour(k, r) /\ Open(k) /\ row'[k].startedAt = None
             /\ old.startAmount \in Int /\ r.startAmount = old.startAmount
             /\ old.amount \in Int
    <3>1. counted'[k] = counted[k] + (old.startAmount - r.amount)
      BY <2>3 DEF insertPour, Measured, TypeOK
    <3>2. old.amount # None
      BY <2>3, PourAssumption
    <3>3. counted'[k] <= fell'[k]
      BY <2>1, <2>2, <2>3, <3>1, <3>2
    <3> QED
      BY <2>3, <3>3 DEF Open
  <2>4. CASE UNCHANGED <<pours, nextID, counted>>
    <3>1. counted'[k] = counted[k]
      BY <2>4
    <3>2. ASSUME Open(k)'
          PROVE  counted[k] + (row'[k].startAmount - row'[k].amount) <= fell'[k]
      <4>1. row'[k].amount = r.amount /\ old.amount # None
        BY <3>2, TrackRow, WindowType, FoundType DEF Open
      <4>2. CASE row'[k].startAmount = old.amount
        BY <2>1, <2>2, <4>1, <4>2
      <4>3. CASE Open(k) /\ row'[k].startAmount = old.startAmount
        <5>1. old.startAmount \in Int
          BY <4>3, FoundType, PourAssumption DEF Row
        <5> QED
          BY <2>1, <2>2, <4>1, <4>3, <5>1
      <4> QED
        BY <3>2, <4>2, <4>3, TrackRow, WindowType, FoundType DEF Open
    <3> QED
      BY <2>1, <2>2, <3>1, <3>2 DEF Measured
  <2> QED
    BY <2>3, <2>4, TrackTable
<1> QED
  BY <1>1, <1>2 DEF NothingCountedTwice

LEMMA ChangeHistory ==
    ASSUME TypeOK, Timely, HistoryIsNew, NEW k \in Kegs, NEW r, Change(k, r)
    PROVE  HistoryIsNew'
<1>1. CASE UNCHANGED <<pours, nextID, counted>>
  BY <1>1 DEF HistoryIsNew, ListKegPours, Change, cuts
<1>2. CASE insertPour(k, r) /\ Open(k) /\ r.startedAt = row[k].startedAt
  BY <1>2 DEF HistoryIsNew, ListKegPours, Change, cuts, insertPour, Timely
<1> QED
  BY <1>1, <1>2, TrackTable, FoundType

LEMMA ChangeKeeps ==
    ASSUME PourInv, NEW k \in Kegs, NEW r, Change(k, r) PROVE PourInv'
BY ChangeType, ChangeTimely, ChangeDisjoint, ChangeCounts, ChangeHistory DEF PourInv

(* A packet and a teardown are changes in that sense.                        *)
LEMMA PacketChanges ==
    ASSUME TypeOK, NEW k \in Kegs, NEW p \in Packets, ApplyPacket(k, p)
    PROVE  Change(k, Merge(Found(k), p))
<1> DEFINE old == Found(k)
           r == Merge(old, p)
<1>1. p \in Packet /\ old \in Row
  BY FoundType, PourAssumption
<1>2. /\ r \in Row
      /\ r.startedAt = old.startedAt /\ r.startAmount = old.startAmount
      /\ old.amount # None => r.amount # None
  <2>1. /\ old.amount \in Amounts \cup {None} /\ old.pouring \in BOOLEAN
        /\ old.unit \in Units /\ old.co2 \in BOOLEAN
    BY <1>1 DEF Row
  <2>2. /\ p.amount # None => p.amount \in Amounts
        /\ p.pouring # None => p.pouring \in BOOLEAN
        /\ p.unit # None => p.unit \in Units
        /\ p.co2 # None => p.co2 \in BOOLEAN
    BY <1>1 DEF Packet
  <2> DEFINE a == IF p.amount = None THEN old.amount ELSE p.amount
             b == IF p.pouring = None THEN old.pouring ELSE p.pouring
             u == IF p.unit = None THEN old.unit ELSE p.unit
             c == IF p.co2 = None THEN old.co2 ELSE p.co2
  <2>3. /\ a \in Amounts \cup {None} /\ u \in Units
        /\ old.amount # None => a # None
    BY <2>1, <2>2
  <2>4. b \in BOOLEAN /\ c \in BOOLEAN
    BY <2>1, <2>2, Zenon
  <2>5. r = [old EXCEPT !.amount = a, !.pouring = b, !.unit = u, !.co2 = c]
    BY DEF Merge
  <2> HIDE DEF a, b, u, c, old, r
  <2> QED
    BY <1>1, <2>3, <2>4, <2>5 DEF Row
<1>3. Fall(old.amount, r.amount) \in Nat
  <2>1. /\ old.amount # None => old.amount \in Int
        /\ r.amount # None => r.amount \in Int
    BY <1>1, <1>2, PourAssumption DEF Row
  <2> HIDE DEF old, r
  <2> QED
    BY <2>1 DEF Fall
<1> HIDE DEF r
<1>4. /\ fell' = [fell EXCEPT ![k] = @ + Fall(old.amount, r.amount)]
      /\ UNCHANGED <<now, minimum, cuts>>
      /\ trackPour(k, r, old.pouring, old.amount)
  BY DEF ApplyPacket, Found, r, TypeOK
<1> QED
  BY <1>2, <1>3, <1>4 DEF Change, TypeOK, r

LEMMA TeardownChanges ==
    ASSUME TypeOK, NEW k \in Kegs, SetPouring(k)
    PROVE  Change(k, [row[k] EXCEPT !.pouring = FALSE])
<1> DEFINE r == [row[k] EXCEPT !.pouring = FALSE]
<1>1. Found(k) = row[k] /\ row[k] \in Row
  BY FoundType DEF SetPouring, Found
<1>2. /\ r \in Row /\ r.amount = row[k].amount
      /\ r.startedAt = row[k].startedAt /\ r.startAmount = row[k].startAmount
  BY <1>1 DEF Row
<1>3. Fall(row[k].amount, row[k].amount) = 0
  <2>1. row[k].amount # None => row[k].amount \in Int
    BY <1>1, PourAssumption DEF Row
  <2> QED
    BY <2>1 DEF Fall
<1> HIDE DEF r
<1>4. /\ UNCHANGED <<now, minimum, fell, cuts>>
      /\ trackPour(k, r, row[k].pouring, row[k].amount)
  BY DEF SetPouring, r
<1> QED
  BY <1>1, <1>2, <1>3, <1>4 DEF Change, TypeOK, r

LEMMA InitPours == Init => PourInv
BY PourAssumption
   DEF Init, PourInv, TypeOK, Timely, WindowsDisjoint, NothingCountedTwice,
       HistoryIsNew, ListKegPours, Open

LEMMA ClearKeeps ==
    ASSUME PourInv, NEW k \in Kegs, ClearLog(k) \/ DeleteKeg(k) PROVE PourInv'
<1> USE DEF PourInv
<1>1. ASSUME NEW q \in pours'
      PROVE  \E p \in pours :
                /\ q \in Pour
                /\ q.id = p.id /\ q.keg = p.keg /\ q.startedAt = p.startedAt
                /\ q.endedAt = p.endedAt
                /\ IF p.keg = k THEN q = [p EXCEPT !.hidden = TRUE] /\ q.hidden
                                ELSE q = p
  <2>1. PICK p \in pours : q = IF p.keg = k THEN [p EXCEPT !.hidden = TRUE] ELSE p
    BY DEF ClearLog, DeleteKeg, Hide
  <2>2. p \in Pour
    BY DEF TypeOK
  <2> QED
    BY <2>1, <2>2 DEF Pour
<1>2. \A j \in Kegs : row'[j] = row[j] \/ row'[j] = NoRow
  BY DEF ClearLog, DeleteKeg, TypeOK
<1>3. TypeOK'
  <2>1. row' \in [Kegs -> Row \cup {NoRow}]
    BY DEF ClearLog, DeleteKeg, TypeOK
  <2> QED
    BY <1>1, <1>2, <2>1 DEF ClearLog, DeleteKeg, TypeOK
<1>4. Timely'
  BY <1>1, <1>2 DEF ClearLog, DeleteKeg, TypeOK, Timely, Open
<1>5. WindowsDisjoint'
  <2>1. ASSUME NEW q1 \in pours', NEW q2 \in pours', q1.keg = q2.keg, q1 # q2
        PROVE  Before(q1, q2) \/ Before(q2, q1)
    <3>1. PICK p1 \in pours :
              /\ q1.keg = p1.keg /\ q1.startedAt = p1.startedAt /\ q1.endedAt = p1.endedAt
              /\ q1 = IF p1.keg = k THEN [p1 EXCEPT !.hidden = TRUE] ELSE p1
      BY <1>1
    <3>2. PICK p2 \in pours :
              /\ q2.keg = p2.keg /\ q2.startedAt = p2.startedAt /\ q2.endedAt = p2.endedAt
              /\ q2 = IF p2.keg = k THEN [p2 EXCEPT !.hidden = TRUE] ELSE p2
      BY <1>1
    <3>3. p1 # p2
      BY <2>1, <3>1, <3>2
    <3>4. Before(p1, p2) \/ Before(p2, p1)
      BY <2>1, <3>1, <3>2, <3>3 DEF WindowsDisjoint
    <3> QED
      BY <3>1, <3>2, <3>4 DEF Before
  <2>2. ASSUME NEW j \in Kegs, Open(j)', NEW q \in pours', q.keg = j
        PROVE  q.endedAt <= row'[j].startedAt
    BY <1>1, <1>2, <2>2 DEF WindowsDisjoint, Open
  <2> QED
    BY <2>1, <2>2 DEF WindowsDisjoint
<1>6. NothingCountedTwice'
  BY <1>2 DEF ClearLog, DeleteKeg, NothingCountedTwice, Open, Measured
<1>7. HistoryIsNew'
  BY <1>1 DEF ClearLog, DeleteKeg, HistoryIsNew, ListKegPours, TypeOK
<1> QED
  BY <1>3, <1>4, <1>5, <1>6, <1>7

LEMMA OthersKeep ==
    ASSUME PourInv,
           \/ Elapse
           \/ \E ids \in SUBSET {p.id : p \in pours} : DeletePours(ids)
           \/ \E m \in Minimums : SetMinimum(m)
           \/ UNCHANGED vars
    PROVE  PourInv'
<1> USE DEF PourInv, TypeOK, Timely, WindowsDisjoint, NothingCountedTwice,
            HistoryIsNew, ListKegPours, Open, Before, Measured, table, ghostVars, cuts
<1>1. CASE Elapse
  <2>1. now \in Nat /\ now' = now + 1 /\ UNCHANGED <<row, table, minimum, ghostVars>>
    BY <1>1 DEF Elapse
  <2>2. Timely'
    BY <2>1 DEF Pour, Row
  <2>3. TypeOK' /\ WindowsDisjoint' /\ NothingCountedTwice' /\ HistoryIsNew'
    BY <2>1
  <2> QED
    BY <2>2, <2>3
<1>2. ASSUME NEW ids \in SUBSET {p.id : p \in pours}, DeletePours(ids) PROVE PourInv'
  BY <1>2 DEF DeletePours
<1>3. ASSUME NEW m \in Minimums, SetMinimum(m) PROVE PourInv'
  BY <1>3, PourAssumption DEF SetMinimum
<1>4. CASE UNCHANGED vars
  BY <1>4 DEF vars
<1> QED
  BY <1>1, <1>2, <1>3, <1>4

(* Type correctness and the order of times, on which the other theorems rest. *)
THEOREM Pours == Spec => []PourInv
<1>1. ASSUME PourInv, [Next]_vars PROVE PourInv'
  <2>1. ASSUME NEW k \in Kegs, SetPouring(k) PROVE PourInv'
    BY <1>1, <2>1, TeardownChanges, ChangeKeeps DEF PourInv
  <2>2. ASSUME NEW k \in Kegs, NEW p \in Packets, ApplyPacket(k, p) PROVE PourInv'
    BY <1>1, <2>2, PacketChanges, ChangeKeeps DEF PourInv
  <2>3. ASSUME NEW k \in Kegs, ClearLog(k) \/ DeleteKeg(k) PROVE PourInv'
    BY <1>1, <2>3, ClearKeeps
  <2> QED
    BY <1>1, <2>1, <2>2, <2>3, OthersKeep DEF Next, Operator
<1> QED
  BY InitPours, <1>1, PTL DEF Spec

(* No two pours of a keg overlap, nor a pour and the open window.            *)
THEOREM PoursFollow == Spec => []WindowsDisjoint
BY Pours, PTL DEF PourInv

(* What is recorded as poured from a keg has fallen from what it reported.   *)
THEOREM CountedOnce == Spec => []NothingCountedTwice
BY Pours, PTL DEF PourInv

(* A cleared history stays clear of what was before it.                      *)
THEOREM HistoryStaysClear == Spec => []HistoryIsNew
BY Pours, PTL DEF PourInv

(* Rows and pours keep their types: a window has a beginning exactly when it *)
(* has the amount it began with, it is open only while the keg pours and its *)
(* amount is known, and the id of a pour is never given out again.           *)
THEOREM PourTypes == Spec => []TypeOK
BY Pours, PTL DEF PourInv
=============================================================================
