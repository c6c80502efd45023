---------------------------- MODULE PourTracker ----------------------------
(***************************************************************************)
(* Pour detection: the window kept in a keg's row, trackPour inside the    *)
(* transactions of ApplyPacket and SetPouring, the table of pours, and     *)
(* what clears, deletes and edits them.  The store holds one connection,   *)
(* so a transaction is one step; one that fails changes nothing.           *)
(*                                                                         *)
(* A restart of the server keeps all of this state: to the store it is a   *)
(* time without packets, after which the keg speaks again, with or without *)
(* a teardown between.                                                     *)
(*                                                                         *)
(* Of a pour the table keeps when it began and ended and whether it is     *)
(* hidden; its size, unit and copy of the tap, which an operator may edit, *)
(* are read by nothing here.  counted holds the size as recorded.          *)
(***************************************************************************)
EXTENDS Integers

CONSTANTS
    Kegs,
    None,           \* a nil pointer: not known
    NoRow,          \* the keg is not stored
    Amounts,        \* what a keg reports as left, in its unit
    Units,          \* what DeriveBeerLeftUnit returns in beer mode
    DefaultUnit,
    BaseOf,         \* a unit in terms of the one minimum and maximum are in
    Packets,        \* the packets kegs send
    Minimums,       \* the settings MinPour and MinPourSeconds an operator may choose
    MaxPour,        \* maxPourGal
    MaxTime,        \* bound: the time modelled
    MaxFall,        \* bound: how much the reported amounts may fall altogether
    MaxPours        \* bound: how many pours are recorded

(* A property a packet does not mention is None. *)
Packet == [amount : Amounts \cup {None}, pouring : BOOLEAN \cup {None},
           unit : Units \cup {None}, co2 : BOOLEAN \cup {None}]

Row == [amount : Amounts \cup {None}, pouring : BOOLEAN, unit : Units, co2 : BOOLEAN,
        startedAt : Nat \cup {None}, startAmount : Amounts \cup {None}]

ASSUME PourAssumption ==
    /\ Amounts \subseteq Int
    /\ None \notin Int /\ None \notin BOOLEAN /\ None \notin Units
    /\ NoRow \notin Row
    /\ DefaultUnit \in Units
    /\ BaseOf \in [Units -> Nat \ {0}]
    /\ Packets \subseteq Packet
    /\ Minimums \subseteq [amount : Nat, seconds : Nat]
    /\ MaxPour \in Nat /\ MaxTime \in Nat /\ MaxFall \in Nat /\ MaxPours \in Nat

VARIABLES
    now,            \* in seconds
    row,            \* the kegs table
    pours,          \* the pours table
    nextID,         \* its AUTOINCREMENT
    minimum,        \* the settings
    (* History, read by properties only. *)
    fell,           \* fell[k]: how much the amount k reported has fallen
    counted,        \* counted[k]: how much of it was recorded as pours
    clearedAt,      \* when k's history was last cleared
    deletedAt       \* when k was last deleted

Pour == [id : Nat, keg : Kegs, startedAt : Nat, endedAt : Nat,
         hidden : BOOLEAN]

table == <<pours, nextID>>
cuts == <<clearedAt, deletedAt>>
ghostVars == <<fell, counted, cuts>>
vars == <<now, row, table, minimum, ghostVars>>

newKeg == [amount |-> None, pouring |-> FALSE, unit |-> DefaultUnit, co2 |-> FALSE,
           startedAt |-> None, startAmount |-> None]

Init ==
    /\ now = 0
    /\ row = [k \in Kegs |-> NoRow]
    /\ pours = {} /\ nextID = 1
    /\ minimum \in Minimums
    /\ fell = [k \in Kegs |-> 0] /\ counted = [k \in Kegs |-> 0]
    /\ clearedAt = [k \in Kegs |-> 0] /\ deletedAt = [k \in Kegs |-> 0]

Elapse ==
    /\ now < MaxTime
    /\ now' = now + 1
    /\ UNCHANGED <<row, table, minimum, ghostVars>>

(***************************************************************************)
(* trackPour, given the row r after the change, and whether it poured and  *)
(* what was left before it.                                                *)
(***************************************************************************)

Opens(r, wasPouring) == r.pouring /\ ~wasPouring
Closes(r, wasPouring) == ~r.pouring /\ wasPouring

(* Mutants: the close leaves the window, from which the next one goes on; or  *)
(* leaves it until the next begins; a window begins without a known amount.  *)
WindowKeepsStart(r, wasPouring, prevAmount) ==
    IF Opens(r, wasPouring) /\ r.startedAt = None /\ prevAmount # None
    THEN [r EXCEPT !.startedAt = now, !.startAmount = prevAmount]
    ELSE r

WindowReopens(r, wasPouring, prevAmount) ==
    IF Opens(r, wasPouring)
    THEN [r EXCEPT !.startedAt = IF prevAmount = None THEN @ ELSE now,
                   !.startAmount = IF prevAmount = None THEN @ ELSE prevAmount]
    ELSE r

WindowWithoutStart(r, wasPouring, prevAmount) ==
    IF Opens(r, wasPouring)
    THEN [r EXCEPT !.startedAt = now, !.startAmount = prevAmount]
    ELSE IF Closes(r, wasPouring)
    THEN [r EXCEPT !.startedAt = None, !.startAmount = None]
    ELSE r

(* The row's window after the change: begun with the amount before it, given *)
(* up when that is not known, closed, or left as it is.                      *)
Window(r, wasPouring, prevAmount) ==
    IF Opens(r, wasPouring)
    THEN [r EXCEPT !.startedAt = IF prevAmount = None THEN None ELSE now,
                   !.startAmount = prevAmount]
    ELSE IF Closes(r, wasPouring)
    THEN [r EXCEPT !.startedAt = None, !.startAmount = None]
    ELSE r

(* What the window measured, once both ends are known. *)
Measured(r) == r.startAmount - r.amount

IsPour(r, wasPouring) ==
    /\ Closes(r, wasPouring)
    /\ r.startedAt # None /\ r.startAmount # None /\ r.amount # None
    /\ ~r.co2
    /\ now - r.startedAt >= minimum.seconds
    /\ Measured(r) > 0
    /\ Measured(r) * BaseOf[r.unit] \in minimum.amount .. MaxPour

insertPour(k, r) ==
    /\ pours' = pours \cup
          {[id |-> nextID, keg |-> k, startedAt |-> r.startedAt, endedAt |-> now,
            hidden |-> FALSE]}
    /\ nextID' = nextID + 1
    /\ counted' = [counted EXCEPT ![k] = @ + Measured(r)]

trackPour(k, r, wasPouring, prevAmount) ==
    /\ row' = [row EXCEPT ![k] = Window(r, wasPouring, prevAmount)]
    /\ IF IsPour(r, wasPouring)
       THEN nextID <= MaxPours /\ insertPour(k, r)
       ELSE UNCHANGED <<pours, nextID, counted>>

(***************************************************************************)
(* What writes a keg's row.                                                *)
(***************************************************************************)

Merge(r, p) ==
    [r EXCEPT !.amount  = IF p.amount = None THEN @ ELSE p.amount,
              !.pouring = IF p.pouring = None THEN @ ELSE p.pouring,
              !.unit    = IF p.unit = None THEN @ ELSE p.unit,
              !.co2     = IF p.co2 = None THEN @ ELSE p.co2]

(* How much less r reports than what was reported before it. *)
Fall(prevAmount, amount) ==
    IF prevAmount # None /\ amount # None /\ amount < prevAmount
    THEN prevAmount - amount ELSE 0

ApplyPacket(k, p) ==
    LET old == IF row[k] = NoRow THEN newKeg ELSE row[k]
        new == Merge(old, p)
    IN
    /\ fell[k] + Fall(old.amount, new.amount) <= MaxFall
    /\ fell' = [fell EXCEPT ![k] = @ + Fall(old.amount, new.amount)]
    /\ trackPour(k, new, old.pouring, old.amount)
    /\ UNCHANGED <<now, minimum, cuts>>

(* finish, for a keg whose connection has gone; the row may have gone too, or *)
(* a newer connection may already report to it.                              *)
SetPouring(k) ==
    /\ row[k] # NoRow
    /\ trackPour(k, [row[k] EXCEPT !.pouring = FALSE], row[k].pouring, row[k].amount)
    /\ UNCHANGED <<now, minimum, fell, cuts>>

(***************************************************************************)
(* What an operator does.                                                  *)
(***************************************************************************)

Hide(k) == pours' = {IF p.keg = k THEN [p EXCEPT !.hidden = TRUE] ELSE p : p \in pours}

(* Mutant: a deleted keg's pours stay in its history.                        *)
DeleteKegOnly(k) ==
    /\ row' = [row EXCEPT ![k] = NoRow]
    /\ deletedAt' = [deletedAt EXCEPT ![k] = now]
    /\ UNCHANGED <<now, table, minimum, fell, counted, clearedAt>>

ClearLog(k) ==
    /\ Hide(k)
    /\ clearedAt' = [clearedAt EXCEPT ![k] = now]
    /\ UNCHANGED <<now, row, nextID, minimum, fell, counted, deletedAt>>

DeleteKeg(k) ==
    /\ row' = [row EXCEPT ![k] = NoRow]
    /\ Hide(k)
    /\ deletedAt' = [deletedAt EXCEPT ![k] = now]
    /\ UNCHANGED <<now, nextID, minimum, fell, counted, clearedAt>>

DeletePours(ids) ==
    /\ pours' = {p \in pours : p.id \notin ids}
    /\ UNCHANGED <<now, row, nextID, minimum, ghostVars>>

SetMinimum(m) ==
    /\ minimum' = m
    /\ UNCHANGED <<now, row, table, ghostVars>>

(***************************************************************************)
(* The specification.                                                      *)
(***************************************************************************)

Operator ==
    \/ \E k \in Kegs : ClearLog(k) \/ DeleteKeg(k)
    \/ \E m \in Minimums : SetMinimum(m)
    \/ \E ids \in SUBSET {p.id : p \in pours} : DeletePours(ids)

Next ==
    \/ Elapse
    \/ \E k \in Kegs : SetPouring(k) \/ \E p \in Packets : ApplyPacket(k, p)
    \/ Operator

Spec == Init /\ [][Next]_vars

(***************************************************************************)
(* Properties.                                                             *)
(***************************************************************************)

TypeOK ==
    /\ now \in Nat
    /\ row \in [Kegs -> Row \cup {NoRow}]
    /\ \A k \in Kegs : row[k] # NoRow =>
          /\ row[k].startedAt = None <=> row[k].startAmount = None
          /\ row[k].startedAt # None => row[k].pouring /\ row[k].amount # None
    /\ pours \subseteq Pour
    /\ nextID \in Nat
    /\ \A p \in pours : p.id < nextID
    /\ minimum \in [amount : Nat, seconds : Nat]
    /\ fell \in [Kegs -> Nat] /\ counted \in [Kegs -> Int]
    /\ clearedAt \in [Kegs -> Nat] /\ deletedAt \in [Kegs -> Nat]

Open(k) == row[k] # NoRow /\ row[k].startedAt # None

(* The windows of a keg follow one another: no two of its pours, nor a pour  *)
(* and the window that is open, overlap in time, whatever packets, teardowns *)
(* and deletes came between.                                                 *)
Before(p, q) == p.endedAt <= q.startedAt

WindowsDisjoint ==
    /\ \A p, q \in pours : p.keg = q.keg /\ p # q => Before(p, q) \/ Before(q, p)
    /\ \A k \in Kegs : Open(k) =>
          \A p \in pours : p.keg = k => p.endedAt <= row[k].startedAt

(* No beer is counted twice: what has been recorded as poured from a keg,    *)
(* and what the open window would add, has fallen from what the keg reported *)
(* to be left, in the numbers it reported, whatever their unit.              *)
NothingCountedTwice ==
    \A k \in Kegs :
        /\ counted[k] <= fell[k]
        /\ Open(k) /\ row[k].amount # None =>
              counted[k] + Measured(row[k]) <= fell[k]

(* A cleared history stays clear: what a keg's history shows was poured out  *)
(* after the last clear, and begun after the keg was last deleted.           *)
ListKegPours(k) == {p \in pours : p.keg = k /\ ~p.hidden}

HistoryIsNew ==
    \A k \in Kegs : \A p \in ListKegPours(k) :
        p.endedAt >= clearedAt[k] /\ p.startedAt >= deletedAt[k]

=============================================================================
