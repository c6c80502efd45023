--------------------------- MODULE ProcessProofs ---------------------------
(***************************************************************************)
(* Theorems about Process for any capacity, records, schemas and versions: *)
(* the ring is the log it stands for, the page knows what it misses, and   *)
(* the server serves only from a file that is whole.                       *)
(***************************************************************************)
EXTENDS Process, FiniteSetTheorems, SequenceTheorems, TLAPS

(***************************************************************************)
(* The ring.                                                               *)
(***************************************************************************)

RingInv ==
    /\ seq \in Nat
    /\ records \in Seq(Record)
    /\ run \in Nat
    /\ RingHoldsLatest

LEMMA InitRing == Init => RingInv
BY LogBufferAssumption DEF Init, LogInit, RingInv, RingHoldsLatest

LEMMA Modulo ==
    ASSUME NEW a \in Nat, NEW n \in Nat, n > 0, a < 2 * n
    PROVE  a % n = IF a < n THEN a ELSE a - n
<1>1. CASE a < n
  BY <1>1, SMT
<1>2. CASE a >= n
  BY <1>2, SMT
<1> QED BY <1>1, <1>2

LEMMA AddKeepsRing ==
    ASSUME RingInv, NEW text \in Texts, add(text), UNCHANGED run
    PROVE  RingInv'
<1> DEFINE r == [seq |-> seq + 1, text |-> text, run |-> run]
<1> USE DEF Record
<1>0. /\ r \in Record /\ seq \in Nat /\ seq' \in Nat /\ seq' = seq + 1 /\ run' \in Nat
      /\ Capacity \in Nat \ {0} /\ next \in Nat
  BY LogBufferAssumption DEF RingInv, RingHoldsLatest, add
<1>1. CASE Len(records) < Capacity
  <2>1. records' = Append(records, r) /\ next' = next /\ next = 0
    BY <1>0, <1>1 DEF add, RingInv, RingHoldsLatest
  <2>2. records' \in Seq(Record) /\ Len(records') = seq'
    BY <1>0, <1>1, <2>1 DEF RingInv, RingHoldsLatest
  <2>3. \A p \in 1 .. Len(records') : records'[p].seq = p
    BY <1>0, <1>1, <2>1 DEF RingInv, RingHoldsLatest
  <2> QED BY <1>0, <1>1, <2>1, <2>2, <2>3 DEF RingInv, RingHoldsLatest
<1>2. CASE Len(records) >= Capacity
  <2>1. /\ records' = [records EXCEPT ![next + 1] = r]
        /\ next' = (next + 1) % Capacity
        /\ Len(records) = Capacity /\ seq >= Capacity
    BY <1>0, <1>2 DEF add, RingInv, RingHoldsLatest
  <2>2. next' = IF next + 1 < Capacity THEN next + 1 ELSE 0
    <3>1. next + 1 < 2 * Capacity /\ next + 1 <= Capacity /\ next + 1 \in Nat
      BY <1>0 DEF RingInv, RingHoldsLatest
    <3> QED BY <1>0, <2>1, <3>1, Modulo
  <2>3. /\ records' \in Seq(Record) /\ Len(records') = Capacity
        /\ \A p \in 1 .. Capacity :
              records'[p] = IF p = next + 1 THEN r ELSE records[p]
    BY <1>0, <2>1 DEF RingInv, RingHoldsLatest
  <2>4. \A p \in 1 .. Capacity :
           records[p].seq = IF p <= next THEN seq - next + p
                            ELSE seq - next - Capacity + p
    BY <2>1 DEF RingInv, RingHoldsLatest
  <2>5. ASSUME NEW p \in 1 .. Capacity
        PROVE  records'[p].seq = IF p <= next' THEN seq' - next' + p
                                 ELSE seq' - next' - Capacity + p
    <3>1. next \in 0 .. Capacity - 1
      BY DEF RingInv, RingHoldsLatest
    <3>2. CASE p = next + 1
      BY <1>0, <2>2, <2>3, <3>1, <3>2
    <3>3. CASE p # next + 1
      <4>1. /\ records'[p] = records[p]
            /\ records[p].seq = IF p <= next THEN seq - next + p
                                ELSE seq - next - Capacity + p
        BY <2>3, <2>4, <3>3
      <4>2. CASE next + 1 < Capacity
        BY <1>0, <2>2, <3>1, <3>3, <4>1, <4>2
      <4>3. CASE next + 1 = Capacity
        BY <1>0, <2>2, <3>1, <3>3, <4>1, <4>3
      <4> QED BY <3>1, <4>2, <4>3, <1>0
    <3> QED BY <3>2, <3>3
  <2>6. next' \in 0 .. Capacity - 1 /\ seq' > Capacity
    BY <1>0, <2>1, <2>2
  <2>7. \A p \in 1 .. Len(records') :
           records'[p].seq = IF p <= next' THEN seq' - next' + p
                             ELSE seq' - next' - Len(records') + p
    BY <2>3, <2>5
  <2>8. Len(records') = IF seq' < Capacity THEN seq' ELSE Capacity
    BY <1>0, <2>3, <2>6
  <2>9. ~(seq' < Capacity)
    BY <1>0, <2>6
  <2>10. RingHoldsLatest'
    BY <2>6, <2>7, <2>8, <2>9 DEF RingHoldsLatest
  <2> QED
    BY <1>0, <2>3, <2>10 DEF RingInv
<1> QED
  BY <1>0, <1>1, <1>2 DEF RingInv, RingHoldsLatest

LEMMA NextRing == ASSUME RingInv, [Next]_vars PROVE RingInv'
<1>1. ASSUME NEW text \in Texts, Log(text) PROVE RingInv'
  BY <1>1, AddKeepsRing DEF Log
<1>2. CASE LogColumn
  BY <1>2, AddKeepsRing DEF LogColumn
<1>3. CASE Restart
  <2>1. records' = <<>> /\ next' = 0 /\ seq' = 0 /\ run' = run + 1
    BY <1>3 DEF Restart, LogRestart
  <2> QED BY <2>1, LogBufferAssumption DEF RingInv, RingHoldsLatest
<1>4. CASE UNCHANGED <<bufferVars, run>>
  BY <1>4 DEF RingInv, RingHoldsLatest, bufferVars
<1>5. CASE Page
  BY <1>4, <1>5 DEF Page, Ask, Lost, fetchLogs
<1>6. ASSUME NEW i \in DOMAIN polls, handleSystemLogs(i) PROVE RingInv'
  BY <1>4, <1>6 DEF handleSystemLogs
<1> QED
  BY <1>1, <1>2, <1>3, <1>4, <1>5, <1>6
  DEF Next, OpenStore, Serving, logVars, bufferVars, vars

(* The ring holds the latest records of the process, as many as fit, oldest  *)
(* first from where the next is written and around to the newest: Page and   *)
(* Since may read it from there.                                             *)
THEOREM RingLatest == Spec => []RingHoldsLatest
<1>1. RingInv => RingHoldsLatest
  BY DEF RingInv
<1> QED
  BY InitRing, NextRing, <1>1, PTL DEF Spec

LEMMA Element ==
    ASSUME NEW S, NEW s \in Seq(S), NEW i \in 1 .. Len(s) PROVE s[i] \in S
OBVIOUS

LEMMA ByPlace ==
    ASSUME NEW S, NEW s \in Seq(S) PROVE s = [i \in 1 .. Len(s) |-> s[i]]
OBVIOUS

(* Where the i-th oldest of n records lies in a ring that is written at k.   *)
LEMMA Turn ==
    ASSUME NEW k \in Nat, NEW n \in Nat, k < n, NEW i \in 1 .. n
    PROVE  ((k + i - 1) % n) + 1 = IF k + i <= n THEN k + i ELSE k + i - n
<1>1. k + i - 1 \in Nat /\ k + i - 1 < 2 * n /\ n > 0
  OBVIOUS
<1> DEFINE a == k + i - 1
<1> HIDE DEF a
<1>2. a \in Nat /\ a < 2 * n /\ n > 0
  BY <1>1 DEF a
<1>3. a % n = IF a < n THEN a ELSE a - n
  BY <1>2, Modulo
<1> QED BY <1>3 DEF a

LEMMA Places ==
    ASSUME RingInv
    PROVE  /\ InOrder \in Seq(Record)
           /\ Len(InOrder) = Len(records)
           /\ \A i \in 1 .. Len(records) :
                 InOrder[i] = records[IF next + i <= Len(records) THEN next + i
                                      ELSE next + i - Len(records)]
<1>1. /\ Len(records) \in Nat /\ next \in Nat /\ DOMAIN records = 1 .. Len(records)
      /\ records \in Seq(Record)
  BY LogBufferAssumption DEF RingInv, RingHoldsLatest
<1>2. ASSUME NEW i \in 1 .. Len(records)
      PROVE  /\ InOrder[i] = records[IF next + i <= Len(records) THEN next + i
                                     ELSE next + i - Len(records)]
             /\ InOrder[i] \in Record
  <2>1. next < Len(records) /\ i \in Nat
    BY <1>1, LogBufferAssumption DEF RingInv, RingHoldsLatest
  <2>2. ((next + i - 1) % Len(records)) + 1 =
           IF next + i <= Len(records) THEN next + i ELSE next + i - Len(records)
    BY <1>1, <2>1, Turn
  <2>3. InOrder[i] = records[((next + i - 1) % Len(records)) + 1]
    BY <1>1 DEF InOrder
  <2>4. (IF next + i <= Len(records) THEN next + i ELSE next + i - Len(records))
           \in 1 .. Len(records)
    BY <1>1, <2>1
  <2>5. \A p \in 1 .. Len(records) : records[p] \in Record
    BY <1>1, Element
  <2> QED BY <2>2, <2>3, <2>4, <2>5
<1>3. InOrder = [i \in 1 .. Len(records) |-> InOrder[i]]
  BY <1>1 DEF InOrder
<1> QED BY <1>1, <1>2, <1>3

LEMMA Numbers ==
    ASSUME RingInv, NEW i \in 1 .. Len(records)
    PROVE  InOrder[i].seq = seq - Len(records) + i
<1>1. /\ next \in Nat /\ Len(records) \in Nat /\ i \in Nat /\ seq \in Nat
      /\ i <= Len(records) /\ next < Len(records)
  BY LogBufferAssumption DEF RingInv, RingHoldsLatest
<1>2. CASE next + i <= Len(records)
  <2>1. InOrder[i] = records[next + i] /\ next + i \in 1 .. Len(records)
    BY <1>1, <1>2, Places
  <2>2. records[next + i].seq = IF next + i <= next THEN seq - next + (next + i)
                                ELSE seq - next - Len(records) + (next + i)
    BY <2>1 DEF RingInv, RingHoldsLatest
  <2> QED BY <1>1, <2>1, <2>2
<1>3. CASE next + i > Len(records)
  <2>1. /\ InOrder[i] = records[next + i - Len(records)]
        /\ next + i - Len(records) \in 1 .. Len(records)
    BY <1>1, <1>3, Places
  <2>2. records[next + i - Len(records)].seq =
           IF next + i - Len(records) <= next THEN seq - next + (next + i - Len(records))
           ELSE seq - next - Len(records) + (next + i - Len(records))
    BY <2>1 DEF RingInv, RingHoldsLatest
  <2> QED BY <1>1, <1>3, <2>1, <2>2
<1> QED BY <1>1, <1>2, <1>3

(***************************************************************************)
(* The buffer implements the recent log.                                   *)
(***************************************************************************)

Entry == [seq : Nat, text : Texts]
Kept == [i \in DOMAIN InOrder |-> [seq |-> InOrder[i].seq, text |-> InOrder[i].text]]

LEMMA KeptIsWhole ==
    ASSUME RingInv
    PROVE  /\ Kept \in Seq(Entry) /\ Len(Kept) = Len(records)
           /\ \A i \in 1 .. Len(records) :
                 /\ Kept[i].seq = seq - Len(records) + i
                 /\ Kept[i].text = InOrder[i].text
<1>1. /\ InOrder \in Seq(Record)
      /\ Len(InOrder) = Len(records) /\ Len(records) \in Nat
      /\ DOMAIN InOrder = 1 .. Len(records)
  BY Places DEF RingInv
<1>2. \A i \in 1 .. Len(records) :
         /\ InOrder[i] \in Record
         /\ InOrder[i].seq = seq - Len(records) + i
  BY <1>1, Element, Numbers
<1>3. \A i \in 1 .. Len(records) :
         /\ Kept[i] = [seq |-> InOrder[i].seq, text |-> InOrder[i].text]
         /\ Kept[i] \in Entry
  BY <1>1, <1>2 DEF Kept, Entry, Record
<1>4. Kept = [i \in 1 .. Len(records) |-> Kept[i]]
  BY <1>1 DEF Kept
<1> QED BY <1>1, <1>2, <1>3, <1>4

LEMMA AddMaps ==
    ASSUME RingInv, RingInv', NEW text \in Texts, add(text), UNCHANGED run
    PROVE  Recent!Add
<1> DEFINE e == [seq |-> seq + 1, text |-> text]
           n == Len(records)
           r == [seq |-> seq + 1, text |-> text, run |-> run]
<1>0. /\ seq \in Nat /\ Capacity \in Nat \ {0} /\ n \in Nat /\ next \in Nat
      /\ n = IF seq < Capacity THEN seq ELSE Capacity
      /\ records \in Seq(Record)
  BY LogBufferAssumption DEF RingInv, RingHoldsLatest
<1>1. /\ Kept \in Seq(Entry) /\ Len(Kept) = n
      /\ \A i \in 1 .. n : Kept[i].seq = seq - n + i
  BY KeptIsWhole
<1>2. (IF Kept = <<>> THEN 1 ELSE Kept[Len(Kept)].seq + 1) = seq + 1
  <2>1. CASE n = 0
    BY <1>0, <1>1, <2>1
  <2>2. CASE n > 0
    BY <1>0, <1>1, <2>2
  <2> QED BY <1>0, <2>1, <2>2
<1>3. Kept' = IF Len(Append(Kept, e)) > Capacity THEN Tail(Append(Kept, e))
              ELSE Append(Kept, e)
  <2>1. CASE n < Capacity
    <3>1. records' = Append(records, r) /\ next' = 0 /\ next = 0 /\ n = seq
      BY <1>0, <2>1 DEF add, RingInv, RingHoldsLatest
    <3>2. /\ Len(records') = n + 1 /\ DOMAIN records' = 1 .. n + 1
          /\ \A i \in 1 .. n + 1 :
                records'[i] = IF i <= n THEN records[i] ELSE r
      BY <1>0, <3>1
    <3>3. ASSUME NEW i \in 1 .. n + 1
          PROVE  InOrder'[i] = IF i <= n THEN InOrder[i] ELSE r
      <4>1. ((next' + i - 1) % (n + 1)) + 1 = i
        <5>1. next' \in Nat /\ n + 1 \in Nat /\ next' < n + 1 /\ i \in 1 .. n + 1
          BY <1>0, <3>1
        <5>2. ((next' + i - 1) % (n + 1)) + 1 =
                 IF next' + i <= n + 1 THEN next' + i ELSE next' + i - (n + 1)
          BY <5>1, Turn
        <5> QED BY <1>0, <3>1, <5>2
      <4>2. InOrder'[i] = records'[i]
        BY <3>2, <4>1 DEF InOrder
      <4>3. i <= n => InOrder[i] = records[i]
        BY <1>0, <3>1, Places
      <4> QED BY <3>2, <4>2, <4>3
    <3>4. DOMAIN InOrder' = 1 .. n + 1 /\ DOMAIN InOrder = 1 .. n
      BY <1>0, <3>2 DEF InOrder
    <3>5. Kept' = [i \in 1 .. n + 1 |-> IF i <= n THEN Kept[i] ELSE e]
      BY <3>3, <3>4 DEF Kept
    <3>6. Append(Kept, e) = [i \in 1 .. n + 1 |-> IF i <= n THEN Kept[i] ELSE e]
      BY <1>0, <1>1
    <3> QED BY <1>0, <1>1, <2>1, <3>5, <3>6
  <2>2. CASE n = Capacity
    <3>1. /\ records' = [records EXCEPT ![next + 1] = r]
          /\ next' = (next + 1) % Capacity /\ next < Capacity
      BY <1>0, <2>2 DEF add, RingInv, RingHoldsLatest
    <3>2. next' = IF next + 1 < Capacity THEN next + 1 ELSE 0
      <4>1. next + 1 < 2 * Capacity /\ next + 1 <= Capacity /\ next + 1 \in Nat
        BY <1>0, <3>1
      <4> QED BY <1>0, <3>1, <4>1, Modulo
    <3>3. /\ Len(records') = Capacity /\ DOMAIN records' = 1 .. Capacity
          /\ \A p \in 1 .. Capacity :
                records'[p] = IF p = next + 1 THEN r ELSE records[p]
      BY <1>0, <2>2, <3>1
    <3>4. DOMAIN InOrder' = 1 .. Capacity /\ DOMAIN InOrder = 1 .. Capacity
      BY <1>0, <2>2, <3>3 DEF InOrder
    <3>5. ASSUME NEW i \in 1 .. Capacity
          PROVE  InOrder'[i] = IF i < Capacity THEN InOrder[i + 1] ELSE r
      <4>1. next' \in Nat /\ next' < Capacity /\ i \in Nat
        BY <1>0, <3>1, <3>2
      <4>2. ((next' + i - 1) % Capacity) + 1 =
               IF next' + i <= Capacity THEN next' + i ELSE next' + i - Capacity
        BY <1>0, <4>1, Turn
      <4>3. InOrder'[i] = records'[((next' + i - 1) % Capacity) + 1]
        BY <3>3 DEF InOrder
      <4>4. i < Capacity => InOrder[i + 1] =
               records[IF next + (i + 1) <= Capacity THEN next + (i + 1)
                       ELSE next + (i + 1) - Capacity]
        <5>1. i < Capacity => i + 1 \in 1 .. Len(records)
          BY <1>0, <2>2, <4>1
        <5> QED BY <2>2, <5>1, Places
      <4>5. CASE i < Capacity
        <5>1. (IF next' + i <= Capacity THEN next' + i ELSE next' + i - Capacity)
                 = IF next + (i + 1) <= Capacity THEN next + (i + 1)
                   ELSE next + (i + 1) - Capacity
          <6>1. CASE next + 1 < Capacity
            BY <1>0, <3>2, <4>1, <4>5, <6>1
          <6>2. CASE next + 1 = Capacity
            BY <1>0, <3>2, <4>1, <4>5, <6>2
          <6> QED BY <1>0, <3>1, <6>1, <6>2
        <5>2. (IF next + (i + 1) <= Capacity THEN next + (i + 1)
               ELSE next + (i + 1) - Capacity) \in (1 .. Capacity) \ {next + 1}
          BY <1>0, <3>1, <4>1, <4>5
        <5> QED BY <3>3, <4>2, <4>3, <4>4, <4>5, <5>1, <5>2
      <4>6. CASE i = Capacity
        <5>1. (IF next' + i <= Capacity THEN next' + i ELSE next' + i - Capacity)
                 = next + 1
          BY <1>0, <3>1, <3>2, <4>1, <4>6
        <5>2. next + 1 \in 1 .. Capacity
          BY <1>0, <3>1
        <5> QED BY <1>0, <3>3, <4>2, <4>3, <4>6, <5>1, <5>2
      <4> QED BY <1>0, <4>5, <4>6
    <3>6. Kept' = [i \in 1 .. Capacity |-> IF i < Capacity THEN Kept[i + 1] ELSE e]
      BY <1>0, <3>4, <3>5 DEF Kept
    <3>7. Tail(Append(Kept, e)) =
             [i \in 1 .. Capacity |-> IF i < Capacity THEN Kept[i + 1] ELSE e]
      <4> DEFINE s == Append(Kept, e)
      <4>1. /\ s \in Seq(Entry) /\ Len(s) = Capacity + 1
            /\ \A i \in 1 .. Capacity + 1 :
                  s[i] = IF i <= Capacity THEN Kept[i] ELSE e
        BY <1>0, <1>1, <2>2 DEF Entry
      <4> HIDE DEF s
      <4>2. Tail(s) = [i \in 1 .. Capacity |-> s[i + 1]]
        <5>1. /\ Tail(s) \in Seq(Entry) /\ Len(Tail(s)) = Capacity
              /\ \A i \in 1 .. Len(s) - 1 : Tail(s)[i] = s[i + 1]
          BY <1>0, <4>1
        <5>2. Tail(s) = [i \in 1 .. Len(Tail(s)) |-> Tail(s)[i]]
          BY <5>1, ByPlace
        <5> QED BY <1>0, <4>1, <5>1, <5>2
      <4>3. \A i \in 1 .. Capacity :
               s[i + 1] = IF i < Capacity THEN Kept[i + 1] ELSE e
        BY <1>0, <4>1
      <4>4. Tail(s) = [i \in 1 .. Capacity |-> IF i < Capacity THEN Kept[i + 1] ELSE e]
        BY <4>2, <4>3
      <4> QED BY <4>4 DEF s
    <3>8. Len(Append(Kept, e)) > Capacity
      BY <1>0, <1>1, <2>2
    <3> QED BY <3>6, <3>7, <3>8
  <2> QED BY <1>0, <2>1, <2>2
<1> QED
  BY <1>2, <1>3 DEF Kept, Recent!Add, Recent!Append1, Recent!Latest

LEMMA StepMaps ==
    ASSUME RingInv, RingInv', [Next]_vars
    PROVE  [Recent!Add \/ Recent!Restart]_Kept
<1>1. ASSUME NEW text \in Texts, Log(text) PROVE Recent!Add
  BY <1>1, AddMaps DEF Log
<1>2. CASE LogColumn
  BY <1>2, AddMaps DEF LogColumn
<1>3. CASE Restart
  BY <1>3 DEF Restart, LogRestart, Recent!Restart, InOrder, Kept
<1>4. CASE UNCHANGED bufferVars
  BY <1>4 DEF bufferVars, InOrder, Kept
<1>5. CASE Page
  BY <1>4, <1>5 DEF Page, Ask, Lost, fetchLogs
<1>6. ASSUME NEW i \in DOMAIN polls, handleSystemLogs(i) PROVE UNCHANGED bufferVars
  BY <1>6 DEF handleSystemLogs
<1> QED
  BY <1>1, <1>2, <1>3, <1>4, <1>5, <1>6
  DEF Next, OpenStore, Serving, logVars, vars

(* The buffer implements the recent log: whatever is logged, polled, lost or *)
(* restarted, the ring read from next on is the last Capacity records of the *)
(* process in the order they were written.                                   *)
THEOREM RingImplements == Spec => KeepsLatest
<1>1. Init => Kept = <<>>
  BY DEF Init, LogInit, InOrder, Kept
<1>2. RingInv /\ RingInv' /\ [Next]_vars => [Recent!Add \/ Recent!Restart]_Kept
  BY StepMaps
<1> QED
  BY InitRing, NextRing, <1>1, <1>2, PTL
  DEF Spec, KeepsLatest, Recent!Spec, Recent!Init, Kept

(***************************************************************************)
(* The page.                                                               *)
(***************************************************************************)

(* Numbered without a gap. *)
Contiguous(s) == \A i \in DOMAIN s : s[i].seq = s[1].seq + i - 1

(* What the server answers: the records above after, or from the oldest on. *)
Answers ==
    {reply \in [records : Seq(Record), after : Nat, oldest : Nat, latest : Nat] :
        /\ Contiguous(reply.records)
        /\ reply.records # <<>> => reply.records[1].seq \in {reply.after + 1, reply.oldest}}

(* In order, and without a gap unless there is an excuse. *)
Excused(s, excuse) ==
    \A i \in 1 .. Len(s) - 1 :
        s[i].seq < s[i + 1].seq /\ (s[i + 1].seq = s[i].seq + 1 \/ excuse)

(* lastSeq is the number of the last record shown, and the page holds the    *)
(* last of what it has shown.                                                *)
PageInv ==
    /\ polls \in Seq(Nat)
    /\ replies \in Seq(Answers)
    /\ seen \in Seq(Record) /\ lastSeq \in Nat
    /\ seen # <<>> => lastSeq > 0 /\ lastSeq = Last(seen).seq
    /\ Excused(seen, dropNote \/ outdated)
    /\ shown = LastN(seen, Capacity)

(* Of records without a gap, those above x begin at x + 1 or at the first.   *)
LEMMA NewerIs ==
    ASSUME NEW s \in Seq(Record), Contiguous(s), NEW x \in Nat
    PROVE  LET new == Newer(s, x) IN
           /\ new \in Seq(Record) /\ Contiguous(new)
           /\ new # <<>> => s # <<>> /\ new[1].seq > x /\ new[1].seq \in {x + 1, s[1].seq}
<1> DEFINE n == Len(s)
           f == s[1].seq
           D == {i \in DOMAIN s : s[i].seq <= x}
           c == Cardinality(D)
           new == SubSeq(s, c + 1, n)
<1>1. n \in Nat /\ DOMAIN s = 1 .. n /\ \A i \in 1 .. n : s[i] \in Record
  OBVIOUS
<1>2. \A i \in 1 .. n : s[i].seq \in Nat
  BY <1>1 DEF Record
<1>3. \A i \in 1 .. n : s[i].seq = f + i - 1
  BY <1>1 DEF Contiguous
<1>4. CASE n = 0
  <2>1. D = {} /\ s = <<>>
    BY <1>1, <1>4
  <2>2. c = 0
    BY <2>1, FS_EmptySet
  <2>3. new = <<>>
    BY <2>1, <2>2, SubSeqEmpty
  <2>4. new \in Seq(Record) /\ Contiguous(new)
    <3> HIDE DEF new
    <3>1. DOMAIN <<>> = {} /\ <<>> \in Seq(Record)
      OBVIOUS
    <3> QED BY <2>3, <3>1 DEF Contiguous
  <2>5. Newer(s, x) = new
    BY DEF Newer
  <2> HIDE DEF new
  <2> QED BY <2>3, <2>4, <2>5
<1>5. CASE n > 0
  <2>0. f \in Nat
    BY <1>1, <1>2, <1>5
  <2> DEFINE k == IF x < f THEN 0 ELSE IF x >= f + n - 1 THEN n ELSE x - f + 1
  <2>1. k \in 0 .. n
    BY <1>1, <2>0
  <2>2. D = 1 .. k
    <3>1. ASSUME NEW i \in 1 .. n PROVE s[i].seq <= x <=> i <= k
      <4>1. s[i].seq = f + i - 1
        BY <1>3
      <4> HIDE DEF f, n
      <4> QED BY <1>1, <2>0, <4>1
    <3> HIDE DEF k, n
    <3> QED BY <1>1, <2>1, <3>1
  <2> HIDE DEF D
  <2>3. c = k
    <3> HIDE DEF k
    <3> QED BY <1>1, <2>1, <2>2, FS_Interval
  <2> HIDE DEF c
  <2>4. /\ new \in Seq(Record) /\ Len(new) = n - k
        /\ \A i \in 1 .. n - k : new[i] = s[k + i]
    <3> HIDE DEF k, n
    <3>1. \A i \in k + 1 .. n : s[i] \in Record
      BY <1>1, <2>1
    <3>2. k + 1 \in Int /\ n \in Int
      BY <1>1, <2>1
    <3>3. /\ new \in Seq(Record)
          /\ Len(new) = IF k + 1 <= n THEN n - (k + 1) + 1 ELSE 0
          /\ \A i \in 1 .. n - (k + 1) + 1 : new[i] = s[k + 1 + i - 1]
      BY <2>3, <3>1, <3>2, SubSeqProperties
    <3> HIDE DEF new
    <3>4. Len(new) = n - k /\ n - (k + 1) + 1 = n - k
      BY <1>1, <2>1, <3>3
    <3>5. ASSUME NEW i \in 1 .. n - k PROVE k + 1 + i - 1 = k + i
      BY <1>1, <2>1
    <3> QED BY <3>3, <3>4, <3>5
  <2> HIDE DEF new
  <2>5. DOMAIN new = 1 .. n - k /\ (new # <<>> => n - k > 0)
    BY <2>4
  <2>6. ASSUME NEW i \in 1 .. n - k PROVE new[i].seq = f + k + i - 1
    <3>1. k + i \in 1 .. n
      BY <1>1, <2>1
    <3>2. s[k + i].seq = f + (k + i) - 1
      BY <1>3, <3>1
    <3> HIDE DEF f, k, n
    <3> QED BY <1>1, <2>0, <2>1, <2>4, <3>2
  <2>7. Contiguous(new)
    <3> SUFFICES ASSUME NEW i \in 1 .. n - k PROVE new[i].seq = new[1].seq + i - 1
      BY <2>5 DEF Contiguous
    <3>1. 1 \in 1 .. n - k
      BY <1>1, <2>1
    <3>2. new[1].seq = f + k + 1 - 1 /\ new[i].seq = f + k + i - 1
      BY <2>6, <3>1
    <3> HIDE DEF f, k, n
    <3> QED BY <1>1, <2>0, <2>1, <3>2
  <2>8. ASSUME new # <<>> PROVE new[1].seq > x /\ new[1].seq \in {x + 1, f}
    <3>1. n - k > 0 /\ 1 \in 1 .. n - k
      BY <1>1, <2>1, <2>5, <2>8
    <3>2. new[1].seq = f + k + 1 - 1
      BY <2>6, <3>1
    <3> HIDE DEF f, n
    <3> QED BY <1>1, <2>0, <3>1, <3>2
  <2>9. s # <<>>
    BY <1>5
  <2> QED BY <2>4, <2>7, <2>8, <2>9 DEF Newer, new, c, D
<1> QED BY <1>1, <1>4, <1>5

(* Since answers from the ring what it holds above after.                    *)
LEMMA SinceAnswers ==
    ASSUME RingInv, NEW after \in Nat
    PROVE  Since(after) \in Answers
<1>1. /\ InOrder \in Seq(Record) /\ Len(InOrder) = Len(records) /\ Len(records) \in Nat
      /\ DOMAIN InOrder = 1 .. Len(records) /\ seq \in Nat /\ next \in Nat
  BY Places, LogBufferAssumption DEF RingInv, RingHoldsLatest
<1>2. \A i \in 1 .. Len(records) : InOrder[i].seq = seq - Len(records) + i
  BY Numbers
<1>3. Contiguous(InOrder)
  <2> SUFFICES ASSUME NEW i \in 1 .. Len(records) PROVE InOrder[i].seq = InOrder[1].seq + i - 1
    BY <1>1 DEF Contiguous
  <2>1. 1 \in 1 .. Len(records)
    BY <1>1
  <2>2. InOrder[i].seq = seq - Len(records) + i /\ InOrder[1].seq = seq - Len(records) + 1
    BY <1>2, <2>1
  <2> QED BY <1>1, <2>2
<1>4. /\ Newer(InOrder, after) \in Seq(Record) /\ Contiguous(Newer(InOrder, after))
      /\ Newer(InOrder, after) # <<>> =>
            InOrder # <<>> /\ Newer(InOrder, after)[1].seq \in {after + 1, InOrder[1].seq}
  BY <1>1, <1>3, NewerIs
<1>5. records # <<>> => InOrder[1] = records[next + 1] /\ InOrder[1].seq \in Nat
  <2> SUFFICES ASSUME records # <<>> PROVE InOrder[1] = records[next + 1] /\ InOrder[1].seq \in Nat
    OBVIOUS
  <2>1. Len(records) > 0 /\ 1 \in 1 .. Len(records)
    BY <1>1 DEF RingInv
  <2>2. next + 1 <= Len(records)
    BY <1>1, <2>1, LogBufferAssumption DEF RingInv, RingHoldsLatest
  <2>3. InOrder[1] = records[next + 1]
    BY <2>1, <2>2, Places
  <2>4. InOrder[1] \in Record
    BY <1>1, <2>1, Element
  <2> QED BY <2>3, <2>4 DEF Record
<1>6. InOrder # <<>> => records # <<>>
  BY <1>1 DEF RingInv
<1> QED BY <1>1, <1>4, <1>5, <1>6 DEF Answers, Since

(* The last n records of so many or more.                                    *)
LEMMA LastOf ==
    ASSUME NEW s \in Seq(Record), Len(s) >= Capacity
    PROVE  LET t == LastN(s, Capacity) IN
           /\ t \in Seq(Record) /\ Len(t) = Capacity
           /\ \A i \in 1 .. Capacity : t[i] = s[Len(s) - Capacity + i]
<1> DEFINE n == Len(s)
           t == SubSeq(s, n - Capacity + 1, n)
<1>0. Capacity \in Nat /\ Capacity > 0 /\ n \in Nat
  BY LogBufferAssumption
<1>1. CASE n = Capacity
  <2>1. LastN(s, Capacity) = s /\ \A i \in 1 .. Capacity : n - Capacity + i = i
    BY <1>0, <1>1 DEF LastN
  <2> QED BY <1>1, <2>1
<1>2. CASE n > Capacity
  <2>1. LastN(s, Capacity) = t
    BY <1>0, <1>2 DEF LastN
  <2>2. /\ t \in Seq(Record) /\ Len(t) = Capacity
        /\ \A i \in 1 .. Capacity : t[i] = s[n - Capacity + i]
    <3>1. \A i \in n - Capacity + 1 .. n : s[i] \in Record
      BY <1>0, <1>2
    <3> HIDE DEF n
    <3>2. n - Capacity + 1 \in Int /\ n \in Int
      BY <1>0
    <3>3. /\ t \in Seq(Record)
          /\ Len(t) = IF n - Capacity + 1 <= n THEN n - (n - Capacity + 1) + 1 ELSE 0
          /\ \A i \in 1 .. n - (n - Capacity + 1) + 1 : t[i] = s[n - Capacity + 1 + i - 1]
      BY <3>1, <3>2, SubSeqProperties
    <3> HIDE DEF t
    <3> QED BY <1>0, <1>2, <3>3
  <2> HIDE DEF t
  <2> QED BY <2>1, <2>2
<1> QED BY <1>0, <1>1, <1>2

LEMMA LastKeeps ==
    ASSUME NEW s \in Seq(Record), s # <<>>
    PROVE  LET t == LastN(s, Capacity) IN t # <<>> /\ Last(t) = Last(s)
<1>0. Capacity \in Nat /\ Capacity > 0 /\ Len(s) \in Nat
  BY LogBufferAssumption
<1>1. CASE Len(s) <= Capacity
  <2>1. LastN(s, Capacity) = s
    BY <1>0, <1>1 DEF LastN
  <2> QED BY <2>1
<1>2. CASE Len(s) > Capacity
  <2>1. PICK t \in Seq(Record) :
           /\ t = LastN(s, Capacity) /\ Len(t) = Capacity
           /\ \A i \in 1 .. Capacity : t[i] = s[Len(s) - Capacity + i]
    BY <1>0, <1>2, LastOf
  <2>2. Capacity \in 1 .. Capacity /\ Len(s) - Capacity + Capacity = Len(s)
    BY <1>0
  <2>3. t # <<>> /\ Last(t) = Last(s)
    BY <1>0, <2>1, <2>2 DEF Last
  <2> QED BY <2>1, <2>3
<1> QED BY <1>0, <1>1, <1>2

(* To keep the last of what was kept and of what is new is to keep the last  *)
(* of it all.                                                                *)
LEMMA LastTwice ==
    ASSUME NEW s \in Seq(Record), NEW t \in Seq(Record)
    PROVE  LastN(LastN(s, Capacity) \o t, Capacity) = LastN(s \o t, Capacity)
<1>0. PICK n \in Nat, m \in Nat, c \in Nat :
         n = Len(s) /\ m = Len(t) /\ c = Capacity /\ c > 0
  BY LogBufferAssumption
<1>1. CASE n <= c
  <2>1. LastN(s, Capacity) = s
    BY <1>0, <1>1 DEF LastN
  <2> QED BY <2>1
<1>2. CASE n > c
  <2>1. PICK x \in Seq(Record) : /\ x = LastN(s, Capacity) /\ Len(x) = c
                                 /\ \A i \in 1 .. c : x[i] = s[n - c + i]
    BY <1>0, <1>2, LastOf
  <2>2. PICK xt, st : xt = x \o t /\ st = s \o t
    OBVIOUS
  <2>3. /\ xt \in Seq(Record) /\ Len(xt) = c + m
        /\ \A i \in 1 .. c + m : xt[i] = IF i <= c THEN x[i] ELSE t[i - c]
    <3>1. x \in Seq(Record) /\ Len(x) = c /\ xt = x \o t /\ Len(t) = m
      BY <1>0, <2>1, <2>2
    <3> QED BY <3>1, ConcatProperties
  <2>4. /\ st \in Seq(Record) /\ Len(st) = n + m
        /\ \A i \in 1 .. n + m : st[i] = IF i <= n THEN s[i] ELSE t[i - n]
    BY <1>0, <2>2, ConcatProperties
  <2>5. PICK a \in Seq(Record) : /\ a = LastN(xt, Capacity) /\ Len(a) = c
                                 /\ \A i \in 1 .. c : a[i] = xt[m + i]
    <3>1. xt \in Seq(Record) /\ Len(xt) = c + m /\ Len(xt) >= Capacity
      BY <1>0, <2>3
    <3>2. PICK a \in Seq(Record) :
             /\ a = LastN(xt, Capacity) /\ Len(a) = Capacity
             /\ \A i \in 1 .. Capacity : a[i] = xt[Len(xt) - Capacity + i]
      BY <3>1, LastOf
    <3>3. \A i \in 1 .. c : Len(xt) - Capacity + i = m + i
      BY <1>0, <3>1
    <3> QED BY <1>0, <3>2, <3>3
  <2>6. PICK b \in Seq(Record) : /\ b = LastN(st, Capacity) /\ Len(b) = c
                                 /\ \A i \in 1 .. c : b[i] = st[n + m - c + i]
    <3>1. st \in Seq(Record) /\ Len(st) = n + m /\ Len(st) >= Capacity
      BY <1>0, <1>2, <2>4
    <3>2. PICK b \in Seq(Record) :
             /\ b = LastN(st, Capacity) /\ Len(b) = Capacity
             /\ \A i \in 1 .. Capacity : b[i] = st[Len(st) - Capacity + i]
      BY <3>1, LastOf
    <3> QED BY <1>0, <3>1, <3>2
  <2>7. ASSUME NEW i \in 1 .. c PROVE a[i] = b[i]
    <3>1. a[i] = xt[m + i] /\ b[i] = st[n + m - c + i]
      BY <2>5, <2>6
    <3>2. m + i \in 1 .. c + m /\ n + m - c + i \in 1 .. n + m
      BY <1>2
    <3>3. CASE m + i <= c
      <4>1. /\ n + m - c + i <= n /\ m + i \in 1 .. c /\ n - c + (m + i) = n + m - c + i
        BY <1>2, <3>3
      <4>2. xt[m + i] = x[m + i] /\ x[m + i] = s[n - c + (m + i)]
        BY <2>1, <2>3, <3>2, <3>3, <4>1
      <4>3. st[n + m - c + i] = s[n + m - c + i]
        BY <2>4, <3>2, <4>1
      <4> QED BY <3>1, <4>1, <4>2, <4>3
    <3>4. CASE ~(m + i <= c)
      <4>1. ~(n + m - c + i <= n) /\ m + i - c = n + m - c + i - n
        BY <1>2, <3>4
      <4>2. xt[m + i] = t[m + i - c]
        BY <2>3, <3>2, <3>4
      <4>3. st[n + m - c + i] = t[n + m - c + i - n]
        BY <2>4, <3>2, <4>1
      <4> QED BY <3>1, <4>1, <4>2, <4>3
    <3> QED BY <3>3, <3>4
  <2>8. a = b
    BY <1>0, <2>5, <2>6, <2>7, SeqEqual
  <2> QED BY <2>1, <2>2, <2>5, <2>6, <2>8
<1> QED BY <1>0, <1>1, <1>2

(* What is left of a sequence is of the same things.                         *)
LEMMA RemovedFrom ==
    ASSUME NEW S, NEW s \in Seq(S), NEW i \in DOMAIN s
    PROVE  RemoveAt(s, i) \in Seq(S)
<1>1. i \in 1 .. Len(s) /\ Len(s) \in Nat
  OBVIOUS
<1>2. SubSeq(s, 1, i - 1) \in Seq(S)
  <2>1. \A j \in 1 .. i - 1 : s[j] \in S
    BY <1>1
  <2>2. 1 \in Int /\ i - 1 \in Int
    BY <1>1
  <2> QED BY <2>1, <2>2, SubSeqProperties
<1>3. SubSeq(s, i + 1, Len(s)) \in Seq(S)
  <2>1. \A j \in i + 1 .. Len(s) : s[j] \in S
    BY <1>1
  <2>2. i + 1 \in Int /\ Len(s) \in Int
    BY <1>1
  <2> QED BY <2>1, <2>2, SubSeqProperties
<1> QED BY <1>2, <1>3, ConcatProperties DEF RemoveAt

(* Two sequences that are excused, the second without a gap, joined where it  *)
(* is excused.                                                               *)
LEMMA Joined ==
    ASSUME NEW s \in Seq(Record), NEW t \in Seq(Record), NEW e,
           Excused(s, e), Contiguous(t),
           s # <<>> /\ t # <<>> =>
               Last(s).seq < t[1].seq /\ (t[1].seq = Last(s).seq + 1 \/ e)
    PROVE  /\ s \o t \in Seq(Record) /\ Excused(s \o t, e)
           /\ t # <<>> => s \o t # <<>> /\ Last(s \o t).seq >= t[1].seq
<1>1. PICK n \in Nat, m \in Nat : n = Len(s) /\ m = Len(t)
  OBVIOUS
<1>2. /\ DOMAIN t = 1 .. m /\ (t # <<>> <=> m > 0) /\ (s # <<>> <=> n > 0)
      /\ \A j \in 1 .. m : t[j] \in Record
  BY <1>1
<1>3. PICK both : both = s \o t
  OBVIOUS
<1>4. /\ both \in Seq(Record) /\ Len(both) = n + m
      /\ \A j \in 1 .. n + m : both[j] = IF j <= n THEN s[j] ELSE t[j - n]
  BY <1>1, <1>3, ConcatProperties
<1>5. \A j \in 1 .. m : t[j].seq \in Nat /\ t[j].seq = t[1].seq + j - 1
  BY <1>2 DEF Contiguous, Record
<1>6. ASSUME NEW j \in 1 .. n + m - 1
      PROVE both[j].seq < both[j + 1].seq /\ (both[j + 1].seq = both[j].seq + 1 \/ e)
  <2>0. j \in 1 .. n + m /\ j + 1 \in 1 .. n + m
    OBVIOUS
  <2>1. CASE j + 1 <= n
    <3>1. both[j] = s[j] /\ both[j + 1] = s[j + 1] /\ j \in 1 .. n - 1
      BY <1>4, <2>0, <2>1
    <3>2. s[j].seq < s[j + 1].seq /\ (s[j + 1].seq = s[j].seq + 1 \/ e)
      BY <1>1, <3>1 DEF Excused
    <3> QED BY <3>1, <3>2
  <2>2. CASE j > n
    <3>1. both[j] = t[j - n] /\ both[j + 1] = t[j + 1 - n]
      BY <1>4, <2>0, <2>2
    <3>2. j - n \in 1 .. m /\ j + 1 - n \in 1 .. m /\ 1 \in 1 .. m
      BY <2>0, <2>2
    <3>3. /\ t[j - n].seq = t[1].seq + (j - n) - 1 /\ t[1].seq \in Nat
          /\ t[j + 1 - n].seq = t[1].seq + (j + 1 - n) - 1
      BY <1>5, <3>2
    <3> QED BY <3>1, <3>2, <3>3
  <2>3. CASE j = n
    <3>1. both[j] = s[n] /\ both[j + 1] = t[1] /\ s # <<>> /\ t # <<>>
      <4>1. n + 1 - n = 1 /\ n > 0 /\ m > 0 /\ ~(n + 1 <= n)
        BY <2>3
      <4> QED BY <1>2, <1>4, <2>0, <2>3, <4>1
    <3>2. Last(s) = s[n]
      BY <1>1 DEF Last
    <3> QED BY <3>1, <3>2
  <2> QED BY <2>1, <2>2, <2>3
<1>7. Excused(both, e)
  <2>1. Len(both) - 1 = n + m - 1
    BY <1>4
  <2> QED BY <1>6, <2>1 DEF Excused
<1>8. ASSUME t # <<>> PROVE both # <<>> /\ Last(both).seq >= t[1].seq
  <2>1. n + m \in 1 .. n + m /\ ~(n + m <= n) /\ n + m - n = m /\ m \in 1 .. m /\ 1 \in 1 .. m
    BY <1>2, <1>8
  <2>2. Last(both) = t[m]
    <3>1. both[n + m] = t[m]
      BY <1>4, <2>1
    <3> QED BY <1>4, <3>1 DEF Last
  <2>3. t[m].seq = t[1].seq + m - 1 /\ t[1].seq \in Nat
    BY <1>5, <2>1
  <2>4. both # <<>>
    BY <1>4, <2>1
  <2> QED BY <2>1, <2>2, <2>3, <2>4
<1> QED BY <1>3, <1>4, <1>7, <1>8

(* What an answer brings follows what the page shows, and a gap between them *)
(* is known.                                                                 *)
LEMMA FreshFollows ==
    ASSUME PageInv, NEW reply \in Answers
    PROVE  LET fresh == Fresh(reply)
               e == \/ dropNote \/ Overran(reply)
                    \/ outdated \/ (reply.after > lastSeq /\ fresh # <<>>)
           IN /\ fresh \in Seq(Record)
              /\ seen \o fresh \in Seq(Record)
              /\ Excused(seen \o fresh, e)
              /\ fresh # <<>> => seen \o fresh # <<>> /\ Last(seen \o fresh).seq > 0
<1>1. PICK fresh : fresh = Fresh(reply)
  OBVIOUS
<1> DEFINE e == \/ dropNote \/ Overran(reply)
                \/ outdated \/ (reply.after > lastSeq /\ fresh # <<>>)
<1>2. /\ lastSeq \in Nat /\ seen \in Seq(Record)
      /\ seen # <<>> => lastSeq > 0 /\ lastSeq = Last(seen).seq
      /\ Excused(seen, dropNote \/ outdated)
  BY DEF PageInv
<1>3. /\ fresh \in Seq(Record) /\ Contiguous(fresh)
      /\ fresh # <<>> => /\ reply.records # <<>> /\ fresh[1].seq > lastSeq
                         /\ fresh[1].seq \in {lastSeq + 1, reply.records[1].seq}
  BY <1>1, <1>2, NewerIs DEF Fresh, Answers
<1>4. reply.after \in Nat /\ reply.oldest \in Nat
      /\ (fresh # <<>> => fresh[1].seq \in {lastSeq + 1, reply.after + 1, reply.oldest})
  BY <1>3 DEF Answers
<1>5. Excused(seen, e)
  BY <1>2 DEF Excused
<1>6. ASSUME seen # <<>>, fresh # <<>>
      PROVE  Last(seen).seq < fresh[1].seq /\ (fresh[1].seq = Last(seen).seq + 1 \/ e)
  <2>1. lastSeq > 0 /\ lastSeq = Last(seen).seq /\ fresh[1].seq > lastSeq
    BY <1>2, <1>3, <1>6
  <2>2. CASE fresh[1].seq = reply.after + 1 /\ fresh[1].seq # lastSeq + 1
    BY <1>2, <1>4, <1>6, <2>1, <2>2
  <2>3. CASE fresh[1].seq = reply.oldest /\ fresh[1].seq # lastSeq + 1
    BY <1>2, <1>4, <2>1, <2>3 DEF Overran
  <2> HIDE DEF e
  <2> QED BY <1>4, <1>6, <2>1, <2>2, <2>3
<1>7. fresh # <<>> => fresh[1].seq > 0
  BY <1>2, <1>3, <1>4
<1> HIDE DEF e
<1>8. /\ seen \o fresh \in Seq(Record) /\ Excused(seen \o fresh, e)
      /\ fresh # <<>> => seen \o fresh # <<>> /\ Last(seen \o fresh).seq >= fresh[1].seq
  BY <1>2, <1>3, <1>5, <1>6, Joined
<1>9. fresh # <<>> => Last(seen \o fresh).seq > 0
  <2> SUFFICES ASSUME fresh # <<>> PROVE Last(seen \o fresh).seq > 0
    OBVIOUS
  <2>1. fresh[1].seq \in Nat
    BY <1>2, <1>4
  <2>2. Last(seen \o fresh) \in Record
    <3>1. seen \o fresh \in Seq(Record) /\ seen \o fresh # <<>>
      BY <1>8
    <3> QED BY <3>1, Element DEF Last
  <2>3. Last(seen \o fresh).seq \in Nat
    BY <2>2 DEF Record
  <2> QED BY <1>7, <1>8, <2>1, <2>3
<1> QED BY <1>1, <1>3, <1>8, <1>9 DEF e

(* The page shows nothing at the start.                                      *)
LEMMA NoneHeld == LastN(<<>>, Capacity) = <<>>
<1>1. Len(<<>>) = 0 /\ ~(0 > Capacity)
  BY LogBufferAssumption
<1> QED BY <1>1 DEF LastN

LEMMA InitPage == Init => PageInv
BY NoneHeld DEF Init, LogInit, PageInv, Excused

(* An answer is added where it follows, and lastSeq moves to its end; one    *)
(* that is older than the page tells of a restart and clears it.             *)
LEMMA FetchKeeps ==
    ASSUME PageInv, NEW i \in DOMAIN replies, fetchLogs(i)
    PROVE  PageInv'
<1>1. PICK reply \in Answers : reply = replies[i]
  BY Element DEF PageInv
<1>2. replies' \in Seq(Answers)
  BY RemovedFrom DEF PageInv, fetchLogs
<1>3. CASE reply.latest < lastSeq
  <2>1. /\ shown' = <<>> /\ seen' = <<>> /\ lastSeq' = 0 /\ polls' = Append(polls, 0)
        /\ outdated' = FALSE
    BY <1>1, <1>3 DEF fetchLogs
  <2>2. polls' \in Seq(Nat)
    BY <2>1 DEF PageInv
  <2> QED BY <1>2, <2>1, <2>2, NoneHeld DEF PageInv, Excused
<1>4. CASE ~(reply.latest < lastSeq)
  <2>1. PICK fresh : fresh = Fresh(reply)
    OBVIOUS
  <2>2. PICK both : both = seen \o fresh
    OBVIOUS
  <2> DEFINE e == \/ dropNote \/ Overran(reply)
                  \/ outdated \/ (reply.after > lastSeq /\ fresh # <<>>)
  <2>3. /\ polls' = polls /\ seen' = both
        /\ shown' = LastN(shown \o fresh, Capacity)
        /\ lastSeq' = IF fresh = <<>> THEN lastSeq ELSE Last(shown').seq
        /\ e => dropNote' \/ outdated'
    BY <1>1, <1>4, <2>1, <2>2 DEF fetchLogs
  <2>4. /\ fresh \in Seq(Record) /\ both \in Seq(Record)
        /\ Excused(both, e)
        /\ fresh # <<>> => both # <<>> /\ Last(both).seq > 0
    BY <2>1, <2>2, FreshFollows
  <2> HIDE DEF e
  <2>5. shown' = LastN(both, Capacity)
    BY <2>2, <2>3, <2>4, LastTwice DEF PageInv
  <2>6. Excused(seen', dropNote' \/ outdated')
    BY <2>3, <2>4 DEF Excused
  <2>7. CASE fresh = <<>>
    <3>1. both = seen
      BY <2>2, <2>7, ConcatEmptySeq DEF PageInv
    <3> QED BY <1>2, <2>3, <2>5, <2>6, <2>7, <3>1 DEF PageInv
  <2>8. CASE fresh # <<>>
    <3>1. both # <<>> /\ Last(shown') = Last(both) /\ Last(both).seq > 0
      BY <2>4, <2>5, <2>8, LastKeeps
    <3>2. Last(both).seq \in Nat
      <4>1. Last(both) \in Record
        BY <2>4, <3>1, Element DEF Last
      <4> QED BY <4>1 DEF Record
    <3> QED BY <1>2, <2>3, <2>4, <2>5, <2>6, <2>8, <3>1, <3>2 DEF PageInv
  <2> QED BY <2>7, <2>8
<1> QED BY <1>3, <1>4

(* Whatever is logged, asked, answered, lost or restarted, the page keeps    *)
(* its invariant.                                                            *)
LEMMA NextPage ==
    ASSUME RingInv, PageInv, [Next]_vars
    PROVE  PageInv'
<1>1. CASE UNCHANGED <<polls, replies, shown, lastSeq, dropNote, seen, outdated>>
  BY <1>1 DEF PageInv
<1>2. CASE Ask
  <2>1. polls' \in Seq(Nat)
    BY <1>2 DEF Ask, PageInv
  <2> QED BY <1>2, <2>1 DEF Ask, PageInv
<1>3. ASSUME NEW i \in DOMAIN polls, handleSystemLogs(i) PROVE PageInv'
  <2>1. polls[i] \in Nat /\ polls' \in Seq(Nat)
    BY <1>3, Element, RemovedFrom DEF PageInv, handleSystemLogs
  <2>2. Since(polls[i]) \in Answers
    BY <2>1, SinceAnswers
  <2>3. replies' \in Seq(Answers)
    BY <1>3, <2>2, AppendProperties DEF PageInv, handleSystemLogs
  <2> QED BY <1>3, <2>1, <2>3 DEF PageInv, handleSystemLogs
<1>4. CASE Lost
  <2>1. CASE UNCHANGED replies /\ \E i \in DOMAIN polls : polls' = RemoveAt(polls, i)
    <3>1. polls' \in Seq(Nat)
      BY <2>1, RemovedFrom DEF PageInv
    <3> QED BY <1>4, <2>1, <3>1 DEF Lost, PageInv
  <2>2. CASE UNCHANGED polls /\ \E i \in DOMAIN replies : replies' = RemoveAt(replies, i)
    <3>1. replies' \in Seq(Answers)
      BY <2>2, RemovedFrom DEF PageInv
    <3> QED BY <1>4, <2>2, <3>1 DEF Lost, PageInv
  <2> QED BY <1>4, <2>1, <2>2 DEF Lost
<1>5. ASSUME NEW i \in DOMAIN replies, fetchLogs(i) PROVE PageInv'
  BY <1>5, FetchKeeps
<1>6. CASE Restart
  <2>1. polls' = <<>> /\ UNCHANGED <<replies, shown, lastSeq, dropNote, seen, outdated>>
    BY <1>6 DEF Restart, LogRestart
  <2> QED BY <2>1 DEF PageInv
<1> QED
  BY <1>1, <1>2, <1>3, <1>4, <1>5, <1>6
  DEF Next, OpenStore, LogColumn, Serving, Page, Log, logVars, pageVars, vars

(* The page holds the last of what it has shown, each record once and in     *)
(* order, and says so when the ring overwrote some that it had not seen,     *)
(* however its polls overlap and whatever is lost, unless an answer is older *)
(* than a restart it noticed.                                                *)
THEOREM GapsAreKnown == Spec => []PageKnowsItsGaps
<1>1. PageInv => PageKnowsItsGaps
  BY DEF PageInv, Excused, PageKnowsItsGaps
<1>2. Init => RingInv /\ PageInv
  BY InitRing, InitPage
<1>3. RingInv /\ PageInv /\ [Next]_vars => (RingInv /\ PageInv)'
  BY NextRing, NextPage
<1> QED BY <1>1, <1>2, <1>3, PTL DEF Spec

(***************************************************************************)
(* Opening the database.                                                   *)
(***************************************************************************)

Place == [Tables -> (SUBSET ColumnNames) \cup {None}]
In(x, tables) == /\ x.table \in Tables /\ tables[x.table] # None
                 /\ x.name \in tables[x.table]

SchemaInv ==
    /\ file \in Place /\ tx \in Place /\ version \in Versions
    /\ at \in {"migrating", "refused"} => file = before
    /\ at = "migrating" =>
          \A t \in Tables : tx[t] # None => file[t] # None /\ file[t] \subseteq tx[t]
    /\ at = "migrating" => logged = {} /\ \A x \in added : In(x, tx)
    /\ at = "refused" =>
          tx = file /\ \E t \in Tables : \E c \in Missing(t) : ~Addable(c)
    /\ at = "logging" => \A x \in added : In(x, file)
    /\ at \in {"logging", "schema", "serving"} =>
          \A t \in Tables : file[t] # None => Names(Wanted(t)) \subseteq file[t]
    /\ at = "serving" => Whole
    /\ at \in {"migrating", "refused", "logging", "schema", "serving"}
    /\ \A x \in logged : In(x, file)

LEMMA InitSchema == Init => SchemaInv
<1> SUFFICES ASSUME OpenInit PROVE SchemaInv
  BY DEF Init
<1>1. file \in Place /\ tx \in Place
  BY DEF OpenInit, Place, NoTables
<1>2. \A t \in Tables : tx[t] = None
  BY DEF OpenInit, NoTables
<1> QED BY <1>1, <1>2 DEF OpenInit, SchemaInv

LEMMA WantedNames ==
    ASSUME version \in Versions, NEW t \in Tables
    PROVE  /\ Names(Wanted(t)) \in SUBSET ColumnNames
           /\ Schema[version][t] # None => Names(Wanted(t)) # None
<1>1. CASE Schema[version][t] = None
  BY <1>1 DEF Wanted, Names
<1>2. CASE Schema[version][t] # None
  <2>1. <<version, t>> \in Declared
    BY <1>2 DEF Declared
  <2>2. Names(Schema[version][t]) \in SUBSET ColumnNames
    BY <2>1 DEF ColumnNames
  <2> QED BY <1>2, <2>2, SchemaAssumption DEF Wanted
<1> QED BY <1>1, <1>2

LEMMA MigrateKeeps ==
    ASSUME SchemaInv,
           \/ CommitColumns
           \/ \E t \in Tables : Refuse(t) \/ \E c \in Wanted(t) : AddColumn(t, c)
    PROVE  SchemaInv'
<1>1. ASSUME NEW t \in Tables, NEW c \in Wanted(t), AddColumn(t, c) PROVE SchemaInv'
  <2>1. /\ at = "migrating" /\ c \in Missing(t) /\ tx[t] # None
        /\ tx' = [tx EXCEPT ![t] = @ \cup {c.name}]
        /\ added' = added \cup {[table |-> t, name |-> c.name]}
        /\ UNCHANGED <<file, indexes, version, at, before, logged>>
    BY <1>1 DEF AddColumn, Missing
  <2>2. c.name \in ColumnNames
    BY WantedNames DEF SchemaInv, Names
  <2>3. tx' \in Place /\ tx'[t] # None /\ tx'[t] = tx[t] \cup {c.name}
    <3>1. DOMAIN tx = Tables /\ tx[t] \in SUBSET ColumnNames
      BY <2>1 DEF SchemaInv, Place
    <3>2. tx[t] \cup {c.name} \in SUBSET ColumnNames
      BY <2>2, <3>1
    <3>3. tx[t] \cup {c.name} # None
      BY <3>2, SchemaAssumption
    <3> QED BY <2>1, <3>1, <3>2, <3>3 DEF SchemaInv, Place
  <2>4. \A u \in Tables \ {t} : tx'[u] = tx[u]
    BY <2>1 DEF SchemaInv, Place
  <2>5. \A x \in added' : In(x, tx')
    BY <2>1, <2>3, <2>4 DEF SchemaInv, In
  <2>6. \A u \in Tables : tx'[u] # None => file[u] # None /\ file[u] \subseteq tx'[u]
    BY <2>1, <2>3, <2>4 DEF SchemaInv
  <2> QED BY <2>1, <2>3, <2>5, <2>6 DEF SchemaInv, In
<1>2. ASSUME NEW t \in Tables, Refuse(t) PROVE SchemaInv'
  <2>1. PICK c \in Missing(t) : ~Addable(c)
    BY <1>2 DEF Refuse
  <2>2. /\ at = "migrating" /\ at' = "refused" /\ tx' = file
        /\ UNCHANGED <<file, indexes, version, before, logged>>
    BY <1>2 DEF Refuse
  <2>3. c \in Missing(t)'
    BY <2>1, <2>2 DEF SchemaInv, Missing, Wanted
  <2> QED BY <2>1, <2>2, <2>3 DEF SchemaInv, Addable, In
<1>3. CASE CommitColumns
  BY <1>3 DEF CommitColumns, SchemaInv, Missing, Names, Wanted, In
<1> QED BY <1>1, <1>2, <1>3

LEMMA CreateKeeps ==
    ASSUME SchemaInv,
           \/ \E t \in Tables : CreateTable(t)
           \/ \E x \in Index[version] : CreateIndex(x)
           \/ EndLogging \/ Serve \/ \E x \in added : LogAdded(x)
    PROVE  SchemaInv'
<1>1. ASSUME NEW t \in Tables, CreateTable(t) PROVE SchemaInv'
  <2>1. /\ at = "schema" /\ file[t] = None
        /\ file' = [file EXCEPT ![t] = Names(Wanted(t))]
        /\ Names(Wanted(t)) \in SUBSET ColumnNames
        /\ UNCHANGED <<indexes, tx, version, at, added, before, logged>>
    BY <1>1, WantedNames DEF CreateTable, Wanted, SchemaInv
  <2>2. file' \in Place
    BY <2>1 DEF SchemaInv, Place
  <2>3. \A x \in logged : In(x, file')
    BY <2>1 DEF SchemaInv, In, Place
  <2>4. \A u \in Tables : file'[u] # None => Names(Wanted(u)) \subseteq file'[u]
    BY <2>1 DEF SchemaInv, Place
  <2> QED BY <2>1, <2>2, <2>3, <2>4 DEF SchemaInv, Wanted, In
<1>2. ASSUME NEW x \in Index[version], CreateIndex(x) PROVE SchemaInv'
  <2>1. /\ at = "schema" /\ file[x.table] # None
        /\ UNCHANGED <<file, tx, version, added, before, logged>>
    BY <1>2 DEF CreateIndex
  <2>2. /\ <<version, x.table>> \in Declared
        /\ x.name \in Names(Schema[version][x.table])
    BY SchemaAssumption DEF SchemaInv
  <2>3. x.table \in Tables /\ Schema[version][x.table] # None
    BY <2>2 DEF Declared
  <2>4. x.name \in file[x.table]
    BY <2>1, <2>2, <2>3 DEF SchemaInv, Wanted
  <2>5. at' = at
    BY <1>2, <2>4 DEF CreateIndex
  <2> QED BY <2>1, <2>5 DEF SchemaInv, Wanted, In
<1>3. CASE EndLogging
  BY <1>3 DEF EndLogging, SchemaInv, Wanted, In
<1>4. CASE Serve
  BY <1>4 DEF Serve, SchemaInv, Whole, Wanted, In
<1>5. ASSUME NEW x \in added, LogAdded(x) PROVE SchemaInv'
  BY <1>5 DEF LogAdded, SchemaInv, Wanted, In
<1> QED BY <1>1, <1>2, <1>3, <1>4, <1>5

LEMMA NextSchema == ASSUME SchemaInv, [Next]_vars PROVE SchemaInv'
<1>1. CASE Restart
  BY <1>1 DEF Restart, OpenRestart, SchemaInv, In, Place
<1>2. CASE UNCHANGED schemaVars
  BY <1>2 DEF schemaVars, SchemaInv, Whole, Missing, Wanted, In
<1> QED
  BY <1>1, <1>2, MigrateKeeps, CreateKeeps
  DEF Next, OpenStore, LogColumn, Serving, Page, vars

(* However often and in whatever versions the server is started, killed and  *)
(* refused, it serves only from a file that has every table, column and      *)
(* index of its version, and a refusal leaves the file as it was.            *)
THEOREM ServesWhole == Spec => []ServesWholeOrRefuses
<1>1. SchemaInv => ServesWholeOrRefuses
  BY DEF SchemaInv, ServesWholeOrRefuses, In
<1> QED
  BY InitSchema, NextSchema, <1>1, PTL DEF Spec

=============================================================================
