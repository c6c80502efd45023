--------------------------- MODULE BarHelperProofs ---------------------------
(***************************************************************************)
(* Theorems about BarHelper for any kegs, monitors, volumes, intervals,    *)
(* limits and faults: what is marked sent is on display, the types, the    *)
(* shared budget of requests, the spacing of one monitor's, and how long a *)
(* monitor waits at most.                                                  *)
(***************************************************************************)
EXTENDS BarHelper, Integers, FiniteSetTheorems, SequenceTheorems,
        WellFoundedInduction, TLAPS

(***************************************************************************)
(* What is marked sent is on display.                                      *)
(***************************************************************************)

(* The requests of m's that may still surprise the client are those of       *)
(* unsure monitors, and a request confirmed but not yet noted is on display. *)
InFlight(m) == sentAt # NotYet /\ answer = "success" /\ Head(batch).monitor = m

FateKnown ==
    /\ DOMAIN shown = Monitors /\ DOMAIN lastSent = Monitors
    /\ answer # "none" => sentAt # NotYet
    /\ sentAt # NotYet => batch # <<>>
    /\ \A l \in late : l.monitor \in unsure
    /\ \A m \in Monitors \ unsure :
          InFlight(m) => shown[m] = Head(batch).amount

MarkInv == FateKnown /\ MarkedIsShown

(* Nothing is marked at the start.                                           *)
LEMMA InitMarks == Init => MarkInv
BY DEF Init, InitClient, MarkInv, FateKnown, InFlight, MarkedIsShown

(* The service shows what it confirms, and a request it does not confirm     *)
(* leaves its monitor unsure.                                                *)
LEMMA ServeMarks == ASSUME MarkInv, Serve PROVE MarkInv'
<1> DEFINE r == Head(batch)
<1> USE DEF MarkInv, FateKnown, InFlight, MarkedIsShown, NotYet, stateVars
<1>1. CASE shown' = [shown EXCEPT ![r.monitor] = r.amount] /\ answer' = "success"
  BY <1>1 DEF Serve
<1>2. CASE shown' = [shown EXCEPT ![r.monitor] = r.amount] /\ answer' = "other"
           /\ unsure' = unsure \cup {r.monitor}
  BY <1>2 DEF Serve
<1>3. CASE answer' = "other" /\ UNCHANGED <<shown, unsure>>
  BY <1>3 DEF Serve
<1> QED
  BY <1>1, <1>2, <1>3 DEF Serve

(* The volume marked is the one the service confirmed.                       *)
LEMMA AnswerMarks ==
    ASSUME MarkInv, Success \/ NoSuccess \/ Fail PROVE MarkInv'
<1> USE DEF MarkInv, FateKnown, InFlight, MarkedIsShown, NotYet, stateVars,
            serviceVars, NextRequest
<1>1. CASE Success
  BY <1>1 DEF Success, recordSent
<1>2. CASE NoSuccess
  BY <1>2 DEF NoSuccess
<1>3. CASE Fail
  BY <1>3 DEF Fail
<1> QED
  BY <1>1, <1>2, <1>3

(* Choosing and dispatching mark nothing.                                    *)
LEMMA WorkerMarks ==
    ASSUME MarkInv, Due \/ Dispatch \/ WorkerReturns PROVE MarkInv'
<1> USE DEF MarkInv, FateKnown, InFlight, MarkedIsShown, NotYet, stateVars,
            serviceVars, ghostVars, sendVars
<1>1. CASE Due
  BY <1>1 DEF Due
<1>2. CASE Dispatch
  BY <1>2 DEF Dispatch
<1>3. CASE WorkerReturns
  BY <1>3 DEF WorkerReturns
<1> QED
  BY <1>1, <1>2, <1>3

(* Reports, time, a crash and a late request touch only what the client      *)
(* does not claim to know.                                                   *)
LEMMA OtherMarks ==
    ASSUME MarkInv,
           \/ \E k \in Kegs, a \in Amounts : KegAmount(k, a)
           \/ Elapse \/ Cancel \/ Restart
           \/ \E r \in Reading : ServeLate(r)
           \/ UNCHANGED vars
    PROVE  MarkInv'
<1> USE DEF MarkInv, FateKnown, InFlight, MarkedIsShown, NotYet, stateVars,
            serviceVars, ghostVars, sendVars
<1>1. ASSUME NEW k \in Kegs, NEW a \in Amounts, KegAmount(k, a) PROVE MarkInv'
  BY <1>1 DEF KegAmount
<1>2. CASE Elapse
  BY <1>2 DEF Elapse
<1>3. CASE Cancel
  BY <1>3 DEF Cancel
<1>4. CASE Restart
  BY <1>4 DEF Restart
<1>5. ASSUME NEW r \in Reading, ServeLate(r) PROVE MarkInv'
  BY <1>5 DEF ServeLate
<1>6. CASE UNCHANGED vars
  BY <1>6 DEF vars
<1> QED
  BY <1>1, <1>2, <1>3, <1>4, <1>5, <1>6

(* A volume is marked sent only if BarHelper shows it: whatever is lost,     *)
(* refused, late or forgotten in a crash, the client's lastSent is on        *)
(* display, unless a request of that monitor's has an unknown fate.          *)
THEOREM MarkedShown == Spec => []MarkedIsShown
<1>1. MarkInv /\ [Next]_vars => MarkInv'
  BY ServeMarks, AnswerMarks, WorkerMarks, OtherMarks DEF Next, Worker
<1> QED
  BY InitMarks, <1>1, PTL DEF Spec, MarkInv

(***************************************************************************)
(* The invariant of the timed part: types, the order of time, what the     *)
(* batch says of the stamps, and the busy time the last stamps begin.      *)
(***************************************************************************)

(* Type correctness needs that a volume to send names the keg it is of.      *)
BarTypes ==
    /\ TypeOK
    /\ \A m \in Monitors : latest[m] # None => reporter[m] \in Kegs
    /\ dispatched \in Seq([at : 1 .. MaxTime, monitor : Monitors])

(* Time only grows: what was stamped or sent was so by now, and a tick that  *)
(* waits is as young as every stamp.                                         *)
Clock ==
    /\ tick <= now
    /\ \A p \in DOMAIN recentSends :
          /\ recentSends[p] <= now /\ (tick # NotYet => recentSends[p] <= tick)
          /\ \A q \in DOMAIN recentSends : p <= q => recentSends[p] <= recentSends[q]
    /\ \A m \in Monitors :
          lastSendAt[m] <= now /\ (tick # NotYet => lastSendAt[m] <= tick)
    /\ \A i \in DOMAIN dispatched : dispatched[i].at <= now

LastStamp == recentSends[Len(recentSends)]

(* The requests of the batch are of different monitors, each stamped last.   *)
Stamped ==
    /\ Len(batch) <= Len(recentSends)
    /\ \A p \in DOMAIN recentSends :
          p > Len(recentSends) - Len(batch) => recentSends[p] = LastStamp
    /\ \A i \in DOMAIN batch :
          /\ lastSendAt[batch[i].monitor] = LastStamp
          /\ \A j \in DOMAIN batch : i # j => batch[i].monitor # batch[j].monitor

(* The stamps after the n-th are those of a time in which the worker was     *)
(* never idle: from the first of them on, only requests took time.           *)
BusyFrom(n) ==
    IF n = Len(recentSends)
    THEN batch = <<>> /\ tick \in {NotYet, now}
    ELSE LET done == Len(recentSends) - n - Len(batch)
             begun == recentSends[n + 1] + RequestTimeout * done
         IN /\ n + Len(batch) <= Len(recentSends)
            /\ IF sentAt = NotYet THEN now <= begun
               ELSE sentAt <= begun /\ now <= sentAt + RequestTimeout
Busy == \E n \in 0 .. Len(recentSends) : BusyFrom(n)

(* Requests of the batch that have yet to go out.                            *)
Pending == {j \in DOMAIN batch : sentAt # NotYet => j > 1}
Pend == Len(batch) - (IF sentAt = NotYet THEN 0 ELSE 1)

(* The place in recentSends of the i-th dispatch's stamp, below 1 if it was  *)
(* pruned.                                                                   *)
Place(i) == Len(recentSends) - Len(dispatched) - Pend + i

(* Whatever has yet to go out is stamped at t or later.                      *)
Since(t) ==
    /\ t <= now /\ (tick # NotYet => t <= tick)
    /\ batch # <<>> => t <= LastStamp

(* A request goes out at most MaxDelay after its stamp: a is when the i-th   *)
(* dispatch went out.                                                        *)
OnTime(i, a) ==
    IF Place(i) >= 1
    THEN a <= recentSends[Place(i)] + MaxDelay
    ELSE Since(a + (GlobalSendWindow - MaxDelay))
Prompt == \A i \in DOMAIN dispatched : OnTime(i, dispatched[i].at)

(* The dispatch of a request of m's at a is far enough from whatever of m's  *)
(* goes out next.                                                            *)
Apart(m, a) ==
    /\ lastSendAt[m] # NotYet
    /\ \/ a <= lastSendAt[m]
       \/ Since(a + MinSendInterval)
       \/ Len(recentSends) = 2 /\ a <= recentSends[1] + RequestTimeout
    /\ \A j \in Pending : batch[j].monitor = m => a + MinSendInterval <= LastStamp
Spaced == \A i \in DOMAIN dispatched : Apart(dispatched[i].monitor, dispatched[i].at)

BarInv == BarTypes /\ Clock /\ Stamped /\ Busy
BudgetInv == BarInv /\ SharedBudget /\ (~stopping => Prompt)
SpaceInv == BarInv /\ MonitorSpacing /\ (~stopping => Spaced)

(***************************************************************************)
(* What the steps do, in terms of places.                                  *)
(***************************************************************************)

(* An initial part of the places of a sequence has as many places as its     *)
(* largest.                                                                  *)
LEMMA FirstPlaces ==
    ASSUME NEW n \in Nat, NEW D \in SUBSET (1 .. n),
           \A p \in D : \A q \in 1 .. n : q <= p => q \in D
    PROVE  /\ Cardinality(D) \in 0 .. n
           /\ \A p \in 1 .. n : p \in D <=> p <= Cardinality(D)
<1>1. CASE D = {}
  <2>1. Cardinality(D) = 0
    BY <1>1, FS_EmptySet
  <2> QED BY <1>1, <2>1
<1>2. CASE D # {}
  <2> DEFINE Rel == {p \in Nat \X Nat : p[1] < p[2]}
             M == {n - i : i \in D}
  <2>1. IsWellFoundedOn(Rel, Nat)
    BY NatLessThanWellFounded DEF OpToRel
  <2>2. M \in SUBSET Nat /\ M # {}
    <3>1. \A i \in D : n - i \in Nat
      OBVIOUS
    <3> QED BY <1>2, <3>1
  <2>3. PICK m \in M : \A y \in M : <<y, m>> \notin Rel
    <3> HIDE DEF Rel, M
    <3> QED BY <2>1, <2>2, WFMin
  <2>4. PICK x \in D : m = n - x
    BY <2>3
  <2>5. ASSUME NEW i \in D PROVE i <= x
    <3>1. n - i \in M /\ n - i \in Nat /\ n - x \in Nat
      BY <2>2
    <3>2. ~(n - i < n - x)
      BY <2>3, <2>4, <3>1
    <3>3. i \in Nat /\ x \in Nat
      OBVIOUS
    <3> HIDE DEF Rel, M
    <3> QED BY <3>2, <3>3
  <2>6. D = 1 .. x
    <3>1. x \in 1 .. n /\ \A i \in D : i \in 1 .. n
      OBVIOUS
    <3>2. ASSUME NEW i \in D PROVE i \in 1 .. x
      <4>1. i \in 1 .. n /\ i <= x
        BY <2>5, <3>1
      <4> QED BY <3>1, <4>1
    <3>3. ASSUME NEW i \in 1 .. x PROVE i \in D
      <4>1. i \in 1 .. n /\ i <= x
        BY <3>1
      <4> QED BY <4>1
    <3> HIDE DEF Rel, M
    <3> QED BY <3>2, <3>3
  <2>7. Cardinality(1 .. x) = x
    BY FS_Interval
  <2> QED BY <2>6, <2>7
<1> QED BY <1>1, <1>2

(* What due does, in terms of places.                                        *)
DueBy(c, n, chosen) ==
    LET R == Len(recentSends) IN
    /\ c \in 0 .. R /\ n \in Nat /\ R - c + n <= GlobalSendLimit
    /\ chosen \in [1 .. n -> Candidates(tick)]
    /\ \A i, j \in 1 .. n : i # j => chosen[i] # chosen[j]
    /\ worker = "running" /\ batch = <<>> /\ sentAt = NotYet /\ tick # NotYet /\ tick' = NotYet
    /\ \A p \in 1 .. R : p <= c <=> tick - recentSends[p] >= GlobalSendWindow
    /\ recentSends' \in Seq(1 .. MaxTime) /\ Len(recentSends') = R - c + n
    /\ \A p \in 1 .. R - c : recentSends'[p] = recentSends[p + c]
    /\ \A p \in 1 .. R - c + n : p > R - c => recentSends'[p] = tick
    /\ lastSendAt' = [m \in Monitors |->
          IF \E i \in 1 .. n : chosen[i] = m THEN tick ELSE lastSendAt[m]]
    /\ batch' = [i \in 1 .. n |-> [keg |-> reporter[chosen[i]],
                                   monitor |-> chosen[i],
                                   amount |-> latest[chosen[i]]]]
    /\ UNCHANGED <<now, worker, stopping, reporter, latest, lastSent, sentAt, answer,
                   shown, late, dispatched, unsure>>

(* Whom it serves: those that waited longest, and all there are unless the   *)
(* budget ends.                                                              *)
Serves(c, n, chosen) ==
    /\ Sorted(chosen, Candidates(tick))
    /\ Len(recentSends) - c + n < GlobalSendLimit =>
          \A m \in Candidates(tick) : \E i \in 1 .. n : chosen[i] = m
    /\ UNCHANGED waitsFrom

(* A flush forgets the first c stamps and stamps n monitors, each once.      *)
LEMMA DueDoes ==
    ASSUME BarTypes, Clock, Due
    PROVE  \E c, n, chosen : DueBy(c, n, chosen) /\ Serves(c, n, chosen)
<1> DEFINE R == Len(recentSends)
           D == {i \in DOMAIN recentSends : tick - recentSends[i] >= GlobalSendWindow}
           c == Cardinality(D)
           kept == SubSeq(recentSends, c + 1, R)
<1>1. /\ recentSends \in Seq(1 .. MaxTime) /\ R <= GlobalSendLimit
      /\ tick # NotYet /\ tick \in 1 .. MaxTime /\ batch = <<>> /\ sentAt = NotYet
      /\ \A m \in Monitors : m \in Nat
      /\ \A m \in Monitors : lastSendAt[m] \in Nat
      /\ GlobalSendWindow \in Nat /\ GlobalSendLimit \in Nat /\ MaxTime \in Nat
  BY BarHelperAssumption DEF Due, BarTypes, TypeOK, Monitors, NotYet
<1>2. R \in Nat /\ DOMAIN recentSends = 1 .. R /\ \A p \in 1 .. R : recentSends[p] \in 1 .. MaxTime
  BY <1>1
<1>3. D \in SUBSET (1 .. R) /\ \A p \in D : \A q \in 1 .. R : q <= p => q \in D
  <2>1. D \in SUBSET (1 .. R)
    BY <1>2
  <2>2. ASSUME NEW p \in D, NEW q \in 1 .. R, q <= p PROVE q \in D
    <3>1. p \in DOMAIN recentSends /\ q \in DOMAIN recentSends
      BY <1>2
    <3>2. recentSends[q] <= recentSends[p]
      BY <3>1, <2>2 DEF Clock
    <3>3. recentSends[q] \in Nat /\ recentSends[p] \in Nat /\ tick \in Nat
      BY <1>1, <1>2, <3>1
    <3>4. tick - recentSends[p] >= GlobalSendWindow
      OBVIOUS
    <3>5. tick - recentSends[q] >= GlobalSendWindow
      BY <1>1, <3>2, <3>3, <3>4
    <3> QED BY <3>1, <3>5
  <2> QED BY <2>1, <2>2
<1>4. c \in 0 .. R /\ \A p \in 1 .. R : p <= c <=> tick - recentSends[p] >= GlobalSendWindow
  <2>1. c \in 0 .. R /\ \A p \in 1 .. R : p \in D <=> p <= c
    <3> HIDE DEF D, R
    <3> QED BY <1>2, <1>3, FirstPlaces
  <2> QED BY <1>2, <2>1
<1>5. PICK n \in 0 .. GlobalSendLimit - Len(kept) : \E chosen \in [1 .. n -> Candidates(tick)] :
          /\ Sorted(chosen, Candidates(tick))
          /\ n < GlobalSendLimit - Len(kept) =>
                \A m \in Candidates(tick) : \E i \in 1 .. n : chosen[i] = m
          /\ recentSends' = kept \o [i \in 1 .. n |-> tick]
          /\ lastSendAt' = [m \in Monitors |->
                IF \E i \in 1 .. n : chosen[i] = m THEN tick ELSE lastSendAt[m]]
          /\ batch' = [i \in 1 .. n |-> [keg |-> reporter[chosen[i]],
                                         monitor |-> chosen[i],
                                         amount |-> latest[chosen[i]]]]
  BY DEF Due, pruneRecent, Without, Sent
<1>6. PICK chosen \in [1 .. n -> Candidates(tick)] :
          /\ Sorted(chosen, Candidates(tick))
          /\ n < GlobalSendLimit - Len(kept) =>
                \A m \in Candidates(tick) : \E i \in 1 .. n : chosen[i] = m
          /\ recentSends' = kept \o [i \in 1 .. n |-> tick]
          /\ lastSendAt' = [m \in Monitors |->
                IF \E i \in 1 .. n : chosen[i] = m THEN tick ELSE lastSendAt[m]]
          /\ batch' = [i \in 1 .. n |-> [keg |-> reporter[chosen[i]],
                                         monitor |-> chosen[i],
                                         amount |-> latest[chosen[i]]]]
  BY <1>5
<1> HIDE DEF c, D
<1>7. /\ kept \in Seq(1 .. MaxTime) /\ Len(kept) = R - c
      /\ \A p \in 1 .. R - c : kept[p] = recentSends[p + c]
  <2>1. c \in Nat /\ c <= R
    BY <1>2, <1>4
  <2>2. \A p \in c + 1 .. R : recentSends[p] \in 1 .. MaxTime
    BY <1>2, <2>1
  <2>3. c + 1 \in 1 .. R + 1 /\ R \in 0 .. R
    BY <1>2, <2>1
  <2>4. kept \in Seq(1 .. MaxTime)
    BY <1>1, <2>1
  <2>5. Len(kept) = R - c
    BY <1>1, <2>1
  <2>6. \A p \in 1 .. R - c : kept[p] = recentSends[p + c]
    BY <1>1, <2>1
  <2> QED BY <2>4, <2>5, <2>6
<1> HIDE DEF kept
<1>8. n \in Nat /\ R - c + n <= GlobalSendLimit
  BY <1>1, <1>2, <1>4, <1>5, <1>7
<1>9. LET fresh == [i \in 1 .. n |-> tick]
      IN /\ fresh \in Seq(1 .. MaxTime) /\ Len(fresh) = n
         /\ \A p \in 1 .. n : fresh[p] = tick
  BY <1>1, <1>8
<1>10. /\ recentSends' \in Seq(1 .. MaxTime) /\ Len(recentSends') = R - c + n
       /\ \A p \in 1 .. R - c : recentSends'[p] = recentSends[p + c]
       /\ \A p \in 1 .. R - c + n : p > R - c => recentSends'[p] = tick
  <2> DEFINE fresh == [i \in 1 .. n |-> tick]
  <2>1. /\ fresh \in Seq(1 .. MaxTime) /\ Len(fresh) = n
        /\ \A p \in 1 .. n : fresh[p] = tick
    BY <1>9
  <2>2. recentSends' = kept \o fresh
    BY <1>6
  <2> HIDE DEF fresh
  <2>3. recentSends' \in Seq(1 .. MaxTime) /\ Len(recentSends') = (R - c) + n
    <3> HIDE DEF R
    <3> QED BY <1>7, <2>1, <2>2, ConcatProperties
  <2>4. \A p \in 1 .. R - c : recentSends'[p] = recentSends[p + c]
    BY <1>2, <1>4, <1>7, <1>8, <2>1, <2>2
  <2>5. ASSUME NEW p \in 1 .. R - c + n, p > R - c PROVE recentSends'[p] = tick
    <3>1. p - (R - c) \in 1 .. n
      BY <1>2, <1>4, <1>8, <2>5
    <3>2. recentSends'[p] = fresh[p - (R - c)]
      BY <1>2, <1>4, <1>7, <1>8, <2>1, <2>2, <2>5, <3>1
    <3> QED BY <2>1, <3>1, <3>2
  <2> QED BY <2>3, <2>4, <2>5
<1>11. \A i, j \in 1 .. n : i # j => chosen[i] # chosen[j]
  <2> SUFFICES ASSUME NEW i \in 1 .. n, NEW j \in 1 .. n, i < j PROVE chosen[i] # chosen[j]
    BY <1>8
  <2>1. DOMAIN chosen = 1 .. n /\ chosen[i] \in Monitors /\ chosen[j] \in Monitors
    BY DEF Candidates
  <2>2. WaitedLonger(chosen[i], chosen[j])
    BY <1>6, <2>1 DEF Sorted
  <2>3. chosen[i] \in Nat /\ lastSendAt[chosen[i]] \in Nat
    BY <1>1, <2>1
  <2> QED BY <2>2, <2>3 DEF WaitedLonger
<1>12. UNCHANGED <<now, worker, stopping, reporter, latest, lastSent, sentAt, answer,
                   shown, late, dispatched, unsure>> /\ worker = "running" /\ tick' = NotYet
  BY DEF Due, serviceVars, ghostVars
<1>13. LET Q == Len(recentSends) IN
       /\ c \in 0 .. Q /\ n \in Nat /\ Q - c + n <= GlobalSendLimit
       /\ \A p \in 1 .. Q : p <= c <=> tick - recentSends[p] >= GlobalSendWindow
       /\ recentSends' \in Seq(1 .. MaxTime) /\ Len(recentSends') = Q - c + n
       /\ \A p \in 1 .. Q - c : recentSends'[p] = recentSends[p + c]
       /\ \A p \in 1 .. Q - c + n : p > Q - c => recentSends'[p] = tick
  BY <1>4, <1>8, <1>10
<1> HIDE DEF R
<1>14. DueBy(c, n, chosen)
  BY <1>1, <1>6, <1>11, <1>12, <1>13, Zenon DEF DueBy
<1>15. UNCHANGED waitsFrom
  BY DEF Due, ghostVars
<1>16. Len(recentSends) - c + n < GlobalSendLimit => n < GlobalSendLimit - Len(kept)
  BY <1>1, <1>2, <1>4, <1>7, <1>8 DEF R
<1>17. Serves(c, n, chosen)
  BY <1>6, <1>15, <1>16, Zenon DEF Serves
<1> QED BY <1>14, <1>17

(* The kinds of steps there are for stamps, batch and dispatches.            *)
Quiet == UNCHANGED <<now, tick, recentSends, lastSendAt, batch, sentAt, dispatched>>

Leave ==
    /\ batch # <<>> /\ batch' = Tail(batch)
    /\ sentAt' = NotYet /\ (sentAt = NotYet => stopping')
    /\ UNCHANGED <<now, tick, recentSends, lastSendAt, dispatched>>

Issue ==
    /\ batch # <<>> /\ sentAt = NotYet /\ sentAt' = now
    /\ dispatched' = Append(dispatched, [at |-> now, monitor |-> batch[1].monitor])
    /\ UNCHANGED <<now, tick, recentSends, lastSendAt, batch, stopping>>

ElapseBy(c) ==
    /\ Waiting /\ now' = now + 1 /\ now' \in 1 .. MaxTime
    /\ tick' = IF tick = NotYet THEN now' ELSE tick
    /\ c \in 0 .. Len(dispatched)
    /\ dispatched' \in Seq([at : 1 .. MaxTime, monitor : Monitors])
    /\ Len(dispatched') = Len(dispatched) - c
    /\ \A i \in 1 .. Len(dispatched) - c : dispatched'[i] = dispatched[i + c]
    /\ UNCHANGED <<recentSends, lastSendAt, batch, sentAt, stopping>>

Clear ==
    /\ tick' = NotYet /\ recentSends' = <<>> /\ batch' = <<>> /\ sentAt' = NotYet
    /\ dispatched' = <<>>
    /\ lastSendAt' = [m \in Monitors |-> NotYet]
    /\ now' = now

(* Time that passes drops the first c dispatches.                            *)
LEMMA ElapseDoes ==
    ASSUME BarTypes, Elapse
    PROVE  \E c : ElapseBy(c)
<1> DEFINE N == Len(dispatched)
           D == {i \in DOMAIN dispatched : now' - dispatched[i].at >= GlobalSendWindow}
           c == Cardinality(D)
           S == [at : 1 .. MaxTime, monitor : Monitors]
<1>1. dispatched \in Seq(S) /\ N \in Nat /\ DOMAIN dispatched = 1 .. N
  BY DEF BarTypes
<1>2. c \in 0 .. N
  <2>1. IsFiniteSet(1 .. N) /\ Cardinality(1 .. N) = N
    BY <1>1, FS_Interval
  <2>2. D \in SUBSET (1 .. N)
    BY <1>1
  <2> HIDE DEF D, N
  <2>3. IsFiniteSet(D) /\ c <= N
    BY <2>1, <2>2, FS_Subset
  <2>4. c \in Nat
    BY <2>3, FS_CardinalityType
  <2> QED BY <1>1, <2>3, <2>4
<1>3. dispatched' = SubSeq(dispatched, c + 1, N)
  BY DEF Elapse, Without
<1> HIDE DEF c
<1> HIDE DEF S
<1>4. \A i \in c + 1 .. N : dispatched[i] \in S
  <2>1. \A i \in 1 .. N : dispatched[i] \in S
    BY <1>1
  <2> HIDE DEF N
  <2>2. \A i \in c + 1 .. N : i \in 1 .. N
    BY <1>1, <1>2
  <2> QED BY <2>1, <2>2
<1>5. /\ dispatched' \in Seq(S)
      /\ Len(dispatched') = N - c
      /\ \A i \in 1 .. N - c : dispatched'[i] = dispatched[i + c]
  <2> HIDE DEF N
  <2>1. c + 1 \in Int /\ N \in Int
    BY <1>1, <1>2
  <2>2. /\ dispatched' \in Seq(S)
        /\ Len(dispatched') = IF c + 1 <= N THEN N - (c + 1) + 1 ELSE 0
        /\ \A i \in 1 .. N - (c + 1) + 1 : dispatched'[i] = dispatched[c + 1 + i - 1]
    BY <1>3, <1>4, <2>1, SubSeqProperties
  <2> QED BY <1>1, <1>2, <2>2
<1>6. now' \in 1 .. MaxTime
  BY BarHelperAssumption DEF BarTypes, TypeOK, Elapse
<1>7. ElapseBy(c)
  BY <1>2, <1>5, <1>6 DEF Elapse, ElapseBy, S, stateVars, sendVars
<1> QED BY <1>7

(* Every step is of one of those kinds.                                      *)
LEMMA StepsAre ==
    ASSUME BarTypes, Clock, [Next]_vars
    PROVE  \/ Quiet /\ (stopping' = stopping \/ stopping')
           \/ Leave /\ stopping' = stopping
           \/ Issue /\ ~stopping
           \/ \E c : ElapseBy(c)
           \/ \E c, n, chosen : DueBy(c, n, chosen)
           \/ Clear
<1> USE DEF stateVars, sendVars, serviceVars, ghostVars
<1>1. ASSUME NEW k \in Kegs, NEW a \in Amounts, KegAmount(k, a) PROVE Quiet /\ stopping' = stopping
  BY <1>1 DEF KegAmount, Quiet
<1>2. CASE Success \/ NoSuccess \/ Fail
  <2>1. sentAt # NotYet => batch # <<>>
    BY DEF BarTypes, TypeOK
  <2> QED BY <1>2, <2>1 DEF Success, NoSuccess, Fail, NextRequest, Leave
<1>3. CASE Dispatch
  <2>1. CASE stopping
    BY <1>3, <2>1 DEF Dispatch, Leave
  <2>2. CASE ~stopping
    <3>1. Head(batch) = batch[1]
      BY <1>3 DEF Dispatch, BarTypes, TypeOK
    <3> QED BY <1>3, <2>2, <3>1 DEF Dispatch, Issue
  <2> QED BY <2>1, <2>2
<1>4. CASE Cancel \/ WorkerReturns \/ UNCHANGED vars
  BY <1>4 DEF Cancel, WorkerReturns, vars, Quiet
<1>5. CASE Serve
  BY <1>5 DEF Serve, Quiet
<1>6. ASSUME NEW r \in Reading, ServeLate(r) PROVE Quiet /\ stopping' = stopping
  BY <1>6 DEF ServeLate, Quiet
<1>7. CASE Restart
  BY <1>7 DEF Restart, Clear
<1>8. CASE Elapse
  BY <1>8, ElapseDoes
<1>9. CASE Due
  BY <1>9, DueDoes
<1> QED BY <1>1, <1>2, <1>3, <1>4, <1>5, <1>6, <1>7, <1>8, <1>9 DEF Next, Worker

(***************************************************************************)
(* Types.                                                                  *)
(***************************************************************************)

(* The types hold at the start.                                              *)
LEMMA InitBar == Init => BarTypes
<1> SUFFICES ASSUME Init PROVE BarTypes
  OBVIOUS
<1>1. TypeOK
  <2>1. recentSends = <<>> /\ batch = <<>> /\ Len(<<>>) = 0
    BY DEF Init, InitClient
  <2>2. recentSends \in Seq(1 .. MaxTime) /\ batch \in Seq(Reading)
    BY <2>1
  <2>3. Len(recentSends) <= GlobalSendLimit /\ Len(batch) <= GlobalSendLimit
    BY <2>1, BarHelperAssumption
  <2>4. 0 \in 0 .. MaxTime /\ 1 \in 1 .. MaxTime
    BY BarHelperAssumption
  <2>5. sentAt = 0 /\ tick = 0 /\ now = 1 /\ lastSendAt = [m \in Monitors |-> 0]
    BY DEF Init, InitClient, NotYet
  <2>6. lastSendAt \in [Monitors -> 0 .. MaxTime]
    BY <2>4, <2>5
  <2> QED BY <2>2, <2>3, <2>4, <2>5, <2>6 DEF Init, InitClient, TypeOK, NotYet
<1>2. dispatched \in Seq([at : 1 .. MaxTime, monitor : Monitors])
  BY DEF Init
<1> QED BY <1>1, <1>2 DEF BarTypes, Init, InitClient

(* A report names the keg of its volume.                                     *)
LEMMA ReportTypes ==
    ASSUME BarTypes, NEW k \in Kegs, NEW a \in Amounts, KegAmount(k, a)
    PROVE  BarTypes'
<1> DEFINE m == MonitorOf[k]
<1>1. m \in Monitors
  BY DEF KegAmount, Monitors
<1>2. /\ reporter' = [reporter EXCEPT ![m] = k]
      /\ latest' = [latest EXCEPT ![m] = a]
      /\ UNCHANGED <<now, tick, worker, stopping, lastSent, lastSendAt, recentSends,
                     sendVars, serviceVars, dispatched, unsure>>
  BY DEF KegAmount
<1> HIDE DEF m
<1> QED BY <1>1, <1>2 DEF BarTypes, TypeOK, sendVars, serviceVars

(* A request taken off the batch is a Reading, and the rest are Readings.    *)
LEMMA HeadOfBatch ==
    ASSUME BarTypes, batch # <<>>
    PROVE  /\ Head(batch) \in Reading /\ Head(batch) = batch[1]
           /\ Tail(batch) \in Seq(Reading) /\ Len(Tail(batch)) = Len(batch) - 1
           /\ Len(batch) \in Nat /\ Len(batch) >= 1
           /\ \A i \in 1 .. Len(batch) - 1 : Tail(batch)[i] = batch[i + 1]
<1>1. batch \in Seq(Reading)
  BY DEF BarTypes, TypeOK
<1> HIDE DEF Reading
<1>2. Head(batch) = batch[1] /\ Len(batch) \in Nat /\ Len(batch) >= 1
  BY <1>1
<1> QED BY <1>1, <1>2, HeadTailProperties

(* An answered request leaves a shorter batch of Readings.                   *)
LEMMA AnswerTypes ==
    ASSUME BarTypes, Success \/ NoSuccess \/ Fail \/ Serve
    PROVE  BarTypes'
<1>1. batch # <<>>
  BY DEF Success, NoSuccess, Fail, Serve, BarTypes, TypeOK
<1>2. /\ Head(batch) \in Reading
      /\ Tail(batch) \in Seq(Reading) /\ Len(Tail(batch)) = Len(batch) - 1
      /\ Len(batch) \in Nat
  BY <1>1, HeadOfBatch
<1>3. Head(batch).monitor \in Monitors /\ Head(batch).amount \in Amounts
  BY <1>2 DEF Reading
<1>4. GlobalSendLimit \in Nat
  BY BarHelperAssumption
<1> USE DEF NextRequest, stateVars, serviceVars, NotYet
<1> HIDE DEF Reading
<1>9. ASSUME NextRequest
      PROVE  /\ batch' \in Seq(Reading) /\ Len(batch') <= GlobalSendLimit
             /\ sentAt' = NotYet /\ answer' = "none" /\ sentAt' \in 0 .. MaxTime
  <2>1. Len(batch) <= GlobalSendLimit
    BY DEF BarTypes, TypeOK
  <2>2. Len(batch') <= GlobalSendLimit
    BY <1>2, <1>4, <1>9, <2>1
  <2> QED BY <1>2, <1>9, <2>2, BarHelperAssumption
<1> HIDE DEF NextRequest
<1>5. CASE Success
  <2>1. lastSent' \in [Monitors -> Amounts \cup {None}]
    BY <1>3, <1>5 DEF Success, recordSent, BarTypes, TypeOK
  <2> QED BY <1>5, <1>9, <2>1 DEF Success, BarTypes, TypeOK
<1>6. CASE NoSuccess
  BY <1>6, <1>9 DEF NoSuccess, BarTypes, TypeOK
<1>7. CASE Fail
  <2>1. late' \subseteq Reading /\ unsure' \subseteq Monitors
    BY <1>2, <1>3, <1>7 DEF Fail, BarTypes, TypeOK
  <2> QED BY <1>7, <1>9, <2>1 DEF Fail, BarTypes, TypeOK
<1>8. CASE Serve
  BY <1>2, <1>3, <1>4, <1>8 DEF Serve, BarTypes, TypeOK
<1> QED BY <1>5, <1>6, <1>7, <1>8

(* A dispatch is recorded with its time and its monitor.                     *)
LEMMA DispatchTypes == ASSUME BarTypes, Dispatch PROVE BarTypes'
<1>1. /\ Head(batch) \in Reading
      /\ Tail(batch) \in Seq(Reading) /\ Len(Tail(batch)) = Len(batch) - 1
      /\ Len(batch) \in Nat
  BY HeadOfBatch DEF Dispatch
<1>2. [at |-> now, monitor |-> Head(batch).monitor] \in [at : 1 .. MaxTime, monitor : Monitors]
  BY <1>1 DEF Reading, BarTypes, TypeOK
<1>3. GlobalSendLimit \in Nat /\ MaxTime \in Nat
  BY BarHelperAssumption
<1> HIDE DEF Reading
<1>4. CASE stopping
  <2>1. Len(batch) <= GlobalSendLimit /\ batch' = Tail(batch) /\ sentAt = NotYet
    BY <1>4 DEF Dispatch, BarTypes, TypeOK
  <2>2. Len(batch') <= GlobalSendLimit /\ batch' \in Seq(Reading)
    BY <1>1, <1>3, <2>1
  <2> QED BY <1>4, <2>1, <2>2 DEF Dispatch, BarTypes, TypeOK, stateVars, serviceVars, NotYet
<1>5. CASE ~stopping
  <2>1. /\ sentAt' = now
        /\ dispatched' = Append(dispatched, [at |-> now, monitor |-> Head(batch).monitor])
        /\ batch # <<>>
        /\ UNCHANGED <<now, tick, worker, stopping, reporter, latest, lastSent, lastSendAt,
                       recentSends, batch, answer, shown, late, unsure>>
    BY <1>5 DEF Dispatch, stateVars, serviceVars
  <2>2. dispatched' \in Seq([at : 1 .. MaxTime, monitor : Monitors])
    BY <1>2, <2>1, AppendProperties DEF BarTypes
  <2>3. TypeOK'
    BY <1>3, <2>1 DEF BarTypes, TypeOK
  <2> QED BY <2>1, <2>2, <2>3 DEF BarTypes
<1> QED BY <1>4, <1>5

(* A batch is of Readings, and no longer than the budget allows.             *)
LEMMA DueTypes ==
    ASSUME BarTypes, Clock, Due
    PROVE  BarTypes'
<1>1. PICK c, n, chosen : DueBy(c, n, chosen)
  BY DueDoes
<1>2. /\ n \in Nat /\ c \in 0 .. Len(recentSends) /\ chosen \in [1 .. n -> Monitors]
      /\ Len(recentSends) \in Nat /\ GlobalSendLimit \in Nat /\ MaxTime \in Nat
      /\ Len(recentSends) - c + n <= GlobalSendLimit
      /\ tick \in 0 .. MaxTime
  BY <1>1, BarHelperAssumption DEF DueBy, Candidates, BarTypes, TypeOK
<1>3. ASSUME NEW i \in 1 .. n
      PROVE [keg |-> reporter[chosen[i]], monitor |-> chosen[i], amount |-> latest[chosen[i]]] \in Reading
  <2>1. chosen[i] \in Monitors /\ latest[chosen[i]] # None
    BY <1>1, <1>3 DEF DueBy, Candidates, Changed
  <2>2. latest[chosen[i]] \in Amounts /\ reporter[chosen[i]] \in Kegs
    BY <2>1 DEF BarTypes, TypeOK
  <2> QED BY <2>1, <2>2 DEF Reading
<1> HIDE DEF Reading
<1>4. batch' \in Seq(Reading) /\ Len(batch') = n
  BY <1>1, <1>2, <1>3 DEF DueBy
<1>5. lastSendAt' \in [Monitors -> 0 .. MaxTime]
  BY <1>1, <1>2 DEF DueBy, BarTypes, TypeOK
<1>6. recentSends' \in Seq(1 .. MaxTime) /\ Len(recentSends') <= GlobalSendLimit
  BY <1>1, <1>2 DEF DueBy
<1>7. Len(batch') <= GlobalSendLimit
  BY <1>2, <1>4
<1>8. sentAt' = NotYet /\ tick' = NotYet
  BY <1>1 DEF DueBy
<1>9. UNCHANGED <<now, worker, stopping, reporter, latest, lastSent, answer,
                  shown, late, dispatched, unsure>>
  BY <1>1 DEF DueBy
<1>10. TypeOK'
  <2>1. 0 \in 0 .. MaxTime
    BY <1>2
  <2> QED BY <2>1, <1>4, <1>5, <1>6, <1>7, <1>8, <1>9 DEF TypeOK, BarTypes, NotYet
<1> QED BY <1>9, <1>10 DEF BarTypes

(* The remaining steps keep the types.                                       *)
LEMMA OtherTypes ==
    ASSUME BarTypes,
           \/ Elapse \/ Cancel \/ WorkerReturns \/ Restart
           \/ \E r \in Reading : ServeLate(r)
           \/ UNCHANGED vars
    PROVE  BarTypes'
<1> USE DEF stateVars, sendVars, serviceVars, ghostVars
<1>1. CASE Elapse
  <2>1. PICK c : ElapseBy(c)
    BY <1>1, ElapseDoes
  <2>2. tick' \in 0 .. MaxTime /\ now' \in 1 .. MaxTime
    BY <2>1, BarHelperAssumption DEF ElapseBy, BarTypes, TypeOK
  <2>3. TypeOK'
    BY <1>1, <2>1, <2>2 DEF Elapse, TypeOK, BarTypes
  <2> QED BY <1>1, <2>1, <2>3 DEF Elapse, ElapseBy, BarTypes
<1>2. CASE Cancel \/ WorkerReturns \/ UNCHANGED vars
  BY <1>2 DEF Cancel, WorkerReturns, vars, BarTypes, TypeOK
<1>3. CASE Restart
  <2>1. sentAt # NotYet => Head(batch) \in Reading
    BY HeadOfBatch DEF BarTypes, TypeOK
  <2>2. sentAt # NotYet => Head(batch).monitor \in Monitors
    BY <2>1 DEF Reading
  <2> HIDE DEF Reading
  <2>4. recentSends' = <<>> /\ batch' = <<>> /\ Len(<<>>) = 0
    BY <1>3 DEF Restart
  <2>5. recentSends' \in Seq(1 .. MaxTime) /\ batch' \in Seq(Reading)
    BY <2>4
  <2>6. Len(recentSends') <= GlobalSendLimit /\ Len(batch') <= GlobalSendLimit
    BY <2>4, BarHelperAssumption
  <2>7. late' \subseteq Reading /\ unsure' \subseteq Monitors
    BY <1>3, <2>1, <2>2 DEF Restart, TypeOK, BarTypes
  <2>8. tick' \in 0 .. MaxTime /\ sentAt' \in 0 .. MaxTime /\ sentAt' = NotYet
        /\ lastSendAt' \in [Monitors -> 0 .. MaxTime]
    BY <1>3, BarHelperAssumption DEF Restart, NotYet
  <2>3. TypeOK'
    BY <1>3, <2>5, <2>6, <2>7, <2>8 DEF Restart, TypeOK, BarTypes
  <2> QED BY <1>3, <2>3 DEF Restart, BarTypes
<1>4. ASSUME NEW r \in Reading, ServeLate(r) PROVE BarTypes'
  <2>1. r.monitor \in Monitors /\ r.amount \in Amounts
    BY DEF Reading
  <2> QED BY <1>4, <2>1 DEF ServeLate, BarTypes, TypeOK
<1> QED BY <1>1, <1>2, <1>3, <1>4

(* Every step keeps the types.                                               *)
LEMMA NextBar ==
    ASSUME BarTypes, Clock, [Next]_vars
    PROVE  BarTypes'
BY ReportTypes, AnswerTypes, DispatchTypes, DueTypes, OtherTypes DEF Next, Worker

(***************************************************************************)
(* The clock, the stamps of the batch, and the busy time.                  *)
(***************************************************************************)

(* Products grow with their factors.                                         *)
LEMMA Times ==
    ASSUME NEW T \in Nat, NEW a \in Nat
    PROVE  /\ T * a \in Nat /\ T * (a + 1) = T * a + T /\ T * 0 = 0
           /\ \A b \in Nat : a <= b => T * a <= T * b
<1>1. T * a \in Nat /\ T * (a + 1) = T * a + T /\ T * 0 = 0
  OBVIOUS
<1>2. ASSUME NEW b \in Nat, a <= b PROVE T * a <= T * b
  <2>1. PICK d \in Nat : b = a + d
    <3>1. b - a \in Nat /\ b = a + (b - a)
      BY <1>2
    <3> QED BY <3>1
  <2>2. T * (a + d) = T * a + T * d /\ T * d \in Nat
    OBVIOUS
  <2> QED BY <1>1, <2>1, <2>2
<1> QED BY <1>1, <1>2

(* The numbers of the invariants are numbers.                                *)
LEMMA Numbers ==
    ASSUME BarTypes
    PROVE  /\ now \in Nat /\ now >= 1 /\ tick \in Nat /\ sentAt \in Nat /\ NotYet = 0
           /\ Len(recentSends) \in Nat /\ DOMAIN recentSends = 1 .. Len(recentSends)
           /\ Len(recentSends) <= GlobalSendLimit
           /\ \A p \in 1 .. Len(recentSends) : recentSends[p] \in Nat /\ recentSends[p] >= 1
           /\ \A m \in Monitors : lastSendAt[m] \in Nat
           /\ Len(dispatched) \in Nat /\ DOMAIN dispatched = 1 .. Len(dispatched)
           /\ \A i \in 1 .. Len(dispatched) :
                 dispatched[i].at \in Nat /\ dispatched[i].monitor \in Monitors
           /\ Len(batch) \in Nat /\ DOMAIN batch = 1 .. Len(batch)
           /\ \A i \in 1 .. Len(batch) : batch[i].monitor \in Monitors
           /\ (batch = <<>>) <=> (Len(batch) = 0)
           /\ (sentAt # NotYet => batch # <<>>)
<1>1. recentSends \in Seq(1 .. MaxTime) /\ batch \in Seq(Reading)
  BY DEF BarTypes, TypeOK
<1>2. /\ Len(batch) \in Nat /\ DOMAIN batch = 1 .. Len(batch)
      /\ \A i \in 1 .. Len(batch) : batch[i] \in Reading
      /\ (batch = <<>>) <=> (Len(batch) = 0)
  <2> HIDE DEF Reading
  <2> QED BY <1>1
<1>3. \A i \in 1 .. Len(batch) : batch[i].monitor \in Monitors
  BY <1>2 DEF Reading
<1>4. dispatched \in Seq([at : 1 .. MaxTime, monitor : Monitors])
  BY DEF BarTypes
<1>5. /\ Len(dispatched) \in Nat /\ DOMAIN dispatched = 1 .. Len(dispatched)
      /\ \A i \in 1 .. Len(dispatched) :
            dispatched[i].at \in Nat /\ dispatched[i].monitor \in Monitors
  <2> DEFINE S == [at : 1 .. MaxTime, monitor : Monitors]
  <2>1. \A r \in S : r.at \in Nat /\ r.monitor \in Monitors
    BY BarHelperAssumption
  <2>3. dispatched \in Seq(S)
    BY <1>4
  <2> HIDE DEF S
  <2>2. /\ Len(dispatched) \in Nat /\ DOMAIN dispatched = 1 .. Len(dispatched)
        /\ \A i \in 1 .. Len(dispatched) : dispatched[i] \in S
    BY <2>3
  <2> QED BY <2>1, <2>2
<1>6. /\ Len(recentSends) \in Nat /\ DOMAIN recentSends = 1 .. Len(recentSends)
      /\ \A p \in 1 .. Len(recentSends) : recentSends[p] \in Nat /\ recentSends[p] >= 1
  BY <1>1, BarHelperAssumption
<1>7. /\ now \in Nat /\ now >= 1 /\ tick \in Nat /\ sentAt \in Nat /\ NotYet = 0
      /\ \A m \in Monitors : lastSendAt[m] \in Nat
      /\ Len(recentSends) <= GlobalSendLimit
      /\ (sentAt # NotYet => batch # <<>>)
  BY BarHelperAssumption DEF BarTypes, TypeOK, NotYet
<1> QED BY <1>2, <1>3, <1>5, <1>6, <1>7

(* Nothing is stamped or in flight at the start.                             *)
LEMMA InitTimes == Init => Clock /\ Stamped /\ Busy
<1> SUFFICES ASSUME Init PROVE Clock /\ Stamped /\ Busy
  OBVIOUS
<1>1. /\ recentSends = <<>> /\ batch = <<>> /\ dispatched = <<>> /\ Len(<<>>) = 0
      /\ tick = NotYet /\ now = 1 /\ lastSendAt = [m \in Monitors |-> NotYet]
      /\ DOMAIN <<>> = {}
  BY DEF Init, InitClient
<1>2. Clock
  BY <1>1 DEF Clock, NotYet
<1>3. Stamped
  BY <1>1 DEF Stamped
<1>4. 0 \in 0 .. 0 /\ BusyFrom(0)
  BY <1>1 DEF BusyFrom
<1> QED BY <1>1, <1>2, <1>3, <1>4 DEF Busy

(* Stamps and dispatches are made now, and a tick is younger than every      *)
(* stamp it has not chosen.                                                  *)
LEMMA ClockStep == ASSUME BarTypes, Clock, [Next]_vars PROVE Clock'
<1>0. BarTypes'
  BY NextBar
<1>1. CASE Quiet
  BY <1>1 DEF Quiet, Clock
<1>2. CASE Leave
  BY <1>2 DEF Leave, Clock
<1>3. CASE Issue
  <2>1. \A i \in DOMAIN dispatched' : dispatched'[i].at <= now
    <3>1. [at |-> now, monitor |-> batch[1].monitor] \in [at : 1 .. MaxTime, monitor : Monitors]
      BY <1>3, Numbers DEF Issue, BarTypes, TypeOK
    <3>2. /\ Len(dispatched') = Len(dispatched) + 1
          /\ \A i \in 1 .. Len(dispatched) : dispatched'[i] = dispatched[i]
          /\ dispatched'[Len(dispatched) + 1] = [at |-> now, monitor |-> batch[1].monitor]
      BY <1>3, <3>1, AppendProperties DEF Issue, BarTypes
    <3>3. DOMAIN dispatched' = 1 .. Len(dispatched) + 1
      BY <1>0, <3>2 DEF BarTypes
    <3>4. \A i \in 1 .. Len(dispatched) : dispatched[i].at <= now
      BY Numbers DEF Clock
    <3>5. \A i \in 1 .. Len(dispatched) + 1 : i = Len(dispatched) + 1 \/ i \in 1 .. Len(dispatched)
      BY Numbers
    <3> QED BY <3>2, <3>3, <3>4, <3>5, Numbers
  <2> QED BY <1>3, <2>1 DEF Issue, Clock
<1>4. CASE \E c : ElapseBy(c)
  <2>1. PICK c : ElapseBy(c)
    BY <1>4
  <2>2. now' = now + 1 /\ now \in Nat /\ tick \in Nat /\ NotYet = 0
        /\ tick' = IF tick = NotYet THEN now' ELSE tick
    BY <2>1, Numbers DEF ElapseBy
  <2>3. \A i \in DOMAIN dispatched' : dispatched'[i].at <= now'
    <3> SUFFICES ASSUME NEW i \in DOMAIN dispatched' PROVE dispatched'[i].at <= now'
      OBVIOUS
    <3>3. DOMAIN dispatched' = 1 .. Len(dispatched')
      BY <1>0 DEF BarTypes
    <3>1. c \in 0 .. Len(dispatched) /\ i \in 1 .. Len(dispatched) - c
      BY <2>1, <3>3 DEF ElapseBy
    <3>4. i + c \in 1 .. Len(dispatched)
      BY <3>1, Numbers
    <3>2. i + c \in 1 .. Len(dispatched) /\ dispatched'[i] = dispatched[i + c]
      BY <2>1, <3>1, <3>4 DEF ElapseBy
    <3> QED BY <2>2, <3>2, Numbers DEF Clock
  <2>4. /\ tick' <= now'
        /\ \A p \in DOMAIN recentSends :
              /\ recentSends[p] <= now' /\ (tick' # NotYet => recentSends[p] <= tick')
        /\ \A m \in Monitors :
              lastSendAt[m] <= now' /\ (tick' # NotYet => lastSendAt[m] <= tick')
    BY <2>2, Numbers DEF Clock
  <2>5. recentSends' = recentSends /\ lastSendAt' = lastSendAt
    BY <2>1 DEF ElapseBy
  <2> QED BY <2>3, <2>4, <2>5 DEF Clock
<1>5. CASE \E c, n, chosen : DueBy(c, n, chosen)
  <2>1. PICK c, n, chosen : DueBy(c, n, chosen)
    BY <1>5
  <2> DEFINE R == Len(recentSends)
  <2>2. /\ c \in 0 .. R /\ n \in Nat /\ R \in Nat
        /\ tick # NotYet /\ tick \in Nat /\ now \in Nat /\ tick <= now
        /\ DOMAIN recentSends' = 1 .. R - c + n
        /\ \A p \in 1 .. R - c : recentSends'[p] = recentSends[p + c]
        /\ \A p \in 1 .. R - c + n : p > R - c => recentSends'[p] = tick
        /\ now' = now /\ tick' = NotYet /\ dispatched' = dispatched
    BY <2>1, Numbers DEF DueBy, Clock
  <2>3. ASSUME NEW p \in 1 .. R - c PROVE p + c \in 1 .. R
    BY <2>2
  <2>4. ASSUME NEW p \in 1 .. R - c + n
        PROVE /\ recentSends'[p] <= tick /\ recentSends'[p] \in Nat
              /\ p > R - c => recentSends'[p] = tick
    <3>1. CASE p > R - c
      BY <2>2, <3>1
    <3>2. CASE p \in 1 .. R - c
      BY <2>2, <2>3, <3>2, Numbers DEF Clock
    <3> QED BY <2>2, <3>1, <3>2
  <2>5. ASSUME NEW p \in 1 .. R - c + n, NEW q \in 1 .. R - c + n, p <= q
        PROVE  recentSends'[p] <= recentSends'[q]
    <3>1. CASE q > R - c
      BY <2>4, <3>1
    <3>2. CASE q <= R - c
      <4>1. p \in 1 .. R - c /\ q \in 1 .. R - c
        BY <2>2, <2>5, <3>2
      <4>2. p + c \in 1 .. R /\ q + c \in 1 .. R /\ p + c <= q + c
        BY <2>2, <2>5, <4>1
      <4>3. recentSends[p + c] <= recentSends[q + c]
        BY <4>2, Numbers DEF Clock
      <4> QED BY <2>2, <4>1, <4>3
    <3> QED BY <2>2, <3>1, <3>2
  <2>6. ASSUME NEW m \in Monitors PROVE lastSendAt'[m] <= now
    <3>1. lastSendAt'[m] = tick \/ lastSendAt'[m] = lastSendAt[m]
      BY <2>1 DEF DueBy
    <3> QED BY <2>2, <3>1 DEF Clock
  <2>7. ASSUME NEW p \in 1 .. R - c + n PROVE recentSends'[p] <= now
    BY <2>2, <2>4
  <2>8. tick' <= now'
    BY <2>2 DEF NotYet
  <2> HIDE DEF R
  <2> QED BY <2>2, <2>5, <2>6, <2>7, <2>8 DEF Clock
<1>6. CASE Clear
  <2>1. DOMAIN recentSends' = {} /\ DOMAIN dispatched' = {} /\ tick' = NotYet /\ now' = now
        /\ lastSendAt' = [m \in Monitors |-> NotYet]
    BY <1>6 DEF Clear
  <2> QED BY <2>1, Numbers DEF Clock, NotYet
<1> QED BY <1>1, <1>2, <1>3, <1>4, <1>5, <1>6, StepsAre

(* A batch is filled with the monitors stamped last, and emptied from its    *)
(* head.                                                                     *)
LEMMA StampedStep == ASSUME BarTypes, Clock, Stamped, [Next]_vars PROVE Stamped'
<1> DEFINE R == Len(recentSends)
           L == Len(batch)
<1>1. CASE Quiet
  BY <1>1 DEF Quiet, Stamped, LastStamp
<1>2. CASE Leave
  <2>1. /\ L \in Nat /\ L >= 1 /\ Len(batch') = L - 1 /\ DOMAIN batch' = 1 .. L - 1
        /\ \A i \in 1 .. L - 1 : batch'[i] = batch[i + 1]
        /\ DOMAIN batch = 1 .. L
    <3>1. batch # <<>> /\ batch' = Tail(batch)
      BY <1>2 DEF Leave
    <3>2. /\ L \in Nat /\ L >= 1 /\ Len(batch') = L - 1 /\ batch' \in Seq(Reading)
          /\ \A i \in 1 .. L - 1 : batch'[i] = batch[i + 1]
      BY <3>1, HeadOfBatch
    <3>3. DOMAIN batch' = 1 .. Len(batch')
      <4> HIDE DEF Reading
      <4> QED BY <3>2
    <3> QED BY <3>2, <3>3, Numbers
  <2>2. /\ recentSends' = recentSends /\ lastSendAt' = lastSendAt /\ R \in Nat
        /\ DOMAIN recentSends = 1 .. R
    BY <1>2, Numbers DEF Leave
  <2>3. L - 1 <= R /\ \A p \in 1 .. R : p > R - (L - 1) => recentSends[p] = LastStamp
    BY <2>1, <2>2 DEF Stamped
  <2>4. ASSUME NEW i \in 1 .. L - 1
        PROVE /\ lastSendAt[batch'[i].monitor] = LastStamp
              /\ \A j \in 1 .. L - 1 : i # j => batch'[i].monitor # batch'[j].monitor
    <3>1. i + 1 \in DOMAIN batch /\ batch'[i] = batch[i + 1]
      BY <2>1
    <3>2. ASSUME NEW j \in 1 .. L - 1, i # j PROVE batch'[i].monitor # batch'[j].monitor
      <4>1. j + 1 \in DOMAIN batch /\ batch'[j] = batch[j + 1] /\ i + 1 # j + 1
        BY <2>1, <3>2
      <4> QED BY <3>1, <4>1 DEF Stamped
    <3> QED BY <3>1, <3>2 DEF Stamped
  <2>5. LastStamp' = LastStamp
    BY <2>2 DEF LastStamp
  <2> HIDE DEF L
  <2> QED BY <2>1, <2>2, <2>3, <2>4, <2>5 DEF Stamped
<1>3. CASE Issue
  BY <1>3 DEF Issue, Stamped, LastStamp
<1>4. CASE \E c : ElapseBy(c)
  BY <1>4 DEF ElapseBy, Stamped, LastStamp
<1>5. CASE \E c, n, chosen : DueBy(c, n, chosen)
  <2>1. PICK c, n, chosen : DueBy(c, n, chosen)
    BY <1>5
  <2>2. /\ c \in 0 .. R /\ n \in Nat /\ R \in Nat
        /\ Len(recentSends') = R - c + n
        /\ DOMAIN recentSends' = 1 .. R - c + n
        /\ \A p \in 1 .. R - c + n : p > R - c => recentSends'[p] = tick
        /\ \A i, j \in 1 .. n : i # j => chosen[i] # chosen[j]
        /\ chosen \in [1 .. n -> Monitors]
        /\ lastSendAt' = [m \in Monitors |->
              IF \E i \in 1 .. n : chosen[i] = m THEN tick ELSE lastSendAt[m]]
    BY <2>1, Numbers DEF DueBy, Candidates
  <2>3. /\ Len(batch') = n /\ DOMAIN batch' = 1 .. n
        /\ \A i \in 1 .. n : batch'[i].monitor = chosen[i]
    BY <2>1, <2>2 DEF DueBy
  <2>4. n > 0 => LastStamp' = tick
    BY <2>2 DEF LastStamp
  <2>5. n <= R - c + n
    BY <2>2
  <2>6. ASSUME NEW p \in 1 .. R - c + n, p > R - c + n - n PROVE recentSends'[p] = LastStamp'
    <3>1. p > R - c /\ n > 0
      BY <2>2, <2>6
    <3> QED BY <2>2, <2>4, <3>1
  <2>7. ASSUME NEW i \in 1 .. n
        PROVE /\ lastSendAt'[batch'[i].monitor] = LastStamp'
              /\ \A j \in 1 .. n : i # j => batch'[i].monitor # batch'[j].monitor
    <3>1. n > 0
      BY <2>2
    <3>2. lastSendAt'[chosen[i]] = tick
      BY <2>2
    <3> QED BY <2>2, <2>3, <2>4, <3>1, <3>2
  <2> HIDE DEF R
  <2> QED BY <2>2, <2>3, <2>5, <2>6, <2>7 DEF Stamped
<1>6. CASE Clear
  <2>1. /\ recentSends' = <<>> /\ batch' = <<>> /\ Len(<<>>) = 0 /\ DOMAIN <<>> = {}
    BY <1>6 DEF Clear
  <2> QED BY <2>1 DEF Stamped
<1> QED BY <1>1, <1>2, <1>3, <1>4, <1>5, <1>6, StepsAre

(* From the first stamp of a busy time on only requests take time,           *)
(* RequestTimeout each. A flush whose tick waited prolongs it, for its       *)
(* first stamp is not pruned: the window is longer than what the requests    *)
(* after it can take.                                                        *)
LEMMA BusyStep == ASSUME BarTypes, Clock, Stamped, Busy, [Next]_vars PROVE Busy'
<1> DEFINE R == Len(recentSends)
           L == Len(batch)
           T == RequestTimeout
<1>0. PICK b \in 0 .. R : BusyFrom(b)
  BY DEF Busy
<1>a. /\ R \in Nat /\ L \in Nat /\ T \in Nat /\ b \in Nat /\ b <= R /\ NotYet = 0
      /\ now \in Nat /\ tick \in Nat /\ sentAt \in Nat
      /\ (batch = <<>>) <=> (L = 0)
      /\ (sentAt # NotYet => L > 0)
  BY <1>0, Numbers, BarHelperAssumption
<1>b. ASSUME b # R, Leave \/ Issue \/ \E c : ElapseBy(c) PROVE Busy'
  <2> DEFINE done == R - b - L
             begun == recentSends[b + 1] + T * done
  <2>1. /\ b + L <= R /\ done \in Nat
        /\ recentSends[b + 1] \in Nat /\ T * done \in Nat
        /\ T * (done + 1) = T * done + T
        /\ IF sentAt = NotYet THEN now <= begun
           ELSE sentAt <= begun /\ now <= sentAt + T
    <3>1. /\ b + L <= R
          /\ IF sentAt = NotYet THEN now <= begun
             ELSE sentAt <= begun /\ now <= sentAt + T
      BY <1>0, <1>b DEF BusyFrom
    <3>2. done \in Nat /\ b + 1 \in 1 .. R
      BY <1>a, <1>b, <3>1
    <3>3. recentSends[b + 1] \in Nat
      BY <3>2, Numbers
    <3> QED BY <1>a, <3>1, <3>2, <3>3, Times
  <2> HIDE DEF T
  <2>2. CASE Leave
    <3>1. /\ Len(batch') = L - 1 /\ L >= 1 /\ recentSends' = recentSends /\ now' = now
          /\ sentAt' = NotYet
      BY <2>2, HeadOfBatch DEF Leave
    <3>2. now <= recentSends[b + 1] + T * (R - b - (L - 1))
      <4>1. now <= begun + T
        BY <1>a, <2>1
      <4>2. R - b - (L - 1) = done + 1
        BY <1>a, <3>1
      <4> DEFINE more == R - b - (L - 1)
      <4>3. T * more = T * (done + 1)
        <5>1. more = done + 1
          BY <4>2
        <5> HIDE DEF more, done
        <5> QED BY <5>1
      <4> HIDE DEF done, more, T
      <4>4. now <= recentSends[b + 1] + T * more
        BY <1>a, <2>1, <4>1, <4>3
      <4> QED BY <4>4 DEF more
    <3>3. b + (L - 1) <= R
      BY <1>a, <2>1
    <3> HIDE DEF R, L
    <3>4. BusyFrom(b)'
      BY <1>b, <3>1, <3>2, <3>3 DEF BusyFrom, R, T
    <3> QED BY <3>1, <3>4 DEF Busy, R
  <2>3. CASE Issue
    <3>1. BusyFrom(b)'
      BY <1>a, <1>b, <2>1, <2>3 DEF Issue, BusyFrom, T
    <3> QED BY <2>3, <3>1 DEF Busy, Issue
  <2>4. CASE \E c : ElapseBy(c)
    <3>1. PICK c : ElapseBy(c)
      BY <2>4
    <3>2. CASE sentAt # NotYet
      <4>1. now' = now + 1 /\ now < sentAt + T /\ UNCHANGED <<recentSends, batch, sentAt>>
        BY <3>1, <3>2, <1>a DEF ElapseBy, Waiting, T
      <4>2. now' <= sentAt' + T
        BY <1>a, <4>1
      <4>3. BusyFrom(b)'
        BY <1>b, <2>1, <3>2, <4>1, <4>2 DEF BusyFrom, T
      <4> QED BY <4>1, <4>3 DEF Busy
    <3>3. CASE sentAt = NotYet
      <4>1. /\ batch = <<>> /\ tick = NotYet /\ tick' = now'
            /\ UNCHANGED <<recentSends, batch, sentAt>>
        BY <3>1, <3>3 DEF ElapseBy, Waiting
      <4>2. BusyFrom(R)'
        BY <4>1 DEF BusyFrom
      <4>3. R \in 0 .. R
        BY <1>a
      <4> QED BY <4>1, <4>2, <4>3 DEF Busy
    <3> QED BY <3>2, <3>3
  <2> QED BY <1>b, <2>2, <2>3, <2>4
<1>c. ASSUME b = R, Leave \/ Issue \/ \E c : ElapseBy(c) PROVE Busy'
  <2>1. batch = <<>> /\ tick \in {NotYet, now} /\ sentAt = NotYet
    BY <1>0, <1>a, <1>c DEF BusyFrom
  <2>2. R \in 0 .. R
    BY <1>a
  <2>3. CASE \E c : ElapseBy(c)
    <3>1. PICK c : ElapseBy(c)
      BY <2>3
    <3>2. batch' = <<>> /\ tick' \in {NotYet, now'} /\ UNCHANGED recentSends
      BY <2>1, <3>1 DEF ElapseBy, Waiting
    <3>3. BusyFrom(R)'
      BY <3>2 DEF BusyFrom
    <3> QED BY <2>2, <3>2, <3>3 DEF Busy
  <2>4. ~Leave /\ ~Issue
    BY <2>1 DEF Leave, Issue
  <2> QED BY <1>c, <2>3, <2>4
<1>1. CASE Quiet
  BY <1>1 DEF Quiet, Busy, BusyFrom
<1>5. CASE \E c, n, chosen : DueBy(c, n, chosen)
  <2>1. PICK c, n, chosen : DueBy(c, n, chosen)
    BY <1>5
  <2>2. /\ c \in 0 .. R /\ n \in Nat
        /\ tick # NotYet /\ tick <= now
        /\ sentAt = NotYet /\ sentAt' = NotYet /\ batch = <<>> /\ L = 0
        /\ Len(recentSends') = R - c + n
        /\ \A p \in 1 .. R - c : recentSends'[p] = recentSends[p + c]
        /\ \A p \in 1 .. R - c + n : p > R - c => recentSends'[p] = tick
        /\ \A p \in 1 .. R : p <= c <=> tick - recentSends[p] >= GlobalSendWindow
        /\ now' = now /\ tick' = NotYet
    BY <1>a, <2>1 DEF DueBy, Clock
  <2>3. Len(batch') = n /\ (n = 0 => batch' = <<>>)
    BY <2>1, <2>2 DEF DueBy
  <2>4. CASE b # R /\ c <= b
    <3>0. PICK b1 \in Nat : b1 = b - c
      BY <1>a, <2>2, <2>4
    <3>1. /\ b1 \in 0 .. R - c + n /\ b1 # R - c + n /\ b1 + n <= R - c + n
          /\ b1 + 1 \in 1 .. R - c /\ b1 + 1 + c = b + 1
          /\ R - c + n - b1 - n = R - b - L
      BY <1>a, <2>2, <2>4, <3>0
    <3>2. recentSends'[b1 + 1] = recentSends[b + 1]
      BY <2>2, <3>1
    <3>3. now <= recentSends[b + 1] + T * (R - b - L)
      BY <1>0, <2>2, <2>4 DEF BusyFrom
    <3> HIDE DEF R, L, T
    <3>5. T * (Len(recentSends') - b1 - Len(batch')) = T * (R - b - L)
      <4>1. Len(recentSends') - b1 - Len(batch') = R - b - L
        <5>1. Len(recentSends') = R - c + n /\ Len(batch') = n
          BY <2>2, <2>3
        <5>2. R - c + n - b1 - n = R - b - L /\ R \in Nat /\ c \in Nat /\ n \in Nat
          BY <1>a, <2>2, <3>1
        <5>3. Len(recentSends') - b1 - Len(batch') = R - c + n - b1 - n
          BY <1>a, <2>2, <5>1
        <5> QED BY <5>2, <5>3
      <4> QED BY <4>1, Zenon
    <3>6. now <= recentSends'[b1 + 1] + T * (Len(recentSends') - b1 - Len(batch'))
      BY <3>2, <3>3, <3>5, Zenon
    <3>4. BusyFrom(b1)'
      BY <2>2, <2>3, <3>1, <3>6 DEF BusyFrom, T
    <3> QED BY <2>2, <3>1, <3>4 DEF Busy
  <2>5. CASE ~(b # R /\ c <= b)
    <3>1. now = tick
      <4>1. CASE b = R
        BY <1>0, <2>2, <4>1 DEF BusyFrom
      <4>2. CASE b # R /\ c > b
        <5>1. b + 1 \in 1 .. R /\ b + 1 <= c /\ R - b \in Nat /\ R - b <= GlobalSendLimit
          <6>1. R <= GlobalSendLimit /\ GlobalSendLimit \in Nat
            BY Numbers, BarHelperAssumption
          <6> HIDE DEF R
          <6> QED BY <1>a, <4>2, <2>2, <6>1
        <5>2. tick - recentSends[b + 1] >= GlobalSendWindow /\ recentSends[b + 1] \in Nat
          BY <2>2, <5>1, Numbers
        <5>3. now <= recentSends[b + 1] + T * (R - b)
          <6>1. now <= recentSends[b + 1] + T * (R - b - L) /\ R - b - L = R - b
            BY <1>0, <1>a, <2>2, <4>2 DEF BusyFrom
          <6> QED BY <6>1
        <5>4. T * (R - b) <= T * GlobalSendLimit /\ T * (R - b) \in Nat
          BY <1>a, <5>1, Times, BarHelperAssumption
        <5>5. T * GlobalSendLimit < GlobalSendWindow /\ T * GlobalSendLimit \in Nat
              /\ GlobalSendWindow \in Nat
          BY PaceAssumption, BarHelperAssumption
        <5> DEFINE x == T * (R - b)
                   y == T * GlobalSendLimit
                   s == recentSends[b + 1]
        <5>6. x <= y /\ x \in Nat /\ y < GlobalSendWindow /\ y \in Nat /\ GlobalSendWindow \in Nat
              /\ now <= s + x /\ tick - s >= GlobalSendWindow /\ s \in Nat
          BY <5>2, <5>3, <5>4, <5>5
        <5> HIDE DEF x, y, s
        <5> QED BY <1>a, <2>2, <5>6
      <4> QED BY <1>a, <2>2, <2>5, <4>1, <4>2
    <3>0. PICK b1 \in Nat : b1 = R - c
      <4>1. R - c \in Nat
        BY <1>a, <2>2
      <4> QED BY <4>1
    <3>2. b1 \in 0 .. R - c + n /\ (b1 = R - c + n <=> n = 0)
          /\ b1 + n <= R - c + n /\ R - c + n - b1 - n = 0
      BY <1>a, <2>2, <3>0
    <3>3. CASE n = 0
      <4>1. BusyFrom(b1)'
        BY <2>2, <2>3, <3>2, <3>3 DEF BusyFrom
      <4> QED BY <2>2, <3>2, <4>1 DEF Busy
    <3>4. CASE n # 0
      <4>1. recentSends'[b1 + 1] = tick
        BY <1>a, <2>2, <3>2, <3>4
      <4>2. tick + T * 0 = now
        BY <1>a, <3>1
      <4> HIDE DEF R, L, T
      <4>3. BusyFrom(b1)'
        BY <2>2, <2>3, <3>2, <3>4, <4>1, <4>2, <1>a DEF BusyFrom, T
      <4> QED BY <2>2, <3>2, <4>3 DEF Busy
    <3> QED BY <3>3, <3>4
  <2> QED BY <2>4, <2>5
<1>6. CASE Clear
  <2>1. /\ recentSends' = <<>> /\ batch' = <<>> /\ tick' = NotYet /\ Len(<<>>) = 0
        /\ 0 \in 0 .. 0
    BY <1>6 DEF Clear
  <2>2. BusyFrom(0)'
    BY <2>1 DEF BusyFrom
  <2> QED BY <2>1, <2>2 DEF Busy
<1> QED BY <1>b, <1>c, <1>1, <1>5, <1>6, StepsAre

(* The client's state is of its types in every reachable state: no flush     *)
(* stamps or batches more than GlobalSendLimit allows, every volume to send  *)
(* names its keg, and a request in flight is the head of the batch.          *)
THEOREM BarHelperTypes == Spec => []TypeOK
<1>1. Init => BarInv
  BY InitBar, InitTimes DEF BarInv
<1>2. BarInv /\ [Next]_vars => BarInv'
  BY NextBar, ClockStep, StampedStep, BusyStep DEF BarInv
<1>3. BarInv => TypeOK
  BY DEF BarInv, BarTypes
<1> QED BY <1>1, <1>2, <1>3, PTL DEF Spec

(***************************************************************************)
(* The shared budget.                                                      *)
(***************************************************************************)

(* The constants are numbers, and PaceAssumption in the terms used here.     *)
LEMMA Constants ==
    /\ GlobalSendWindow \in Nat /\ MinSendInterval \in Nat /\ RequestTimeout \in Nat
    /\ GlobalSendLimit \in Nat /\ GlobalSendLimit >= 1
    /\ MaxDelay \in Nat /\ MaxDelay = RequestTimeout * (GlobalSendLimit - 1)
    /\ MinSendInterval + RequestTimeout <= GlobalSendWindow
<1>1. GlobalSendLimit - 1 \in Nat /\ RequestTimeout \in Nat
  BY BarHelperAssumption
<1>2. RequestTimeout * (GlobalSendLimit - 1) \in Nat
  BY <1>1, Times
<1>3. MaxDelay = RequestTimeout * (GlobalSendLimit - 1)
  BY <1>1 DEF MaxDelay
<1> QED BY <1>2, <1>3, BarHelperAssumption, PaceAssumption

(* When a request goes out, its stamp is the last one, and the time that     *)
(* passed since is that of the requests before it.                           *)
LEMMA IssueFacts ==
    ASSUME BarInv, Issue
    PROVE  LET R == Len(recentSends)
               L == Len(batch)
               N == Len(dispatched)
           IN /\ L \in 1 .. R /\ R \in 1 .. GlobalSendLimit /\ sentAt' # NotYet
              /\ recentSends[R - L + 1] = LastStamp /\ LastStamp \in Nat /\ LastStamp >= 1
              /\ LastStamp <= now
              /\ lastSendAt[batch[1].monitor] = LastStamp
              /\ \A j \in 2 .. L : batch[j].monitor # batch[1].monitor
              /\ \E b \in 0 .. R - L :
                    /\ recentSends[b + 1] \in Nat /\ recentSends[b + 1] <= LastStamp
                    /\ now <= recentSends[b + 1] + RequestTimeout * (R - b - L)
              /\ Len(dispatched') = N + 1
              /\ \A i \in 1 .. N : dispatched'[i] = dispatched[i]
              /\ dispatched'[N + 1] = [at |-> now, monitor |-> batch[1].monitor]
<1> DEFINE R == Len(recentSends)
           L == Len(batch)
           N == Len(dispatched)
<1>1. BarTypes /\ Clock /\ Stamped /\ Busy
  BY DEF BarInv
<1>2. /\ batch # <<>> /\ sentAt = NotYet /\ sentAt' = now
      /\ dispatched' = Append(dispatched, [at |-> now, monitor |-> batch[1].monitor])
  BY DEF Issue
<1>3. L \in 1 .. R /\ R \in 1 .. GlobalSendLimit /\ sentAt' # NotYet /\ R \in Nat /\ L \in Nat
  <2>1. L \in Nat /\ L # 0 /\ R \in Nat /\ R <= GlobalSendLimit
    BY <1>1, <1>2, Numbers
  <2>2. L <= R
    BY <1>1 DEF Stamped
  <2>3. now >= 1 /\ NotYet = 0 /\ now \in Nat
    BY <1>1, Numbers
  <2>4. L \in 1 .. R /\ R \in 1 .. GlobalSendLimit
    <3> HIDE DEF L, R
    <3> QED BY <2>1, <2>2, Constants
  <2> QED BY <1>2, <2>1, <2>3, <2>4
<1>4. /\ LastStamp \in Nat /\ LastStamp >= 1 /\ LastStamp <= now
  BY <1>1, <1>3, Numbers DEF Clock, LastStamp
<1>5. recentSends[R - L + 1] = LastStamp
  <2>1. R - L + 1 \in 1 .. R /\ R - L + 1 > R - L
    BY <1>3
  <2> QED BY <1>1, <2>1, Numbers DEF Stamped
<1>6. /\ lastSendAt[batch[1].monitor] = LastStamp
      /\ \A j \in 2 .. L : batch[j].monitor # batch[1].monitor
  <2>1. DOMAIN batch = 1 .. L /\ 1 \in 1 .. L
    BY <1>1, <1>3, Numbers
  <2>2. \A j \in 2 .. L : j \in 1 .. L /\ 1 # j
    BY <1>3
  <2> HIDE DEF L
  <2> QED BY <1>1, <2>1, <2>2 DEF Stamped
<1>7. \E b \in 0 .. R - L :
          /\ recentSends[b + 1] \in Nat /\ recentSends[b + 1] <= LastStamp
          /\ now <= recentSends[b + 1] + RequestTimeout * (R - b - L)
  <2>1. PICK b \in 0 .. R : BusyFrom(b)
    BY <1>1 DEF Busy
  <2>2. b # R /\ b + L <= R
    BY <1>2, <2>1 DEF BusyFrom
  <2>3. now <= recentSends[b + 1] + RequestTimeout * (R - b - L)
    BY <1>2, <2>1, <2>2 DEF BusyFrom
  <2>4. b \in 0 .. R - L /\ b + 1 \in 1 .. R /\ b + 1 <= R /\ R \in 1 .. R
    BY <1>3, <2>2
  <2>5. recentSends[b + 1] \in Nat /\ recentSends[b + 1] <= LastStamp
    <3>1. DOMAIN recentSends = 1 .. R
      BY <1>1, Numbers
    <3> HIDE DEF L
    <3> QED BY <1>1, <2>4, <3>1, Numbers DEF Clock, LastStamp
  <2> HIDE DEF L, R
  <2> QED BY <2>3, <2>4, <2>5
<1>8. /\ Len(dispatched') = N + 1
      /\ \A i \in 1 .. N : dispatched'[i] = dispatched[i]
      /\ dispatched'[N + 1] = [at |-> now, monitor |-> batch[1].monitor]
  <2>1. [at |-> now, monitor |-> batch[1].monitor] \in [at : 1 .. MaxTime, monitor : Monitors]
    <3>1. 1 \in 1 .. L
      BY <1>3
    <3>2. batch[1].monitor \in Monitors
      BY <1>1, <3>1, Numbers
    <3> QED BY <1>1, <3>2 DEF BarTypes, TypeOK
  <2> QED BY <1>1, <1>2, <2>1, AppendProperties DEF BarTypes
<1> QED BY <1>3, <1>4, <1>5, <1>6, <1>7, <1>8

(* Time that passes, and a flush, bring what is yet to go out no nearer.     *)
LEMMA SinceStep ==
    ASSUME BarInv, NEW t \in Int, Since(t),
           (\E c : ElapseBy(c)) \/ (\E c, n, chosen : DueBy(c, n, chosen))
    PROVE  Since(t)'
<1>1. BarTypes /\ Clock
  BY DEF BarInv
<1>2. /\ t <= now /\ (tick # NotYet => t <= tick) /\ (batch # <<>> => t <= LastStamp)
  BY DEF Since
<1>3. ASSUME NEW c, ElapseBy(c) PROVE Since(t)'
  <2>1. /\ now' = now + 1 /\ tick' = IF tick = NotYet THEN now' ELSE tick
        /\ UNCHANGED <<recentSends, batch>>
    BY <1>3 DEF ElapseBy
  <2>2. t <= now' /\ (tick' # NotYet => t <= tick')
    BY <1>1, <1>2, <2>1, Numbers
  <2> QED BY <1>2, <2>1, <2>2 DEF Since, LastStamp
<1>4. ASSUME NEW c, NEW n, NEW chosen, DueBy(c, n, chosen) PROVE Since(t)'
  <2> DEFINE R == Len(recentSends)
  <2>1. /\ now' = now /\ tick' = NotYet /\ tick # NotYet /\ n \in Nat /\ c \in 0 .. R
        /\ Len(recentSends') = R - c + n
        /\ \A p \in 1 .. R - c + n : p > R - c => recentSends'[p] = tick
        /\ R \in Nat
    BY <1>1, <1>4, Numbers DEF DueBy
  <2>2. batch' # <<>> => n # 0
    BY <1>4, <2>1 DEF DueBy
  <2>3. n # 0 => LastStamp' = tick
    BY <2>1 DEF LastStamp
  <2> QED BY <1>2, <2>1, <2>2, <2>3 DEF Since
<1> QED BY <1>3, <1>4

(* A dispatch is prompt, for its stamp is the last and what passed since is  *)
(* at most the other requests of the budget. A stamp that is pruned leaves   *)
(* the dispatch a window, less that delay, away from whatever is chosen      *)
(* next.                                                                     *)
LEMMA PromptStep ==
    ASSUME BarInv, ~stopping => Prompt, [Next]_vars
    PROVE  ~stopping' => Prompt'
<1> SUFFICES ASSUME ~stopping' PROVE Prompt'
  OBVIOUS
<1> DEFINE R == Len(recentSends)
           L == Len(batch)
           N == Len(dispatched)
<1>0. BarTypes /\ Clock /\ Stamped /\ BarTypes'
  BY NextBar DEF BarInv
<1>a. /\ R \in Nat /\ N \in Nat /\ L \in Nat /\ DOMAIN dispatched = 1 .. N
      /\ \A i \in 1 .. N : dispatched[i].at \in Nat
      /\ DOMAIN dispatched' = 1 .. Len(dispatched')
      /\ Pend \in Nat /\ now \in Nat /\ NotYet = 0
  <2>1. /\ R \in Nat /\ N \in Nat /\ L \in Nat /\ DOMAIN dispatched = 1 .. N
        /\ \A i \in 1 .. N : dispatched[i].at \in Nat
        /\ now \in Nat /\ NotYet = 0
        /\ (sentAt # NotYet => L # 0)
    BY <1>0, Numbers
  <2>2. DOMAIN dispatched' = 1 .. Len(dispatched')
    BY <1>0 DEF BarTypes
  <2>3. Pend \in Nat
    BY <2>1 DEF Pend
  <2> QED BY <2>1, <2>2, <2>3
<1>b. ASSUME \A i \in DOMAIN dispatched' : \A a : a = dispatched'[i].at => OnTime(i, a)'
      PROVE Prompt'
  BY <1>b DEF Prompt, OnTime
<1>1. CASE Quiet /\ (stopping' = stopping \/ stopping')
  BY <1>1 DEF Quiet, Prompt, OnTime, Place, Pend, Since, LastStamp
<1>2. CASE Leave /\ stopping' = stopping
  <2>1. /\ batch # <<>> /\ sentAt # NotYet /\ sentAt' = NotYet
        /\ UNCHANGED <<now, tick, recentSends, dispatched>> /\ Prompt
    BY <1>2 DEF Leave
  <2>2. Len(batch') = L - 1
    BY <1>0, <1>2, <2>1, HeadOfBatch DEF Leave
  <2>3. Pend' = Pend
    BY <1>a, <2>1, <2>2 DEF Pend
  <2>4. LastStamp' = LastStamp
    BY <2>1 DEF LastStamp
  <2>5. ASSUME NEW i PROVE Place(i)' = Place(i)
    BY <2>1, <2>3 DEF Place
  <2>6. ASSUME NEW t, Since(t) PROVE Since(t)'
    BY <2>1, <2>4, <2>6 DEF Since
  <2>7. ASSUME NEW i \in DOMAIN dispatched, NEW a, a = dispatched[i].at PROVE OnTime(i, a)'
    BY <2>1, <2>5, <2>6, <2>7 DEF Prompt, OnTime
  <2> QED BY <1>b, <2>1, <2>7
<1>3. CASE Issue /\ ~stopping
  <2>1. /\ L \in 1 .. R /\ R \in 1 .. GlobalSendLimit /\ sentAt' # NotYet
        /\ recentSends[R - L + 1] = LastStamp /\ LastStamp \in Nat
        /\ Len(dispatched') = N + 1
        /\ \A i \in 1 .. N : dispatched'[i] = dispatched[i]
        /\ dispatched'[N + 1].at = now
    <3>1. dispatched'[N + 1] = [at |-> now, monitor |-> batch[1].monitor]
      BY <1>3, IssueFacts
    <3> QED BY <1>3, <3>1, IssueFacts
  <2>2. /\ sentAt = NotYet /\ UNCHANGED <<now, tick, recentSends, batch>> /\ Prompt
        /\ LastStamp' = LastStamp
    BY <1>3 DEF Issue, LastStamp
  <2>3. ASSUME NEW i \in Int PROVE Place(i)' = Place(i)
    <3>1. Pend = L /\ Pend' = L - 1
      BY <2>1, <2>2, <1>a DEF Pend
    <3> QED BY <1>a, <2>1, <2>2, <3>1 DEF Place
  <2>4. ASSUME NEW t, Since(t) PROVE Since(t)'
    BY <2>2, <2>4 DEF Since
  <2>5. ASSUME NEW i \in 1 .. N, NEW a, a = dispatched'[i].at PROVE OnTime(i, a)'
    <3>1. OnTime(i, a)
      BY <1>a, <2>1, <2>2, <2>5 DEF Prompt
    <3>2. Place(i)' = Place(i)
      BY <2>3
    <3> QED BY <2>2, <2>4, <3>1, <3>2 DEF OnTime
  <2>6. Place(N + 1) = R - L + 1 /\ R - L + 1 >= 1
    <3>1. Pend = L
      BY <2>2 DEF Pend
    <3>2. Place(N + 1) = R - N - L + (N + 1)
      BY <3>1 DEF Place
    <3> HIDE DEF R, L, N
    <3> QED BY <1>a, <2>1, <3>2
  <2>7. now <= LastStamp + MaxDelay
    <3>1. PICK b \in 0 .. R - L :
              /\ recentSends[b + 1] \in Nat /\ recentSends[b + 1] <= LastStamp
              /\ now <= recentSends[b + 1] + RequestTimeout * (R - b - L)
      BY <1>3, IssueFacts
    <3>2. R - b - L \in Nat /\ GlobalSendLimit - 1 \in Nat /\ R - b - L <= GlobalSendLimit - 1
      BY <1>a, <2>1, Constants
    <3>3. RequestTimeout * (R - b - L) <= MaxDelay /\ RequestTimeout * (R - b - L) \in Nat
      BY <3>2, Constants, Times
    <3> DEFINE x == RequestTimeout * (R - b - L)
               s == recentSends[b + 1]
    <3>4. x \in Nat /\ x <= MaxDelay /\ s \in Nat /\ s <= LastStamp /\ now <= s + x
      BY <3>1, <3>3
    <3> HIDE DEF x, s
    <3> QED BY <1>a, <2>1, <3>4, Constants
  <2>8. \A i \in DOMAIN dispatched' : i \in 1 .. N \/ i = N + 1
    BY <1>a, <2>1
  <2>9. ASSUME NEW i, i = N + 1, NEW a, a = dispatched'[i].at PROVE OnTime(i, a)'
    <3>1. i \in Int /\ Place(i) = R - L + 1 /\ a = now
      BY <1>a, <2>1, <2>6, <2>9
    <3>2. Place(i)' = R - L + 1
      BY <2>3, <3>1
    <3> HIDE DEF R, L, N
    <3>3. a <= recentSends[R - L + 1] + MaxDelay /\ R - L + 1 >= 1 /\ recentSends' = recentSends
      BY <2>1, <2>2, <2>6, <2>7, <3>1
    <3>4. Place(i)' >= 1 /\ a <= recentSends'[Place(i)'] + MaxDelay
      BY <3>2, <3>3
    <3> QED BY <3>4 DEF OnTime
  <2> QED BY <1>b, <2>5, <2>8, <2>9
<1>4. ASSUME NEW c, ElapseBy(c) PROVE Prompt'
  <2>1. /\ c \in 0 .. N /\ Len(dispatched') = N - c
        /\ \A i \in 1 .. N - c : dispatched'[i] = dispatched[i + c]
        /\ UNCHANGED <<recentSends, batch, sentAt>> /\ Prompt
    BY <1>4 DEF ElapseBy
  <2> SUFFICES ASSUME NEW i \in 1 .. N - c, NEW a, a = dispatched'[i].at
               PROVE OnTime(i, a)'
    BY <1>a, <1>b, <2>1
  <2>2. i + c \in 1 .. N /\ a = dispatched[i + c].at
    <3>1. i + c \in 1 .. N
      BY <1>a, <2>1
    <3>2. dispatched'[i] = dispatched[i + c]
      BY <2>1
    <3> QED BY <3>1, <3>2
  <2>3. Place(i)' = Place(i + c)
    <3>1. Pend' = Pend
      BY <2>1 DEF Pend
    <3> QED BY <1>a, <2>1, <3>1 DEF Place
  <2>4. OnTime(i + c, a)
    BY <1>a, <2>1, <2>2 DEF Prompt
  <2>5. a + (GlobalSendWindow - MaxDelay) \in Int
    BY <1>a, <2>2, Constants
  <2>6. ASSUME NEW t \in Int, Since(t) PROVE Since(t)'
    BY <1>4, <2>6, SinceStep
  <2> QED BY <2>1, <2>3, <2>4, <2>5, <2>6 DEF OnTime
<1>5. ASSUME NEW c, NEW n, NEW chosen, DueBy(c, n, chosen) PROVE Prompt'
  <2>1. /\ c \in 0 .. R /\ n \in Nat /\ batch = <<>> /\ sentAt = NotYet /\ sentAt' = NotYet
        /\ tick # NotYet /\ tick \in Nat /\ tick <= now
        /\ Len(recentSends') = R - c + n
        /\ \A p \in 1 .. R : p <= c <=> tick - recentSends[p] >= GlobalSendWindow
        /\ \A p \in 1 .. R - c : recentSends'[p] = recentSends[p + c]
        /\ \A p \in 1 .. R - c + n : p > R - c => recentSends'[p] = tick
        /\ UNCHANGED <<now, dispatched, stopping>> /\ Prompt
    BY <1>0, <1>5, Numbers DEF DueBy, Clock
  <2>2. Len(batch') = n
    BY <1>5, <2>1 DEF DueBy
  <2> SUFFICES ASSUME NEW i \in 1 .. N, NEW a, a = dispatched[i].at
               PROVE OnTime(i, a)'
    BY <1>a, <1>b, <2>1
  <2>3. PICK P : /\ P = Place(i) /\ P \in Int /\ P <= R
                 /\ Place(i)' = P - c
    <3>1. Pend = 0 /\ Pend' = n
      BY <2>1, <2>2 DEF Pend
    <3>2. Place(i) = R - N - 0 + i
      BY <3>1 DEF Place
    <3>3. Place(i)' = R - c + n - N - n + i
      BY <2>1, <3>1 DEF Place
    <3> HIDE DEF R, N
    <3> QED BY <1>a, <2>1, <3>2, <3>3
  <2>4. PICK t \in Int : t = a + (GlobalSendWindow - MaxDelay)
    BY <1>a, Constants
  <2>5. a \in Nat /\ IF P >= 1 THEN a <= recentSends[P] + MaxDelay ELSE Since(t)
    BY <1>a, <2>1, <2>3, <2>4 DEF Prompt, OnTime
  <2>6. ASSUME Since(t) PROVE Since(t)'
    BY <1>5, <2>4, <2>6, SinceStep
  <2>7. CASE P < 1
    <3>1. ~(P - c >= 1) /\ ~(P >= 1)
      BY <2>1, <2>3, <2>7
    <3> QED BY <2>3, <2>4, <2>5, <2>6, <3>1 DEF OnTime
  <2>8. CASE P >= 1 /\ P > c
    <3>1. P - c \in 1 .. R - c /\ P - c + c = P /\ P - c >= 1
      BY <1>a, <2>1, <2>3, <2>8
    <3>2. recentSends'[P - c] = recentSends[P]
      BY <2>1, <3>1
    <3> QED BY <2>3, <2>5, <2>8, <3>1, <3>2 DEF OnTime
  <2>9. CASE P >= 1 /\ P <= c
    <3>1. P \in 1 .. R
      BY <1>a, <2>3, <2>9
    <3>2. tick - recentSends[P] >= GlobalSendWindow /\ recentSends[P] \in Nat
      BY <1>0, <2>1, <2>9, <3>1, Numbers
    <3>3. t <= tick
      <4> DEFINE s == recentSends[P]
                 w == GlobalSendWindow - MaxDelay
      <4>1. /\ s \in Nat /\ a <= s + MaxDelay /\ tick - s >= GlobalSendWindow /\ t = a + w
            /\ w \in Int /\ w + MaxDelay = GlobalSendWindow /\ MaxDelay \in Nat
            /\ GlobalSendWindow \in Nat
        BY <2>4, <2>5, <2>9, <3>2, Constants
      <4> HIDE DEF s, w
      <4> QED BY <2>1, <2>5, <4>1
    <3>4. Since(t)'
      <4>1. batch' # <<>> => LastStamp' = tick
        <5>1. batch' # <<>> => n # 0
          BY <1>5, <2>1 DEF DueBy
        <5>2. n # 0 => LastStamp' = tick
          BY <1>a, <2>1 DEF LastStamp
        <5> QED BY <5>1, <5>2
      <4>2. tick' = NotYet
        BY <1>5 DEF DueBy
      <4>3. t <= now'
        BY <1>a, <2>1, <2>4, <3>3
      <4> QED BY <3>3, <4>1, <4>2, <4>3 DEF Since
    <3>5. ~(P - c >= 1)
      BY <2>1, <2>3, <2>9
    <3> QED BY <2>3, <2>4, <3>4, <3>5 DEF OnTime
  <2> QED BY <2>1, <2>3, <2>7, <2>8, <2>9
<1>6. CASE Clear
  BY <1>6 DEF Clear, Prompt
<1> QED BY <1>0, <1>1, <1>2, <1>3, <1>4, <1>5, <1>6, StepsAre

(* The request GlobalSendLimit before a new one has lost its stamp, so the   *)
(* new one is a window less MaxDelay away.                                   *)
LEMMA BudgetStep ==
    ASSUME BarInv, SharedBudget, ~stopping => Prompt, [Next]_vars
    PROVE  SharedBudget'
<1> DEFINE N == Len(dispatched)
<1>0. BarTypes /\ Clock /\ BarTypes'
  BY NextBar DEF BarInv
<1>a. /\ N \in Nat /\ DOMAIN dispatched = 1 .. N
      /\ \A i \in 1 .. N : dispatched[i].at \in Nat
      /\ DOMAIN dispatched' = 1 .. Len(dispatched')
  BY <1>0, Numbers DEF BarTypes
<1>1. CASE UNCHANGED dispatched
  BY <1>1 DEF SharedBudget
<1>2. CASE Issue /\ ~stopping
  <2> DEFINE R == Len(recentSends)
             L == Len(batch)
  <2>1. /\ L \in 1 .. R /\ R \in 1 .. GlobalSendLimit
        /\ Len(dispatched') = N + 1
        /\ \A i \in 1 .. N : dispatched'[i] = dispatched[i]
        /\ dispatched'[N + 1].at = now
    <3>1. dispatched'[N + 1] = [at |-> now, monitor |-> batch[1].monitor]
      BY <1>2, IssueFacts
    <3> QED BY <1>2, <3>1, IssueFacts
  <2> SUFFICES ASSUME NEW i \in 1 .. N + 1, NEW j \in 1 .. N + 1, j = i + GlobalSendLimit
               PROVE dispatched'[j].at - dispatched'[i].at >= GlobalSendWindow - MaxDelay
    BY <1>a, <2>1 DEF SharedBudget
  <2>2. i \in 1 .. N
    BY <1>a, Constants
  <2>3. CASE j # N + 1
    <3>1. j \in 1 .. N
      BY <1>a, <2>3
    <3> QED BY <1>a, <2>1, <2>2, <3>1 DEF SharedBudget
  <2>4. CASE j = N + 1
    <3>1. Pend = L
      BY <1>2 DEF Issue, Pend
    <3>2. Place(i) = R - N - L + i
      BY <3>1 DEF Place
    <3>3. R \in Nat /\ L \in Nat
      BY <1>0, Numbers
    <3>4. ~(Place(i) >= 1)
      <4> HIDE DEF R, L, N
      <4> QED BY <1>a, <2>1, <2>4, <3>2, <3>3, Constants
    <3>5. Since(dispatched[i].at + (GlobalSendWindow - MaxDelay))
      BY <1>2, <1>a, <2>2, <3>4 DEF Prompt, OnTime
    <3>6. dispatched[i].at + (GlobalSendWindow - MaxDelay) <= now
      BY <3>5 DEF Since
    <3>7. dispatched[i].at \in Nat /\ now \in Nat
      BY <1>0, <2>2, Numbers
    <3>8. now - dispatched[i].at >= GlobalSendWindow - MaxDelay
      BY <3>6, <3>7, Constants
    <3> QED BY <2>1, <2>2, <2>4, <3>8
  <2> QED BY <2>3, <2>4
<1>3. ASSUME NEW c, ElapseBy(c) PROVE SharedBudget'
  <2>1. /\ c \in 0 .. N /\ Len(dispatched') = N - c
        /\ \A i \in 1 .. N - c : dispatched'[i] = dispatched[i + c]
    BY <1>3 DEF ElapseBy
  <2> SUFFICES ASSUME NEW i \in 1 .. N - c, NEW j \in 1 .. N - c, j = i + GlobalSendLimit
               PROVE dispatched'[j].at - dispatched'[i].at >= GlobalSendWindow - MaxDelay
    BY <1>a, <2>1 DEF SharedBudget
  <2>2. i + c \in 1 .. N /\ j + c \in 1 .. N /\ j + c = (i + c) + GlobalSendLimit
    BY <1>a, <2>1, Constants
  <2> QED BY <1>a, <2>1, <2>2 DEF SharedBudget
<1>4. CASE Clear
  BY <1>4 DEF Clear, SharedBudget
<1>5. \/ UNCHANGED dispatched \/ (Issue /\ ~stopping) \/ (\E c : ElapseBy(c)) \/ Clear
  BY <1>0, StepsAre DEF Quiet, Leave, DueBy
<1> QED BY <1>1, <1>2, <1>3, <1>4, <1>5

(* BarHelper never gets more than GlobalSendLimit requests in a window less  *)
(* MaxDelay, however slow its answers and whenever the ticks are taken.      *)
THEOREM BudgetShared == Spec => []SharedBudget
<1>1. Init => BarInv /\ SharedBudget /\ (~stopping => Prompt)
  BY InitBar, InitTimes DEF BarInv, Init, SharedBudget, Prompt
<1>2. BudgetInv /\ [Next]_vars => BudgetInv'
  BY NextBar, ClockStep, StampedStep, BusyStep, PromptStep, BudgetStep DEF BudgetInv, BarInv
<1> QED BY <1>1, <1>2, PTL DEF Spec, BudgetInv

(***************************************************************************)
(* The spacing of one monitor's requests.                                  *)
(***************************************************************************)

(* The next request of a monitor is stamped an interval after the last one   *)
(* went out: that one went out by its stamp, or before the tick chosen       *)
(* from, or it is the second of its batch and its stamp, pruned, was a       *)
(* window ago.                                                               *)
LEMMA SpacedStep ==
    ASSUME GlobalSendLimit <= 2, BarInv, ~stopping => Spaced, [Next]_vars
    PROVE  ~stopping' => Spaced'
<1> SUFFICES ASSUME ~stopping' PROVE Spaced'
  OBVIOUS
<1> DEFINE R == Len(recentSends)
           L == Len(batch)
           N == Len(dispatched)
<1>0. BarTypes /\ Clock /\ Stamped /\ BarTypes'
  BY NextBar DEF BarInv
<1>a. /\ R \in Nat /\ N \in Nat /\ L \in Nat /\ DOMAIN dispatched = 1 .. N
      /\ \A i \in 1 .. N : dispatched[i].at \in Nat /\ dispatched[i].monitor \in Monitors
      /\ DOMAIN dispatched' = 1 .. Len(dispatched')
      /\ now \in Nat /\ NotYet = 0 /\ DOMAIN batch = 1 .. L
      /\ \A m \in Monitors : lastSendAt[m] \in Nat
      /\ R <= GlobalSendLimit
  BY <1>0, Numbers DEF BarTypes
<1>b. ASSUME \A i \in DOMAIN dispatched' : \A m, a :
                m = dispatched'[i].monitor /\ a = dispatched'[i].at => Apart(m, a)'
      PROVE Spaced'
  BY <1>b DEF Spaced, Apart
<1>1. CASE Quiet /\ (stopping' = stopping \/ stopping')
  BY <1>1 DEF Quiet, Spaced, Apart, Pending, Since, LastStamp
<1>2. CASE Leave /\ stopping' = stopping
  <2>1. /\ batch # <<>> /\ sentAt # NotYet /\ sentAt' = NotYet /\ batch' = Tail(batch)
        /\ UNCHANGED <<now, tick, recentSends, dispatched, lastSendAt>> /\ Spaced
    BY <1>2 DEF Leave
  <2>2. /\ Len(batch') = L - 1 /\ L >= 1 /\ batch' \in Seq(Reading)
        /\ \A j \in 1 .. L - 1 : batch'[j] = batch[j + 1]
    BY <1>0, <2>1, HeadOfBatch
  <2>3. DOMAIN batch' = 1 .. L - 1
    <3> HIDE DEF Reading
    <3> QED BY <2>2
  <2>4. LastStamp' = LastStamp
    BY <2>1 DEF LastStamp
  <2>5. ASSUME NEW j \in Pending' PROVE j + 1 \in Pending /\ batch'[j] = batch[j + 1]
    <3>1. j \in 1 .. L - 1
      BY <2>3 DEF Pending
    <3>2. j + 1 \in 1 .. L /\ j + 1 > 1
      BY <1>a, <3>1
    <3> QED BY <1>a, <2>2, <3>1, <3>2 DEF Pending
  <2>6. ASSUME NEW t, Since(t) PROVE Since(t)'
    BY <2>1, <2>4, <2>6 DEF Since
  <2>7. ASSUME NEW m, NEW a, Apart(m, a) PROVE Apart(m, a)'
    BY <2>1, <2>4, <2>5, <2>6, <2>7 DEF Apart
  <2> QED BY <1>b, <2>1, <2>7 DEF Spaced
<1>3. CASE Issue /\ ~stopping
  <2>1. /\ L \in 1 .. R /\ R \in 1 .. GlobalSendLimit /\ sentAt' # NotYet
        /\ LastStamp \in Nat /\ LastStamp >= 1
        /\ lastSendAt[batch[1].monitor] = LastStamp
        /\ \A j \in 2 .. L : batch[j].monitor # batch[1].monitor
        /\ Len(dispatched') = N + 1
        /\ \A i \in 1 .. N : dispatched'[i] = dispatched[i]
        /\ dispatched'[N + 1] = [at |-> now, monitor |-> batch[1].monitor]
    BY <1>3, IssueFacts
  <2>2. /\ sentAt = NotYet /\ UNCHANGED <<now, tick, recentSends, batch, lastSendAt>> /\ Spaced
        /\ LastStamp' = LastStamp
    BY <1>3 DEF Issue, LastStamp
  <2>3. Pending' \subseteq Pending /\ \A j \in Pending' : j \in 2 .. L
    BY <1>a, <2>1, <2>2 DEF Pending
  <2>4. ASSUME NEW t, Since(t) PROVE Since(t)'
    BY <2>2, <2>4 DEF Since
  <2>5. ASSUME NEW m, NEW a, Apart(m, a) PROVE Apart(m, a)'
    BY <2>2, <2>3, <2>4, <2>5 DEF Apart
  <2>6. ASSUME NEW m, NEW a, m = batch[1].monitor, a = now PROVE Apart(m, a)'
    <3>1. lastSendAt'[m] # NotYet
      BY <1>a, <2>1, <2>2, <2>6
    <3>2. \A j \in Pending' : batch'[j].monitor # m
      BY <2>1, <2>2, <2>3, <2>6
    <3>3. \/ a <= lastSendAt'[m]
          \/ Len(recentSends') = 2 /\ a <= recentSends'[1] + RequestTimeout
      <4>1. PICK b \in 0 .. R - L :
              /\ recentSends[b + 1] \in Nat /\ recentSends[b + 1] <= LastStamp
              /\ now <= recentSends[b + 1] + RequestTimeout * (R - b - L)
        BY <1>3, IssueFacts
      <4>2. \/ R - b - L = 0
            \/ R - b - L = 1 /\ b = 0 /\ R = 2
        <5> HIDE DEF R, L
        <5>1. R <= 2 /\ L >= 1 /\ L <= R /\ b \in Nat /\ b <= R - L
          BY <1>a, <2>1, Constants
        <5> QED BY <1>a, <5>1
      <4>3. CASE R - b - L = 0
        <5>1. RequestTimeout * (R - b - L) = 0
          BY <4>3, Constants, Times
        <5>2. now <= recentSends[b + 1]
          BY <4>1, <5>1
        <5>3. now <= LastStamp
          BY <1>a, <2>1, <4>1, <5>2
        <5> QED BY <2>1, <2>2, <2>6, <5>3
      <4>4. CASE R - b - L = 1 /\ b = 0 /\ R = 2
        <5>1. RequestTimeout * (R - b - L) = RequestTimeout
          BY <4>4, Constants
        <5>2. now <= recentSends[1] + RequestTimeout
          BY <4>1, <4>4, <5>1
        <5> QED BY <2>2, <2>6, <4>4, <5>2
      <4> QED BY <4>2, <4>3, <4>4
    <3> QED BY <3>1, <3>2, <3>3 DEF Apart
  <2>7. \A i \in DOMAIN dispatched' : i \in 1 .. N \/ i = N + 1
    BY <1>a, <2>1
  <2>8. ASSUME NEW i \in 1 .. N, NEW m, NEW a, m = dispatched'[i].monitor, a = dispatched'[i].at
        PROVE Apart(m, a)'
    <3>1. Apart(m, a)
      BY <1>a, <2>1, <2>2, <2>8 DEF Spaced
    <3> QED BY <2>5, <3>1
  <2> HIDE DEF N
  <2>9. dispatched'[N + 1].monitor = batch[1].monitor /\ dispatched'[N + 1].at = now
    BY <2>1
  <2> QED BY <1>b, <2>6, <2>7, <2>8, <2>9
<1>4. ASSUME NEW c, ElapseBy(c) PROVE Spaced'
  <2>1. /\ c \in 0 .. N /\ Len(dispatched') = N - c
        /\ \A i \in 1 .. N - c : dispatched'[i] = dispatched[i + c]
        /\ UNCHANGED <<recentSends, batch, sentAt, lastSendAt>> /\ Spaced
        /\ LastStamp' = LastStamp /\ Pending' = Pending
    BY <1>4 DEF ElapseBy, LastStamp, Pending
  <2> SUFFICES ASSUME NEW i \in 1 .. N - c, NEW m, NEW a,
                      m = dispatched'[i].monitor, a = dispatched'[i].at
               PROVE Apart(m, a)'
    BY <1>a, <1>b, <2>1
  <2>2. i + c \in 1 .. N /\ a = dispatched[i + c].at /\ m = dispatched[i + c].monitor
    BY <1>a, <2>1
  <2>3. Apart(m, a)
    BY <1>a, <2>1, <2>2 DEF Spaced
  <2>4. a + MinSendInterval \in Int
    BY <1>a, <2>2, Constants
  <2>5. ASSUME NEW t \in Int, Since(t) PROVE Since(t)'
    BY <1>4, <2>5, SinceStep
  <2> QED BY <2>1, <2>3, <2>4, <2>5 DEF Apart
<1>5. ASSUME NEW c, NEW n, NEW chosen, DueBy(c, n, chosen) PROVE Spaced'
  <2>1. /\ c \in 0 .. R /\ n \in Nat /\ batch = <<>> /\ sentAt = NotYet /\ sentAt' = NotYet
        /\ tick # NotYet /\ tick \in Nat /\ tick <= now /\ tick' = NotYet
        /\ Len(recentSends') = R - c + n /\ R - c + n <= GlobalSendLimit
        /\ \A p \in 1 .. R : p <= c <=> tick - recentSends[p] >= GlobalSendWindow
        /\ \A p \in 1 .. R - c : recentSends'[p] = recentSends[p + c]
        /\ \A p \in 1 .. R - c + n : p > R - c => recentSends'[p] = tick
        /\ UNCHANGED <<now, dispatched, stopping>> /\ Spaced
        /\ chosen \in [1 .. n -> Candidates(tick)]
        /\ lastSendAt' = [m \in Monitors |->
              IF \E i \in 1 .. n : chosen[i] = m THEN tick ELSE lastSendAt[m]]
    BY <1>0, <1>5, Numbers DEF DueBy, Clock
  <2>2. DOMAIN batch' = 1 .. n /\ \A j \in 1 .. n : batch'[j].monitor = chosen[j]
    BY <1>5, <2>1 DEF DueBy
  <2>3. n # 0 => LastStamp' = tick
    BY <1>a, <2>1 DEF LastStamp
  <2>4. batch' # <<>> => n # 0
    BY <1>5, <2>1 DEF DueBy
  <2> SUFFICES ASSUME NEW i \in 1 .. N, NEW m, NEW a,
                      m = dispatched[i].monitor, a = dispatched[i].at
               PROVE Apart(m, a)'
    BY <1>a, <1>b, <2>1
  <2>5. Apart(m, a) /\ a \in Nat /\ m \in Monitors /\ lastSendAt[m] \in Nat
    BY <1>a, <2>1 DEF Spaced
  <2>6. PICK t \in Int : t = a + MinSendInterval
    BY <2>5, Constants
  <2>7. ASSUME Since(t) PROVE Since(t)'
    BY <1>5, <2>6, <2>7, SinceStep
  <2>8. ASSUME R = 2, a <= recentSends[1] + RequestTimeout, c # 0 PROVE t <= tick
    <3>1. 1 \in 1 .. R /\ 1 <= c
      BY <1>a, <2>1, <2>8
    <3>2. tick - recentSends[1] >= GlobalSendWindow /\ recentSends[1] \in Nat
      BY <1>0, <2>1, <3>1, Numbers
    <3> DEFINE s == recentSends[1]
    <3>3. s \in Nat /\ tick - s >= GlobalSendWindow /\ a <= s + RequestTimeout
      BY <2>8, <3>2
    <3> HIDE DEF s
    <3>4. /\ tick \in Nat /\ a \in Nat /\ t \in Int /\ t = a + MinSendInterval
          /\ MinSendInterval \in Nat /\ RequestTimeout \in Nat /\ GlobalSendWindow \in Nat
          /\ MinSendInterval + RequestTimeout <= GlobalSendWindow
      BY <2>1, <2>5, <2>6, Constants
    <3> QED BY <3>3, <3>4
  <2>9. ASSUME t <= tick PROVE Since(t)'
    <3>1. t <= now'
      BY <1>a, <2>1, <2>6, <2>9
    <3> QED BY <2>1, <2>3, <2>4, <2>9, <3>1 DEF Since
  <2>10. CASE \E k \in 1 .. n : chosen[k] = m
    <3>1. n # 0 /\ lastSendAt'[m] = tick /\ LastStamp' = tick
      BY <2>1, <2>3, <2>5, <2>10
    <3>2. m \in Candidates(tick)
      BY <2>1, <2>10
    <3>3. tick - lastSendAt[m] >= MinSendInterval
      BY <2>5, <3>2 DEF Candidates, Apart
    <3>4. t <= tick
      <4>1. CASE a <= lastSendAt[m]
        <5>1. /\ tick \in Nat /\ a \in Nat /\ lastSendAt[m] \in Nat /\ t = a + MinSendInterval
              /\ MinSendInterval \in Nat
          BY <2>1, <2>5, <2>6, Constants
        <5> QED BY <3>3, <4>1, <5>1
      <4>2. CASE Since(a + MinSendInterval)
        BY <2>1, <2>6, <4>2 DEF Since
      <4>3. CASE R = 2 /\ a <= recentSends[1] + RequestTimeout
        <5>1. c # 0
          <6> HIDE DEF R
          <6> QED BY <1>a, <2>1, <3>1, <4>3, Constants
        <5> QED BY <2>8, <4>3, <5>1
      <4> QED BY <2>5, <4>1, <4>2, <4>3 DEF Apart
    <3>5. a <= lastSendAt'[m]
      <4>1. tick \in Nat /\ a \in Nat /\ t = a + MinSendInterval /\ MinSendInterval \in Nat
        BY <2>1, <2>5, <2>6, Constants
      <4> QED BY <3>1, <3>4, <4>1
    <3> QED BY <2>1, <2>6, <3>1, <3>4, <3>5 DEF Apart
  <2>11. CASE ~ \E k \in 1 .. n : chosen[k] = m
    <3>1. lastSendAt'[m] = lastSendAt[m]
      BY <2>1, <2>5, <2>11
    <3>2. \A j \in Pending' : batch'[j].monitor # m
      BY <2>2, <2>11 DEF Pending
    <3>3. \/ a <= lastSendAt'[m]
          \/ Since(a + MinSendInterval)'
          \/ Len(recentSends') = 2 /\ a <= recentSends'[1] + RequestTimeout
      <4>1. CASE a <= lastSendAt[m]
        BY <3>1, <4>1
      <4>2. CASE Since(a + MinSendInterval)
        BY <2>6, <2>7, <4>2
      <4>3. CASE R = 2 /\ a <= recentSends[1] + RequestTimeout
        <5>1. CASE c # 0
          BY <2>6, <2>8, <2>9, <4>3, <5>1
        <5>2. CASE c = 0
          <6>1. 1 \in 1 .. R - c /\ R - c + n = 2
            <7> HIDE DEF R
            <7> QED BY <1>a, <2>1, <4>3, <5>2, Constants
          <6>2. recentSends'[1] = recentSends[1]
            BY <2>1, <5>2, <6>1
          <6> QED BY <2>1, <4>3, <6>1, <6>2
        <5> QED BY <5>1, <5>2
      <4> QED BY <2>5, <4>1, <4>2, <4>3 DEF Apart
    <3> QED BY <2>5, <3>1, <3>2, <3>3 DEF Apart
  <2> QED BY <2>10, <2>11
<1>6. CASE Clear
  BY <1>6 DEF Clear, Spaced
<1> QED BY <1>0, <1>1, <1>2, <1>3, <1>4, <1>5, <1>6, StepsAre

(* A request goes out after its stamp, and the stamp is an interval after    *)
(* the monitor's last request.                                               *)
LEMMA SpacingStep ==
    ASSUME BarInv, MonitorSpacing, ~stopping => Spaced, [Next]_vars
    PROVE  MonitorSpacing'
<1> DEFINE N == Len(dispatched)
<1>0. BarTypes /\ Clock /\ BarTypes'
  BY NextBar DEF BarInv
<1>a. /\ N \in Nat /\ DOMAIN dispatched = 1 .. N
      /\ \A i \in 1 .. N : dispatched[i].at \in Nat
      /\ DOMAIN dispatched' = 1 .. Len(dispatched')
  BY <1>0, Numbers DEF BarTypes
<1>1. CASE UNCHANGED dispatched
  BY <1>1 DEF MonitorSpacing
<1>2. CASE Issue /\ ~stopping
  <2>1. /\ Len(batch) >= 1 /\ LastStamp \in Nat /\ LastStamp <= now
        /\ Len(dispatched') = N + 1
        /\ \A i \in 1 .. N : dispatched'[i] = dispatched[i]
        /\ dispatched'[N + 1] = [at |-> now, monitor |-> batch[1].monitor]
    <3>1. Len(batch) \in 1 .. Len(recentSends) /\ Len(recentSends) \in Nat
      BY <1>0, <1>2, IssueFacts, Numbers
    <3> QED BY <1>2, <3>1, IssueFacts
  <2>2. dispatched'[N + 1].monitor = batch[1].monitor /\ dispatched'[N + 1].at = now
    BY <2>1
  <2> SUFFICES ASSUME NEW i \in 1 .. N + 1, NEW j \in 1 .. N + 1, i < j,
                      dispatched'[i].monitor = dispatched'[j].monitor
               PROVE dispatched'[j].at - dispatched'[i].at >= MinSendInterval
    BY <1>a, <2>1 DEF MonitorSpacing
  <2>3. i \in 1 .. N
    BY <1>a
  <2>4. CASE j # N + 1
    <3>1. j \in 1 .. N
      BY <1>a, <2>4
    <3> QED BY <1>a, <2>1, <2>3, <3>1 DEF MonitorSpacing
  <2>5. CASE j = N + 1
    <3>1. 1 \in Pending
      BY <1>0, <1>2, <2>1, Numbers DEF Issue, Pending
    <3>2. Apart(dispatched[i].monitor, dispatched[i].at)
      BY <1>2, <1>a, <2>3 DEF Spaced
    <3>3. dispatched[i].monitor = batch[1].monitor
      BY <2>1, <2>2, <2>3, <2>5
    <3>4. dispatched[i].at + MinSendInterval <= LastStamp
      BY <3>1, <3>2, <3>3 DEF Apart
    <3>5. dispatched[i].at \in Nat /\ now \in Nat
      BY <1>0, <2>3, Numbers
    <3>6. now - dispatched[i].at >= MinSendInterval
      BY <2>1, <3>4, <3>5, Constants
    <3> QED BY <2>1, <2>2, <2>3, <2>5, <3>6
  <2> QED BY <2>4, <2>5
<1>3. ASSUME NEW c, ElapseBy(c) PROVE MonitorSpacing'
  <2>1. /\ c \in 0 .. N /\ Len(dispatched') = N - c
        /\ \A i \in 1 .. N - c : dispatched'[i] = dispatched[i + c]
    BY <1>3 DEF ElapseBy
  <2> SUFFICES ASSUME NEW i \in 1 .. N - c, NEW j \in 1 .. N - c, i < j,
                      dispatched'[i].monitor = dispatched'[j].monitor
               PROVE dispatched'[j].at - dispatched'[i].at >= MinSendInterval
    BY <1>a, <2>1 DEF MonitorSpacing
  <2>2. i + c \in 1 .. N /\ j + c \in 1 .. N /\ i + c < j + c
    BY <1>a, <2>1
  <2> QED BY <1>a, <2>1, <2>2 DEF MonitorSpacing
<1>4. CASE Clear
  BY <1>4 DEF Clear, MonitorSpacing
<1>5. \/ UNCHANGED dispatched \/ (Issue /\ ~stopping) \/ (\E c : ElapseBy(c)) \/ Clear
  BY <1>0, StepsAre DEF Quiet, Leave, DueBy
<1> QED BY <1>1, <1>2, <1>3, <1>4, <1>5

(* With a limit of at most two, as in the code, BarHelper never gets two     *)
(* requests of one monitor within MinSendInterval, although the code counts  *)
(* the interval from the stamp and not from the dispatch.                    *)
THEOREM Spacing ==
    ASSUME GlobalSendLimit <= 2 PROVE Spec => []MonitorSpacing
<1>1. Init => BarInv /\ MonitorSpacing /\ (~stopping => Spaced)
  BY InitBar, InitTimes DEF BarInv, Init, MonitorSpacing, Spaced
<1>2. SpaceInv /\ [Next]_vars => SpaceInv'
  BY NextBar, ClockStep, StampedStep, BusyStep, SpacedStep, SpacingStep DEF SpaceInv, BarInv
<1> QED BY <1>1, <1>2, PTL DEF Spec, SpaceInv

(***************************************************************************)
(* Nobody starves.                                                         *)
(***************************************************************************)

(* A flush at now finds everything stamped earlier: ticks are a unit apart.  *)
Fresh ==
    /\ waitsFrom \in [Monitors -> Nat]
    /\ tick # NotYet =>
          /\ \A p \in DOMAIN recentSends : recentSends[p] < tick
          /\ \A m \in Monitors : lastSendAt[m] < tick

(* The antecedent of NoMonitorStarves.                                       *)
Waits(m) ==
    /\ worker = "running" /\ ~stopping
    /\ Changed(latest[m], lastSent[m])
    /\ \A i \in DOMAIN batch : batch[i].monitor # m

(* Who is served before m.                                                   *)
Ahead(m) == {a \in Monitors : WaitedLonger(a, m)}

(* A window, longer by what its requests may delay.                          *)
Period == GlobalSendWindow + MaxDelay

(* How far the queue has moved while m waits: c windows are full and the     *)
(* last of them began at T or earlier, where the window that runs since T    *)
(* has s stamps.  Whoever was stamped meanwhile has left Ahead(m).           *)
Turn(m, c, T, s) ==
    /\ lastSendAt[m] <= waitsFrom[m] /\ waitsFrom[m] <= T
    /\ T <= waitsFrom[m] + Period * c
    /\ Cardinality(Ahead(m)) + s + GlobalSendLimit * c < Cardinality(Monitors)
    /\ s < GlobalSendLimit
    /\ \A p \in DOMAIN recentSends :
          /\ p <= Len(recentSends) - s => recentSends[p] <= T
          /\ recentSends[p] < T + GlobalSendWindow
    /\ now <= T + Period /\ (tick = NotYet => now < T + Period)

HasTurn(m) == \E c, T, s \in Nat : Turn(m, c, T, s)
TurnInv == BarInv /\ Fresh /\ \A m \in Monitors : Waits(m) => HasTurn(m)

(* The monitors are finitely many.                                           *)
LEMMA FiniteMonitors == IsFiniteSet(Monitors)
<1> DEFINE f == [k \in DOMAIN MonitorOf |-> MonitorOf[k]]
<1>1. f \in Surjection(DOMAIN MonitorOf, Monitors)
  BY DEF Surjection, Monitors
<1> QED BY <1>1, FS_Surjection, BarHelperAssumption

(* Whoever waits has at most all others ahead.                               *)
LEMMA AheadOthers ==
    ASSUME NEW m \in Monitors, lastSendAt[m] \in Nat
    PROVE  Cardinality(Ahead(m)) \in Nat /\ Cardinality(Ahead(m)) < Cardinality(Monitors)
           /\ Cardinality(Monitors) \in Nat
<1>1. m \notin Ahead(m)
  <2>1. m \in Nat
    BY BarHelperAssumption DEF Monitors
  <2> QED BY <2>1 DEF Ahead, WaitedLonger
<1>2. Ahead(m) \in SUBSET Monitors /\ Ahead(m) # Monitors
  BY <1>1 DEF Ahead
<1>3. /\ IsFiniteSet(Ahead(m)) /\ Cardinality(Ahead(m)) <= Cardinality(Monitors)
      /\ Cardinality(Ahead(m)) # Cardinality(Monitors)
  BY <1>2, FS_Subset, FiniteMonitors
<1>4. Cardinality(Ahead(m)) \in Nat /\ Cardinality(Monitors) \in Nat
  BY <1>3, FS_CardinalityType, FiniteMonitors
<1> QED BY <1>3, <1>4

(* A flush that serves n of those ahead of m leaves n fewer.                 *)
LEMMA FewerAhead ==
    ASSUME NEW S, IsFiniteSet(S), NEW S2 \in SUBSET S, NEW n \in Nat,
           NEW f \in [1 .. n -> S],
           \A i, j \in 1 .. n : i # j => f[i] # f[j],
           \A i \in 1 .. n : f[i] \notin S2
    PROVE  Cardinality(S2) \in Nat /\ Cardinality(S) \in Nat
           /\ Cardinality(S2) + n <= Cardinality(S)
<1> DEFINE served == S \ S2
<1>1. IsFiniteSet(served) /\ Cardinality(served) = Cardinality(S) - Cardinality(S \cap S2)
  BY FS_Difference
<1>2. S \cap S2 = S2
  OBVIOUS
<1>3. IsFiniteSet(S2)
  BY FS_Subset
<1>4. Cardinality(S) \in Nat /\ Cardinality(S2) \in Nat /\ Cardinality(served) \in Nat
  BY <1>1, <1>3, FS_CardinalityType
<1>5. f \in Injection(1 .. n, served)
  BY DEF Injection, IsInjective
<1>6. Cardinality(1 .. n) <= Cardinality(served)
  BY <1>1, <1>5, FS_Injection
<1>7. Cardinality(1 .. n) = n
  BY FS_Interval
<1>8. Cardinality(served) = Cardinality(S) - Cardinality(S2)
  BY <1>1, <1>2, Zenon
<1>9. n <= Cardinality(served)
  BY <1>6, <1>7, Zenon
<1> HIDE DEF served
<1> QED BY <1>4, <1>8, <1>9

(* Everything stamped is older than the tick that waits.                     *)
LEMMA FreshStep == ASSUME BarInv, Fresh, [Next]_vars PROVE Fresh'
<1> USE DEF BarInv
<1>0. BarTypes /\ Clock
  OBVIOUS
<1>1. waitsFrom' \in [Monitors -> Nat]
  <2>1. now \in Nat /\ NotYet \in Nat /\ waitsFrom \in [Monitors -> Nat]
    BY <1>0, Numbers DEF Fresh
  <2>2. ASSUME NEW m, Rewait(m) PROVE waitsFrom' \in [Monitors -> Nat]
    BY <2>1, <2>2 DEF Rewait
  <2>3. ASSUME NEW k \in Kegs, NEW a \in Amounts, KegAmount(k, a)
        PROVE  waitsFrom' \in [Monitors -> Nat]
    BY <2>1, <2>3 DEF KegAmount
  <2>4. CASE Restart
    BY <2>1, <2>4 DEF Restart
  <2>5. CASE Success \/ NoSuccess \/ Fail
    BY <2>2, <2>5 DEF Success, NoSuccess, Fail
  <2>6. CASE Elapse \/ Due \/ Dispatch \/ WorkerReturns \/ Cancel \/ Serve
             \/ (\E r \in Reading : ServeLate(r)) \/ UNCHANGED vars
    BY <2>1, <2>6 DEF Elapse, Due, Dispatch, WorkerReturns, Cancel, Serve, ServeLate,
       vars, ghostVars
  <2> QED BY <2>3, <2>4, <2>5, <2>6 DEF Next, Worker
<1>2. tick' # NotYet =>
          /\ \A p \in DOMAIN recentSends' : recentSends'[p] < tick'
          /\ \A m \in Monitors : lastSendAt'[m] < tick'
  <2>1. CASE Quiet
    BY <2>1 DEF Quiet, Fresh
  <2>2. CASE Leave
    BY <2>2 DEF Leave, Fresh
  <2>3. CASE Issue
    BY <2>3 DEF Issue, Fresh
  <2>4. CASE \E c : ElapseBy(c)
    <3>1. /\ recentSends' = recentSends /\ lastSendAt' = lastSendAt /\ now' = now + 1
          /\ tick' = IF tick = NotYet THEN now' ELSE tick
      BY <2>4 DEF ElapseBy
    <3>2. CASE tick # NotYet
      BY <3>1, <3>2 DEF Fresh
    <3>3. CASE tick = NotYet
      <4>1. /\ \A p \in DOMAIN recentSends : recentSends[p] \in Nat /\ recentSends[p] <= now
            /\ \A m \in Monitors : lastSendAt[m] \in Nat /\ lastSendAt[m] <= now
            /\ now \in Nat
        BY <1>0, Numbers DEF Clock
      <4>2. \A x \in Nat : x <= now => x < now + 1
        BY <4>1
      <4> QED BY <3>1, <3>3, <4>1, <4>2
    <3> QED BY <3>2, <3>3
  <2>5. CASE (\E c, n, chosen : DueBy(c, n, chosen)) \/ Clear
    BY <2>5 DEF DueBy, Clear
  <2> QED BY <1>0, <2>1, <2>2, <2>3, <2>4, <2>5, StepsAre
<1> QED BY <1>1, <1>2 DEF Fresh

(* Whoever begins to wait now has a turn: all others may be ahead, and the   *)
(* window that runs began by now.                                            *)
LEMMA FirstTurn ==
    ASSUME BarInv, NEW m \in Monitors,
           UNCHANGED <<now, tick, recentSends, lastSendAt>>, waitsFrom'[m] = now
    PROVE  HasTurn(m)'
<1> DEFINE A == Cardinality(Ahead(m))
           N == Cardinality(Monitors)
           W == GlobalSendWindow
           D == MaxDelay
           L == GlobalSendLimit
<1>1. /\ now \in Nat /\ \A p \in DOMAIN recentSends : recentSends[p] \in Nat
      /\ Len(recentSends) \in Nat /\ DOMAIN recentSends = 1 .. Len(recentSends)
      /\ lastSendAt[m] \in Nat
  BY Numbers DEF BarInv
<1>2. /\ lastSendAt[m] <= now /\ \A p \in DOMAIN recentSends : recentSends[p] <= now
  BY DEF BarInv, Clock
<1>3. A \in Nat /\ N \in Nat /\ A < N
  BY <1>1, AheadOthers
<1>4. W \in Nat /\ W >= 1 /\ D \in Nat /\ L \in Nat /\ L >= 1
  BY Constants, BarHelperAssumption
<1>5. Ahead(m)' = Ahead(m)
  BY DEF Ahead, WaitedLonger
<1>6. A + 0 + L * 0 < N
  <2> HIDE DEF A, N, L
  <2> QED BY <1>3, <1>4
<1>7. now <= now + (W + D) * 0 /\ now < now + (W + D)
  <2> HIDE DEF W, D
  <2> QED BY <1>1, <1>4
<1>8. ASSUME NEW p \in DOMAIN recentSends PROVE recentSends[p] < now + W
  <2> HIDE DEF W
  <2> QED BY <1>1, <1>2, <1>4
<1>9. Turn(m, 0, now, 0)'
  <2>1. Cardinality(Ahead(m))' = A
    BY <1>5
  <2> HIDE DEF A
  <2> QED BY <1>1, <1>2, <1>4, <1>6, <1>7, <1>8, <2>1 DEF Turn, Period
<1> QED BY <1>1, <1>9 DEF HasTurn

(* A turn is one's own: it is moved by stamps, by time and by one's own      *)
(* attempts only.                                                            *)
LEMMA SameTurn ==
    ASSUME NEW m \in Monitors, HasTurn(m),
           UNCHANGED <<now, tick, recentSends, lastSendAt>>, waitsFrom'[m] = waitsFrom[m]
    PROVE  HasTurn(m)'
<1>1. PICK c, T, s \in Nat : Turn(m, c, T, s)
  BY DEF HasTurn
<1>2. Ahead(m)' = Ahead(m)
  BY DEF Ahead, WaitedLonger
<1>3. Turn(m, c, T, s)'
  BY <1>1, <1>2 DEF Turn
<1> QED BY <1>3 DEF HasTurn

(* A busy time lasts no longer than the window and the delay: it either      *)
(* began by T, and its requests fit into the window, or it began in the      *)
(* window with fewer than the limit.                                         *)
LEMMA BusyTurn ==
    ASSUME BarInv, NEW b \in Nat, b < Len(recentSends),
           NEW T \in Nat, NEW s \in Nat, s < GlobalSendLimit,
           \A p \in DOMAIN recentSends :
              /\ p <= Len(recentSends) - s => recentSends[p] <= T
              /\ recentSends[p] < T + GlobalSendWindow,
           NEW x \in Nat,
           x <= recentSends[b + 1] + RequestTimeout * (Len(recentSends) - b)
    PROVE  x < T + Period
<1> DEFINE R == Len(recentSends)
           r == recentSends[b + 1]
           W == GlobalSendWindow
           L == GlobalSendLimit
           full == RequestTimeout * L
           part == RequestTimeout * (R - b)
<1>1. /\ R \in Nat /\ R <= L /\ DOMAIN recentSends = 1 .. R
      /\ \A p \in 1 .. R : recentSends[p] \in Nat
  BY Numbers DEF BarInv
<1>2. /\ W \in Nat /\ L \in Nat /\ L >= 1 /\ RequestTimeout \in Nat
      /\ MaxDelay \in Nat /\ MaxDelay = RequestTimeout * (L - 1)
  BY Constants
<1>3. b + 1 \in 1 .. R /\ r \in Nat
  BY <1>1
<1>4. full < W /\ full \in Nat
  <2>1. L * RequestTimeout < W
    BY PaceAssumption
  <2> QED BY <1>2, <2>1
<1>5. R - b \in Nat /\ L - 1 \in Nat
  BY <1>1, <1>2
<1>6. CASE r <= T
  <2>1. part <= full /\ part \in Nat
    BY <1>1, <1>2, <1>5, Times
  <2>2. x <= r + part
    OBVIOUS
  <2> HIDE DEF part, full, r, W
  <2> QED BY <1>2, <1>3, <1>4, <1>6, <2>1, <2>2 DEF Period, W
<1>7. CASE ~(r <= T)
  <2>1. ~(b + 1 <= R - s)
    BY <1>1, <1>3, <1>7
  <2>2. R - b <= L - 1
    <3> HIDE DEF R, L
    <3> QED BY <1>1, <1>2, <2>1 DEF L
  <2>3. part <= MaxDelay /\ part \in Nat
    BY <1>2, <1>5, <2>2, Times
  <2>4. x <= r + part /\ r < T + W
    BY <1>1, <1>3
  <2> HIDE DEF part, r, W
  <2> QED BY <1>2, <1>3, <2>3, <2>4 DEF Period, W
<1> QED BY <1>6, <1>7

(* Time passes while the worker is idle, and then the turn is not over, or   *)
(* while it is busy, which is not for long enough.                           *)
LEMMA ElapseTurn ==
    ASSUME BarInv, Fresh, NEW m \in Monitors, HasTurn(m), NEW d, ElapseBy(d),
           waitsFrom' = waitsFrom
    PROVE  HasTurn(m)'
<1>1. PICK c, T, s \in Nat : Turn(m, c, T, s)
  BY DEF HasTurn
<1>2. /\ Waiting /\ now' = now + 1 /\ tick' = IF tick = NotYet THEN now' ELSE tick
      /\ UNCHANGED <<recentSends, lastSendAt>>
  BY DEF ElapseBy
<1>3. now \in Nat /\ sentAt \in Nat /\ NotYet = 0
  BY Numbers DEF BarInv
<1>4. Period \in Nat /\ RequestTimeout \in Nat
  BY Constants DEF Period
<1>5. now + 1 <= T + Period
  <2>1. CASE batch = <<>> /\ tick = NotYet
    <3>1. now < T + Period
      BY <1>1, <2>1 DEF Turn
    <3> QED BY <1>3, <1>4, <3>1
  <2>2. CASE sentAt # NotYet /\ now < sentAt + RequestTimeout
    <3> DEFINE R == Len(recentSends)
               B == Len(batch)
    <3>1. PICK b \in 0 .. R : BusyFrom(b)
      BY DEF BarInv, Busy
    <3>2. B \in Nat /\ B # 0 /\ R \in Nat /\ batch # <<>>
      BY <2>2, Numbers DEF BarInv
    <3>3. /\ b # R /\ b + B <= R
          /\ sentAt <= recentSends[b + 1] + RequestTimeout * (R - b - B)
      BY <2>2, <3>1, <3>2 DEF BusyFrom
    <3>4. b \in Nat /\ b < R /\ R - b - B \in Nat /\ R - b \in Nat /\ R - b - B + 1 <= R - b
          /\ R - b - B + 1 \in Nat
      <4> HIDE DEF R, B
      <4> QED BY <3>1, <3>2, <3>3
    <3>5. recentSends[b + 1] \in Nat
      <4>1. b + 1 \in 1 .. R
        BY <3>2, <3>4
      <4> QED BY <4>1, Numbers DEF BarInv
    <3>6. /\ RequestTimeout * (R - b - B) \in Nat /\ RequestTimeout * (R - b) \in Nat
          /\ RequestTimeout * (R - b - B + 1) = RequestTimeout * (R - b - B) + RequestTimeout
          /\ RequestTimeout * (R - b - B + 1) <= RequestTimeout * (R - b)
      <4> HIDE DEF R, B
      <4> QED BY <1>4, <3>4, Times
    <3>7. now + 1 <= recentSends[b + 1] + RequestTimeout * (R - b)
      <4> DEFINE x == RequestTimeout * (R - b - B)
                 y == RequestTimeout * (R - b)
                 r == recentSends[b + 1]
      <4>1. x \in Nat /\ y \in Nat /\ x + RequestTimeout <= y /\ sentAt <= r + x /\ r \in Nat
        BY <3>3, <3>5, <3>6
      <4> HIDE DEF x, y, r
      <4>2. now + 1 <= r + y
        BY <1>3, <1>4, <2>2, <4>1
      <4> QED BY <4>2 DEF r, y
    <3>8. now + 1 \in Nat
      BY <1>3
    <3>9. now + 1 < T + Period
      <4> HIDE DEF R, B
      <4> QED BY <1>1, <3>4, <3>7, <3>8, BusyTurn DEF Turn, R
    <3> QED BY <1>3, <1>4, <3>9
  <2> QED BY <1>2, <2>1, <2>2 DEF Waiting
<1>6. tick' # NotYet
  BY <1>2, <1>3
<1>7. Ahead(m)' = Ahead(m)
  BY <1>2 DEF Ahead, WaitedLonger
<1>8. Turn(m, c, T, s)'
  BY <1>1, <1>2, <1>5, <1>6, <1>7 DEF Turn
<1> QED BY <1>8 DEF HasTurn

(* A flush is late by no more than the requests it waited for.               *)
LEMMA FlushTime ==
    ASSUME BarInv, tick # NotYet, batch = <<>>, sentAt = NotYet,
           NEW T \in Nat, NEW s \in Nat, s < GlobalSendLimit, tick < T + GlobalSendWindow,
           \A p \in DOMAIN recentSends :
              /\ p <= Len(recentSends) - s => recentSends[p] <= T
              /\ recentSends[p] < T + GlobalSendWindow
    PROVE  now < T + Period
<1> DEFINE R == Len(recentSends)
<1>1. PICK b \in 0 .. R : BusyFrom(b)
  BY DEF BarInv, Busy
<1>2. R \in Nat /\ now \in Nat /\ tick \in Nat /\ Len(batch) = 0
  BY Numbers DEF BarInv
<1>3. CASE b = R
  <2>1. tick = now
    BY <1>1, <1>3 DEF BusyFrom
  <2> QED BY <1>2, <2>1, Constants DEF Period
<1>4. CASE b # R
  <2>1. now <= recentSends[b + 1] + RequestTimeout * (R - b - Len(batch))
    BY <1>1, <1>4 DEF BusyFrom
  <2>2. R - b - Len(batch) = R - b /\ b \in Nat /\ b < R
    <3> HIDE DEF R
    <3> QED BY <1>1, <1>2, <1>4
  <2>3. now <= recentSends[b + 1] + RequestTimeout * (R - b)
    BY <2>1, <2>2, Zenon
  <2> HIDE DEF R
  <2> QED BY <1>2, <2>2, <2>3, BusyTurn DEF R
<1> QED BY <1>3, <1>4

(* While m waits, a flush that leaves it out serves those ahead of it, and   *)
(* they are ahead no more.                                                   *)
LEMMA FlushAhead ==
    ASSUME BarInv, Fresh, NEW m \in Monitors, Changed(latest[m], lastSent[m]),
           NEW k, NEW n, NEW chosen, DueBy(k, n, chosen), Serves(k, n, chosen),
           \A i \in 1 .. n : chosen[i] # m
    PROVE  /\ Cardinality(Ahead(m)) \in Nat /\ Cardinality(Ahead(m)') \in Nat
           /\ Cardinality(Ahead(m)') + n <= Cardinality(Ahead(m))
<1>1. /\ n \in Nat /\ chosen \in [1 .. n -> Candidates(tick)]
      /\ \A i, j \in 1 .. n : i # j => chosen[i] # chosen[j]
      /\ lastSendAt' = [a \in Monitors |->
            IF \E i \in 1 .. n : chosen[i] = a THEN tick ELSE lastSendAt[a]]
      /\ tick # NotYet
  BY DEF DueBy
<1>2. /\ tick \in Nat /\ NotYet = 0 /\ MinSendInterval \in Nat
      /\ \A a \in Monitors : a \in Nat /\ lastSendAt[a] \in Nat /\ lastSendAt[a] < tick
  BY <1>1, Numbers, Constants, BarHelperAssumption DEF BarInv, Fresh, Monitors
<1>3. \A a \in Candidates(tick) :
          /\ a \in Monitors
          /\ lastSendAt[a] = NotYet \/ tick - lastSendAt[a] >= MinSendInterval
  BY DEF Candidates
<1>4. ASSUME NEW i \in 1 .. n PROVE chosen[i] \in Ahead(m)
  <2>1. chosen[i] \in Candidates(tick) /\ DOMAIN chosen = 1 .. n
    BY <1>1
  <2>2. CASE m \in Candidates(tick)
    <3>1. WaitedLonger(chosen[i], m)
      BY <2>1, <2>2 DEF Serves, Sorted
    <3> QED BY <1>3, <2>1, <3>1 DEF Ahead
  <2>3. CASE m \notin Candidates(tick)
    <3>1. lastSendAt[m] # NotYet /\ ~(tick - lastSendAt[m] >= MinSendInterval)
      BY <2>3 DEF Candidates
    <3>2. lastSendAt[chosen[i]] < lastSendAt[m]
      <4>1. /\ chosen[i] \in Monitors
            /\ lastSendAt[chosen[i]] = NotYet
               \/ tick - lastSendAt[chosen[i]] >= MinSendInterval
        BY <1>3, <2>1
      <4>2. lastSendAt[chosen[i]] \in Nat /\ lastSendAt[m] \in Nat
        BY <1>2, <4>1
      <4> QED BY <1>2, <3>1, <4>1, <4>2
    <3> QED BY <1>3, <2>1, <3>2 DEF Ahead, WaitedLonger
  <2> QED BY <2>2, <2>3
<1>5. lastSendAt'[m] = lastSendAt[m] /\ lastSendAt[m] < tick
  BY <1>1, <1>2
<1>6. ASSUME NEW i \in 1 .. n PROVE chosen[i] \notin Ahead(m)'
  <2>1. chosen[i] \in Monitors
    BY <1>4 DEF Ahead
  <2>2. lastSendAt'[chosen[i]] = tick
    BY <1>1, <2>1
  <2>3. lastSendAt[m] \in Nat
    BY <1>2
  <2>4. ~WaitedLonger(chosen[i], m)'
    BY <1>2, <1>5, <2>2, <2>3 DEF WaitedLonger
  <2> QED BY <2>4 DEF Ahead
<1>7. Ahead(m)' \in SUBSET Ahead(m)
  <2> SUFFICES ASSUME NEW a \in Ahead(m)' PROVE a \in Ahead(m)
    OBVIOUS
  <2>1. a \in Monitors /\ WaitedLonger(a, m)'
    BY DEF Ahead
  <2>2. lastSendAt'[a] = lastSendAt[a]
    BY <1>1, <1>6, <2>1
  <2> QED BY <1>5, <2>1, <2>2 DEF Ahead, WaitedLonger
<1>8. IsFiniteSet(Ahead(m))
  <2>1. Ahead(m) \in SUBSET Monitors
    BY DEF Ahead
  <2> QED BY <2>1, FS_Subset, FiniteMonitors
<1>9. chosen \in [1 .. n -> Ahead(m)]
  BY <1>1, <1>4
<1>10. /\ Cardinality(Ahead(m)') \in Nat /\ Cardinality(Ahead(m)) \in Nat
       /\ Cardinality(Ahead(m)') + n <= Cardinality(Ahead(m))
  BY <1>1, <1>6, <1>7, <1>8, <1>9, FewerAhead
<1> QED BY <1>10

(* A flush that leaves m out puts its stamps into the window that runs, or   *)
(* fills it, and the next window begins with the flush.  It cannot be later  *)
(* than the window: then m would be due, and left out for a full window.     *)
LEMMA FlushTurn ==
    ASSUME BarInv, BarInv', Fresh, NEW m \in Monitors, HasTurn(m),
           Changed(latest[m], lastSent[m]),
           NEW k, NEW n, NEW chosen, DueBy(k, n, chosen), Serves(k, n, chosen),
           \A i \in 1 .. n : chosen[i] # m
    PROVE  HasTurn(m)'
<1> DEFINE R == Len(recentSends)
           W == GlobalSendWindow
           L == GlobalSendLimit
           A == Cardinality(Ahead(m))
           A2 == Cardinality(Ahead(m)')
           N == Cardinality(Monitors)
<1>1. PICK c, T, s \in Nat : Turn(m, c, T, s)
  BY DEF HasTurn
<1>2. /\ k \in 0 .. R /\ n \in Nat /\ R \in Nat /\ R - k + n <= L
      /\ tick \in Nat /\ tick # NotYet /\ now \in Nat /\ tick <= now /\ now' = now
      /\ batch = <<>> /\ sentAt = NotYet /\ tick' = NotYet
      /\ waitsFrom' = waitsFrom
      /\ Len(recentSends') = R - k + n /\ DOMAIN recentSends' = 1 .. R - k + n
      /\ DOMAIN recentSends = 1 .. R
      /\ \A p \in 1 .. R : p <= k <=> tick - recentSends[p] >= W
      /\ \A p \in 1 .. R - k : recentSends'[p] = recentSends[p + k]
      /\ \A p \in 1 .. R - k + n : p > R - k => recentSends'[p] = tick
  BY Numbers DEF BarInv, DueBy, Serves, Clock
<1>3. /\ W \in Nat /\ W >= 1 /\ L \in Nat /\ L >= 1 /\ MaxDelay \in Nat /\ NotYet = 0
      /\ MinSendInterval \in Nat /\ MinSendInterval <= W /\ Period \in Nat /\ W <= Period
  BY Constants, BarHelperAssumption DEF Period, NotYet
<1>4. /\ \A p \in 1 .. R : recentSends[p] \in Nat /\ recentSends[p] < tick
      /\ lastSendAt[m] \in Nat /\ waitsFrom[m] \in Nat
  BY <1>2, Numbers DEF BarInv, Fresh
<1>5. A \in Nat /\ A2 \in Nat /\ A2 + n <= A
  BY FlushAhead
<1>6. N \in Nat /\ L * c \in Nat /\ L * (c + 1) = L * c + L
      /\ Period * c \in Nat /\ Period * (c + 1) = Period * c + Period
  BY <1>3, Times, FiniteMonitors, FS_CardinalityType
<1>7. /\ lastSendAt[m] <= waitsFrom[m] /\ waitsFrom[m] <= T
      /\ T <= waitsFrom[m] + Period * c
      /\ A + s + L * c < N /\ s < L
      /\ \A p \in 1 .. R :
            (p <= R - s => recentSends[p] <= T) /\ recentSends[p] < T + W
      /\ now <= T + Period
  BY <1>1, <1>2 DEF Turn
<1>8. lastSendAt'[m] = lastSendAt[m]
  BY DEF DueBy
<1>9. ASSUME NEW p \in 1 .. R - k + n
      PROVE  IF p <= R - k
             THEN p + k \in 1 .. R /\ recentSends'[p] = recentSends[p + k]
             ELSE recentSends'[p] = tick
  <2> HIDE DEF R
  <2> QED BY <1>2
<1>10. \A p \in 1 .. R - k + n : recentSends'[p] \in Nat /\ recentSends'[p] <= tick
  BY <1>2, <1>4, <1>9
<1>11. now < tick + Period
  <2>1. tick < tick + W /\ 0 \in Nat /\ 0 < L
    BY <1>2, <1>3
  <2>2. \A p \in DOMAIN recentSends : recentSends[p] <= tick /\ recentSends[p] < tick + W
    BY <1>2, <1>3, <1>4
  <2> HIDE DEF W, L
  <2> QED BY <1>2, <2>1, <2>2, FlushTime DEF W, L
<1> HIDE DEF R, W, L, A, A2, N
<1>12. PICK b \in Nat : b = tick
  BY <1>2
<1>13. PICK d \in Nat : d = c + 1
  OBVIOUS
<1>14. PICK u \in Nat : u = L * c
  BY <1>6
<1>15. PICK v \in Nat : v = Period * c
  BY <1>6
<1>16. L * d = u + L /\ Period * d = v + Period
  BY <1>6, <1>13, <1>14, <1>15
<1>17. A + s + u < N /\ T <= waitsFrom[m] + v
  BY <1>7, <1>14, <1>15
<1>18. lastSendAt[m] <= waitsFrom[m] /\ waitsFrom[m] <= T /\ s < L /\ now <= T + Period
  BY <1>7
<1>19. /\ A \in Nat /\ A2 \in Nat /\ N \in Nat /\ n \in Nat /\ L \in Nat
       /\ A2 + n <= A /\ A + s + u < N
  BY <1>2, <1>3, <1>5, <1>6, <1>17
<1>20. CASE tick <= T
  <2>1. A2 + s + L * c < N
    <3>1. A2 + s + u < N /\ A2 + s \in Nat
      BY <1>19
    <3> QED BY <1>14, <3>1
  <2>2. \A p \in 1 .. R - k + n : recentSends'[p] <= T /\ recentSends'[p] < T + W
    BY <1>2, <1>3, <1>10, <1>20
  <2>3. now < T + Period
    BY <1>2, <1>3, <1>11, <1>20
  <2>4. Turn(m, c, T, s)'
    BY <1>2, <1>7, <1>8, <2>1, <2>2, <2>3 DEF Turn, A2, N, L, W
  <2> QED BY <2>4 DEF HasTurn
<1>21. CASE tick > T /\ s + n >= L
  <2>1. A2 + 0 + L * d < N
    <3>1. A2 + 0 + (u + L) < N
      BY <1>21, <1>19
    <3> QED BY <1>16, <3>1
  <2>2. waitsFrom[m] <= b /\ b <= waitsFrom[m] + Period * d
    <3>1. waitsFrom[m] <= b /\ b <= waitsFrom[m] + (v + Period)
      <4>1. T < b /\ b <= T + Period
        <5>1. tick <= now /\ now \in Nat /\ tick \in Nat /\ Period \in Nat
          BY <1>2, <1>3
        <5> QED BY <5>1, <1>12, <1>18, <1>21
      <4>2. waitsFrom[m] \in Nat /\ Period \in Nat
        BY <1>3, <1>4
      <4> QED BY <4>1, <4>2, <1>17, <1>18
    <3> QED BY <1>16, <3>1
  <2>3. \A p \in 1 .. R - k + n : recentSends'[p] <= b /\ recentSends'[p] < b + W
    BY <1>2, <1>3, <1>10, <1>12
  <2>4. now <= b + Period /\ now < b + Period
    BY <1>2, <1>3, <1>11, <1>12
  <2>5. Turn(m, d, b, 0)'
    <3>1. 0 < L
      BY <1>3
    <3> QED BY <1>2, <1>8, <1>18, <2>1, <2>2, <2>3, <2>4, <3>1 DEF Turn, A2, N, L, W
  <2> QED BY <2>5 DEF HasTurn
<1>22. CASE tick > T /\ s + n < L
  <2>1. tick < T + W
    <3> SUFFICES ASSUME tick >= T + W PROVE FALSE
      BY <1>2, <1>3
    <3>1. m \in Candidates(tick)
      <4>1. tick - lastSendAt[m] >= MinSendInterval
        <5>1. lastSendAt[m] <= T /\ lastSendAt[m] \in Nat
          BY <1>4, <1>18
        <5>2. tick \in Nat /\ W \in Nat /\ MinSendInterval \in Nat /\ MinSendInterval <= W
          BY <1>2, <1>3
        <5> QED BY <5>1, <5>2
      <4> QED BY <4>1 DEF Candidates
    <3>2. R - k <= s
      <4> SUFFICES ASSUME R - k > s PROVE FALSE
        BY <1>2
      <4>1. k + 1 \in 1 .. R /\ k + 1 <= R - s
        BY <1>2
      <4>2. recentSends[k + 1] <= T /\ recentSends[k + 1] \in Nat
        BY <1>4, <1>7, <4>1
      <4>3. tick - recentSends[k + 1] >= W
        BY <1>2, <1>3, <4>2
      <4>4. ~(k + 1 <= k)
        BY <1>2
      <4> QED BY <1>2, <4>1, <4>3, <4>4
    <3>3. R - k + n < L
      BY <1>2, <1>3, <1>22, <3>2
    <3> QED BY <3>1, <3>3 DEF Serves, R, L
  <2>2. A2 + (s + n) + L * c < N
    <3>1. A2 + (s + n) + u < N
      BY <1>19
    <3> QED BY <1>14, <3>1
  <2>3. ASSUME NEW p \in 1 .. R - k + n
        PROVE  /\ p <= R - k + n - (s + n) => recentSends'[p] <= T
               /\ recentSends'[p] < T + W
    <3>1. CASE p <= R - k
      <4>1. p + k \in 1 .. R /\ recentSends'[p] = recentSends[p + k]
        BY <1>9, <3>1
      <4>2. p <= R - k + n - (s + n) => p + k <= R - s
        BY <1>2
      <4> QED BY <1>7, <4>1, <4>2
    <3>2. CASE ~(p <= R - k)
      <4>1. ~(p <= R - k + n - (s + n))
        BY <1>2, <3>2
      <4> QED BY <1>9, <2>1, <3>2, <4>1
    <3> QED BY <3>1, <3>2
  <2>4. now < T + Period
    <3>1. \A p \in DOMAIN recentSends :
              /\ p <= R - s => recentSends[p] <= T
              /\ recentSends[p] < T + W
      BY <1>2, <1>7
    <3> QED BY <1>2, <1>7, <2>1, <3>1, FlushTime DEF W, L, R
  <2>5. now <= T + Period
    BY <1>2, <1>3, <2>4
  <2>6. s + n \in Nat
    BY <1>2
  <2>7. Turn(m, c, T, s + n)'
    BY <1>2, <1>7, <1>8, <1>22, <2>2, <2>3, <2>4, <2>5 DEF Turn, A2, N, L, W
  <2> QED BY <2>6, <2>7 DEF HasTurn
<1> QED BY <1>2, <1>3, <1>20, <1>21, <1>22

(* Whoever waits has a turn.                                                 *)
LEMMA TurnStep == ASSUME TurnInv, [Next]_vars PROVE TurnInv'
<1>0. BarInv /\ Fresh /\ BarTypes /\ Clock
  BY DEF TurnInv, BarInv
<1>1. BarInv' /\ Fresh'
  BY <1>0, NextBar, ClockStep, StampedStep, BusyStep, FreshStep DEF BarInv
<1> SUFFICES ASSUME NEW m \in Monitors, Waits(m)' PROVE HasTurn(m)'
  BY <1>1 DEF TurnInv
<1>2. Waits(m) => HasTurn(m)
  BY DEF TurnInv
<1>3. waitsFrom \in [Monitors -> Nat]
  BY <1>0 DEF Fresh
<1>4. ASSUME NEW q \in Kegs, NEW a \in Amounts, KegAmount(q, a) PROVE HasTurn(m)'
  <2>1. /\ UNCHANGED <<now, tick, recentSends, lastSendAt, worker, stopping, batch, lastSent>>
        /\ waitsFrom' = [waitsFrom EXCEPT ![MonitorOf[q]] =
              IF ~Changed(latest[MonitorOf[q]], lastSent[MonitorOf[q]]) THEN now ELSE @]
        /\ latest' = [latest EXCEPT ![MonitorOf[q]] = a]
    BY <1>4 DEF KegAmount, sendVars
  <2>2. CASE m = MonitorOf[q] /\ ~Changed(latest[m], lastSent[m])
    <3>1. waitsFrom'[m] = now
      BY <1>3, <2>1, <2>2
    <3> QED BY <1>0, <2>1, <3>1, FirstTurn
  <2>3. CASE ~(m = MonitorOf[q] /\ ~Changed(latest[m], lastSent[m]))
    <3>1. waitsFrom'[m] = waitsFrom[m]
      BY <1>3, <2>1, <2>3
    <3>2. Changed(latest[m], lastSent[m])
      <4>1. CASE m # MonitorOf[q]
        <5>1. latest'[m] = latest[m]
          BY <1>0, <2>1, <4>1 DEF BarTypes, TypeOK
        <5> QED BY <2>1, <5>1 DEF Waits
      <4> QED BY <2>3, <4>1
    <3>3. Waits(m)
      BY <2>1, <3>2 DEF Waits
    <3> QED BY <1>2, <2>1, <3>1, <3>3, SameTurn
  <2> QED BY <2>2, <2>3
<1>5. CASE Success \/ NoSuccess \/ Fail
  <2> DEFINE h == Head(batch).monitor
  <2>1. /\ UNCHANGED <<now, tick, recentSends, lastSendAt, worker, stopping, latest>>
        /\ Rewait(h) /\ batch' = Tail(batch) /\ batch # <<>>
        /\ lastSent' = lastSent \/ \E x : lastSent' = [lastSent EXCEPT ![h] = x]
    BY <1>0, <1>5 DEF Success, NoSuccess, Fail, NextRequest, recordSent, stateVars,
       BarTypes, TypeOK
  <2>2. CASE m = h
    <3>1. waitsFrom'[m] = now
      BY <1>3, <2>1, <2>2 DEF Rewait
    <3> QED BY <1>0, <2>1, <3>1, FirstTurn
  <2>3. CASE m # h
    <3>1. waitsFrom'[m] = waitsFrom[m]
      BY <1>3, <2>1, <2>3 DEF Rewait
    <3>2. lastSent'[m] = lastSent[m]
      BY <1>0, <2>1, <2>3 DEF BarTypes, TypeOK
    <3>3. \A i \in DOMAIN batch : batch[i].monitor # m
      <4>1. /\ Len(batch) \in Nat /\ DOMAIN batch = 1 .. Len(batch)
            /\ Head(batch) = batch[1] /\ DOMAIN batch' = 1 .. Len(batch) - 1
            /\ \A i \in 1 .. Len(batch) - 1 : batch'[i] = batch[i + 1]
        <5>1. /\ Len(batch) \in Nat /\ DOMAIN batch = 1 .. Len(batch)
          BY <1>0, Numbers
        <5>2. /\ Len(batch') = Len(batch) - 1 /\ batch' \in Seq(Reading)
              /\ \A i \in 1 .. Len(batch) - 1 : batch'[i] = batch[i + 1]
          BY <1>0, <2>1, HeadOfBatch
        <5>3. Head(batch) = batch[1]
          BY <1>0, <2>1, HeadOfBatch
        <5>4. DOMAIN batch' = 1 .. Len(batch')
          <6> HIDE DEF Reading
          <6> QED BY <5>2
        <5> QED BY <5>1, <5>2, <5>3, <5>4
      <4>2. ASSUME NEW i \in 1 .. Len(batch), i # 1 PROVE batch[i].monitor # m
        <5>1. i - 1 \in 1 .. Len(batch) - 1 /\ i - 1 + 1 = i
          BY <4>1, <4>2
        <5>2. batch'[i - 1] = batch[i]
          BY <4>1, <5>1
        <5> QED BY <4>1, <5>1, <5>2 DEF Waits
      <4> QED BY <2>3, <4>1, <4>2
    <3>4. Waits(m)
      BY <2>1, <3>2, <3>3 DEF Waits
    <3> QED BY <1>2, <2>1, <3>1, <3>4, SameTurn
  <2> QED BY <2>2, <2>3
<1>6. CASE Due
  <2>1. PICK k, n, chosen : DueBy(k, n, chosen) /\ Serves(k, n, chosen)
    BY <1>0, <1>6, DueDoes
  <2>2. /\ UNCHANGED <<worker, stopping, latest, lastSent>> /\ batch = <<>> /\ n \in Nat
        /\ batch' = [i \in 1 .. n |-> [keg |-> reporter[chosen[i]],
                                       monitor |-> chosen[i],
                                       amount |-> latest[chosen[i]]]]
    BY <2>1 DEF DueBy
  <2>3. Waits(m)
    BY <2>2 DEF Waits
  <2>4. \A i \in 1 .. n : chosen[i] # m
    BY <2>2 DEF Waits
  <2>5. Changed(latest[m], lastSent[m])
    BY <2>3 DEF Waits
  <2> QED BY <1>0, <1>1, <1>2, <2>1, <2>3, <2>4, <2>5, FlushTurn
<1>7. CASE Elapse
  <2>1. PICK d : ElapseBy(d)
    BY <1>0, <1>7, ElapseDoes
  <2>2. UNCHANGED <<worker, stopping, latest, lastSent, batch, waitsFrom>>
    BY <1>7 DEF Elapse, stateVars, sendVars
  <2>3. Waits(m)
    BY <2>2 DEF Waits
  <2> QED BY <1>0, <1>2, <2>1, <2>2, <2>3, ElapseTurn
<1>8. CASE Dispatch \/ Serve \/ (\E r \in Reading : ServeLate(r)) \/ UNCHANGED vars
  <2>1. /\ UNCHANGED <<now, tick, recentSends, lastSendAt, worker, stopping, latest, lastSent,
                       waitsFrom>>
        /\ ~stopping' => batch' = batch
    BY <1>8 DEF Dispatch, Serve, ServeLate, stateVars, sendVars, vars, ghostVars
  <2>2. Waits(m)
    BY <2>1 DEF Waits
  <2> QED BY <1>2, <2>1, <2>2, SameTurn
<1>9. CASE Cancel \/ WorkerReturns \/ Restart
  <2>1. ~Waits(m)'
    BY <1>9 DEF Cancel, WorkerReturns, Restart, Waits, Changed
  <2> QED BY <2>1
<1> QED BY <1>4, <1>5, <1>6, <1>7, <1>8, <1>9 DEF Next, Worker

(* A monitor with a volume to send is attempted within as many windows as it *)
(* takes to serve every monitor once, each longer by what its requests may   *)
(* delay, whatever the other kegs report and however the service answers:    *)
(* the windows that are full so far served only monitors ahead of it, each   *)
(* once.                                                                     *)
THEOREM NobodyStarves == Spec => []NoMonitorStarves
<1>1. Init => TurnInv
  <2> SUFFICES ASSUME Init PROVE TurnInv
    OBVIOUS
  <2>1. BarInv
    BY InitBar, InitTimes DEF BarInv
  <2>2. tick = NotYet /\ waitsFrom = [m \in Monitors |-> 0]
        /\ latest = [m \in Monitors |-> None]
    BY DEF Init, InitClient, NotYet
  <2> QED BY <2>1, <2>2 DEF TurnInv, Fresh, Waits, Changed
<1>2. TurnInv => NoMonitorStarves
  <2> SUFFICES ASSUME TurnInv, NEW m \in Monitors, Waits(m) PROVE now - waitsFrom[m] <= MaxWait
    BY DEF NoMonitorStarves, Waits
  <2> DEFINE N == Cardinality(Monitors)
             L == GlobalSendLimit
             K == (N + L - 1) \div L
  <2>1. PICK c, T, s \in Nat : Turn(m, c, T, s)
    BY DEF TurnInv, HasTurn
  <2>2. /\ Cardinality(Ahead(m)) \in Nat /\ N \in Nat /\ now \in Nat /\ waitsFrom[m] \in Nat
    BY Numbers, AheadOthers DEF TurnInv, BarInv, Fresh
  <2>3. /\ L \in Nat /\ L >= 1 /\ Period \in Nat /\ L * c \in Nat /\ L * (c + 1) = L * c + L
        /\ Period * c \in Nat /\ Period * (c + 1) = Period * c + Period
    BY Constants, Times DEF Period
  <2>4. L * c < N /\ T <= waitsFrom[m] + Period * c /\ now <= T + Period
    BY <2>1, <2>2, <2>3 DEF Turn
  <2> HIDE DEF N, L
  <2>5. K \in Nat /\ c + 1 <= K
    <3>1. L * (c + 1) <= N + L - 1 /\ N + L - 1 \in Nat
      BY <2>2, <2>3, <2>4
    <3>2. PICK M \in Nat : M = N + L - 1
      BY <3>1
    <3>3. M \div L \in Nat /\ \A q \in Nat : L * q <= M => q <= M \div L
      BY <2>3
    <3> QED BY <3>1, <3>2, <3>3
  <2>6. Period * (c + 1) <= Period * K /\ Period * K \in Nat
    BY <2>3, <2>5, Times
  <2>7. MaxWait = Period * K
    <3>1. MaxWait = K * Period
      BY DEF MaxWait, Period, N, L
    <3> HIDE DEF K
    <3> QED BY <2>3, <2>5, <3>1
  <2> HIDE DEF K
  <2> QED BY <2>2, <2>3, <2>4, <2>6, <2>7
<1> QED BY <1>1, <1>2, TurnStep, PTL DEF Spec

=============================================================================
