---------------------------- MODULE KegLogProofs ----------------------------
(***************************************************************************)
(* Theorems about KegLog for any kegs, times, intervals, steps and chunks. *)
(***************************************************************************)
EXTENDS KegLog, FiniteSetTheorems, WellFoundedInduction, TLAPS

(***************************************************************************)
(* Steps.                                                                  *)
(***************************************************************************)

Aligned(t) == \E m \in Nat : t = m * CompactStep

LEMMA Division ==
    ASSUME NEW t \in Nat, NEW c \in Nat, c > 0
    PROVE  /\ t \div c \in Nat /\ (t \div c) * c \in Nat
           /\ (t \div c) * c <= t /\ t < (t \div c) * c + c
           /\ t = (t \div c) * c + (t % c)
OBVIOUS

LEMMA StepBounds ==
    ASSUME NEW t \in Nat
    PROVE  /\ StepOf(t) \in Nat /\ StepOf(t) <= t /\ t < StepOf(t) + CompactStep
           /\ Aligned(StepOf(t))
<1>1. CompactStep \in Nat /\ CompactStep > 0
  BY LogAssumption
<1> QED BY <1>1, Division DEF StepOf, Aligned

LEMMA Distribution ==
    ASSUME NEW m \in Nat, NEW n \in Nat, NEW c \in Nat
    PROVE  m * c + n * c = (m + n) * c
OBVIOUS

LEMMA Multiples ==
    ASSUME NEW m \in Nat, NEW n \in Nat, NEW c \in Nat, m < n
    PROVE  m * c + c <= n * c
<1>1. PICK d \in Nat : n = m + 1 + d
  <2>1. n - m - 1 \in Nat /\ n = m + 1 + (n - m - 1)
    OBVIOUS
  <2> QED BY <2>1
<1>2. n * c = m * c + c + d * c
  BY <1>1
<1>3. d * c \in Nat /\ m * c \in Nat
  OBVIOUS
<1> QED BY <1>2, <1>3

LEMMA StepBelow ==
    ASSUME NEW t \in Nat, NEW a \in Nat, Aligned(a)
    PROVE  /\ t < a => StepOf(t) + CompactStep <= a
           /\ a <= t => a <= StepOf(t)
<1> DEFINE c == CompactStep
<1>1. c \in Nat /\ c > 0
  BY LogAssumption
<1>2. PICK n \in Nat : a = n * c
  BY DEF Aligned
<1>3. PICK m \in Nat : StepOf(t) = m * c
  BY StepBounds DEF Aligned
<1>4. StepOf(t) <= t /\ t < StepOf(t) + c /\ StepOf(t) \in Nat
  BY StepBounds
<1> HIDE DEF c
<1>5. CASE m < n
  <2>1. m * c + c <= n * c
    BY <1>1, <1>5, Multiples
  <2> QED BY <1>1, <1>2, <1>3, <1>4, <2>1 DEF c
<1>6. CASE m = n
  BY <1>1, <1>2, <1>3, <1>4, <1>6 DEF c
<1>7. CASE n < m
  <2>1. n * c + c <= m * c
    BY <1>1, <1>7, Multiples
  <2> QED BY <1>1, <1>2, <1>3, <1>4, <2>1 DEF c
<1> QED BY <1>5, <1>6, <1>7

LEMMA StepOfAligned ==
    ASSUME NEW a \in Nat, Aligned(a) PROVE StepOf(a) = a
BY StepBelow, StepBounds

LEMMA StepOfStep == ASSUME NEW t \in Nat PROVE StepOf(StepOf(t)) = StepOf(t)
BY StepBounds, StepOfAligned

LEMMA NextChunk ==
    ASSUME NEW a \in Nat, Aligned(a)
    PROVE  a + compactChunk \in Nat /\ Aligned(a + compactChunk)
<1>1. PICK m \in Nat : a = m * CompactStep
  BY DEF Aligned
<1>2. PICK n \in Nat : compactChunk = n * CompactStep
  <2>1. /\ CompactStep \in Nat /\ CompactStep > 0
        /\ compactChunk \in Nat /\ compactChunk % CompactStep = 0
    BY LogAssumption
  <2>2. /\ compactChunk \div CompactStep \in Nat
        /\ compactChunk = (compactChunk \div CompactStep) * CompactStep
    BY <2>1, Division
  <2> QED BY <2>2
<1> DEFINE c == CompactStep
<1>3. c \in Nat /\ compactChunk \in Nat
  BY LogAssumption
<1> HIDE DEF c
<1>4. m * c + n * c = (m + n) * c
  BY <1>3, Distribution
<1>5. a + compactChunk = (m + n) * c
  <2>1. a = m * c /\ compactChunk = n * c
    BY <1>1, <1>2 DEF c
  <2>2. a + compactChunk = m * c + n * c
    BY ONLY <2>1
  <2> QED BY <1>4, <2>2
<1>6. a + compactChunk \in Nat /\ m + n \in Nat
  BY <1>3
<1> QED BY <1>5, <1>6 DEF Aligned, c

LEMMA Below == IsWellFoundedOn({p \in Nat \X Nat : p[1] < p[2]}, Nat)
BY NatLessThanWellFounded DEF OpToRel

LEMMA Smallest ==
    ASSUME NEW S \in SUBSET Nat, S # {}
    PROVE  Min(S) \in S /\ \A t \in S : Min(S) <= t
<1> DEFINE R == {p \in Nat \X Nat : p[1] < p[2]}
<1>1. IsWellFoundedOn(R, Nat)
  BY Below
<1> HIDE DEF R
<1>2. PICK x \in S : \A y \in S : <<y, x>> \notin R
  BY <1>1, WFMin
<1>3. ASSUME NEW y \in S PROVE x <= y
  <2>1. x \in Nat /\ y \in Nat /\ <<y, x>> \notin R
    BY <1>2
  <2>2. ~(y < x)
    BY <2>1 DEF R
  <2> QED BY <2>1, <2>2
<1> QED BY <1>3 DEF Min

(***************************************************************************)
(* The rows of one keg, at time n, when D are the times of its readings.   *)
(***************************************************************************)

Sound(rows, D, n) ==
    /\ \A r \in rows : r.ts \in Nat /\ r.ts <= n /\ r.covers \subseteq D
    /\ \A r, q \in rows : r # q => r.covers \cap q.covers = {}
    /\ \A r \in rows : \A t \in r.covers :
          /\ r.ts <= t /\ StepOf(t) = StepOf(r.ts)
          /\ t = r.ts \/ StepOf(t) + CompactStep <= n
    /\ \A t \in D : Retention = 0 \/ StepOf(t) >= n - Retention =>
                     \E r \in rows : t \in r.covers

Hourly(rows, t) == \A r \in rows : r.ts < t => r.ts = StepOf(r.ts)

(* Between two whole steps all rows of a step are folded together.           *)
LEMMA WholeSteps ==
    ASSUME NEW rows, \A r \in rows : r.ts \in Nat,
           NEW from \in Nat, NEW to \in Nat, Aligned(from), Aligned(to),
           NEW b \in Unfolded(rows, from, to)
    PROVE  /\ b \in Nat /\ StepOf(b) = b /\ b + CompactStep <= to
           /\ Bucket({r \in rows : r.ts >= from /\ r.ts < to}, b)
                 = {r \in rows : StepOf(r.ts) = b}
<1>1. PICK r \in rows : r.ts >= from /\ r.ts < to /\ b = StepOf(r.ts)
  BY DEF Unfolded
<1>2. b \in Nat /\ StepOf(b) = b /\ b + CompactStep <= to /\ from <= b
  BY <1>1, StepBounds, StepOfStep, StepBelow
<1>3. ASSUME NEW q \in rows, StepOf(q.ts) = b PROVE q.ts >= from /\ q.ts < to
  <2>1. b <= q.ts /\ q.ts < b + CompactStep /\ CompactStep \in Nat
    BY <1>3, StepBounds, LogAssumption
  <2> QED BY <1>2, <2>1
<1> QED BY <1>2, <1>3 DEF Bucket

LEMMA CompactSound ==
    ASSUME NEW rows, NEW D \in SUBSET Nat, NEW n \in Nat, Sound(rows, D, n),
           NEW from \in Nat, NEW to \in Nat, Aligned(from), Aligned(to), to <= n
    PROVE  Sound(compactRange(rows, from, to), D, n)
<1> DEFINE U == Unfolded(rows, from, to)
           Of(b) == {r \in rows : StepOf(r.ts) = b}
           F(b) == Folded(Of(b), b)
           new == compactRange(rows, from, to)
<1>1. /\ \A r \in rows : r.ts \in Nat /\ r.covers \in SUBSET Nat
      /\ CompactStep \in Nat
  BY LogAssumption DEF Sound
<1>2. ASSUME NEW b \in U
      PROVE  /\ b \in Nat /\ StepOf(b) = b /\ b + CompactStep <= to
             /\ Bucket({r \in rows : r.ts >= from /\ r.ts < to}, b) = Of(b)
  <2>1. \A r \in rows : r.ts \in Nat
    BY <1>1
  <2> QED BY <2>1, WholeSteps
<1>3. new = {r \in rows : StepOf(r.ts) \notin U} \cup {F(b) : b \in U}
  BY <1>2 DEF compactRange
<1>4. \A b \in U : F(b).ts = b /\ F(b).covers = UNION {r.covers : r \in Of(b)}
  BY DEF Folded
<1> HIDE DEF U, F, new
<1>5. ASSUME NEW b \in U, NEW t \in F(b).covers
      PROVE  \E r \in rows : t \in r.covers /\ StepOf(r.ts) = b
  BY <1>4
<1>6. \A r \in new : r.ts \in Nat /\ r.ts <= n /\ r.covers \subseteq D
  <2>1. ASSUME NEW b \in U PROVE b \in Nat /\ b <= n /\ F(b).covers \subseteq D
    BY <1>1, <1>2, <1>5 DEF Sound
  <2> QED BY <1>3, <1>4, <2>1 DEF Sound
<1> DEFINE CameFrom(r, t) == \E x \in rows :
              /\ t \in x.covers
              /\ \/ r = x /\ StepOf(x.ts) \notin U
                 \/ r = F(StepOf(x.ts)) /\ StepOf(x.ts) \in U
<1>7. ASSUME NEW r \in new, NEW t \in r.covers PROVE CameFrom(r, t)
  <2>1. CASE r \in rows /\ StepOf(r.ts) \notin U
    BY <1>7, <2>1
  <2>2. ASSUME NEW b \in U, r = F(b) PROVE CameFrom(r, t)
    BY <1>5, <1>7, <2>2
  <2> QED BY <1>3, <2>1, <2>2
<1>8. ASSUME NEW r \in new, NEW q \in new, NEW t \in r.covers, t \in q.covers PROVE r = q
  <2>0. CameFrom(r, t) /\ CameFrom(q, t)
    <3> HIDE DEF CameFrom
    <3> QED BY <1>8, <1>7
  <2>1. PICK x \in rows :
           /\ t \in x.covers
           /\ \/ r = x /\ StepOf(x.ts) \notin U
              \/ r = F(StepOf(x.ts)) /\ StepOf(x.ts) \in U
    BY <2>0
  <2>2. PICK y \in rows :
           /\ t \in y.covers
           /\ \/ q = y /\ StepOf(y.ts) \notin U
              \/ q = F(StepOf(y.ts)) /\ StepOf(y.ts) \in U
    BY <2>0
  <2>3. x = y
    BY <2>1, <2>2 DEF Sound
  <2> QED BY <2>1, <2>2, <2>3
<1>9. ASSUME NEW r \in new, NEW t \in r.covers
      PROVE  /\ r.ts <= t /\ StepOf(t) = StepOf(r.ts)
             /\ t = r.ts \/ StepOf(t) + CompactStep <= n
  <2>1. CASE r \in rows
    BY <1>9, <2>1 DEF Sound
  <2>2. CASE \E b \in U : r = F(b)
    <3>1. PICK b \in U : r = F(b)
      BY <2>2
    <3>2. PICK x \in rows : t \in x.covers /\ StepOf(x.ts) = b
      BY <1>5, <1>9, <3>1
    <3>3. t \in Nat /\ StepOf(t) = b /\ r.ts = b
      BY <1>1, <1>4, <3>1, <3>2 DEF Sound
    <3>4. b <= t /\ StepOf(b) = b /\ b + CompactStep <= to /\ b \in Nat
      BY <1>2, <3>3, StepBounds
    <3> QED BY <1>1, <3>3, <3>4
  <2> QED BY <1>3, <2>1, <2>2
<1>10. ASSUME NEW r \in rows, NEW t \in r.covers PROVE \E q \in new : t \in q.covers
  <2>1. CASE StepOf(r.ts) \notin U
    BY <1>3, <2>1
  <2>2. CASE StepOf(r.ts) \in U
    <3>1. t \in F(StepOf(r.ts)).covers
      BY <1>4, <2>2
    <3> QED BY <1>3, <2>2, <3>1
  <2> QED BY <2>1, <2>2
<1>11. \A t \in D : Retention = 0 \/ StepOf(t) >= n - Retention =>
                    \E r \in new : t \in r.covers
  BY <1>10 DEF Sound
<1> QED BY <1>6, <1>8, <1>9, <1>11 DEF Sound, new

LEMMA CompactHourly ==
    ASSUME NEW rows, \A r \in rows : r.ts \in Nat,
           NEW from \in Nat, NEW to \in Nat, Hourly(rows, from)
    PROVE  Hourly(compactRange(rows, from, to), to)
<1> DEFINE B == {r \in rows : r.ts >= from /\ r.ts < to}
<1>1. ASSUME NEW r \in rows, StepOf(r.ts) \notin Unfolded(rows, from, to), r.ts < to
      PROVE  r.ts = StepOf(r.ts)
  <2>1. CASE r.ts < from
    BY <2>1 DEF Hourly
  <2>2. CASE r.ts >= from
    <3>1. r \in B /\ r \in Bucket(B, StepOf(r.ts))
      BY <1>1, <2>2 DEF Bucket
    <3> QED BY <1>1, <3>1 DEF Unfolded
  <2> QED BY <2>1, <2>2
<1>2. ASSUME NEW b \in Unfolded(rows, from, to)
      PROVE  StepOf(Folded(Bucket(B, b), b).ts) = Folded(Bucket(B, b), b).ts
  <2>1. PICK r \in rows : b = StepOf(r.ts)
    BY DEF Unfolded
  <2> QED BY <2>1, StepOfStep DEF Folded
<1> QED BY <1>1, <1>2 DEF Hourly, compactRange

(***************************************************************************)
(* The invariants.                                                         *)
(***************************************************************************)

(* No step below the cutoff is still being filled. *)
PassInv ==
    pass.at = "compacting" =>
        /\ pass.cutoff \in Nat /\ Aligned(pass.cutoff) /\ pass.cutoff <= now
        /\ pass.keg # None =>
              /\ pass.keg \in Kegs /\ pass.start \in Nat /\ Aligned(pass.start)
              /\ pass.start <= pass.cutoff

RowsInv ==
    /\ now \in Nat
    /\ DOMAIN log = Kegs /\ DOMAIN reading = Kegs
    /\ \A k \in Kegs : \A t \in DOMAIN reading[k] : t \in Nat /\ t <= now
    /\ \A k \in Kegs : Sound(log[k], DOMAIN reading[k], now)
    /\ PassInv

HourlyInv ==
    /\ compactedTo \in Nat /\ compactedTo <= now
    /\ \A k \in Kegs : Hourly(log[k], compactedTo)
    /\ pass.at = "compacting" =>
          \A k \in Kegs :
              /\ k \notin pass.ids /\ (pass.keg = None \/ k # pass.keg) =>
                    Hourly(log[k], pass.cutoff)
              /\ pass.keg # None /\ k = pass.keg => Hourly(log[k], pass.start)

LogInv == RowsInv /\ HourlyInv

LEMMA InitLog == Init => LogInv
<1> SUFFICES ASSUME Init PROVE LogInv
  OBVIOUS
<1>1. now \in Nat
  <2>1. Times \in SUBSET Nat /\ Times # {}
    BY LogAssumption
  <2> QED BY <2>1, Smallest DEF Init
<1>2. \A k \in Kegs : log[k] = {} /\ DOMAIN reading[k] = {}
  BY DEF Init
<1> QED
  BY <1>1, <1>2
  DEF Init, LogInv, RowsInv, HourlyInv, PassInv, Sound, Hourly, idle

LEMMA ElapseKeeps == ASSUME LogInv, Elapse PROVE LogInv'
<1>1. now' \in Nat /\ now' > now /\ UNCHANGED <<log, reading, pass, compactedTo>>
  BY LogAssumption DEF Elapse, ghostVars
<1>2. ASSUME NEW k \in Kegs PROVE Sound(log[k], DOMAIN reading[k], now')
  <2> DEFINE D == DOMAIN reading[k]
  <2>1. /\ CompactStep \in Nat /\ Retention \in Nat /\ now \in Nat
        /\ \A t \in D : t \in Nat /\ StepOf(t) \in Nat
    BY LogAssumption, StepBounds DEF LogInv, RowsInv
  <2>2. Sound(log[k], D, now)
    BY DEF LogInv, RowsInv
  <2> HIDE DEF D
  <2>3. \A r \in log[k] : r.covers \subseteq D /\ r.ts \in Nat /\ r.ts <= now'
    BY <1>1, <2>1, <2>2 DEF Sound
  <2>4. \A r \in log[k] : \A t \in r.covers :
           /\ r.ts <= t /\ StepOf(t) = StepOf(r.ts)
           /\ t = r.ts \/ StepOf(t) + CompactStep <= now'
    BY <1>1, <2>1, <2>2, <2>3 DEF Sound
  <2>5. \A t \in D : Retention = 0 \/ StepOf(t) >= now' - Retention =>
                     \E r \in log[k] : t \in r.covers
    BY <1>1, <2>1, <2>2 DEF Sound
  <2> QED BY <2>2, <2>3, <2>4, <2>5 DEF Sound, D
<1> QED BY <1>1, <1>2 DEF LogInv, RowsInv, PassInv, HourlyInv, Hourly

(* A reading is recorded now: no row of an earlier step covers it.           *)
LEMMA AppendKeeps ==
    ASSUME LogInv, NEW k \in Kegs, NEW s, AppendLog(k, s), UNCHANGED <<now, pass, compactedTo>>
    PROVE  LogInv'
<1> DEFINE D == DOMAIN reading[k]
           row == [ts |-> now, amount |-> s.amount, pouring |-> s.pouring, covers |-> {now}]
           kept == {r \in log[k] : r.ts # now}
<1>1. /\ DOMAIN log' = Kegs /\ DOMAIN reading' = Kegs
      /\ log'[k] = kept \cup {row}
      /\ DOMAIN reading'[k] = D \cup {now}
      /\ \A j \in Kegs \ {k} : log'[j] = log[j] /\ reading'[j] = reading[j]
  BY DEF AppendLog, LogInv, RowsInv
<1>2. /\ now \in Nat /\ Sound(log[k], D, now) /\ CompactStep \in Nat
      /\ \A t \in D : t \in Nat /\ t <= now
  BY LogAssumption DEF LogInv, RowsInv
<1> HIDE DEF D
<1>3. \A r \in log[k] : now \in r.covers => r.ts = now
  <2>1. StepOf(now) \in Nat /\ now < StepOf(now) + CompactStep
    BY <1>2, StepBounds
  <2> QED BY <1>2, <2>1 DEF Sound
<1>4. \A r \in log[k] : r.ts = now => r.covers \subseteq {now}
  BY <1>2 DEF Sound
<1>5. Sound(log'[k], D \cup {now}, now)
  <2>1. \A r \in log'[k] : r.ts \in Nat /\ r.ts <= now /\ r.covers \subseteq D \cup {now}
    BY <1>1, <1>2 DEF Sound
  <2>2. \A r, q \in log'[k] : r # q => r.covers \cap q.covers = {}
    <3>1. \A r \in kept : now \notin r.covers
      BY <1>3
    <3>2. \A r, q \in kept : r # q => r.covers \cap q.covers = {}
      BY <1>2 DEF Sound
    <3>3. row.covers = {now}
      OBVIOUS
    <3> HIDE DEF kept, row
    <3> QED BY <1>1, <3>1, <3>2, <3>3
  <2>3. \A r \in log'[k] : \A t \in r.covers :
           /\ r.ts <= t /\ StepOf(t) = StepOf(r.ts)
           /\ t = r.ts \/ StepOf(t) + CompactStep <= now
    BY <1>1, <1>2 DEF Sound
  <2>4. \A t \in D \cup {now} : Retention = 0 \/ StepOf(t) >= now - Retention =>
           \E r \in log'[k] : t \in r.covers
    <3>1. \A t \in D : Retention = 0 \/ StepOf(t) >= now - Retention =>
             \E r \in log[k] : t \in r.covers
      BY <1>2 DEF Sound
    <3>2. now \in row.covers
      OBVIOUS
    <3>3. \A r \in log[k], t \in D : t \in r.covers => r \in kept \/ t = now
      BY <1>4
    <3> HIDE DEF kept, row
    <3> QED BY <1>1, <3>1, <3>2, <3>3
  <2> QED BY <2>1, <2>2, <2>3, <2>4 DEF Sound
<1>6. ASSUME NEW t \in Nat, t <= now, Hourly(log[k], t) PROVE Hourly(log'[k], t)
  BY <1>1, <1>2, <1>6 DEF Hourly
<1>7. RowsInv'
  <2>1. \A j \in Kegs : Sound(log'[j], DOMAIN reading'[j], now)
    BY <1>1, <1>5 DEF LogInv, RowsInv
  <2>2. \A j \in Kegs : \A t \in DOMAIN reading'[j] : t \in Nat /\ t <= now
    BY <1>1, <1>2 DEF LogInv, RowsInv
  <2> QED BY <1>1, <1>2, <2>1, <2>2 DEF LogInv, RowsInv, PassInv
<1>8. ASSUME NEW j \in Kegs, NEW t \in Nat, t <= now, Hourly(log[j], t) PROVE Hourly(log'[j], t)
  BY <1>1, <1>6, <1>8
<1>9. HourlyInv'
  <2>1. \A j \in Kegs : Hourly(log'[j], compactedTo)
    BY <1>8 DEF LogInv, HourlyInv
  <2>2. ASSUME pass.at = "compacting", NEW j \in Kegs
        PROVE  /\ j \notin pass.ids /\ (pass.keg = None \/ j # pass.keg) =>
                     Hourly(log'[j], pass.cutoff)
               /\ pass.keg # None /\ j = pass.keg => Hourly(log'[j], pass.start)
    <3>1. /\ pass.cutoff \in Nat /\ pass.cutoff <= now
          /\ pass.keg # None => pass.start \in Nat /\ pass.start <= now
      BY <1>2, <2>2 DEF LogInv, RowsInv, PassInv
    <3> QED BY <1>8, <2>2, <3>1 DEF LogInv, HourlyInv
  <2> QED BY <2>1, <2>2 DEF LogInv, HourlyInv
<1> QED BY <1>7, <1>9 DEF LogInv

(* What takes rows away, or changes their values, and does not begin a pass. *)
Lessens ==
    /\ UNCHANGED <<now, compactedTo>>
    /\ pass' = pass \/ pass'.at # "compacting"
    /\ DOMAIN log' = Kegs /\ DOMAIN reading' = Kegs
    /\ \A k \in Kegs :
          /\ DOMAIN reading'[k] \subseteq DOMAIN reading[k]
          /\ Sound(log'[k], DOMAIN reading'[k], now)
          /\ \A r \in log'[k] : \E q \in log[k] : q.ts = r.ts

LEMMA LessensKeeps == ASSUME LogInv, Lessens PROVE LogInv'
<1>1. ASSUME NEW k \in Kegs, NEW t, Hourly(log[k], t) PROVE Hourly(log'[k], t)
  BY <1>1 DEF Lessens, Hourly
<1>2. RowsInv'
  BY DEF Lessens, LogInv, RowsInv, PassInv
<1>3. HourlyInv'
  BY <1>1 DEF Lessens, LogInv, HourlyInv
<1> QED BY <1>2, <1>3 DEF LogInv

LEMMA StillLessens ==
    ASSUME LogInv, UNCHANGED <<now, compactedTo, log, reading>>,
           pass' = pass \/ pass'.at # "compacting"
    PROVE  Lessens
BY DEF LogInv, RowsInv, Lessens

LEMMA PruneLessens == ASSUME LogInv, StartPass PROVE Lessens
<1>1. /\ UNCHANGED <<now, reading, compactedTo>> /\ pass'.at # "compacting"
      /\ log' = IF Retention = 0 THEN log
                ELSE [k \in Kegs |-> log[k] \ Older(k, now - Retention)]
  BY DEF StartPass
<1>2. CASE Retention = 0
  BY <1>1, <1>2, StillLessens
<1>3. CASE Retention # 0
  <2>1. \A k \in Kegs : log'[k] = {r \in log[k] : ~(r.ts < now - Retention)}
    BY <1>1, <1>3 DEF Older
  <2>2. ASSUME NEW k \in Kegs PROVE Sound(log'[k], DOMAIN reading[k], now)
    <3> DEFINE D == DOMAIN reading[k]
    <3>1. /\ Sound(log[k], D, now) /\ Retention \in Nat /\ now \in Nat
          /\ \A t \in D : t \in Nat /\ StepOf(t) \in Nat
          /\ \A r \in log[k] : r.ts \in Nat /\ StepOf(r.ts) \in Nat /\ StepOf(r.ts) <= r.ts
      BY LogAssumption, StepBounds DEF LogInv, RowsInv, Sound
    <3> HIDE DEF D
    <3>2. ASSUME NEW t \in D, StepOf(t) >= now - Retention PROVE \E r \in log'[k] : t \in r.covers
      <4>1. PICK r \in log[k] : t \in r.covers
        BY <3>1, <3>2 DEF Sound
      <4>2. StepOf(r.ts) = StepOf(t) /\ StepOf(t) <= r.ts
        BY <3>1, <4>1 DEF Sound
      <4>3. ~(r.ts < now - Retention)
        BY <3>1, <3>2, <4>2
      <4> QED BY <2>1, <4>1, <4>3
    <3>3. log'[k] \subseteq log[k]
      BY <2>1
    <3> QED BY <1>3, <3>1, <3>2, <3>3 DEF Sound, D
  <2>3. DOMAIN log' = Kegs
    BY <1>1, <1>3
  <2> QED BY <1>1, <2>1, <2>2, <2>3 DEF LogInv, RowsInv, Lessens
<1> QED BY <1>2, <1>3

LEMMA EmptyIsSound == ASSUME NEW D, D = {} PROVE Sound({}, D, now)
BY DEF Sound

LEMMA ClearLessens ==
    ASSUME LogInv, NEW k \in Kegs, ClearLog(k) \/ DeleteKeg(k) PROVE Lessens
<1>1. /\ UNCHANGED <<now, pass, compactedTo>>
      /\ log' = [log EXCEPT ![k] = {}] /\ reading' = [reading EXCEPT ![k] = <<>>]
  BY DEF ClearLog, DeleteKeg
<1>2. DOMAIN reading'[k] = {} /\ log'[k] = {}
  BY <1>1 DEF LogInv, RowsInv
<1>3. \A j \in Kegs \ {k} : reading'[j] = reading[j] /\ log'[j] = log[j]
  BY <1>1 DEF LogInv, RowsInv
<1>4. Sound(log'[k], DOMAIN reading'[k], now)
  BY <1>2, EmptyIsSound
<1> QED BY <1>1, <1>2, <1>3, <1>4 DEF LogInv, RowsInv, Lessens

(* An edit changes values, neither times nor what a row covers.              *)
LEMMA UpdateLessens ==
    ASSUME LogInv, NEW k \in Kegs, NEW stamps, NEW e,
           UpdateLogEntries(k, stamps, e), UNCHANGED <<now, pass, compactedTo>>
    PROVE  Lessens
<1> DEFINE hit == {r \in log[k] : r.ts \in stamps}
           D == DOMAIN reading[k]
<1>1. /\ log' = [log EXCEPT ![k] = (@ \ hit) \cup {Edited(r, e) : r \in hit}]
      /\ reading' = [reading EXCEPT ![k] =
            [t \in DOMAIN @ |-> IF t \in CoveredBy(hit) THEN Edited(@[t], e) ELSE @[t]]]
  BY DEF UpdateLogEntries
<1>2. /\ DOMAIN log' = Kegs /\ DOMAIN reading' = Kegs /\ DOMAIN reading'[k] = D
      /\ log'[k] = (log[k] \ hit) \cup {Edited(r, e) : r \in hit}
      /\ \A j \in Kegs \ {k} : reading'[j] = reading[j] /\ log'[j] = log[j]
  BY <1>1 DEF LogInv, RowsInv
<1>3. \A r \in log[k] : Edited(r, e).ts = r.ts /\ Edited(r, e).covers = r.covers
  BY DEF Edited
<1>4. \A r \in log'[k] : \E q \in log[k] :
         /\ q.ts = r.ts /\ q.covers = r.covers
         /\ IF q \in hit THEN r = Edited(q, e) ELSE r = q
  BY <1>2, <1>3
<1>5. \A q \in log[k] : \E r \in log'[k] : r.covers = q.covers
  BY <1>2, <1>3
<1> HIDE DEF hit, D
<1>6. Sound(log[k], D, now)
  BY DEF LogInv, RowsInv, D
<1>7. ASSUME NEW r \in log'[k], NEW q \in log'[k], NEW t, t \in r.covers, t \in q.covers
      PROVE  r = q
  <2>1. PICK x \in log[k] : x.covers = r.covers /\ IF x \in hit THEN r = Edited(x, e) ELSE r = x
    BY <1>4
  <2>2. PICK y \in log[k] : y.covers = q.covers /\ IF y \in hit THEN q = Edited(y, e) ELSE q = y
    BY <1>4
  <2>3. x = y
    BY <1>6, <1>7, <2>1, <2>2 DEF Sound
  <2> QED BY <2>1, <2>2, <2>3
<1>8. Sound(log'[k], D, now)
  <2>1. \A r \in log'[k] : r.ts \in Nat /\ r.ts <= now /\ r.covers \subseteq D
    BY <1>4, <1>6 DEF Sound
  <2>2. \A r \in log'[k] : \A t \in r.covers :
           /\ r.ts <= t /\ StepOf(t) = StepOf(r.ts)
           /\ t = r.ts \/ StepOf(t) + CompactStep <= now
    BY <1>4, <1>6 DEF Sound
  <2>3. \A t \in D : Retention = 0 \/ StepOf(t) >= now - Retention =>
           \E r \in log'[k] : t \in r.covers
    BY <1>5, <1>6 DEF Sound
  <2> QED BY <1>7, <2>1, <2>2, <2>3 DEF Sound
<1> QED BY <1>2, <1>4, <1>8 DEF LogInv, RowsInv, Lessens, D

LEMMA DeleteLessens ==
    ASSUME LogInv, NEW k \in Kegs, NEW stamps,
           DeleteLogEntries(k, stamps), UNCHANGED <<now, pass, compactedTo>>
    PROVE  Lessens
<1> DEFINE hit == {r \in log[k] : r.ts \in stamps}
           D == DOMAIN reading[k]
<1>1. /\ log' = [log EXCEPT ![k] = @ \ hit]
      /\ reading' = [reading EXCEPT ![k] = [t \in DOMAIN @ \ CoveredBy(hit) |-> @[t]]]
  BY DEF DeleteLogEntries
<1>2. /\ DOMAIN log' = Kegs /\ DOMAIN reading' = Kegs
      /\ DOMAIN reading'[k] = D \ CoveredBy(hit) /\ log'[k] = log[k] \ hit
      /\ \A j \in Kegs \ {k} : reading'[j] = reading[j] /\ log'[j] = log[j]
  BY <1>1 DEF LogInv, RowsInv
<1>3. Sound(log[k], D, now)
  BY DEF LogInv, RowsInv
<1> HIDE DEF hit, D
<1>4. hit \subseteq log[k]
  BY DEF hit
<1>5. \A r \in log'[k] : r.covers \subseteq D \ CoveredBy(hit)
  BY <1>2, <1>3, <1>4 DEF Sound, CoveredBy
<1>6. \A t \in D \ CoveredBy(hit) : Retention = 0 \/ StepOf(t) >= now - Retention =>
         \E r \in log'[k] : t \in r.covers
  BY <1>2, <1>3 DEF Sound, CoveredBy
<1>7. Sound(log'[k], D \ CoveredBy(hit), now)
  BY <1>2, <1>3, <1>5, <1>6 DEF Sound
<1> QED BY <1>2, <1>7 DEF LogInv, RowsInv, Lessens, D

(***************************************************************************)
(* The pass.                                                               *)
(***************************************************************************)

LEMMA CutoffBounds ==
    ASSUME now \in Nat PROVE Cutoff \in Nat /\ Aligned(Cutoff) /\ Cutoff <= now
<1> DEFINE c == IF now > CompactAfter THEN now - CompactAfter ELSE 0
<1>1. c \in Nat /\ c <= now
  BY LogAssumption
<1> HIDE DEF c
<1>2. Cutoff = StepOf(c)
  BY DEF Cutoff, c
<1> QED BY <1>1, <1>2, StepBounds

LEMMA CompactLogKeeps == ASSUME LogInv, CompactLog PROVE LogInv'
<1>1. CASE pass' = idle
  <2>1. pass'.at # "compacting"
    BY <1>1 DEF idle
  <2>2. UNCHANGED <<now, compactedTo, log, reading>>
    BY DEF CompactLog, ghostVars
  <2> QED BY <2>1, <2>2, StillLessens, LessensKeeps
<1>2. CASE pass' = [idle EXCEPT !.at = "compacting", !.cutoff = Cutoff,
                                !.ids = {k \in Kegs : log[k] # {}}]
  <2>1. /\ UNCHANGED <<now, log, reading, compactedTo>>
        /\ pass'.cutoff = Cutoff /\ pass'.keg = None
        /\ pass'.ids = {k \in Kegs : log[k] # {}}
    BY <1>2 DEF CompactLog, ghostVars, idle
  <2>2. RowsInv'
    BY <2>1, CutoffBounds DEF LogInv, RowsInv, PassInv
  <2>3. HourlyInv'
    BY <2>1 DEF LogInv, HourlyInv, Hourly
  <2> QED BY <2>2, <2>3 DEF LogInv
<1> QED BY <1>1, <1>2 DEF CompactLog

(* The chunks of a keg begin at the step of its oldest row.                  *)
LEMMA NextKegKeeps == ASSUME LogInv, NEW k \in Kegs, NextKeg(k) PROVE LogInv'
<1> DEFINE old == {r.ts : r \in Older(k, pass.cutoff)}
<1>1. /\ pass.at = "compacting" /\ pass.keg = None /\ k \in pass.ids
      /\ pass' = [pass EXCEPT !.ids = @ \ {k}, !.keg = IF old = {} THEN None ELSE k,
                              !.start = IF old = {} THEN 0 ELSE StepOf(Min(old))]
      /\ UNCHANGED <<now, log, reading, compactedTo>>
  BY DEF NextKeg, Compacting, ghostVars
<1>2. /\ pass'.ids = pass.ids \ {k} /\ pass'.cutoff = pass.cutoff
      /\ pass'.keg = IF old = {} THEN None ELSE k
      /\ old # {} => pass'.start = StepOf(Min(old))
      /\ pass'.at = "compacting"
  <2> HIDE DEF old
  <2> QED BY <1>1
<1>3. /\ pass.cutoff \in Nat /\ Aligned(pass.cutoff) /\ pass.cutoff <= now
      /\ \A r \in log[k] : r.ts \in Nat
  BY <1>1 DEF LogInv, RowsInv, PassInv, Sound
<1>4. CASE old = {}
  <2>1. Hourly(log[k], pass.cutoff)
    BY <1>4 DEF Older, Hourly
  <2>2. RowsInv'
    BY <1>1, <1>2, <1>3, <1>4 DEF LogInv, RowsInv, PassInv
  <2>3. HourlyInv'
    BY <1>1, <1>2, <1>4, <2>1 DEF LogInv, HourlyInv
  <2> QED BY <2>2, <2>3 DEF LogInv
<1>5. CASE old # {}
  <2>1. old \in SUBSET Nat /\ \A t \in old : t < pass.cutoff
    BY <1>3 DEF Older
  <2>2. Min(old) \in old /\ \A t \in old : Min(old) <= t
    BY <1>5, <2>1, Smallest
  <2> HIDE DEF old
  <2>3. /\ pass'.start \in Nat /\ Aligned(pass'.start)
        /\ pass'.start <= Min(old) /\ Min(old) \in Nat /\ Min(old) < pass.cutoff
    BY <1>2, <1>5, <2>1, <2>2, StepBounds
  <2>4. Hourly(log[k], pass'.start)
    <3>1. ASSUME NEW r \in log[k], r.ts < pass'.start PROVE FALSE
      <4>1. r.ts \in old
        BY <1>3, <2>3, <3>1 DEF old, Older
      <4> QED BY <1>3, <2>2, <2>3, <3>1, <4>1
    <3> QED BY <3>1 DEF Hourly
  <2>5. RowsInv'
    BY <1>1, <1>2, <1>3, <1>5, <2>3 DEF LogInv, RowsInv, PassInv
  <2>6. HourlyInv'
    <3>1. pass'.keg = k /\ k # None
      BY <1>2, <1>5, LogAssumption
    <3> QED BY <1>1, <1>2, <2>4, <3>1 DEF LogInv, HourlyInv
  <2> QED BY <2>5, <2>6 DEF LogInv
<1> QED BY <1>4, <1>5

LEMMA CompactChunkKeeps == ASSUME LogInv, CompactChunk PROVE LogInv'
<1> DEFINE k == pass.keg
           from == pass.start
           to == ChunkEnd
<1>1. /\ pass.at = "compacting" /\ k # None
      /\ log' = [log EXCEPT ![k] = compactRange(@, from, to)]
      /\ pass' = [pass EXCEPT !.start = @ + compactChunk,
                              !.keg = IF to < pass.cutoff THEN @ ELSE None]
      /\ UNCHANGED <<now, reading, compactedTo>>
  BY DEF CompactChunk, Compacting
<1>2. /\ pass'.at = "compacting" /\ pass'.cutoff = pass.cutoff /\ pass'.ids = pass.ids
      /\ pass'.start = from + compactChunk
      /\ pass'.keg = IF to < pass.cutoff THEN k ELSE None
  BY <1>1
<1>3. /\ k \in Kegs /\ from \in Nat /\ Aligned(from) /\ now \in Nat
      /\ pass.cutoff \in Nat /\ Aligned(pass.cutoff) /\ pass.cutoff <= now
  BY <1>1 DEF LogInv, RowsInv, PassInv
<1>4. /\ from + compactChunk \in Nat /\ Aligned(from + compactChunk)
  BY <1>3, NextChunk
<1>5. /\ to \in Nat /\ Aligned(to) /\ to <= pass.cutoff /\ to <= now
      /\ to < pass.cutoff => to = from + compactChunk
      /\ ~(to < pass.cutoff) => to = pass.cutoff
  BY <1>3, <1>4 DEF ChunkEnd
<1> HIDE DEF k, from, to
<1>6. /\ log'[k] = compactRange(log[k], from, to) /\ DOMAIN log' = Kegs
      /\ \A j \in Kegs \ {k} : log'[j] = log[j]
  BY <1>1, <1>3 DEF LogInv, RowsInv
<1>7. /\ Sound(log[k], DOMAIN reading[k], now) /\ DOMAIN reading[k] \in SUBSET Nat
      /\ \A r \in log[k] : r.ts \in Nat
  BY <1>3 DEF LogInv, RowsInv, Sound
<1>8. Sound(log'[k], DOMAIN reading[k], now)
  BY <1>3, <1>5, <1>6, <1>7, CompactSound
<1>9. Hourly(log[k], from) => Hourly(log'[k], to)
  BY <1>3, <1>5, <1>6, <1>7, CompactHourly
<1>10. ASSUME NEW t \in Nat, Hourly(log[k], t) PROVE Hourly(log'[k], t)
  <2>1. ASSUME NEW r \in log'[k] PROVE r \in log[k] \/ r.ts = StepOf(r.ts)
    <3>1. CASE r \in log[k]
      BY <3>1
    <3>2. CASE \E b \in Unfolded(log[k], from, to) : \E rows : r = Folded(rows, b)
      <4>1. PICK q \in log[k] : r.ts = StepOf(q.ts)
        BY <3>2 DEF Folded, Unfolded
      <4> QED BY <1>7, <4>1, StepOfStep
    <3> QED BY <1>6, <3>1, <3>2 DEF compactRange
  <2> QED BY <1>10, <2>1 DEF Hourly
<1>11. RowsInv'
  <2>1. \A j \in Kegs : Sound(log'[j], DOMAIN reading[j], now)
    BY <1>6, <1>8 DEF LogInv, RowsInv
  <2> QED BY <1>1, <1>2, <1>3, <1>4, <1>5, <1>6, <2>1 DEF LogInv, RowsInv, PassInv
<1>12. HourlyInv'
  <2>1. Hourly(log[k], from)
    BY <1>1, <1>3 DEF LogInv, HourlyInv, k, from
  <2>2. \A j \in Kegs : Hourly(log'[j], compactedTo)
    BY <1>6, <1>10 DEF LogInv, HourlyInv
  <2>3. ASSUME NEW j \in Kegs, j \notin pass.ids, pass'.keg = None \/ j # pass'.keg
        PROVE  Hourly(log'[j], pass.cutoff)
    <3>1. CASE j # k
      BY <1>1, <1>6, <2>3, <3>1 DEF LogInv, HourlyInv, k
    <3>2. CASE j = k
      BY <1>1, <1>2, <1>5, <1>9, <2>1, <2>3, <3>2
    <3> QED BY <3>1, <3>2
  <2>4. pass'.keg # None => Hourly(log'[k], pass'.start)
    BY <1>2, <1>5, <1>9, <2>1
  <2>5. UNCHANGED compactedTo /\ compactedTo \in Nat /\ compactedTo <= now
    BY <1>1 DEF LogInv, HourlyInv
  <2> QED BY <1>1, <1>2, <2>2, <2>3, <2>4, <2>5 DEF HourlyInv
<1> QED BY <1>11, <1>12 DEF LogInv

LEMMA EndPassKeeps == ASSUME LogInv, EndPass PROVE LogInv'
<1>1. /\ UNCHANGED <<now, log, reading>> /\ pass' = idle /\ compactedTo' = pass.cutoff
      /\ pass.at = "compacting" /\ pass.keg = None /\ pass.ids = {}
  BY DEF EndPass, Compacting
<1>2. RowsInv'
  BY <1>1 DEF LogInv, RowsInv, PassInv, idle
<1>3. HourlyInv'
  BY <1>1 DEF LogInv, RowsInv, HourlyInv, PassInv, idle
<1> QED BY <1>2, <1>3 DEF LogInv

PageInv == page # None => page.keg \in Kegs

LEMMA Loads ==
    ASSUME NEW k \in Kegs, NEW after, NEW before, NEW turned, Load(k, after, before, turned)
    PROVE  page'.keg = k
BY DEF Load, ReadLogPage

LEMMA NextPage == ASSUME PageInv, [Next]_vars PROVE PageInv'
<1>1. CASE UNCHANGED page
  BY <1>1 DEF PageInv
<1>2. CASE Elapse \/ Ingest \/ Restart \/ UNCHANGED vars \/
           \E k \in Kegs : ClearLog(k) \/ DeleteKeg(k)
  BY <1>1, <1>2 DEF Elapse, Ingest, Record, ApplyPacket, Restart, ClearLog, DeleteKeg, vars
<1>3. CASE Pass
  BY <1>1, <1>3 DEF Pass, StartPass, CompactLog, CompactChunk, EndPass, FailPass, NextKeg
<1>4. CASE Later \/ Earlier \/ Reload \/ \E k \in Kegs : Open(k)
  BY <1>4, Loads DEF Later, Earlier, Reload, Open, Browsing, PageInv
<1>5. ASSUME NEW stamps, page # None, Delete(stamps) \/ \E e \in Edits : Save(stamps, e)
      PROVE  PageInv'
  <2>1. page' = [page EXCEPT !.stale = TRUE]
    BY <1>5 DEF Delete, Save
  <2> QED BY <1>5, <2>1 DEF PageInv
<1> QED BY <1>2, <1>3, <1>4, <1>5 DEF Next, Editor

LEMMA NextLog == ASSUME LogInv, PageInv, [Next]_vars PROVE LogInv'
<1>1. CASE Elapse
  BY <1>1, ElapseKeeps
<1>2. ASSUME NEW k \in Kegs, Record(k) PROVE LogInv'
  <2>1. UNCHANGED <<now, pass, compactedTo>>
    BY <1>2 DEF Record
  <2>2. CASE AppendLog(k, Reads[now])
    BY <2>1, <2>2, AppendKeeps
  <2>3. CASE UNCHANGED <<log, reading>>
    BY <2>1, <2>3, StillLessens, LessensKeeps
  <2> QED BY <1>2, <2>2, <2>3 DEF Record
<1>3. CASE \/ Restart \/ FailPass \/ UNCHANGED vars
           \/ \E k \in Kegs : \E reads \in BOOLEAN : ApplyPacket(k, reads)
  BY <1>3, StillLessens, LessensKeeps DEF Restart, FailPass, ApplyPacket, idle, vars, ghostVars
<1>4. CASE Pass
  BY <1>3, <1>4, PruneLessens, LessensKeeps, CompactLogKeeps, NextKegKeeps,
     CompactChunkKeeps, EndPassKeeps DEF Pass
<1>5. CASE Later \/ Earlier \/ Reload \/ \E k \in Kegs : Open(k)
  BY <1>5, StillLessens, LessensKeeps DEF Later, Earlier, Reload, Open, Load
<1>6. ASSUME NEW stamps, page # None, Delete(stamps) \/ \E e \in Edits : Save(stamps, e)
      PROVE  LogInv'
  <2>1. page.keg \in Kegs
    BY <1>6 DEF PageInv
  <2>2. CASE Delete(stamps)
    BY <2>1, <2>2, DeleteLessens, LessensKeeps DEF Delete
  <2>3. ASSUME NEW e \in Edits, Save(stamps, e) PROVE LogInv'
    BY <2>1, <2>3, UpdateLessens, LessensKeeps DEF Save
  <2> QED BY <1>6, <2>2, <2>3
<1>7. ASSUME NEW k \in Kegs, ClearLog(k) \/ DeleteKeg(k) PROVE LogInv'
  BY <1>7, ClearLessens, LessensKeeps
<1> QED BY <1>1, <1>2, <1>3, <1>4, <1>5, <1>6, <1>7 DEF Next, Ingest, Editor

LEMMA InvAlways == Spec => [](LogInv /\ PageInv)
<1>1. Init => PageInv
  BY DEF Init, PageInv
<1> QED BY InitLog, NextLog, NextPage, <1>1, PTL DEF Spec

(* For any times, intervals, steps, chunks, failures and restarts, and       *)
(* whatever operators do in between, every recorded reading that nobody      *)
(* removed is in exactly one row, in its own step, until its age takes it.   *)
THEOREM ReadingsKept == Spec => []EveryReadingKept
<1>1. LogInv => EveryReadingKept
  BY DEF LogInv, RowsInv, Sound, EveryReadingKept
<1> QED BY InvAlways, <1>1, PTL

(* A pass that ends well leaves no two rows of a step below its cutoff, and  *)
(* nothing that comes later adds one.                                        *)
THEOREM StaysHourly == Spec => []CompactedStaysHourly
<1>1. LogInv => CompactedStaysHourly
  BY DEF LogInv, HourlyInv, Hourly, CompactedStaysHourly
<1> QED BY InvAlways, <1>1, PTL

(***************************************************************************)
(* Sums.  MapThenSumSet adds up a set in an order of its own choice; what  *)
(* it returns depends neither on that order nor on what the elements are.  *)
(***************************************************************************)

(* The sum in AVG. *)
Total(rows) == MapThenSumSet(LAMBDA r : r.amount, rows)

(* The element that MapThenFoldSet takes first. *)
One(s) == CHOOSE x \in s : TRUE

(* g adds up every subset of S, in the order One gives. *)
Summed(g, S) ==
    g = [s \in SUBSET S |-> IF s = {} THEN 0 ELSE One(s).amount + g[s \ {One(s)}]]

(* What fails for a subset of a finite set fails for one all of whose own    *)
(* subsets are right: induction over subsets, without an operator argument.  *)
LEMMA SmallestSubset ==
    ASSUME NEW S, IsFiniteSet(S), NEW C \in SUBSET (SUBSET S), C # {}
    PROVE  \E T \in C : \A U \in C : U \subseteq T => U = T
<1>1. IsWellFoundedOn(StrictSubsetOrdering(S), FiniteSubsetsOf(S))
  BY FS_StrictSubsetOrderingWellFounded
<1>2. FiniteSubsetsOf(S) = SUBSET S
  BY FS_FiniteSubsetsOfFinite
<1>3. PICK T \in C : \A U \in C : <<U, T>> \notin StrictSubsetOrdering(S)
  BY <1>1, <1>2, WFMin
<1>4. ASSUME NEW U \in C, U \subseteq T, U # T PROVE FALSE
  BY <1>3, <1>4 DEF StrictSubsetOrdering
<1> QED BY <1>4

(* Two functions that add up subsets agree wherever both do.                 *)
LEMMA SumsAgree ==
    ASSUME NEW A, NEW B, NEW g, NEW h, Summed(g, A), Summed(h, B), IsFiniteSet(A),
           NEW s \in SUBSET A, s \in SUBSET B
    PROVE  g[s] = h[s]
<1> DEFINE C == {t \in SUBSET A : t \in SUBSET B /\ g[t] # h[t]}
<1>1. SUFFICES ASSUME C # {} PROVE FALSE
  OBVIOUS
<1>2. C \in SUBSET (SUBSET A)
  OBVIOUS
<1>3. PICK t \in C : \A u \in C : u \subseteq t => u = t
  <2> HIDE DEF C
  <2> QED BY <1>1, <1>2, SmallestSubset
<1>4. /\ t \in SUBSET A /\ t \in SUBSET B /\ g[t] # h[t]
  BY <1>3
<1>5. t # {}
  BY <1>4 DEF Summed
<1>6. One(t) \in t
  BY <1>5 DEF One
<1>7. /\ t \ {One(t)} \in SUBSET A /\ t \ {One(t)} \in SUBSET B
      /\ t \ {One(t)} # t
  BY <1>4, <1>6
<1>8. g[t \ {One(t)}] = h[t \ {One(t)}]
  BY <1>3, <1>7
<1>9. /\ g[t] = One(t).amount + g[t \ {One(t)}]
      /\ h[t] = One(t).amount + h[t \ {One(t)}]
  BY <1>4, <1>5 DEF Summed
<1> QED BY <1>4, <1>8, <1>9

(* The sum of s, wherever it is added up. *)
Sum(s) == (CHOOSE g : Summed(g, s))[s]

(* There is such a function, so the CHOOSE of MapThenFoldSet finds it.       *)
LEMMA SumsExist ==
    ASSUME NEW S, IsFiniteSet(S)
    PROVE  \E g : Summed(g, S)
<1> DEFINE C == {t \in SUBSET S : ~ \E g : Summed(g, t)}
<1>1. SUFFICES ASSUME C # {} PROVE FALSE
  OBVIOUS
<1>2. PICK t \in C : \A u \in C : u \subseteq t => u = t
  <2>1. C \in SUBSET (SUBSET S)
    OBVIOUS
  <2> HIDE DEF C
  <2> QED BY <1>1, <2>1, SmallestSubset
<1>3. ASSUME NEW u \in SUBSET t, u # t PROVE Summed(CHOOSE g : Summed(g, u), u)
  <2>1. \E g : Summed(g, u)
    BY <1>2, <1>3
  <2> QED BY <2>1
<1>4. \A u \in SUBSET t : IsFiniteSet(u)
  BY FS_Subset
<1>5. ASSUME NEW u \in SUBSET t, u # t, u # {}
      PROVE  Sum(u) = One(u).amount + Sum(u \ {One(u)})
  <2> DEFINE v == u \ {One(u)}
             g == CHOOSE g : Summed(g, u)
             h == CHOOSE h : Summed(h, v)
  <2>1. One(u) \in u
    BY <1>5 DEF One
  <2>2. v \in SUBSET t /\ v # t /\ v \in SUBSET u
    BY <1>5
  <2>3. Summed(g, u) /\ Summed(h, v)
    BY <1>3, <1>5, <2>2
  <2>4. IsFiniteSet(u)
    BY <1>4
  <2>5. Sum(u) = g[u] /\ Sum(v) = h[v]
    BY DEF Sum
  <2> HIDE DEF g, h
  <2>6. g[u] = One(u).amount + g[v]
    BY <1>5, <2>3 DEF Summed
  <2>7. g[v] = h[v]
    BY <2>2, <2>3, <2>4, SumsAgree
  <2> QED BY <2>5, <2>6, <2>7
<1>6. ASSUME {} # t PROVE Sum({}) = 0
  BY <1>3, <1>6 DEF Sum, Summed
<1> DEFINE f == [s \in SUBSET t |-> IF s = t /\ t # {} THEN One(t).amount + Sum(t \ {One(t)})
                                    ELSE IF s = {} THEN 0 ELSE Sum(s)]
<1>7. Summed(f, t)
  <2>1. ASSUME NEW s \in SUBSET t, s # {} PROVE f[s] = One(s).amount + f[s \ {One(s)}]
    <3>1. One(s) \in s
      BY <2>1 DEF One
    <3>2. s \ {One(s)} \in SUBSET t /\ s \ {One(s)} # t
      BY <2>1, <3>1
    <3>3. f[s \ {One(s)}] = Sum(s \ {One(s)})
      BY <1>6, <2>1, <3>1, <3>2
    <3>4. f[s] = One(s).amount + Sum(s \ {One(s)})
      BY <1>5, <2>1
    <3> QED BY <3>3, <3>4
  <2>2. f[{}] = 0 /\ DOMAIN f = SUBSET t
    OBVIOUS
  <2>3. f = [s \in SUBSET t |-> f[s]]
    OBVIOUS
  <2> HIDE DEF f
  <2>4. [s \in SUBSET t |-> f[s]]
          = [s \in SUBSET t |-> IF s = {} THEN 0 ELSE One(s).amount + f[s \ {One(s)}]]
    BY <2>1, <2>2
  <2> QED BY <2>3, <2>4 DEF Summed
<1> QED BY <1>2, <1>7

(* The library's sum is any such function's.                                 *)
LEMMA TotalIs ==
    ASSUME NEW S, IsFiniteSet(S), NEW A, IsFiniteSet(A), S \in SUBSET A,
           NEW g, Summed(g, A)
    PROVE  Total(S) = g[S]
<1> DEFINE h == CHOOSE g1 : g1 = [s \in SUBSET S |-> IF s = {} THEN 0
                                  ELSE One(s).amount + g1[s \ {One(s)}]]
<1>1. Total(S) = h[S]
  BY DEF Total, MapThenSumSet, MapThenFoldSet, One
<1>2. Summed(h, S)
  BY SumsExist DEF Summed
<1> HIDE DEF h
<1>3. h[S] = g[S]
  BY <1>2, SumsAgree
<1> QED BY <1>1, <1>3

(* The recursion of the fold. *)
LEMMA TotalStep ==
    ASSUME NEW S, IsFiniteSet(S)
    PROVE  Total(S) = IF S = {} THEN 0 ELSE One(S).amount + Total(S \ {One(S)})
<1>1. PICK g : Summed(g, S)
  BY SumsExist
<1>2. Total(S) = g[S] 
  BY <1>1, TotalIs
<1>3. IsFiniteSet(S \ {One(S)}) /\ S \ {One(S)} \in SUBSET S
  BY FS_RemoveElement
<1>4. Total(S \ {One(S)}) = g[S \ {One(S)}]
  BY <1>1, <1>3, TotalIs
<1>5. g[S] = IF S = {} THEN 0 ELSE One(S).amount + g[S \ {One(S)}]
  BY <1>1 DEF Summed
<1> QED BY <1>2, <1>4, <1>5

Measured(S) == \A r \in S : r.amount \in Int

(* Whichever element is added first, the sum is the same.                    *)
LEMMA TotalAny ==
    ASSUME NEW S, IsFiniteSet(S), Measured(S)
    PROVE  /\ Total(S) \in Int
           /\ \A x \in S : Total(S) = x.amount + Total(S \ {x})
<1> DEFINE Good(T) == /\ Total(T) \in Int
                      /\ \A x \in T : Total(T) = x.amount + Total(T \ {x})
           C == {T \in SUBSET S : ~Good(T)}
<1>1. SUFFICES ASSUME C # {} PROVE FALSE
  OBVIOUS
<1>2. PICK T \in C : \A U \in C : U \subseteq T => U = T
  <2>1. C \in SUBSET (SUBSET S)
    OBVIOUS
  <2> HIDE DEF C
  <2> QED BY <1>1, <2>1, SmallestSubset
<1>3. T \in SUBSET S /\ ~Good(T) /\ \A U \in SUBSET T : U # T => Good(U)
  BY <1>2
<1>4. \A U \in SUBSET S : IsFiniteSet(U)
  BY FS_Subset
<1>5. T # {}
  <2>1. IsFiniteSet({}) /\ Total({}) = 0
    BY FS_EmptySet, TotalStep
  <2>2. Good({})
    BY <2>1
  <2> HIDE DEF Good
  <2> QED BY <1>3, <2>2
<1> DEFINE o == One(T)
<1>6. o \in T /\ o.amount \in Int
  BY <1>3, <1>5 DEF One, Measured
<1>7. Total(T) = o.amount + Total(T \ {o})
  BY <1>3, <1>4, <1>5, TotalStep
<1> HIDE DEF o, Good
<1>8. Good(T \ {o})
  BY <1>3, <1>6
<1>9. Total(T) \in Int
  BY <1>6, <1>7, <1>8 DEF Good
<1>10. ASSUME NEW x \in T PROVE Total(T) = x.amount + Total(T \ {x})
  <2>1. CASE x = o
    BY <1>7, <2>1
  <2>2. CASE x # o
    <3> DEFINE a == Total(T \ {o})
               b == Total(T \ {x})
               c == Total((T \ {o}) \ {x})
    <3>1. x \in T \ {o} /\ o \in T \ {x} /\ x.amount \in Int
      BY <1>3, <1>6, <2>2 DEF Measured
    <3>2. Good(T \ {x}) /\ Good((T \ {o}) \ {x})
      BY <1>3, <1>6, <3>1
    <3>3. (T \ {x}) \ {o} = (T \ {o}) \ {x}
      OBVIOUS
    <3>4. a = x.amount + c
      BY <1>8, <3>1 DEF Good
    <3>5. b = o.amount + c
      BY <3>1, <3>2, <3>3 DEF Good
    <3>6. c \in Int
      BY <3>2 DEF Good
    <3> HIDE DEF a, b, c
    <3>7. o.amount + a = x.amount + b
      BY <1>6, <3>1, <3>4, <3>5, <3>6
    <3> QED BY <1>7, <3>7 DEF a, b
  <2> QED BY <2>1, <2>2
<1> QED BY <1>3, <1>9, <1>10 DEF Good

(* Sets that correspond one to one have the same sum and the same number.    *)
LEMMA TotalOfImage ==
    ASSUME NEW S, IsFiniteSet(S), NEW T, NEW f \in Bijection(S, T), Measured(S),
           \A x \in S : f[x].amount = x.amount
    PROVE  Total(T) = Total(S) /\ IsFiniteSet(T) /\ Cardinality(T) = Cardinality(S)
<1> DEFINE Img(U) == {f[x] : x \in U}
           C == {U \in SUBSET S : Total(Img(U)) # Total(U)}
<1>0. /\ \A x \in S : f[x] \in T
      /\ \A x, y \in S : f[x] = f[y] => x = y
      /\ T = Img(S)
  <2>1. /\ f \in [S -> T] /\ \A t \in T : \E x \in S : f[x] = t
        /\ \A x, y \in S : f[x] = f[y] => x = y
    BY DEF Bijection, Injection, Surjection, IsInjective
  <2> QED BY <2>1
<1>1. IsFiniteSet(T) /\ Cardinality(T) = Cardinality(S)
  BY FS_Bijection DEF ExistsBijection
<1>2. SUFFICES ASSUME C # {} PROVE FALSE
  BY <1>0, <1>1
<1>3. PICK U \in C : \A V \in C : V \subseteq U => V = U
  <2>1. C \in SUBSET (SUBSET S)
    OBVIOUS
  <2> HIDE DEF C
  <2> QED BY <1>2, <2>1, SmallestSubset
<1>4. /\ U \in SUBSET S /\ Total(Img(U)) # Total(U)
      /\ \A V \in SUBSET U : V # U => Total(Img(V)) = Total(V)
  BY <1>3
<1>5. /\ IsFiniteSet(U) /\ Img(U) \in SUBSET T /\ IsFiniteSet(Img(U))
      /\ Measured(U) /\ Measured(Img(U))
  <2>1. IsFiniteSet(U) /\ Measured(U)
    BY <1>4, FS_Subset DEF Measured
  <2>2. Img(U) \in SUBSET T
    BY <1>0, <1>4
  <2>3. IsFiniteSet(Img(U))
    BY <1>1, <2>2, FS_Subset
  <2>4. Measured(Img(U))
    BY <1>4, <2>1 DEF Measured
  <2> QED BY <2>1, <2>2, <2>3, <2>4
<1>6. CASE U = {}
  <2>1. Img(U) = {}
    BY <1>6
  <2> QED BY <1>4, <1>6, <2>1
<1>7. CASE U # {}
  <2>1. PICK x \in U : TRUE
    BY <1>7
  <2>2. Total(U) = x.amount + Total(U \ {x})
    BY <1>5, TotalAny
  <2>3. f[x] \in Img(U)
    BY <2>1
  <2>4. Total(Img(U)) = f[x].amount + Total(Img(U) \ {f[x]})
    <3> HIDE DEF Img
    <3> QED BY <1>5, <2>3, TotalAny
  <2>5. Img(U) \ {f[x]} = Img(U \ {x})
    BY <1>0, <1>4, <2>1
  <2>6. Total(Img(U \ {x})) = Total(U \ {x})
    <3> HIDE DEF Img
    <3> QED BY <1>4, <2>1
  <2> QED BY <1>4, <2>1, <2>2, <2>4, <2>5, <2>6
<1> QED BY <1>6, <1>7

(* The sum of equal amounts. *)
LEMMA TotalOfEqual ==
    ASSUME NEW S, IsFiniteSet(S), NEW v \in Int, \A x \in S : x.amount = v
    PROVE  Total(S) = v * Cardinality(S)
<1> DEFINE C == {U \in SUBSET S : Total(U) # v * Cardinality(U)}
<1>1. SUFFICES ASSUME C # {} PROVE FALSE
  OBVIOUS
<1>2. PICK U \in C : \A V \in C : V \subseteq U => V = U
  <2>1. C \in SUBSET (SUBSET S)
    OBVIOUS
  <2> HIDE DEF C
  <2> QED BY <1>1, <2>1, SmallestSubset
<1>3. /\ U \in SUBSET S /\ Total(U) # v * Cardinality(U)
      /\ \A V \in SUBSET U : V # U => Total(V) = v * Cardinality(V)
  BY <1>2
<1>4. IsFiniteSet(U) /\ Measured(U)
  BY <1>3, FS_Subset DEF Measured
<1>5. U # {}
  <2>1. IsFiniteSet({}) /\ Cardinality({}) = 0
    BY FS_EmptySet
  <2>2. Total({}) = 0 /\ v * 0 = 0
    BY <2>1, TotalStep
  <2> QED BY <1>3, <2>1, <2>2
<1>6. PICK x \in U : TRUE
  BY <1>5
<1>7. Total(U) = v + Total(U \ {x})
  BY <1>3, <1>4, TotalAny
<1>8. /\ Cardinality(U) \in Nat /\ Cardinality(U \ {x}) = Cardinality(U) - 1
      /\ Total(U \ {x}) = v * Cardinality(U \ {x})
  BY <1>3, <1>4, <1>6, FS_RemoveElement, FS_CardinalityType
<1> DEFINE n == Cardinality(U)
<1>9. Total(U) = v + v * (n - 1) /\ n \in Nat
  BY <1>7, <1>8
<1> HIDE DEF n
<1>10. v + v * (n - 1) = v * n
  BY <1>9
<1> QED BY <1>3, <1>9, <1>10 DEF n

(***************************************************************************)
(* Means: AVG and MAX look at the values of the rows alone.                *)
(***************************************************************************)

(* What AVG and MAX look at. *)
Values(S) == \A r \in S : r.amount \in Int \cup {None} /\ r.pouring \in BOOLEAN \cup {None}

Known(S) == {r \in S : r.amount # None}

LEMMA AvgIs ==
    ASSUME NEW S
    PROVE  AVG(S) = IF Known(S) = {} THEN None ELSE Total(Known(S)) \div Cardinality(Known(S))
BY DEF AVG, Total, Known

LEMMA KnownMeasured ==
    ASSUME NEW S, IsFiniteSet(S), Values(S)
    PROVE  /\ IsFiniteSet(Known(S)) /\ Measured(Known(S))
           /\ Known(S) # {} => Cardinality(Known(S)) \in Nat \ {0}
<1>1. IsFiniteSet(Known(S))
  BY FS_Subset DEF Known
<1>2. Known(S) # {} => Cardinality(Known(S)) \in Nat \ {0}
  BY <1>1, FS_EmptySet, FS_CardinalityType
<1> QED BY <1>1, <1>2 DEF Values, Known, Measured

LEMMA AvgType ==
    ASSUME NEW S, IsFiniteSet(S), Values(S) PROVE AVG(S) \in Int \cup {None}
<1>1. CASE Known(S) = {}
  BY <1>1, AvgIs
<1>2. CASE Known(S) # {}
  <2> DEFINE n == Cardinality(Known(S))
             a == Total(Known(S))
  <2>1. n \in Nat \ {0} /\ a \in Int
    BY <1>2, KnownMeasured, TotalAny
  <2>2. AVG(S) = a \div n
    BY <1>2, AvgIs
  <2> HIDE DEF a, n
  <2> QED BY <2>1, <2>2
<1> QED BY <1>1, <1>2

LEMMA MaxType ==
    ASSUME NEW S, Values(S) PROVE MAX(S) \in BOOLEAN \cup {None}
BY Zenon DEF MAX, Values

(* The mean of rows that correspond one to one and hold the same amounts.    *)
(* Rows that correspond one to one in their amounts have the same mean.      *)
LEMMA AvgOfImage ==
    ASSUME NEW S, IsFiniteSet(S), Values(S), NEW T, NEW f \in Bijection(S, T),
           \A x \in S : f[x].amount = x.amount
    PROVE  AVG(T) = AVG(S)
<1> DEFINE g == [x \in Known(S) |-> f[x]]
<1>1. /\ f \in [S -> T] /\ \A t \in T : \E x \in S : f[x] = t
      /\ \A x, y \in S : f[x] = f[y] => x = y
  BY DEF Bijection, Injection, Surjection, IsInjective
<1>2. /\ g \in [Known(S) -> Known(T)] /\ \A t \in Known(T) : \E x \in Known(S) : g[x] = t
      /\ \A x, y \in Known(S) : g[x] = g[y] => x = y
  BY <1>1 DEF Known
<1>3. g \in Bijection(Known(S), Known(T))
  BY <1>2 DEF Bijection, Injection, Surjection, IsInjective
<1>4. \A x \in Known(S) : g[x].amount = x.amount
  BY DEF Known
<1>5. IsFiniteSet(Known(S)) /\ Measured(Known(S))
  BY KnownMeasured
<1> HIDE DEF g
<1>6. Total(Known(T)) = Total(Known(S)) /\ Cardinality(Known(T)) = Cardinality(Known(S))
  BY <1>3, <1>4, <1>5, TotalOfImage
<1>7. Known(T) = {} <=> Known(S) = {}
  BY <1>2
<1> QED BY <1>6, <1>7, AvgIs

LEMMA Quotient ==
    ASSUME NEW v \in Int, NEW n \in Nat \ {0} PROVE (v * n) \div n = v
OBVIOUS

(* The mean of equal amounts is that amount, as an edit needs.               *)
LEMMA AvgOfEqual ==
    ASSUME NEW S, IsFiniteSet(S), S # {}, NEW v \in Int \cup {None}, \A x \in S : x.amount = v
    PROVE  AVG(S) = v
<1>1. CASE v = None
  BY <1>1, AvgIs DEF Known
<1>2. CASE v # None
  <2>1. Known(S) = S
    BY <1>2 DEF Known
  <2>2. Total(S) = v * Cardinality(S)
    BY <1>2, TotalOfEqual
  <2>3. Cardinality(S) \in Nat \ {0}
    BY FS_EmptySet, FS_CardinalityType
  <2>4. AVG(S) = Total(S) \div Cardinality(S)
    BY <2>1, AvgIs
  <2> QED BY <1>2, <2>2, <2>3, <2>4, Quotient
<1> QED BY <1>1, <1>2

LEMMA MaxOfImage ==
    ASSUME NEW S, NEW T,
           \A x \in S : \E y \in T : y.pouring = x.pouring,
           \A y \in T : \E x \in S : y.pouring = x.pouring
    PROVE  MAX(T) = MAX(S)
<1> DEFINE K(U) == {r \in U : r.pouring # None}
<1>1. K(S) = {} <=> K(T) = {}
  BY Zenon
<1>2. (\E r \in K(S) : r.pouring) <=> (\E r \in K(T) : r.pouring)
  BY Zenon
<1>3. (\E r \in K(S) : r.pouring) = (\E r \in K(T) : r.pouring)
  BY <1>2, Zenon
<1> QED BY <1>1, <1>3, Zenon DEF MAX

LEMMA MaxOfEqual ==
    ASSUME NEW S, S # {}, NEW v \in BOOLEAN \cup {None}, \A x \in S : x.pouring = v
    PROVE  MAX(S) = v
<1>0. None \notin BOOLEAN
  BY LogAssumption
<1>1. CASE v = None
  BY <1>1, Zenon DEF MAX
<1>2. CASE v = TRUE
  <2>1. {r \in S : r.pouring # None} = S
    BY <1>0, <1>2
  <2>2. \E r \in S : r.pouring
    BY <1>2
  <2>3. (\E r \in S : r.pouring) = TRUE
    BY <2>2
  <2> QED BY <1>2, <2>1, <2>3, Zenon DEF MAX
<1>3. CASE v = FALSE
  <2>1. {r \in S : r.pouring # None} = S
    BY <1>0, <1>3
  <2>2. ~ \E r \in S : r.pouring
    BY <1>3
  <2>3. (\E r \in S : r.pouring) = FALSE
    BY <2>2
  <2> QED BY <1>3, <2>1, <2>3, Zenon DEF MAX
<1> QED BY <1>1, <1>2, <1>3

(***************************************************************************)
(* A row holds the mean of what it covers.  It is the mean of means only if *)
(* no row but those of one reading is ever folded: a folded row is alone in *)
(* its step and, since readings are recorded now and steps are folded whole, *)
(* stays so.                                                               *)
(***************************************************************************)

(* ReadingsOf, for the readings R of a keg. *)
ReadingsIn(R, c) == {[ts |-> t, amount |-> R[t].amount, pouring |-> R[t].pouring] : t \in c}

(* A row that covers more than its own time is alone in its step. *)
Lone(r, rows) == /\ r.ts = StepOf(r.ts)
                 /\ \A q \in rows : StepOf(q.ts) = r.ts => q = r

(* The rows of a keg whose readings are R: what each holds, and that it is   *)
(* one reading, at its time, or alone in its step.                           *)
Exactly(rows, R) ==
    /\ rows \subseteq Row
    /\ \A r, q \in rows : r.ts = q.ts => r = q
    /\ \A t \in DOMAIN R : R[t] \in Snapshot
    /\ \A r \in rows :
          /\ r.covers # {} /\ r.covers \subseteq DOMAIN R
          /\ r.covers = {r.ts} \/ Lone(r, rows)
          /\ r.amount = AVG(ReadingsIn(R, r.covers))
          /\ r.pouring = MAX(ReadingsIn(R, r.covers))

LEMMA FiniteTimes ==
    ASSUME NEW D \in SUBSET Nat, NEW n \in Nat, \A t \in D : t <= n, NEW c \in SUBSET D
    PROVE  IsFiniteSet(c)
BY FS_BoundedSetOfNaturals

LEMMA FiniteRows ==
    ASSUME NEW n \in Nat, NEW rows, \A r \in rows : r.ts \in Nat /\ r.ts <= n,
           \A r, q \in rows : r.ts = q.ts => r = q
    PROVE  IsFiniteSet(rows)
<1> DEFINE f == [r \in rows |-> r.ts]
<1>1. f \in Injection(rows, 0 .. n)
  BY DEF Injection, IsInjective
<1>2. IsFiniteSet(0 .. n)
  BY FS_Interval
<1> QED BY <1>1, <1>2, FS_Injection

LEMMA ReadingsFinite ==
    ASSUME NEW R, NEW c, IsFiniteSet(c), \A t \in c : R[t] \in Snapshot
    PROVE  IsFiniteSet(ReadingsIn(R, c)) /\ Values(ReadingsIn(R, c))
<1> DEFINE f == [t \in c |-> [ts |-> t, amount |-> R[t].amount, pouring |-> R[t].pouring]]
<1>1. f \in Surjection(c, ReadingsIn(R, c))
  BY DEF Surjection, ReadingsIn
<1>2. IsFiniteSet(ReadingsIn(R, c))
  BY <1>1, FS_Surjection
<1> QED BY <1>2 DEF ReadingsIn, Values, Snapshot

(* A row of one reading holds its values. *)
LEMMA OneReading ==
    ASSUME NEW R, NEW t, R[t] \in Snapshot
    PROVE  AVG(ReadingsIn(R, {t})) = R[t].amount /\ MAX(ReadingsIn(R, {t})) = R[t].pouring
<1> DEFINE x == [ts |-> t, amount |-> R[t].amount, pouring |-> R[t].pouring]
<1>1. ReadingsIn(R, {t}) = {x}
  BY DEF ReadingsIn
<1>2. IsFiniteSet({x})
  BY FS_Singleton
<1>3. R[t].amount \in Int \cup {None} /\ R[t].pouring \in BOOLEAN \cup {None}
  BY DEF Snapshot
<1>4. AVG({x}) = R[t].amount
  <2>1. \A y \in {x} : y.amount = R[t].amount
    OBVIOUS
  <2> HIDE DEF x
  <2> QED BY <1>2, <1>3, <2>1, AvgOfEqual
<1>5. MAX({x}) = R[t].pouring
  <2>1. \A y \in {x} : y.pouring = R[t].pouring
    OBVIOUS
  <2> HIDE DEF x
  <2> QED BY <1>3, <2>1, MaxOfEqual
<1> QED BY <1>1, <1>4, <1>5

(* Rows of one reading each are folded into the mean of their readings. *)
LEMMA FoldExact ==
    ASSUME NEW R, NEW B, IsFiniteSet(B), B # {}, B \subseteq Row, NEW b \in Nat,
           \A r, q \in B : r.ts = q.ts => r = q,
           \A r \in B : /\ r.covers = {r.ts} /\ R[r.ts] \in Snapshot
                        /\ r.amount = AVG(ReadingsIn(R, r.covers))
                        /\ r.pouring = MAX(ReadingsIn(R, r.covers))
    PROVE  LET row == Folded(B, b)
           IN  /\ row \in Row
               /\ row.amount = AVG(ReadingsIn(R, row.covers))
               /\ row.pouring = MAX(ReadingsIn(R, row.covers))
<1> DEFINE c == UNION {r.covers : r \in B}
           f == [r \in B |-> [ts |-> r.ts, amount |-> R[r.ts].amount, pouring |-> R[r.ts].pouring]]
           T == ReadingsIn(R, c)
<1>1. \A r \in B : r.amount = R[r.ts].amount /\ r.pouring = R[r.ts].pouring
  <2>1. ASSUME NEW r \in B PROVE r.amount = R[r.ts].amount /\ r.pouring = R[r.ts].pouring
    <3>1. r.covers = {r.ts} /\ R[r.ts] \in Snapshot
      OBVIOUS
    <3>2. /\ AVG(ReadingsIn(R, {r.ts})) = R[r.ts].amount
          /\ MAX(ReadingsIn(R, {r.ts})) = R[r.ts].pouring
      BY <3>1, OneReading
    <3>3. r.amount = AVG(ReadingsIn(R, {r.ts}))
      BY <3>1
    <3>4. r.pouring = MAX(ReadingsIn(R, {r.ts}))
      BY <3>1
    <3> QED BY <3>2, <3>3, <3>4, Zenon
  <2> QED BY <2>1
<1>2. c = {r.ts : r \in B}
  OBVIOUS
<1>3. T = {f[r] : r \in B}
  <2> HIDE DEF c
  <2> QED BY <1>2 DEF ReadingsIn
<1>4. \A r \in B : f[r].ts = r.ts /\ f[r].amount = r.amount /\ f[r].pouring = r.pouring
  BY <1>1
<1>5. DOMAIN f = B
  OBVIOUS
<1> HIDE DEF T, c
<1>6. f \in Bijection(B, T)
  <2>1. f \in [B -> T]
    BY <1>3
  <2>2. \A r, q \in B : f[r] = f[q] => r = q
    BY <1>4
  <2>3. \A t \in T : \E r \in B : f[r] = t
    BY <1>3
  <2>4. f \in Injection(B, T)
    BY <2>1, <2>2 DEF Injection, IsInjective
  <2>5. f \in Surjection(B, T)
    BY <2>1, <2>3 DEF Surjection
  <2> QED BY <2>4, <2>5 DEF Bijection
<1> HIDE DEF f
<1>7. Values(B)
  BY DEF Row, Values
<1>8. AVG(T) = AVG(B)
  BY <1>4, <1>6, <1>7, AvgOfImage
<1>9. MAX(T) = MAX(B)
  <2>1. \A x \in B : \E y \in T : y.pouring = x.pouring
    BY <1>3, <1>4
  <2>2. \A y \in T : \E x \in B : y.pouring = x.pouring
    BY <1>3, <1>4
  <2> QED BY <2>1, <2>2, MaxOfImage
<1>10. AVG(B) \in Int \cup {None} /\ MAX(B) \in BOOLEAN \cup {None}
  BY <1>7, AvgType, MaxType
<1>11. c \in SUBSET Nat
  BY <1>2 DEF Row
<1>12. Folded(B, b) = [ts |-> b, amount |-> AVG(B), pouring |-> MAX(B), covers |-> c]
  BY DEF Folded, c
<1> QED BY <1>8, <1>9, <1>10, <1>11, <1>12 DEF Row, T

(* Only rows of one reading are folded: a step with a folded row in it has   *)
(* no other row, and its row stands at the start, so it is left alone.       *)
LEMMA CompactExact ==
    ASSUME NEW rows, NEW R, DOMAIN R \in SUBSET Nat, NEW n \in Nat,
           Sound(rows, DOMAIN R, n), Exactly(rows, R),
           NEW from \in Nat, NEW to \in Nat, Aligned(from), Aligned(to), to <= n
    PROVE  Exactly(compactRange(rows, from, to), R)
<1> DEFINE U == Unfolded(rows, from, to)
           Of(b) == {r \in rows : StepOf(r.ts) = b}
           F(b) == Folded(Of(b), b)
           new == compactRange(rows, from, to)
           between == {r \in rows : r.ts >= from /\ r.ts < to}
<1>1. /\ \A r \in rows : r.ts \in Nat
      /\ \A r, q \in rows : r.ts = q.ts => r = q
      /\ rows \subseteq Row
  BY DEF Sound, Exactly
<1>2. ASSUME NEW b \in U
      PROVE  b \in Nat /\ StepOf(b) = b /\ Bucket(between, b) = Of(b)
  <2>1. \A r \in rows : r.ts \in Nat
    BY <1>1
  <2> QED BY <2>1, WholeSteps
<1>3. new = {r \in rows : StepOf(r.ts) \notin U} \cup {F(b) : b \in U}
  BY <1>2 DEF compactRange
<1>4. \A b \in U : F(b).ts = b
  BY DEF Folded
<1>5. IsFiniteSet(rows)
  BY <1>1, FiniteRows DEF Sound
<1>6. ASSUME NEW b \in U
      PROVE  /\ F(b) \in Row /\ F(b).covers # {} /\ F(b).covers \subseteq DOMAIN R
             /\ F(b).amount = AVG(ReadingsIn(R, F(b).covers))
             /\ F(b).pouring = MAX(ReadingsIn(R, F(b).covers))
  <2> DEFINE B == Of(b)
  <2>1. IsFiniteSet(B) /\ B \subseteq rows
    BY <1>5, FS_Subset
  <2>2. B # {}
    BY DEF Unfolded
  <2>3. ASSUME NEW r \in B PROVE r.covers = {r.ts}
    <3>1. SUFFICES ASSUME Lone(r, rows) PROVE FALSE
      BY <2>1, <2>3 DEF Exactly
    <3>2. B = {r} /\ r.ts = b
      BY <2>3, <3>1 DEF Lone
    <3>3. Bucket(between, b) = {r}
      BY <1>2, <3>2
    <3>4. Cardinality({r}) = 1
      BY FS_Singleton
    <3>5. \/ Cardinality(Bucket(between, b)) > 1
          \/ \E q \in Bucket(between, b) : q.ts # b
      BY <1>6 DEF Unfolded
    <3>6. Cardinality(Bucket(between, b)) = 1 /\ \A q \in Bucket(between, b) : q.ts = b
      BY <3>2, <3>3, <3>4
    <3> QED BY <3>5, <3>6
  <2>4. \A r \in B : /\ r.covers = {r.ts} /\ R[r.ts] \in Snapshot
                     /\ r.amount = AVG(ReadingsIn(R, r.covers))
                     /\ r.pouring = MAX(ReadingsIn(R, r.covers))
    BY <2>1, <2>3 DEF Exactly
  <2>5. B \subseteq Row /\ \A r, q \in B : r.ts = q.ts => r = q
    BY <1>1, <2>1
  <2>6. F(b).covers = UNION {r.covers : r \in B}
    BY DEF Folded
  <2>7. \A r \in B : r.covers # {} /\ r.covers \subseteq DOMAIN R
    BY <2>1 DEF Exactly
  <2>8. b \in Nat
    BY <1>2
  <2> HIDE DEF B
  <2>9. LET row == Folded(B, b)
        IN  /\ row \in Row
            /\ row.amount = AVG(ReadingsIn(R, row.covers))
            /\ row.pouring = MAX(ReadingsIn(R, row.covers))
    BY <2>1, <2>2, <2>4, <2>5, <2>8, FoldExact
  <2>10. F(b) = Folded(B, b)
    BY DEF B
  <2>11. F(b).covers # {} /\ F(b).covers \subseteq DOMAIN R
    <3> HIDE DEF F
    <3> QED BY <2>2, <2>6, <2>7
  <2> HIDE DEF F
  <2> QED BY <2>9, <2>10, <2>11
<1> HIDE DEF U, F, new
<1>7. new \subseteq Row
  BY <1>1, <1>3, <1>6
<1>8. ASSUME NEW r \in new, NEW q \in new, r.ts = q.ts PROVE r = q
  <2>1. \A b \in U : StepOf(F(b).ts) \in U
    BY <1>2, <1>4
  <2> QED BY <1>1, <1>3, <1>4, <1>8, <2>1
<1>9. ASSUME NEW r \in new PROVE r.covers = {r.ts} \/ Lone(r, new)
  <2>1. CASE r \in rows /\ StepOf(r.ts) \notin U
    <3>1. SUFFICES ASSUME Lone(r, rows) PROVE Lone(r, new)
      BY <2>1 DEF Exactly
    <3>2. ASSUME NEW q \in new, StepOf(q.ts) = r.ts PROVE q = r
      <4>1. r.ts \notin U
        BY <2>1, <3>1 DEF Lone
      <4>2. q \in rows
        BY <1>2, <1>3, <1>4, <3>2, <4>1
      <4> QED BY <3>1, <3>2, <4>2 DEF Lone
    <3> QED BY <3>1, <3>2 DEF Lone
  <2>2. ASSUME NEW b \in U, r = F(b) PROVE Lone(r, new)
    <3>1. r.ts = b /\ StepOf(b) = b
      BY <1>2, <1>4, <2>2
    <3>2. ASSUME NEW q \in new, StepOf(q.ts) = b PROVE q = r
      BY <1>2, <1>3, <1>4, <2>2, <3>2
    <3> QED BY <3>1, <3>2 DEF Lone
  <2> QED BY <1>3, <2>1, <2>2
<1>10. \A r \in new : /\ r.covers # {} /\ r.covers \subseteq DOMAIN R
                      /\ r.amount = AVG(ReadingsIn(R, r.covers))
                      /\ r.pouring = MAX(ReadingsIn(R, r.covers))
  BY <1>3, <1>6 DEF Exactly
<1>11. \A t \in DOMAIN R : R[t] \in Snapshot
  BY DEF Exactly
<1> QED BY <1>7, <1>8, <1>9, <1>10, <1>11 DEF Exactly, new

ExactInv == now \in Times /\ \A k \in Kegs : Exactly(log[k], reading[k])

(* Readings edited in their pouring alone keep their mean amount, and the    *)
(* other way round.                                                          *)
LEMMA SameAmounts ==
    ASSUME NEW R, NEW Q, NEW c, IsFiniteSet(c),
           \A t \in c : R[t] \in Snapshot /\ Q[t].amount = R[t].amount
    PROVE  AVG(ReadingsIn(Q, c)) = AVG(ReadingsIn(R, c))
<1> DEFINE S == ReadingsIn(R, c)
           T == ReadingsIn(Q, c)
           f == [x \in S |-> [ts |-> x.ts, amount |-> Q[x.ts].amount, pouring |-> Q[x.ts].pouring]]
<1>1. IsFiniteSet(S) /\ Values(S)
  BY ReadingsFinite
<1>2. \A x \in S : f[x] \in T /\ f[x].ts = x.ts /\ f[x].amount = x.amount
  BY DEF ReadingsIn
<1>3. ASSUME NEW y \in T PROVE \E x \in S : f[x] = y
  <2>1. PICK t \in c : y = [ts |-> t, amount |-> Q[t].amount, pouring |-> Q[t].pouring]
    BY DEF ReadingsIn
  <2> DEFINE x == [ts |-> t, amount |-> R[t].amount, pouring |-> R[t].pouring]
  <2>2. x \in S
    BY DEF ReadingsIn
  <2>3. f[x] = y
    BY <2>1, <2>2
  <2> QED BY <2>2, <2>3
<1>4. \A x, y \in S : x.ts = y.ts => x = y
  BY DEF ReadingsIn
<1>5. DOMAIN f = S /\ f = [x \in S |-> f[x]]
  OBVIOUS
<1> HIDE DEF f, S, T
<1>6. f \in Injection(S, T)
  BY <1>2, <1>4, <1>5 DEF Injection, IsInjective
<1>7. f \in Surjection(S, T)
  BY <1>2, <1>3, <1>5 DEF Surjection
<1>8. AVG(T) = AVG(S)
  BY <1>1, <1>2, <1>6, <1>7, AvgOfImage DEF Bijection
<1> QED BY <1>8 DEF S, T

LEMMA SamePouring ==
    ASSUME NEW R, NEW Q, NEW c, \A t \in c : Q[t].pouring = R[t].pouring
    PROVE  MAX(ReadingsIn(Q, c)) = MAX(ReadingsIn(R, c))
<1> DEFINE S == ReadingsIn(R, c)
           T == ReadingsIn(Q, c)
<1>1. ASSUME NEW x \in S PROVE \E y \in T : y.pouring = x.pouring
  <2>1. PICK t \in c : x = [ts |-> t, amount |-> R[t].amount, pouring |-> R[t].pouring]
    BY DEF ReadingsIn
  <2>2. [ts |-> t, amount |-> Q[t].amount, pouring |-> Q[t].pouring] \in T
    BY DEF ReadingsIn
  <2> QED BY <2>1, <2>2
<1>2. ASSUME NEW y \in T PROVE \E x \in S : y.pouring = x.pouring
  <2>1. PICK t \in c : y = [ts |-> t, amount |-> Q[t].amount, pouring |-> Q[t].pouring]
    BY DEF ReadingsIn
  <2>2. [ts |-> t, amount |-> R[t].amount, pouring |-> R[t].pouring] \in S
    BY DEF ReadingsIn
  <2> QED BY <2>1, <2>2
<1> HIDE DEF S, T
<1>3. MAX(T) = MAX(S)
  BY <1>1, <1>2, MaxOfImage
<1> QED BY <1>3 DEF S, T

(* Rows that go, with their readings. *)
LEMMA FewerExact ==
    ASSUME NEW rows, NEW R, Exactly(rows, R), NEW new \in SUBSET rows, NEW Q,
           DOMAIN Q \subseteq DOMAIN R, \A t \in DOMAIN Q : Q[t] = R[t],
           \A r \in new : r.covers \subseteq DOMAIN Q
    PROVE  Exactly(new, Q)
<1>1. \A r \in new : ReadingsIn(Q, r.covers) = ReadingsIn(R, r.covers)
  BY DEF ReadingsIn
<1>2. \A r \in new : Lone(r, rows) => Lone(r, new)
  BY DEF Lone
<1> QED BY <1>1, <1>2 DEF Exactly

LEMMA EditedIs ==
    ASSUME NEW r, NEW e
    PROVE  /\ (r \in Row /\ e \in Edits) => Edited(r, e) \in Row
           /\ (r \in Snapshot /\ e \in Edits) => Edited(r, e) \in Snapshot
           /\ r \in Row \cup Snapshot =>
              /\ Edited(r, e).amount = IF e.amount = Keep THEN r.amount ELSE e.amount
              /\ Edited(r, e).pouring = IF e.pouring = Keep THEN r.pouring ELSE e.pouring
           /\ r \in Row => Edited(r, e).ts = r.ts /\ Edited(r, e).covers = r.covers
<1>1. e \in Edits => /\ e.amount \in Int \cup {None, Keep}
                     /\ e.pouring \in BOOLEAN \cup {None, Keep}
  BY LogAssumption
<1>2. CASE r \in Row
  BY <1>1, <1>2 DEF Row, Edited, Snapshot
<1>3. CASE r \in Snapshot
  BY <1>1, <1>3 DEF Snapshot, Edited, Row
<1> QED BY <1>2, <1>3

(* An edit sets a row and every reading it covers to one value, or neither,  *)
(* and the mean of equal values is that value.                               *)
LEMMA EditExact ==
    ASSUME NEW rows, NEW R, DOMAIN R \in SUBSET Nat, NEW n \in Nat,
           \A t \in DOMAIN R : t <= n,
           Sound(rows, DOMAIN R, n), Exactly(rows, R), NEW hit \in SUBSET rows, NEW e \in Edits
    PROVE  Exactly((rows \ hit) \cup {Edited(r, e) : r \in hit},
                   [t \in DOMAIN R |-> IF t \in CoveredBy(hit) THEN Edited(R[t], e) ELSE R[t]])
<1> DEFINE I(r) == IF r \in hit THEN Edited(r, e) ELSE r
           Q == [t \in DOMAIN R |-> IF t \in CoveredBy(hit) THEN Edited(R[t], e) ELSE R[t]]
           new == (rows \ hit) \cup {Edited(r, e) : r \in hit}
<1>1. new = {I(r) : r \in rows}
  OBVIOUS
<1>2. \A r \in rows : I(r) \in Row /\ I(r).ts = r.ts /\ I(r).covers = r.covers
  BY EditedIs DEF Exactly
<1>3. \A t \in DOMAIN R : Q[t] \in Snapshot /\ R[t] \in Snapshot
  BY EditedIs DEF Exactly
<1>4. DOMAIN Q = DOMAIN R
  OBVIOUS
<1>5. ASSUME NEW r \in rows
      PROVE  /\ I(r).amount = AVG(ReadingsIn(Q, r.covers))
             /\ I(r).pouring = MAX(ReadingsIn(Q, r.covers))
  <2> DEFINE c == r.covers
  <2>1. /\ c # {} /\ c \subseteq DOMAIN R /\ r \in Row
        /\ r.amount = AVG(ReadingsIn(R, c)) /\ r.pouring = MAX(ReadingsIn(R, c))
    BY DEF Exactly
  <2>2. IsFiniteSet(c)
    BY <2>1, FiniteTimes
  <2>3. CASE r \notin hit
    <3>1. \A t \in c : t \notin CoveredBy(hit)
      BY <2>3 DEF Sound, CoveredBy
    <3>2. ReadingsIn(Q, c) = ReadingsIn(R, c)
      BY <2>1, <3>1 DEF ReadingsIn
    <3> QED BY <2>1, <2>3, <3>2
  <2>4. CASE r \in hit
    <3>1. \A t \in c : Q[t] = Edited(R[t], e) /\ R[t] \in Snapshot
      BY <1>3, <2>1, <2>4 DEF CoveredBy
    <3>2. \A t \in c : /\ Q[t].amount = IF e.amount = Keep THEN R[t].amount ELSE e.amount
                       /\ Q[t].pouring = IF e.pouring = Keep THEN R[t].pouring ELSE e.pouring
      BY <3>1, EditedIs
    <3>3. /\ I(r).amount = IF e.amount = Keep THEN r.amount ELSE e.amount
          /\ I(r).pouring = IF e.pouring = Keep THEN r.pouring ELSE e.pouring
      BY <2>1, <2>4, EditedIs
    <3>4. /\ e.amount \in Int \cup {None, Keep} /\ e.pouring \in BOOLEAN \cup {None, Keep}
      BY LogAssumption
    <3>5. /\ IsFiniteSet(ReadingsIn(Q, c)) /\ ReadingsIn(Q, c) # {}
          /\ \A x \in ReadingsIn(Q, c) : \E t \in c : x.amount = Q[t].amount /\ x.pouring = Q[t].pouring
      <4>1. IsFiniteSet(ReadingsIn(Q, c))
        BY <1>3, <2>1, <2>2, ReadingsFinite
      <4>2. PICK t \in c : TRUE
        BY <2>1
      <4>3. ReadingsIn(Q, c) # {}
        BY <4>2 DEF ReadingsIn
      <4>4. \A x \in ReadingsIn(Q, c) : \E u \in c : x.amount = Q[u].amount /\ x.pouring = Q[u].pouring
        <5> HIDE DEF Q
        <5>1. ASSUME NEW x \in ReadingsIn(Q, c)
              PROVE  \E u \in c : x.amount = Q[u].amount /\ x.pouring = Q[u].pouring
          <6>1. PICK u \in c : x = [ts |-> u, amount |-> Q[u].amount, pouring |-> Q[u].pouring]
            BY DEF ReadingsIn
          <6> QED BY <6>1, Zenon
        <5> QED BY <5>1
      <4> QED BY <4>1, <4>3, <4>4
    <3> HIDE DEF Q, I, c
    <3>6. I(r).amount = AVG(ReadingsIn(Q, c))
      <4>1. CASE e.amount = Keep
        <5>1. AVG(ReadingsIn(Q, c)) = AVG(ReadingsIn(R, c))
          BY <2>2, <3>1, <3>2, <4>1, SameAmounts
        <5> QED BY <2>1, <3>3, <4>1, <5>1
      <4>2. CASE e.amount # Keep
        <5>1. \A x \in ReadingsIn(Q, c) : x.amount = e.amount
          BY <3>2, <3>5, <4>2
        <5>2. AVG(ReadingsIn(Q, c)) = e.amount
          BY <3>4, <3>5, <4>2, <5>1, AvgOfEqual
        <5> QED BY <3>3, <4>2, <5>2
      <4> QED BY <4>1, <4>2
    <3>7. I(r).pouring = MAX(ReadingsIn(Q, c))
      <4>1. CASE e.pouring = Keep
        <5>1. MAX(ReadingsIn(Q, c)) = MAX(ReadingsIn(R, c))
          BY <3>2, <4>1, SamePouring
        <5> QED BY <2>1, <3>3, <4>1, <5>1
      <4>2. CASE e.pouring # Keep
        <5>1. \A x \in ReadingsIn(Q, c) : x.pouring = e.pouring
          BY <3>2, <3>5, <4>2
        <5>2. MAX(ReadingsIn(Q, c)) = e.pouring
          BY <3>4, <3>5, <4>2, <5>1, MaxOfEqual
        <5> QED BY <3>3, <4>2, <5>2
      <4> QED BY <4>1, <4>2
    <3> QED BY <3>6, <3>7 DEF c
  <2> QED BY <2>3, <2>4
<1> HIDE DEF I, Q, new
<1>6. ASSUME NEW r \in new
      PROVE  /\ r.covers # {} /\ r.covers \subseteq DOMAIN Q
             /\ r.covers = {r.ts} \/ Lone(r, new)
             /\ r.amount = AVG(ReadingsIn(Q, r.covers))
             /\ r.pouring = MAX(ReadingsIn(Q, r.covers))
  <2>1. PICK x \in rows : r = I(x)
    BY <1>1
  <2>2. ASSUME Lone(x, rows) PROVE Lone(r, new)
    <3>1. \A q \in new : \E y \in rows : q = I(y) /\ q.ts = y.ts
      BY <1>1, <1>2
    <3> QED BY <1>2, <2>1, <2>2, <3>1 DEF Lone
  <2>3. /\ x.covers # {} /\ x.covers \subseteq DOMAIN R
        /\ x.covers = {x.ts} \/ Lone(x, rows)
    BY DEF Exactly
  <2> QED BY <1>2, <1>4, <1>5, <2>1, <2>2, <2>3
<1>7. new \subseteq Row
  BY <1>1, <1>2
<1>8. \A r, q \in new : r.ts = q.ts => r = q
  <2>1. \A x, y \in rows : x.ts = y.ts => x = y
    BY DEF Exactly
  <2> QED BY <1>1, <1>2, <2>1
<1>9. Exactly(new, Q)
  BY <1>3, <1>4, <1>6, <1>7, <1>8 DEF Exactly
<1> QED BY <1>9 DEF new, Q

LEMMA SmallestTime == Min(Times) \in Times
<1>1. Times \in SUBSET Nat /\ Times # {}
  BY LogAssumption
<1> QED BY <1>1, Smallest

LEMMA InitExact == Init => ExactInv
<1> SUFFICES ASSUME Init PROVE ExactInv
  OBVIOUS
<1>1. \A k \in Kegs : log[k] = {} /\ DOMAIN reading[k] = {}
  BY DEF Init
<1> QED BY <1>1, SmallestTime DEF Init, ExactInv, Exactly

(* Where the log and the readings stay, so does the invariant. *)
LEMMA StillExact ==
    ASSUME ExactInv, UNCHANGED <<log, reading>>, now' \in Times PROVE ExactInv'
BY DEF ExactInv

(* A reading that is recorded now is not in the step of any folded row.      *)
LEMMA AppendExact ==
    ASSUME LogInv, ExactInv, NEW k \in Kegs, AppendLog(k, Reads[now]), UNCHANGED now
    PROVE  ExactInv'
<1> DEFINE s == Reads[now]
           R == reading[k]
           D == DOMAIN R
           Q == [t \in D \cup {now} |-> IF t = now THEN s ELSE R[t]]
           row == [ts |-> now, amount |-> s.amount, pouring |-> s.pouring, covers |-> {now}]
           kept == {r \in log[k] : r.ts # now}
           new == kept \cup {row}
<1>1. /\ log'[k] = new /\ reading'[k] = Q
      /\ \A j \in Kegs \ {k} : log'[j] = log[j] /\ reading'[j] = reading[j]
  BY DEF AppendLog, LogInv, RowsInv
<1>2. /\ now \in Nat /\ now \in Times /\ s \in Snapshot /\ CompactStep \in Nat
      /\ s.amount \in Int \cup {None} /\ s.pouring \in BOOLEAN \cup {None}
  BY LogAssumption DEF ExactInv, LogInv, RowsInv, Snapshot
<1>3. Sound(log[k], D, now) /\ Exactly(log[k], R) /\ \A t \in D : t \in Nat
  BY DEF LogInv, RowsInv, ExactInv
<1>4. row \in Row
  BY <1>2 DEF Row
<1>5. DOMAIN Q = D \cup {now} /\ Q[now] = s /\ \A t \in D \ {now} : Q[t] = R[t]
  OBVIOUS
<1>6. \A t \in DOMAIN Q : Q[t] \in Snapshot
  BY <1>2, <1>3 DEF Exactly
<1>7. /\ row.amount = AVG(ReadingsIn(Q, {now})) /\ row.pouring = MAX(ReadingsIn(Q, {now}))
  <2>1. Q[now] \in Snapshot
    BY <1>2
  <2> HIDE DEF Q
  <2>2. AVG(ReadingsIn(Q, {now})) = s.amount /\ MAX(ReadingsIn(Q, {now})) = s.pouring
    BY <1>5, <2>1, OneReading
  <2>3. row.amount = s.amount /\ row.pouring = s.pouring
    OBVIOUS
  <2> QED BY <2>2, <2>3, Zenon
<1>8. row.ts = now /\ row.covers = {now}
  OBVIOUS
<1> HIDE DEF Q, R, D, s, row
<1>9. /\ StepOf(now) \in Nat /\ now < StepOf(now) + CompactStep
  BY <1>2, StepBounds
<1>10. ASSUME NEW r \in kept
       PROVE  /\ r.covers # {} /\ r.covers \subseteq DOMAIN Q
              /\ r.covers = {r.ts} \/ Lone(r, new)
              /\ r.amount = AVG(ReadingsIn(Q, r.covers))
              /\ r.pouring = MAX(ReadingsIn(Q, r.covers))
  <2>1. /\ r \in log[k] /\ r.ts # now /\ r.covers \subseteq D /\ r.ts \in Nat
        /\ r.covers # {}
        /\ r.covers = {r.ts} \/ Lone(r, log[k])
    BY <1>3 DEF Exactly, Sound
  <2>2. now \notin r.covers
    BY <1>2, <1>3, <1>9, <2>1 DEF Sound
  <2>3. ReadingsIn(Q, r.covers) = ReadingsIn(R, r.covers)
    BY <1>5, <2>1, <2>2 DEF ReadingsIn
  <2>4. r.covers = {r.ts} \/ Lone(r, new)
    <3>1. SUFFICES ASSUME Lone(r, log[k]), r.covers # {r.ts} PROVE Lone(r, new)
      BY <2>1
    <3>2. PICK t \in r.covers : t # r.ts
      BY <2>1, <3>1
    <3>3. StepOf(t) = r.ts /\ r.ts + CompactStep <= now
      BY <1>3, <2>1, <3>1, <3>2 DEF Sound, Lone
    <3>4. StepOf(now) # r.ts
      BY <1>2, <1>9, <2>1, <3>3
    <3> QED BY <1>8, <3>1, <3>4 DEF Lone
  <2>5. r.amount = AVG(ReadingsIn(R, r.covers)) /\ r.pouring = MAX(ReadingsIn(R, r.covers))
    BY <1>3, <2>1 DEF Exactly
  <2>6. r.covers \subseteq DOMAIN Q
    BY <1>5, <2>1
  <2>7. r.amount = AVG(ReadingsIn(Q, r.covers)) /\ r.pouring = MAX(ReadingsIn(Q, r.covers))
    BY <2>3, <2>5, Zenon
  <2> QED BY <2>1, <2>4, <2>6, <2>7
<1>11. new \subseteq Row
  BY <1>3, <1>4 DEF Exactly
<1>12. \A r, q \in new : r.ts = q.ts => r = q
  BY <1>3, <1>8 DEF Exactly
<1>13. Exactly(new, Q)
  <2>1. /\ row.covers # {} /\ row.covers \subseteq DOMAIN Q /\ row.covers = {row.ts}
        /\ row.amount = AVG(ReadingsIn(Q, row.covers))
        /\ row.pouring = MAX(ReadingsIn(Q, row.covers))
    BY <1>5, <1>7, <1>8, Zenon
  <2>2. ASSUME NEW r \in new
        PROVE  /\ r.covers # {} /\ r.covers \subseteq DOMAIN Q
               /\ r.covers = {r.ts} \/ Lone(r, new)
               /\ r.amount = AVG(ReadingsIn(Q, r.covers))
               /\ r.pouring = MAX(ReadingsIn(Q, r.covers))
    <3>1. CASE r = row
      BY <2>1, <3>1, Zenon
    <3>2. CASE r \in kept
      BY <1>10, <3>2, Zenon
    <3> QED BY <3>1, <3>2
  <2> HIDE DEF new
  <2> QED BY <1>6, <1>11, <1>12, <2>2 DEF Exactly
<1>14. \A j \in Kegs : Exactly(log'[j], reading'[j])
  <2> HIDE DEF new
  <2> QED BY <1>1, <1>13 DEF ExactInv
<1> QED BY <1>2, <1>14 DEF ExactInv

LEMMA PruneExact == ASSUME LogInv, ExactInv, StartPass PROVE ExactInv'
<1>1. /\ UNCHANGED <<now, reading>>
      /\ log' = IF Retention = 0 THEN log
                ELSE [k \in Kegs |-> log[k] \ Older(k, now - Retention)]
  BY DEF StartPass
<1>2. \A k \in Kegs : log'[k] \in SUBSET log[k]
  BY <1>1
<1>3. ASSUME NEW k \in Kegs PROVE Exactly(log'[k], reading[k])
  <2>1. Exactly(log[k], reading[k])
    BY DEF ExactInv
  <2>2. \A r \in log'[k] : r.covers \subseteq DOMAIN reading[k]
    BY <1>2, <2>1 DEF Exactly
  <2> QED BY <1>2, <2>1, <2>2, FewerExact
<1> QED BY <1>1, <1>3 DEF ExactInv

LEMMA ChunkExact == ASSUME LogInv, ExactInv, CompactChunk PROVE ExactInv'
<1> DEFINE k == pass.keg
           from == pass.start
           to == ChunkEnd
<1>1. /\ pass.at = "compacting" /\ k # None
      /\ log' = [log EXCEPT ![k] = compactRange(@, from, to)]
      /\ UNCHANGED <<now, reading>>
  BY DEF CompactChunk, Compacting
<1>2. /\ k \in Kegs /\ from \in Nat /\ Aligned(from) /\ now \in Nat
      /\ pass.cutoff \in Nat /\ Aligned(pass.cutoff) /\ pass.cutoff <= now
  BY <1>1 DEF LogInv, RowsInv, PassInv
<1>3. to \in Nat /\ Aligned(to) /\ to <= now
  BY <1>2, NextChunk DEF ChunkEnd
<1> HIDE DEF k, from, to
<1>4. /\ log'[k] = compactRange(log[k], from, to)
      /\ \A j \in Kegs \ {k} : log'[j] = log[j]
  BY <1>1, <1>2 DEF LogInv, RowsInv
<1>5. Exactly(log'[k], reading[k])
  <2>1. /\ Sound(log[k], DOMAIN reading[k], now) /\ DOMAIN reading[k] \in SUBSET Nat
        /\ Exactly(log[k], reading[k])
    BY <1>2 DEF LogInv, RowsInv, ExactInv
  <2> QED BY <1>2, <1>3, <1>4, <2>1, CompactExact
<1> QED BY <1>1, <1>4, <1>5 DEF ExactInv

LEMMA ClearExact ==
    ASSUME LogInv, ExactInv, NEW k \in Kegs, ClearLog(k) \/ DeleteKeg(k) PROVE ExactInv'
<1>1. /\ UNCHANGED now
      /\ log' = [log EXCEPT ![k] = {}] /\ reading' = [reading EXCEPT ![k] = <<>>]
  BY DEF ClearLog, DeleteKeg
<1>2. /\ DOMAIN reading'[k] = {} /\ log'[k] = {}
      /\ \A j \in Kegs \ {k} : reading'[j] = reading[j] /\ log'[j] = log[j]
  BY <1>1 DEF LogInv, RowsInv
<1>3. Exactly(log'[k], reading'[k])
  BY <1>2 DEF Exactly
<1> QED BY <1>1, <1>2, <1>3 DEF ExactInv

LEMMA UpdateExact ==
    ASSUME LogInv, ExactInv, NEW k \in Kegs, NEW stamps, NEW e \in Edits,
           UpdateLogEntries(k, stamps, e), UNCHANGED now
    PROVE  ExactInv'
<1> DEFINE hit == {r \in log[k] : r.ts \in stamps}
           R == reading[k]
           new == (log[k] \ hit) \cup {Edited(r, e) : r \in hit}
           Q == [t \in DOMAIN R |-> IF t \in CoveredBy(hit) THEN Edited(R[t], e) ELSE R[t]]
<1>1. /\ log' = [log EXCEPT ![k] = (@ \ hit) \cup {Edited(r, e) : r \in hit}]
      /\ reading' = [reading EXCEPT ![k] =
            [t \in DOMAIN @ |-> IF t \in CoveredBy(hit) THEN Edited(@[t], e) ELSE @[t]]]
  BY DEF UpdateLogEntries
<1>2. /\ log'[k] = new /\ reading'[k] = Q
      /\ \A j \in Kegs \ {k} : reading'[j] = reading[j] /\ log'[j] = log[j]
  BY <1>1 DEF LogInv, RowsInv
<1>3. /\ DOMAIN R \in SUBSET Nat /\ now \in Nat /\ \A t \in DOMAIN R : t <= now
      /\ Sound(log[k], DOMAIN R, now) /\ Exactly(log[k], R) /\ hit \in SUBSET log[k]
  BY DEF LogInv, RowsInv, ExactInv
<1>4. Exactly(new, Q)
  <2> HIDE DEF hit, R
  <2> QED BY <1>3, EditExact
<1> HIDE DEF new, Q
<1> QED BY <1>2, <1>4 DEF ExactInv

LEMMA DeleteExact ==
    ASSUME LogInv, ExactInv, NEW k \in Kegs, NEW stamps,
           DeleteLogEntries(k, stamps), UNCHANGED now
    PROVE  ExactInv'
<1> DEFINE hit == {r \in log[k] : r.ts \in stamps}
           R == reading[k]
           Q == [t \in DOMAIN R \ CoveredBy(hit) |-> R[t]]
<1>1. /\ log' = [log EXCEPT ![k] = @ \ hit]
      /\ reading' = [reading EXCEPT ![k] = [t \in DOMAIN @ \ CoveredBy(hit) |-> @[t]]]
  BY DEF DeleteLogEntries
<1>2. /\ log'[k] = log[k] \ hit /\ reading'[k] = Q
      /\ \A j \in Kegs \ {k} : reading'[j] = reading[j] /\ log'[j] = log[j]
  BY <1>1 DEF LogInv, RowsInv
<1>3. Sound(log[k], DOMAIN R, now) /\ Exactly(log[k], R) /\ hit \in SUBSET log[k]
  BY DEF LogInv, RowsInv, ExactInv
<1> HIDE DEF hit, R
<1>4. \A r \in log[k] \ hit : r.covers \subseteq DOMAIN Q
  BY <1>3 DEF Sound, CoveredBy
<1>5. DOMAIN Q \subseteq DOMAIN R /\ \A t \in DOMAIN Q : Q[t] = R[t]
  OBVIOUS
<1>6. log[k] \ hit \in SUBSET log[k]
  OBVIOUS
<1> HIDE DEF Q
<1>7. Exactly(log[k] \ hit, Q)
  BY <1>3, <1>4, <1>5, <1>6, FewerExact
<1> QED BY <1>2, <1>7 DEF ExactInv

LEMMA NextExact == ASSUME LogInv, PageInv, ExactInv, [Next]_vars PROVE ExactInv'
<1>0. now \in Times
  BY DEF ExactInv
<1>1. CASE Elapse
  BY <1>1, StillExact DEF Elapse, ghostVars
<1>2. ASSUME NEW k \in Kegs, Record(k) PROVE ExactInv'
  <2>1. UNCHANGED now
    BY <1>2 DEF Record
  <2>2. CASE AppendLog(k, Reads[now])
    BY <2>1, <2>2, AppendExact
  <2>3. CASE UNCHANGED <<log, reading>>
    BY <1>0, <2>1, <2>3, StillExact
  <2> QED BY <1>2, <2>2, <2>3 DEF Record
<1>3. CASE \/ Restart \/ CompactLog \/ EndPass \/ FailPass \/ UNCHANGED vars
           \/ \E k \in Kegs : NextKeg(k) \/ \E reads \in BOOLEAN : ApplyPacket(k, reads)
  BY <1>0, <1>3, StillExact
  DEF Restart, CompactLog, EndPass, FailPass, NextKeg, ApplyPacket, vars, ghostVars
<1>4. CASE Pass
  BY <1>3, <1>4, PruneExact, ChunkExact DEF Pass
<1>5. CASE Later \/ Earlier \/ Reload \/ \E k \in Kegs : Open(k)
  BY <1>0, <1>5, StillExact DEF Later, Earlier, Reload, Open, Load
<1>6. ASSUME NEW stamps, page # None, Delete(stamps) \/ \E e \in Edits : Save(stamps, e)
      PROVE  ExactInv'
  <2>1. page.keg \in Kegs
    BY <1>6 DEF PageInv
  <2>2. CASE Delete(stamps)
    BY <2>1, <2>2, DeleteExact DEF Delete
  <2>3. ASSUME NEW e \in Edits, Save(stamps, e) PROVE ExactInv'
    BY <2>1, <2>3, UpdateExact DEF Save
  <2> QED BY <1>6, <2>2, <2>3
<1>7. ASSUME NEW k \in Kegs, ClearLog(k) \/ DeleteKeg(k) PROVE ExactInv'
  BY <1>7, ClearExact
<1> QED BY <1>1, <1>2, <1>3, <1>4, <1>5, <1>6, <1>7 DEF Next, Ingest, Editor

LEMMA ExactAlways == Spec => []ExactInv
BY InitExact, NextExact, InvAlways, PTL DEF Spec

(* For any steps, chunks and times, however passes fail and restart and      *)
(* whatever is recorded, edited and deleted between their chunks, every row  *)
(* of the history holds the mean of the readings it covers, as they were     *)
(* recorded or edited, and never a mean of means.                            *)
THEOREM AveragesAreExact == Spec => []AveragesExact
<1>1. ExactInv => AveragesExact
  BY Zenon DEF ExactInv, Exactly, AveragesExact, ReadingsOf, ReadingsIn
<1> QED BY ExactAlways, <1>1, PTL

(***************************************************************************)
(* Charts.                                                                 *)
(***************************************************************************)

LEMMA UniqueQuotient ==
    ASSUME NEW c \in Nat, c > 0, NEW t \in Nat, NEW q \in Nat, q * c <= t, t < q * c + c
    PROVE  t \div c = q
<1> DEFINE p == t \div c
<1>1. p \in Nat /\ p * c <= t /\ t < p * c + c /\ p * c \in Nat /\ q * c \in Nat
  BY Division
<1> HIDE DEF p
<1>2. p < q => p * c + c <= q * c
  BY <1>1, Multiples
<1>3. q < p => q * c + c <= p * c
  BY <1>1, Multiples
<1>4. p = q
  BY <1>1, <1>2, <1>3
<1> QED BY <1>4 DEF p

(* Times of one step are in one point of a chart, if its step is whole steps. *)
LEMMA SamePoint ==
    ASSUME NEW step \in Nat, step > 0, NEW m \in Nat, step = m * CompactStep,
           NEW a \in Nat, NEW b \in Nat, StepOf(a) = StepOf(b)
    PROVE  a \div step = b \div step
<1> DEFINE c == CompactStep
           q == a \div step
<1>1. /\ q \in Nat /\ q * step \in Nat /\ q * step <= a /\ a < q * step + step
  BY Division
<1>2. c \in Nat /\ c > 0
  BY LogAssumption
<1>3. Aligned(q * step) /\ Aligned(q * step + step) /\ q * step + step \in Nat
  <2> HIDE DEF q, c
  <2>1. q * step = (q * m) * c /\ q * step + step = (q * m + m) * c
    BY <1>1, <1>2, Distribution DEF c
  <2> QED BY <1>1, <2>1 DEF Aligned, c
<1> HIDE DEF q, c
<1>4. q * step <= StepOf(a) /\ StepOf(a) + c <= q * step + step
  BY <1>1, <1>3, StepBelow DEF c
<1>5. StepOf(b) <= b /\ b < StepOf(b) + c /\ StepOf(b) \in Nat
  BY StepBounds DEF c
<1>6. q * step <= b /\ b < q * step + step
  BY <1>1, <1>2, <1>4, <1>5
<1>7. b \div step = q
  BY <1>1, <1>6, UniqueQuotient
<1> QED BY <1>7 DEF q

LEMMA WholeMultiple ==
    ASSUME NEW s \in Nat, s % CompactStep = 0 PROVE \E m \in Nat : s = m * CompactStep
<1>1. CompactStep \in Nat /\ CompactStep > 0
  BY LogAssumption
<1>2. s \div CompactStep \in Nat /\ s = (s \div CompactStep) * CompactStep
  BY <1>1, Division
<1> QED BY <1>2

LEMMA Associate ==
    ASSUME NEW x \in Nat, NEW m \in Nat, NEW c \in Nat PROVE x * (m * c) = (x * m) * c /\ x * m \in Nat
OBVIOUS

(* An hour or more: whole hours. *)
LEMMA SampleStepWhole ==
    ASSUME NEW w \in Nat, sampleStep(w) >= CompactStep
    PROVE  /\ sampleStep(w) \in Nat /\ sampleStep(w) > 0
           /\ \E m \in Nat : sampleStep(w) = m * CompactStep
<1> DEFINE need == w \div maxChartPoints
           enough == {s \in sampleSteps : s >= need}
<1>1. /\ sampleSteps \in SUBSET Nat /\ Day \in Nat /\ Day > 0 /\ Day \in sampleSteps
      /\ CompactStep \in Nat /\ CompactStep > 0 /\ Day >= CompactStep /\ Interval \in Nat
      /\ \A s \in sampleSteps : s >= CompactStep => s % CompactStep = 0
  BY LogAssumption
<1>2. need \in Nat
  BY Division, LogAssumption
<1>3. sampleStep(w) = IF need <= Interval THEN 0 ELSE IF enough # {} THEN Min(enough)
                      ELSE ((need + Day - 1) \div Day) * Day
  BY DEF sampleStep
<1> HIDE DEF need
<1>4. ~(need <= Interval)
  BY <1>1, <1>3
<1>5. CASE enough # {}
  <2>1. Min(enough) \in enough
    <3>1. enough \in SUBSET Nat
      BY <1>1
    <3> QED BY <1>5, <3>1, Smallest
  <2> DEFINE z == Min(enough)
  <2>2. z \in sampleSteps /\ sampleStep(w) = z
    BY <1>3, <1>4, <1>5, <2>1
  <2> HIDE DEF z
  <2>3. z \in Nat /\ z >= CompactStep /\ z % CompactStep = 0
    BY <1>1, <2>2
  <2> QED BY <1>1, <2>2, <2>3, WholeMultiple
<1>6. CASE enough = {}
  <2> DEFINE x == (need + Day - 1) \div Day
  <2>1. x \in Nat
    <3>1. need + Day - 1 \in Nat
      BY <1>1, <1>2
    <3> HIDE DEF enough
    <3> QED BY <1>1, <3>1, Division
  <2>2. PICK m \in Nat : Day = m * CompactStep
    BY <1>1, WholeMultiple
  <2>3. sampleStep(w) = x * Day
    BY <1>3, <1>4, <1>6
  <2> HIDE DEF x
  <2>4. x * Day = (x * m) * CompactStep /\ x * m \in Nat
    BY <1>1, <2>1, <2>2, Associate
  <2>5. x * Day \in Nat
    BY <1>1, <2>1
  <2> DEFINE z == x * Day
  <2>6. z \in Nat /\ sampleStep(w) = z /\ \E i \in Nat : z = i * CompactStep
    BY <2>3, <2>4, <2>5
  <2> HIDE DEF z
  <2>7. z >= CompactStep
    BY <2>6
  <2> QED BY <1>1, <2>6, <2>7
<1> QED BY <1>5, <1>6

(* A chart of points an hour or longer, for whatever window: sampleStep      *)
(* gives whole numbers of hours, so a point never cuts through what a pass   *)
(* folds, and a row of an hour within the window is within it too.           *)
THEOREM ChartsWhole ==
    Spec => [](/\ ChartKeepsHoursWhole
               /\ \A k \in Kegs : \A from, to \in Nat : from < to => HoursWhole(k, from, to))
<1>1. ASSUME LogInv, NEW k \in Kegs, NEW from \in Nat, NEW to \in Nat, from < to
      PROVE  HoursWhole(k, from, to)
  <2> DEFINE step == sampleStep(to - from)
             chart == ReadLogSampled(k, from, to, step)
             shown == CoveredBy(UNION chart)
  <2> SUFFICES ASSUME step >= CompactStep
               PROVE  /\ \A rows, other \in chart :
                            \A t \in CoveredBy(rows), u \in CoveredBy(other) :
                                t \div step = u \div step <=> rows = other
                      /\ \A t \in CoveredBy(log[k]) :
                            StepOf(t) >= from /\ StepOf(t) + CompactStep - 1 <= to => t \in shown
                      /\ \A t \in shown : t >= from /\ StepOf(t) <= to
    BY Zenon DEF HoursWhole
  <2>1. now \in Nat /\ Sound(log[k], DOMAIN reading[k], now) /\ DOMAIN reading[k] \in SUBSET Nat
    BY <1>1 DEF LogInv, RowsInv
  <2>2. to - from \in Nat
    BY <1>1
  <2>3. step \in Nat /\ step > 0 /\ \E m \in Nat : step = m * CompactStep
    BY <2>2, SampleStepWhole
  <2>4. ASSUME NEW r \in log[k], NEW t \in r.covers
        PROVE  /\ t \in Nat /\ r.ts \in Nat /\ r.ts <= t /\ StepOf(t) = StepOf(r.ts)
               /\ t \div step = r.ts \div step
               /\ StepOf(t) \in Nat /\ StepOf(t) <= r.ts /\ r.ts < StepOf(t) + CompactStep
    <3>1. t \in Nat /\ r.ts \in Nat /\ r.ts <= t /\ StepOf(t) = StepOf(r.ts)
      BY <2>1 DEF Sound
    <3>2. t \div step = r.ts \div step
      BY <2>3, <3>1, SamePoint
    <3> QED BY <3>1, <3>2, StepBounds
  <2> HIDE DEF step
  <2>5. ASSUME NEW rows \in chart
        PROVE  \E g : /\ rows = {r \in log[k] : r.ts >= from /\ r.ts <= to /\ r.ts \div step = g}
                      /\ \A t \in CoveredBy(rows) : t \div step = g
    <3> DEFINE within == {r \in log[k] : r.ts >= from /\ r.ts <= to}
    <3>0. PICK g \in {r.ts \div step : r \in within} : rows = {r \in within : r.ts \div step = g}
      BY <2>5 DEF ReadLogSampled
    <3>1. rows = {r \in log[k] : r.ts >= from /\ r.ts <= to /\ r.ts \div step = g}
      BY <3>0
    <3> HIDE DEF within
    <3>2. \A t \in CoveredBy(rows) : t \div step = g
      BY <2>4, <3>1 DEF CoveredBy
    <3> QED BY <3>1, <3>2
  <2>6. ASSUME NEW rows \in chart, NEW other \in chart,
               NEW t \in CoveredBy(rows), NEW u \in CoveredBy(other)
        PROVE  t \div step = u \div step <=> rows = other
    <3>1. PICK g : /\ rows = {r \in log[k] : r.ts >= from /\ r.ts <= to /\ r.ts \div step = g}
                   /\ \A x \in CoveredBy(rows) : x \div step = g
      BY <2>5
    <3>2. PICK h : /\ other = {r \in log[k] : r.ts >= from /\ r.ts <= to /\ r.ts \div step = h}
                   /\ \A x \in CoveredBy(other) : x \div step = h
      BY <2>5
    <3>3. t \div step = g /\ u \div step = h
      BY <2>6, <3>1, <3>2
    <3>4. CASE rows = other
      <4>1. t \in CoveredBy(other)
        BY <3>4
      <4> QED BY <3>2, <3>3, <3>4, <4>1
    <3>5. CASE g = h
      BY <3>1, <3>2, <3>3, <3>5
    <3> QED BY <3>3, <3>4, <3>5
  <2>7. ASSUME NEW r \in log[k], r.ts >= from, r.ts <= to
        PROVE  \E rows \in chart : r \in rows
    <3> DEFINE within == {q \in log[k] : q.ts >= from /\ q.ts <= to}
               point(g) == {q \in within : q.ts \div step = g}
    <3>1. r \in within
      BY <2>7
    <3>2. r \in point(r.ts \div step)
      BY <3>1
    <3>3. point(r.ts \div step) \in {point(g) : g \in {q.ts \div step : q \in within}}
      BY <3>1
    <3> QED BY <3>2, <3>3 DEF ReadLogSampled
  <2>8. ASSUME NEW t \in CoveredBy(log[k]),
               StepOf(t) >= from, StepOf(t) + CompactStep - 1 <= to
        PROVE  t \in shown
    <3>1. PICK r \in log[k] : t \in r.covers
      BY DEF CoveredBy
    <3>2. r.ts >= from
      BY <1>1, <2>4, <2>8, <3>1
    <3>3. r.ts <= to
      <4>1. CompactStep \in Nat
        BY LogAssumption
      <4> QED BY <1>1, <2>4, <2>8, <3>1, <4>1
    <3>4. PICK rows \in chart : r \in rows
      BY <2>7, <3>2, <3>3
    <3>5. r \in UNION chart
      BY <3>4
    <3> QED BY <3>1, <3>5 DEF CoveredBy
  <2>9. ASSUME NEW t \in shown PROVE t >= from /\ StepOf(t) <= to
    <3>1. PICK rows \in chart : \E r \in rows : t \in r.covers
      BY DEF CoveredBy
    <3>2. PICK r \in rows : t \in r.covers
      BY <3>1
    <3>3. r \in log[k] /\ r.ts >= from /\ r.ts <= to
      BY <2>5, <3>1
    <3> QED BY <1>1, <2>4, <3>2, <3>3
  <2> QED BY <2>6, <2>8, <2>9
<1>2. ASSUME LogInv
      PROVE  \A k \in Kegs : \A from, to \in Nat : from < to => HoursWhole(k, from, to)
  BY <1>1, <1>2
<1>3. ASSUME LogInv PROVE ChartKeepsHoursWhole
  <2>1. ChartEnds \subseteq Nat
    BY LogAssumption
  <2> QED BY <1>2, <1>3, <2>1 DEF ChartKeepsHoursWhole
<1> QED BY InvAlways, <1>2, <1>3, PTL

(***************************************************************************)
(* The walk through the pages.  Pages are cut by counting the rows before  *)
(* or after a row, so what is cut off lies beyond all that is shown.       *)
(***************************************************************************)

(* A bounded set of naturals has a greatest member.                          *)
LEMMA Greatest ==
    ASSUME NEW S \in SUBSET Nat, S # {}, NEW n \in Nat, \A t \in S : t <= n
    PROVE  Max(S) \in S /\ \A t \in S : t <= Max(S)
<1> DEFINE M == {n - t : t \in S}
<1>1. M \in SUBSET Nat /\ M # {}
  <2>1. \A t \in S : n - t \in Nat
    OBVIOUS
  <2> QED BY <2>1
<1>2. Min(M) \in M /\ \A d \in M : Min(M) <= d
  BY <1>1, Smallest
<1>3. PICK x \in S : Min(M) = n - x
  BY <1>2
<1> HIDE DEF M
<1>4. ASSUME NEW t \in S PROVE t <= x
  <2>1. n - t \in M
    BY DEF M
  <2>2. n - x <= n - t /\ t \in Nat /\ x \in Nat
    BY <1>2, <1>3, <2>1
  <2> QED BY <2>2
<1> QED BY <1>4 DEF Max

(* The first rows are there if any is, and come before all others; so do    *)
(* the last ones.                                                            *)
LEMMA FirstRows ==
    ASSUME NEW S, IsFiniteSet(S), \A r \in S : r.ts \in Nat
    PROVE  /\ FirstOf(S, Limit) \in SUBSET S
           /\ S # {} => FirstOf(S, Limit) # {}
           /\ \A r \in S \ FirstOf(S, Limit) : \A p \in FirstOf(S, Limit) : p.ts < r.ts
<1> DEFINE Before(r) == {q \in S : q.ts < r.ts}
           F == FirstOf(S, Limit)
<1>1. Limit \in Nat /\ Limit > 0
  BY LogAssumption
<1>2. \A r \in S : IsFiniteSet(Before(r)) /\ Cardinality(Before(r)) \in Nat
  BY FS_Subset, FS_CardinalityType
<1>3. F = {r \in S : Cardinality(Before(r)) < Limit}
  BY DEF FirstOf
<1>4. S # {} => F # {}
  <2> SUFFICES ASSUME S # {} PROVE F # {}
    OBVIOUS
  <2> DEFINE T == {r.ts : r \in S}
  <2>1. T \in SUBSET Nat /\ T # {}
    OBVIOUS
  <2>2. Min(T) \in T /\ \A t \in T : Min(T) <= t
    BY <2>1, Smallest
  <2>3. PICK r \in S : r.ts = Min(T)
    BY <2>2
  <2>4. \A q \in S : q.ts \in Nat /\ r.ts <= q.ts
    BY <2>2, <2>3
  <2>6. Before(r) = {}
    BY <2>4
  <2>5. Cardinality(Before(r)) = 0
    BY <2>6, FS_EmptySet
  <2> HIDE DEF F
  <2> QED BY <1>1, <1>3, <2>5
<1>5. ASSUME NEW r \in S, r \notin F, NEW p \in F PROVE p.ts < r.ts
  <2>1. SUFFICES ASSUME r.ts <= p.ts PROVE FALSE
    BY <1>3
  <2>2. p \in S
    BY <1>3
  <2>3. Before(r) \in SUBSET Before(p)
    BY <2>1, <2>2
  <2>4. Cardinality(Before(r)) <= Cardinality(Before(p))
    BY <1>2, <2>2, <2>3, FS_Subset
  <2>5. Cardinality(Before(p)) < Limit /\ ~(Cardinality(Before(r)) < Limit)
    BY <1>3, <1>5
  <2> HIDE DEF Before
  <2> QED BY <1>1, <1>2, <2>2, <2>4, <2>5
<1> QED BY <1>3, <1>4, <1>5

LEMMA LastRows ==
    ASSUME NEW S, IsFiniteSet(S), NEW n \in Nat, \A r \in S : r.ts \in Nat /\ r.ts <= n
    PROVE  /\ LastOf(S, Limit) \in SUBSET S
           /\ S # {} => LastOf(S, Limit) # {}
           /\ \A r \in S \ LastOf(S, Limit) : \A p \in LastOf(S, Limit) : r.ts < p.ts
<1> DEFINE After(r) == {q \in S : q.ts > r.ts}
           F == LastOf(S, Limit)
<1>1. Limit \in Nat /\ Limit > 0
  BY LogAssumption
<1>2. \A r \in S : IsFiniteSet(After(r)) /\ Cardinality(After(r)) \in Nat
  BY FS_Subset, FS_CardinalityType
<1>3. F = {r \in S : Cardinality(After(r)) < Limit}
  BY DEF LastOf
<1>4. S # {} => F # {}
  <2> SUFFICES ASSUME S # {} PROVE F # {}
    OBVIOUS
  <2> DEFINE T == {r.ts : r \in S}
  <2>1. T \in SUBSET Nat /\ T # {} /\ \A t \in T : t <= n
    OBVIOUS
  <2>2. Max(T) \in T /\ \A t \in T : t <= Max(T)
    <3> HIDE DEF T
    <3> QED BY <2>1, Greatest
  <2>3. PICK r \in S : r.ts = Max(T)
    BY <2>2
  <2>4. \A q \in S : q.ts \in Nat /\ q.ts <= r.ts
    BY <2>2, <2>3
  <2>6. After(r) = {}
    BY <2>4
  <2>5. Cardinality(After(r)) = 0
    BY <2>6, FS_EmptySet
  <2> HIDE DEF F
  <2> QED BY <1>1, <1>3, <2>5
<1>5. ASSUME NEW r \in S, r \notin F, NEW p \in F PROVE r.ts < p.ts
  <2>1. SUFFICES ASSUME p.ts <= r.ts PROVE FALSE
    BY <1>3
  <2>2. p \in S
    BY <1>3
  <2>3. After(r) \in SUBSET After(p)
    BY <2>1, <2>2
  <2>4. Cardinality(After(r)) <= Cardinality(After(p))
    BY <1>2, <2>2, <2>3, FS_Subset
  <2>5. Cardinality(After(p)) < Limit /\ ~(Cardinality(After(r)) < Limit)
    BY <1>3, <1>5
  <2> HIDE DEF After
  <2> QED BY <1>1, <1>2, <2>2, <2>4, <2>5
<1> QED BY <1>3, <1>4, <1>5

(* No row lies in the first hour of 1970. *)
Stamped == now >= CompactStep /\ \A k \in Kegs : \A r \in log[k] : r.ts >= CompactStep

(* t lies beyond the cursor, in the direction of the walk.                   *)
Ahead(t, after, before) == IF before > 0 THEN t < before ELSE t > after

(* What is still to be shown is in the log, and on the cursor's side. *)
ToShow(k, after, before) ==
    \A t \in unseen : Ahead(t, after, before) /\ \E r \in Window(k) : r.ts = t

(* The walk's invariant.  A page's cursor is on one side only, and the times *)
(* on a page are positive, or its first or last would be no cursor.          *)
WalkInv ==
    /\ unseen \subseteq Nat
    /\ page # None =>
          /\ page \in Page
          /\ page.after = 0 \/ page.before = 0
          /\ ToShow(page.keg, page.after, page.before)
          /\ \A p \in page.rows : p.ts > 0 /\ p.ts <= To
          /\ WalkShowsAll

LogFinite == \A k \in Kegs : IsFiniteSet(log[k]) /\ log[k] \subseteq Row

LEMMA FiniteLog == ASSUME LogInv, ExactInv PROVE LogFinite
<1> SUFFICES ASSUME NEW k \in Kegs PROVE IsFiniteSet(log[k]) /\ log[k] \subseteq Row
  BY DEF LogFinite
<1>1. /\ now \in Nat /\ \A r \in log[k] : r.ts \in Nat /\ r.ts <= now
      /\ \A r, q \in log[k] : r.ts = q.ts => r = q
      /\ log[k] \subseteq Row
  BY DEF LogInv, RowsInv, Sound, ExactInv, Exactly
<1> QED BY <1>1, FiniteRows

(* A page that is loaded at a cursor shows the rows next to it, and its      *)
(* buttons tell whether any row is left; a page that comes back empty has    *)
(* nothing ahead of it.                                                      *)
LEMMA LoadWalk ==
    ASSUME LogFinite, Stamped, NEW k \in Kegs, NEW after \in Nat, NEW before \in Nat,
           after = 0 \/ before = 0, NEW turned \in BOOLEAN,
           unseen \subseteq Nat,
           turned \/ ToShow(k, after, before),
           Load(k, after, before, turned)
    PROVE  WalkInv'
<1> DEFINE S == Window(k)
           A == {q \in S : Ahead(q.ts, after, before)}
           E == PageEntries(k, after, before)
           got == ReadLogPage(k, after, before)
           stamps == {r.ts : r \in E}
           u == IF turned THEN {r.ts : r \in A} ELSE unseen
           back == got.rows = {} /\ got.earlier /\ before = 0
<1>1. /\ page' = IF back THEN [got EXCEPT !.stale = TRUE, !.after = 0,
                                   !.before = (IF after > 0 THEN after ELSE To) + 1]
                 ELSE got
      /\ unseen' = u \ {r.ts : r \in got.rows}
      /\ UNCHANGED log
  BY DEF Load, Ahead
<1>2. /\ IsFiniteSet(S) /\ S \subseteq Row /\ S \subseteq log[k]
      /\ \A r \in S : r.ts \in Nat /\ r.ts > 0 /\ r.ts <= To /\ r.covers \in SUBSET Nat
      /\ To \in Nat
  <2>1. CompactStep \in Nat \ {0} /\ To \in Nat /\ From \in Nat
    BY LogAssumption
  <2>2. IsFiniteSet(log[k]) /\ S \in SUBSET log[k] /\ log[k] \subseteq Row
    BY DEF LogFinite, Window
  <2>3. IsFiniteSet(S)
    BY <2>2, FS_Subset
  <2> QED BY <2>1, <2>2, <2>3 DEF Stamped, Window, Row
<1> HIDE DEF S
<1>3. /\ IsFiniteSet(A) /\ A \subseteq S
      /\ A = IF after > 0 THEN {r \in S : r.ts > after}
             ELSE IF before > 0 THEN {r \in S : r.ts < before} ELSE S
  <2>1. A \in SUBSET S
    OBVIOUS
  <2>2. IsFiniteSet(A)
    BY <1>2, <2>1, FS_Subset
  <2> QED BY <1>2, <2>1, <2>2 DEF Ahead
<1>4. E = IF before > 0 THEN LastOf(A, Limit) ELSE FirstOf(A, Limit)
  <2> HIDE DEF A
  <2>1. CASE after > 0
    BY <1>3, <2>1 DEF PageEntries, S
  <2>2. CASE ~(after > 0) /\ before > 0
    BY <1>3, <2>2 DEF PageEntries, S
  <2>3. CASE ~(after > 0) /\ ~(before > 0)
    BY <1>3, <2>3 DEF PageEntries, S
  <2> QED BY <2>1, <2>2, <2>3
<1> HIDE DEF A, E
<1>5. /\ E \subseteq A
      /\ A # {} => E # {}
      /\ \A r \in A \ E, p \in E : IF before > 0 THEN r.ts < p.ts ELSE r.ts > p.ts
  <2>1. \A r \in A : r.ts \in Nat /\ r.ts <= To
    BY <1>2, <1>3
  <2>2. CASE before > 0
    BY <1>2, <1>3, <1>4, <2>1, <2>2, LastRows
  <2>3. CASE ~(before > 0)
    BY <1>2, <1>3, <1>4, <2>1, <2>3, FirstRows
  <2> QED BY <2>2, <2>3
<1>6. \A t \in u : \E r \in A : r.ts = t
  BY DEF ToShow, A, S
<1>7. /\ stamps \in SUBSET Nat /\ \A t \in stamps : t > 0 /\ t <= To
      /\ E \subseteq S
  <2>1. E \subseteq S
    BY <1>3, <1>5
  <2>2. \A r \in E : r.ts \in Nat /\ r.ts > 0 /\ r.ts <= To
    BY <1>2, <2>1
  <2>3. ASSUME NEW t \in stamps PROVE t \in Nat /\ t > 0 /\ t <= To
    <3>1. PICK r \in E : t = r.ts
      OBVIOUS
    <3> QED BY <2>2, <3>1
  <2> HIDE DEF stamps
  <2> QED BY <2>1, <2>3
<1>8. E # {} => /\ Min(stamps) \in stamps
                /\ \A t \in stamps : Min(stamps) <= t
                /\ Max(stamps) \in stamps
                /\ \A t \in stamps : t <= Max(stamps)
  <2> SUFFICES ASSUME E # {} PROVE stamps # {} 
    BY <1>2, <1>7, Smallest, Greatest
  <2> QED OBVIOUS
<1>9. /\ got.keg = k /\ got.after = after /\ got.before = before /\ got.stale = FALSE
      /\ got.rows = {[ts |-> r.ts, covers |-> r.covers] : r \in E}
      /\ got.earlier = LET first == IF E # {} THEN Min(stamps) ELSE IF after > 0 THEN after ELSE before
                       IN  first > 0 /\ \E r \in S : r.ts < first
      /\ got.later = LET end == IF E # {} THEN Max(stamps) ELSE IF after > 0 THEN after ELSE before
                     IN  end > 0 /\ \E r \in S : r.ts > end
  BY DEF ReadLogPage, S, E
<1>10. got \in Page
  <2>1. got.rows \in SUBSET [ts : Nat, covers : SUBSET Nat]
    BY <1>2, <1>7, <1>9
  <2>2. got.earlier \in BOOLEAN /\ got.later \in BOOLEAN
    BY <1>9
  <2>3. got = [keg |-> got.keg, after |-> got.after, before |-> got.before, stale |-> got.stale,
               rows |-> got.rows, earlier |-> got.earlier, later |-> got.later]
    BY DEF ReadLogPage
  <2> HIDE DEF got
  <2> QED BY <1>9, <2>1, <2>2, <2>3 DEF Page
<1> HIDE DEF got, stamps
<1>11. {r.ts : r \in got.rows} = stamps
  <2> DEFINE shown == got.rows
  <2>1. shown = {[ts |-> r.ts, covers |-> r.covers] : r \in E}
    BY <1>9
  <2> HIDE DEF shown
  <2>2. ASSUME NEW p \in shown PROVE p.ts \in stamps
    <3>1. PICK r \in E : p = [ts |-> r.ts, covers |-> r.covers]
      BY <2>1
    <3> QED BY <3>1 DEF stamps
  <2>3. ASSUME NEW t \in stamps PROVE \E p \in shown : p.ts = t
    <3>1. PICK r \in E : t = r.ts
      BY DEF stamps
    <3>2. [ts |-> r.ts, covers |-> r.covers] \in shown
      BY <2>1
    <3> QED BY <3>1, <3>2
  <2>4. {r.ts : r \in shown} = stamps
    BY <2>2, <2>3
  <2> QED BY <2>4 DEF shown
<1>12. ASSUME NEW t \in unseen'
       PROVE  /\ Ahead(t, after, before) /\ \E r \in S : r.ts = t
              /\ E # {} /\ \A s \in stamps : IF before > 0 THEN t < s ELSE t > s
  <2>1. t \in u /\ t \notin stamps
    BY <1>1, <1>11
  <2>2. PICK r \in A : r.ts = t
    BY <1>6, <2>1
  <2>3. r \notin E
    BY <2>1, <2>2 DEF stamps
  <2> QED BY <1>3, <1>5, <2>2, <2>3 DEF stamps, A
<1>13. \A p \in got.rows : p.ts \in stamps
  BY <1>11
<1>14. unseen' \subseteq Nat
  BY <1>2, <1>12
<1>15. CASE back
  <2>1. E = {}
    BY <1>9, <1>15
  <2>2. unseen' = {}
    BY <1>12, <2>1
  <2> DEFINE b == (IF after > 0 THEN after ELSE To) + 1
  <2>3. b \in Nat
    BY <1>2
  <2>4. page' = [got EXCEPT !.stale = TRUE, !.after = 0, !.before = b]
    BY <1>1, <1>15
  <2> HIDE DEF b
  <2>5. page' \in Page /\ page'.after = 0 /\ page'.stale = TRUE /\ page'.rows = {}
    BY <1>10, <1>15, <2>3, <2>4 DEF Page
  <2>6. WalkShowsAll'
    BY <2>5 DEF WalkShowsAll
  <2>7. ToShow(page.keg, page.after, page.before)'
    BY <2>2 DEF ToShow
  <2> QED BY <1>14, <2>5, <2>6, <2>7 DEF WalkInv
<1>16. CASE ~back
  <2>1. page' = got
    BY <1>1, <1>16
  <2>3. /\ page' \in Page /\ page'.after = after /\ page'.before = before /\ page'.keg = k
    BY <1>9, <1>10, <2>1
  <2>4. Window(k)' = S
    BY <1>1 DEF Window, S
  <2>5. ToShow(page.keg, page.after, page.before)'
    BY <1>12, <2>3, <2>4 DEF ToShow, Ahead
  <2>6. \A p \in page'.rows : p.ts > 0 /\ p.ts <= To
    BY <1>7, <1>13, <2>1
  <2>7. ASSUME NEW t \in unseen'
        PROVE  IF before > 0 THEN got.earlier ELSE got.later
    <3>1. E # {} /\ \E r \in S : r.ts = t
      BY <1>12
    <3>2. CASE before > 0
      <4>1. t < Min(stamps) /\ Min(stamps) > 0
        BY <1>7, <1>8, <1>12, <3>1, <3>2
      <4> QED BY <1>9, <3>1, <3>2, <4>1
    <3>3. CASE ~(before > 0)
      <4>1. t > Max(stamps) /\ Max(stamps) > 0
        BY <1>7, <1>8, <1>12, <3>1, <3>3
      <4> QED BY <1>9, <3>1, <3>3, <4>1
    <3> QED BY <3>2, <3>3
  <2>8. WalkShowsAll'
    BY <1>12, <1>13, <2>1, <2>3, <2>7 DEF WalkShowsAll
  <2> QED BY <1>14, <2>3, <2>5, <2>6, <2>8 DEF WalkInv
<1> QED BY <1>15, <1>16

(* A row has the time of an older row, of its step, or the present time. *)
LEMMA StampedSame ==
    ASSUME Stamped,
           \A k \in Kegs : \A r \in log'[k] : \E q \in log[k] : q.ts = r.ts,
           UNCHANGED now
    PROVE  Stamped'
BY DEF Stamped

LEMMA ChunkStamped == ASSUME LogInv, Stamped, CompactChunk PROVE Stamped'
<1> DEFINE k == pass.keg
           from == pass.start
           to == ChunkEnd
<1>1. /\ pass.at = "compacting" /\ k # None
      /\ log' = [log EXCEPT ![k] = compactRange(@, from, to)]
      /\ UNCHANGED now
  BY DEF CompactChunk, Compacting
<1>2. DOMAIN log = Kegs /\ k \in Kegs
  BY <1>1 DEF LogInv, RowsInv, PassInv
<1> HIDE DEF k, from, to
<1>3. /\ log'[k] = compactRange(log[k], from, to)
      /\ \A j \in Kegs \ {k} : log'[j] = log[j]
  BY <1>1, <1>2
<1>4. CompactStep \in Nat /\ Aligned(CompactStep) /\ \A r \in log[k] : r.ts \in Nat
  <2>1. CompactStep \in Nat /\ CompactStep = 1 * CompactStep
    BY LogAssumption
  <2> QED BY <1>2, <2>1 DEF Aligned, LogInv, RowsInv, Sound
<1>5. \A r \in log[k] : StepOf(r.ts) >= CompactStep
  <2> SUFFICES ASSUME NEW r \in log[k] PROVE StepOf(r.ts) >= CompactStep
    OBVIOUS
  <2>1. r.ts >= CompactStep /\ r.ts \in Nat
    BY <1>2, <1>4 DEF Stamped
  <2>2. CompactStep <= StepOf(r.ts) /\ StepOf(r.ts) \in Nat
    BY <1>4, <2>1, StepBelow, StepBounds
  <2> QED BY <1>4, <2>2
<1>6. ASSUME NEW b \in Unfolded(log[k], from, to), NEW rows PROVE Folded(rows, b).ts >= CompactStep
  BY <1>5 DEF Unfolded, Folded
<1>7. \A r \in log'[k] : r.ts >= CompactStep
  BY <1>2, <1>3, <1>6 DEF compactRange, Stamped
<1> QED BY <1>1, <1>3, <1>7 DEF Stamped

LEMMA AppendStamped ==
    ASSUME LogInv, Stamped, NEW k \in Kegs, NEW s, AppendLog(k, s), UNCHANGED now
    PROVE  Stamped'
<1> DEFINE row == [ts |-> now, amount |-> s.amount, pouring |-> s.pouring, covers |-> {now}]
<1>1. /\ log'[k] = {r \in log[k] : r.ts # now} \cup {row}
      /\ \A j \in Kegs \ {k} : log'[j] = log[j]
  BY DEF AppendLog, LogInv, RowsInv
<1>2. row.ts = now
  OBVIOUS
<1> HIDE DEF row
<1> QED BY <1>1, <1>2 DEF Stamped

LEMMA NextStamped ==
    ASSUME LogInv, PageInv, ExactInv, Stamped, [Next]_vars PROVE Stamped'
<1>1. CASE Elapse
  BY <1>1, LogAssumption DEF Elapse, Stamped
<1>2. ASSUME NEW k \in Kegs, Record(k) PROVE Stamped'
  <2>1. UNCHANGED now
    BY <1>2 DEF Record
  <2>2. CASE AppendLog(k, Reads[now])
    BY <2>1, <2>2, AppendStamped
  <2>3. CASE UNCHANGED log
    BY <2>1, <2>3, StampedSame
  <2> QED BY <1>2, <2>2, <2>3 DEF Record
<1>3. CASE \/ Restart \/ CompactLog \/ EndPass \/ FailPass \/ UNCHANGED vars
           \/ \E k \in Kegs : NextKeg(k) \/ \E reads \in BOOLEAN : ApplyPacket(k, reads)
  BY <1>3, StampedSame
  DEF Restart, CompactLog, EndPass, FailPass, NextKeg, ApplyPacket, vars, ghostVars
<1>4. CASE Pass
  <2>1. CASE StartPass
    BY <2>1, PruneLessens, StampedSame DEF Lessens
  <2> QED BY <1>3, <1>4, <2>1, ChunkStamped DEF Pass
<1>5. CASE Later \/ Earlier \/ Reload \/ \E k \in Kegs : Open(k)
  BY <1>5, StampedSame DEF Later, Earlier, Reload, Open, Load
<1>6. ASSUME NEW stamps, page # None, Delete(stamps) \/ \E e \in Edits : Save(stamps, e)
      PROVE  Stamped'
  <2>1. page.keg \in Kegs
    BY <1>6 DEF PageInv
  <2>2. CASE Delete(stamps)
    BY <2>1, <2>2, DeleteLessens, StampedSame DEF Delete, Lessens
  <2>3. ASSUME NEW e \in Edits, Save(stamps, e) PROVE Stamped'
    BY <2>1, <2>3, UpdateLessens, StampedSame DEF Save, Lessens
  <2> QED BY <1>6, <2>2, <2>3
<1>7. ASSUME NEW k \in Kegs, ClearLog(k) \/ DeleteKeg(k) PROVE Stamped'
  BY <1>7, ClearLessens, StampedSame DEF Lessens
<1> QED BY <1>1, <1>2, <1>3, <1>4, <1>5, <1>6, <1>7 DEF Next, Ingest, Editor

(* Rows may be added, or go and be forgotten, and the page may be stale. *)
LEMMA WalkGoesOn ==
    ASSUME WalkInv, unseen' \subseteq unseen,
           page' = page \/ (page # None /\ page' = [page EXCEPT !.stale = TRUE]),
           page # None => \A t \in unseen' : \E r \in log'[page.keg] : r.ts = t
    PROVE  WalkInv'
<1> SUFFICES ASSUME page # None PROVE WalkInv'
  BY DEF WalkInv
<1>1. /\ page' \in Page /\ page'.keg = page.keg /\ page'.rows = page.rows
      /\ page'.after = page.after /\ page'.before = page.before
      /\ page'.earlier = page.earlier /\ page'.later = page.later
      /\ page' = page \/ page'.stale = TRUE
  BY DEF WalkInv, Page
<1>2. ToShow(page.keg, page.after, page.before)'
  <2> SUFFICES ASSUME NEW t \in unseen'
               PROVE  /\ Ahead(t, page.after, page.before)
                      /\ \E r \in log'[page.keg] : r.ts = t /\ r.ts >= From /\ r.ts <= To
    BY <1>1 DEF ToShow, Window, Ahead
  <2>1. Ahead(t, page.after, page.before) /\ t >= From /\ t <= To
    BY DEF WalkInv, ToShow, Window
  <2> QED BY <2>1
<1>3. WalkShowsAll'
  BY <1>1 DEF WalkInv, WalkShowsAll
<1> QED BY <1>1, <1>2, <1>3 DEF WalkInv

LEMMA WalkForgets ==
    ASSUME WalkInv, Forget,
           page' = page \/ (page # None /\ page' = [page EXCEPT !.stale = TRUE])
    PROVE  WalkInv'
<1>1. CASE page = None
  BY <1>1, WalkGoesOn DEF Forget
<1>2. CASE page # None
  BY <1>2, WalkGoesOn DEF Forget
<1> QED BY <1>1, <1>2

LEMMA WalkStays ==
    ASSUME WalkInv, UNCHANGED unseen, PageInv,
           page' = page \/ (page # None /\ page' = [page EXCEPT !.stale = TRUE]),
           \A k \in Kegs : \A q \in log[k] : \E r \in log'[k] : r.ts = q.ts
    PROVE  WalkInv'
<1>1. page # None => \A t \in unseen' : \E r \in log'[page.keg] : r.ts = t
  <2> SUFFICES ASSUME page # None, NEW t \in unseen
               PROVE  \E r \in log'[page.keg] : r.ts = t
    OBVIOUS
  <2>1. PICK q \in log[page.keg] : q.ts = t
    BY DEF WalkInv, ToShow, Window
  <2>2. page.keg \in Kegs
    BY DEF PageInv
  <2> QED BY <2>1, <2>2
<1> QED BY <1>1, WalkGoesOn

LEMMA AppendWalk ==
    ASSUME LogInv, PageInv, WalkInv, NEW k \in Kegs, NEW s, AppendLog(k, s), UNCHANGED page
    PROVE  WalkInv'
<1> DEFINE row == [ts |-> now, amount |-> s.amount, pouring |-> s.pouring, covers |-> {now}]
<1>1. /\ log'[k] = {r \in log[k] : r.ts # now} \cup {row}
      /\ \A j \in Kegs \ {k} : log'[j] = log[j]
      /\ UNCHANGED unseen
  BY DEF AppendLog, LogInv, RowsInv
<1>2. row.ts = now
  OBVIOUS
<1> HIDE DEF row
<1>3. \A j \in Kegs : \A q \in log[j] : \E r \in log'[j] : r.ts = q.ts
  BY <1>1, <1>2
<1> QED BY <1>1, <1>3, WalkStays

LEMMA SaveWalk ==
    ASSUME LogInv, PageInv, WalkInv, NEW stamps, NEW e, page # None, Save(stamps, e)
    PROVE  WalkInv'
<1> DEFINE k == page.keg
           hit == {r \in log[k] : r.ts \in stamps}
<1>1. /\ log' = [log EXCEPT ![k] = (@ \ hit) \cup {Edited(r, e) : r \in hit}]
      /\ page' = [page EXCEPT !.stale = TRUE]
      /\ UNCHANGED unseen
  BY DEF Save, UpdateLogEntries
<1>2. k \in Kegs /\ DOMAIN log = Kegs
  BY DEF PageInv, LogInv, RowsInv
<1>3. \A r \in log[k] : Edited(r, e).ts = r.ts
  BY DEF Edited
<1> HIDE DEF k, hit
<1>4. /\ log'[k] = (log[k] \ hit) \cup {Edited(r, e) : r \in hit}
      /\ \A j \in Kegs \ {k} : log'[j] = log[j]
  BY <1>1, <1>2
<1>5. \A j \in Kegs : \A q \in log[j] : \E r \in log'[j] : r.ts = q.ts
  <2> SUFFICES ASSUME NEW q \in log[k] PROVE \E r \in log'[k] : r.ts = q.ts
    BY <1>4
  <2>1. CASE q \in hit
    BY <1>3, <1>4, <2>1
  <2>2. CASE q \notin hit
    BY <1>4, <2>2
  <2> QED BY <2>1, <2>2
<1> QED BY <1>1, <1>5, WalkStays

(* A page beyond the rows shown goes on with what is still ahead of it. *)
LEMMA LaterWalk ==
    ASSUME LogFinite, Stamped, PageInv, WalkInv, Later PROVE WalkInv'
<1> DEFINE k == page.keg
           n == Max(PageStamps)
<1>1. /\ page # None /\ ~page.stale /\ page.rows # {} /\ k \in Kegs
      /\ page \in Page /\ unseen \subseteq Nat
      /\ ToShow(k, page.after, page.before) /\ WalkShowsAll
      /\ \A p \in page.rows : p.ts \in Nat /\ p.ts > 0 /\ p.ts <= To
  BY DEF Later, Browsing, PageInv, WalkInv, Page
<1>2. To \in Nat
  BY LogAssumption
<1>3. PageStamps \in SUBSET Nat /\ PageStamps # {} /\ \A t \in PageStamps : t <= To
  BY <1>1 DEF PageStamps
<1>4. n \in PageStamps
  BY <1>2, <1>3, Greatest
<1>5. PICK p \in page.rows : n = p.ts
  BY <1>4 DEF PageStamps
<1> HIDE DEF n
<1>6. n \in Nat /\ n > 0
  BY <1>1, <1>5
<1>7. Load(k, n, 0, page.before > 0)
  BY DEF Later, n
<1>8. (page.before > 0) \/ ToShow(k, n, 0)
  <2>1. SUFFICES ASSUME ~(page.before > 0), NEW t \in unseen
                 PROVE  t > n /\ \E r \in Window(k) : r.ts = t
    BY DEF ToShow, Ahead
  <2> QED BY <1>1, <1>5, <2>1 DEF WalkShowsAll, ToShow
<1> DEFINE turned == page.before > 0
<1>9. turned \in BOOLEAN
  BY <1>1 DEF Page
<1> HIDE DEF turned, k
<1>10. Load(k, n, 0, turned) /\ (turned \/ ToShow(k, n, 0)) /\ k \in Kegs
  BY <1>1, <1>7, <1>8 DEF turned, k
<1> QED BY <1>1, <1>6, <1>9, <1>10, LoadWalk

LEMMA EarlierWalk ==
    ASSUME LogFinite, Stamped, PageInv, WalkInv, Earlier PROVE WalkInv'
<1> DEFINE k == page.keg
           n == Min(PageStamps)
<1>1. /\ page # None /\ ~page.stale /\ page.rows # {} /\ k \in Kegs
      /\ page \in Page /\ unseen \subseteq Nat
      /\ ToShow(k, page.after, page.before) /\ WalkShowsAll
      /\ \A p \in page.rows : p.ts \in Nat /\ p.ts > 0 /\ p.ts <= To
  BY DEF Earlier, Browsing, PageInv, WalkInv, Page
<1>3. PageStamps \in SUBSET Nat /\ PageStamps # {}
  BY <1>1 DEF PageStamps
<1>4. n \in PageStamps
  BY <1>3, Smallest
<1>5. PICK p \in page.rows : n = p.ts
  BY <1>4 DEF PageStamps
<1> HIDE DEF n
<1>6. n \in Nat /\ n > 0
  BY <1>1, <1>5
<1>7. Load(k, 0, n, page.before = 0)
  BY DEF Earlier, n
<1>8. (page.before = 0) \/ ToShow(k, 0, n)
  <2>1. SUFFICES ASSUME ~(page.before = 0), NEW t \in unseen
                 PROVE  t < n /\ \E r \in Window(k) : r.ts = t
    BY <1>6 DEF ToShow, Ahead
  <2>2. page.before > 0
    BY <1>1, <2>1 DEF Page
  <2> QED BY <1>1, <1>5, <2>1, <2>2 DEF WalkShowsAll, ToShow
<1> QED BY <1>1, <1>6, <1>7, <1>8, LoadWalk

LEMMA NextWalk ==
    ASSUME LogInv, PageInv, ExactInv, Stamped, WalkInv, [Next]_vars PROVE WalkInv'
<1>0. LogFinite
  BY FiniteLog
<1>1. ASSUME UNCHANGED <<log, page, unseen>> PROVE WalkInv'
  BY <1>1, WalkStays
<1>2. ASSUME NEW k \in Kegs, Record(k) PROVE WalkInv'
  <2>1. CASE AppendLog(k, Reads[now])
    BY <1>2, <2>1, AppendWalk DEF Record
  <2>2. CASE UNCHANGED <<log, unseen>>
    BY <1>1, <1>2, <2>2 DEF Record
  <2> QED BY <1>2, <2>1, <2>2 DEF Record
<1>3. CASE \/ Elapse \/ Restart \/ CompactLog \/ EndPass \/ FailPass \/ UNCHANGED vars
           \/ \E k \in Kegs : NextKeg(k) \/ \E reads \in BOOLEAN : ApplyPacket(k, reads)
  BY <1>1, <1>3
  DEF Elapse, Restart, CompactLog, EndPass, FailPass, NextKeg, ApplyPacket, vars, ghostVars
<1>4. CASE StartPass \/ CompactChunk \/ \E k \in Kegs : ClearLog(k) \/ DeleteKeg(k)
  BY <1>4, WalkForgets DEF StartPass, CompactChunk, ClearLog, DeleteKeg
<1>5. ASSUME NEW stamps, page # None, Delete(stamps) \/ \E e \in Edits : Save(stamps, e)
      PROVE  WalkInv'
  BY <1>5, WalkForgets, SaveWalk DEF Delete
<1>6. ASSUME NEW k \in Kegs, Open(k) PROVE WalkInv'
  BY <1>0, <1>6, LoadWalk DEF Open, WalkInv
<1>7. CASE Reload
  <2>1. /\ page.keg \in Kegs /\ page.after \in Nat /\ page.before \in Nat
        /\ page.after = 0 \/ page.before = 0
        /\ unseen \subseteq Nat /\ ToShow(page.keg, page.after, page.before)
    BY <1>7 DEF Reload, WalkInv, Page
  <2> QED BY <1>0, <1>7, <2>1, LoadWalk DEF Reload
<1> QED BY <1>0, <1>2, <1>3, <1>4, <1>5, <1>6, <1>7, LaterWalk, EarlierWalk
     DEF Next, Ingest, Pass, Editor

LEMMA WalkAlways == Spec => [](Stamped /\ WalkInv)
<1>1. Init => Stamped /\ WalkInv
  BY SmallestTime, LogAssumption DEF Init, Stamped, WalkInv
<1> QED BY <1>1, NextStamped, NextWalk, InvAlways, ExactAlways, PTL DEF Spec

(* For any limit, window and number of rows, and whatever is recorded,       *)
(* folded, pruned, edited, deleted and reloaded meanwhile, a walk through    *)
(* the editor's pages in one direction skips no row, and its button is on as *)
(* long as one is left.                                                      *)
THEOREM PagesShowAll == Spec => []WalkShowsAll
<1>1. WalkInv => WalkShowsAll
  BY DEF WalkInv, WalkShowsAll
<1> QED BY WalkAlways, <1>1, PTL

(***************************************************************************)
(* Types.                                                                  *)
(***************************************************************************)

PassType == [at : {"idle", "pruned", "compacting"}, cutoff : Nat,
             ids : SUBSET Kegs, keg : Kegs \cup {None}, start : Nat]

ServerTypes ==
    /\ keg \in [Kegs -> {"none", "bare", "reads"}]
    /\ held \in [Kegs -> {"none", "bare", "reads"}]
    /\ last \in [Kegs -> Nat \cup {None}]
    /\ pass \in PassType
    /\ edits \in Nat

LEMMA CutoffNat == ASSUME now \in Nat PROVE Cutoff \in Nat
<1>1. CompactAfter \in Nat
  BY LogAssumption
<1>2. CASE now > CompactAfter
  <2>1. now - CompactAfter \in Nat
    BY <1>1, <1>2
  <2> QED BY <1>2, <2>1, StepBounds DEF Cutoff
<1>3. CASE ~(now > CompactAfter)
  BY <1>3, StepBounds DEF Cutoff
<1> QED BY <1>2, <1>3

LEMMA NextTypes == ASSUME LogInv, ServerTypes, [Next]_vars PROVE ServerTypes'
<1>1. now \in Nat
  BY DEF LogInv, RowsInv
<1>2. CASE Elapse \/ UNCHANGED vars
  BY <1>2 DEF Elapse, vars, ghostVars, ServerTypes
<1>3. ASSUME NEW k \in Kegs, Record(k) PROVE ServerTypes'
  BY <1>1, <1>3 DEF Record, ServerTypes
<1>4. ASSUME NEW k \in Kegs, NEW reads \in BOOLEAN, ApplyPacket(k, reads) PROVE ServerTypes'
  <2>1. keg' \in [Kegs -> {"none", "bare", "reads"}] /\ keg'[k] \in {"none", "bare", "reads"}
    BY <1>4 DEF ApplyPacket, ServerTypes
  <2> QED BY <1>4, <2>1 DEF ApplyPacket, ServerTypes, ghostVars
<1>5. CASE Restart
  BY <1>5 DEF Restart, ServerTypes, PassType, idle
<1>6. CASE StartPass \/ EndPass \/ FailPass
  BY <1>6 DEF StartPass, EndPass, FailPass, ghostVars, ServerTypes, PassType, idle
<1>7. CASE CompactLog
  BY <1>1, <1>7, CutoffNat DEF CompactLog, ghostVars, ServerTypes, PassType, idle
<1>8. ASSUME NEW k \in Kegs, NextKeg(k) PROVE ServerTypes'
  <2> DEFINE old == {r.ts : r \in Older(k, pass.cutoff)}
             start == IF old = {} THEN 0 ELSE StepOf(Min(old))
  <2>1. old \in SUBSET Nat
    BY DEF Older, LogInv, RowsInv, Sound
  <2>2. start \in Nat
    <3> HIDE DEF old
    <3> QED BY <2>1, Smallest, StepBounds
  <2>3. /\ pass' = [pass EXCEPT !.ids = @ \ {k},
              !.keg = IF old = {} THEN None ELSE k, !.start = start]
        /\ UNCHANGED <<keg, held, last, edits>>
    BY <1>8 DEF NextKeg, ghostVars
  <2> HIDE DEF start, old
  <2> QED BY <2>2, <2>3 DEF ServerTypes, PassType
<1>9. CASE CompactChunk
  <2>1. compactChunk \in Nat
    BY LogAssumption
  <2>2. pass \in PassType /\ pass.start + compactChunk \in Nat
    BY <2>1 DEF ServerTypes, PassType
  <2> DEFINE next == IF ChunkEnd < pass.cutoff THEN pass.keg ELSE None
  <2>3. next \in Kegs \cup {None}
    BY <2>2 DEF PassType
  <2>4. pass' = [pass EXCEPT !.start = pass.start + compactChunk, !.keg = next]
    BY <1>9, <2>2 DEF CompactChunk, PassType
  <2> HIDE DEF next
  <2>5. pass' \in PassType
    BY <2>2, <2>3, <2>4 DEF PassType
  <2>6. UNCHANGED <<keg, held, last, edits>>
    BY <1>9 DEF CompactChunk
  <2> QED BY <2>5, <2>6 DEF ServerTypes
<1>10. CASE Later \/ Earlier \/ Reload \/ \E k \in Kegs : Open(k)
  BY <1>10 DEF Later, Earlier, Reload, Open, Load, ServerTypes
<1>11. ASSUME NEW stamps, Delete(stamps) \/ \E e \in Edits : Save(stamps, e) PROVE ServerTypes'
  BY <1>11 DEF Delete, Save, Act, ServerTypes
<1>12. ASSUME NEW k \in Kegs, ClearLog(k) \/ DeleteKeg(k) PROVE ServerTypes'
  BY <1>12 DEF ClearLog, DeleteKeg, Act, ServerTypes
<1> QED BY <1>2, <1>3, <1>4, <1>5, <1>6, <1>7, <1>8, <1>9, <1>10, <1>11, <1>12
     DEF Next, Ingest, Pass, Editor

(* The types of the specification, and the primary key of keg_log: no two    *)
(* rows of a keg for one second, as the insert replaces and a fold deletes.  *)
THEOREM KegLogTypes == Spec => []TypeOK
<1>1. Init => ServerTypes
  BY DEF Init, ServerTypes, PassType, idle
<1>2. LogInv /\ ExactInv /\ WalkInv /\ ServerTypes => TypeOK
  BY DEF LogInv, RowsInv, HourlyInv, ExactInv, Exactly, WalkInv, ServerTypes, PassType, TypeOK
<1> QED BY <1>1, <1>2, NextTypes, InvAlways, ExactAlways, WalkAlways, PTL DEF Spec

=============================================================================
