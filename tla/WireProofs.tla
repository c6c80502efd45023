----------------------------- MODULE WireProofs -----------------------------
(***************************************************************************)
(* Theorems about Wire for any pins, tokens, streams and sizes of reads:   *)
(* however TCP cuts a stream, Framer returns the frames that were sent.    *)
(***************************************************************************)
EXTENDS Wire, SequenceTheorems, WellFoundedInduction, TLAPS

(***************************************************************************)
(* Recursion over the places of a sequence.                                *)
(***************************************************************************)

LEMMA Below == IsWellFoundedOn({p \in Nat \X Nat : p[1] < p[2]}, Nat)
BY NatLessThanWellFounded DEF OpToRel

LEMMA Greatest ==
    ASSUME NEW n \in Nat, NEW S \in SUBSET (0 .. n), S # {}
    PROVE  \E i \in S : \A j \in S : j <= i
<1> DEFINE R == {p \in Nat \X Nat : p[1] < p[2]}
           T == {n - i : i \in S}
<1>1. IsWellFoundedOn(R, Nat)
  BY Below
<1>2. T \subseteq Nat
  OBVIOUS
<1>3. T # {}
  OBVIOUS
<1> HIDE DEF T, R
<1>4. PICK x \in T : \A y \in T : <<y, x>> \notin R
  BY <1>1, <1>2, <1>3, WFMin
<1>5. PICK i \in S : x = n - i
  BY DEF T
<1>6. ASSUME NEW j \in S PROVE j <= i
  <2>1. n - j \in T /\ <<n - j, x>> \notin R
    BY <1>4 DEF T
  <2>2. ~(n - j < x) /\ x \in Nat /\ n - j \in Nat
    BY <1>2, <1>5, <2>1 DEF R
  <2> QED BY <1>5, <2>2
<1> QED BY <1>6

(* What holds of 0, and of k + 1 when of k, holds up to n. *)
LEMMA UpTo ==
    ASSUME NEW n \in Nat, NEW S \in SUBSET (0 .. n), 0 \in S,
           \A k \in 0 .. n - 1 : k \in S => k + 1 \in S
    PROVE  S = 0 .. n
<1> DEFINE T == {k \in 0 .. n : \A j \in 0 .. k : j \in S}
<1>1. T \in SUBSET (0 .. n) /\ 0 \in T
  OBVIOUS
<1> HIDE DEF T
<1>2. PICK k \in T : \A j \in T : j <= k
  BY <1>1, Greatest
<1>3. k \in 0 .. n /\ \A j \in 0 .. k : j \in S
  BY DEF T
<1>4. k = n
  <2>1. SUFFICES ASSUME k < n PROVE FALSE
    BY <1>3
  <2>2. k + 1 \in S /\ k + 1 \in 0 .. n
    BY <1>3, <2>1
  <2>3. k + 1 \in T
    BY <1>3, <2>2 DEF T
  <2> QED BY <1>2, <1>3, <2>3
<1> QED BY <1>3, <1>4

(* A recursion whose values stay in a set V has a solution. *)
Solves(f, n, c, D) == f[0] = c /\ \A i \in 1 .. n : f[i] = D[<<f[i - 1], i>>]

LEMMA Iterates ==
    ASSUME NEW n \in Nat, NEW V, NEW c \in V, NEW D \in [V \X (1 .. n) -> V]
    PROVE  \E f \in [0 .. n -> V] : Solves(f, n, c, D)
<1> DEFINE Reaches(f, k) == f \in [0 .. k -> V] /\ Solves(f, k, c, D)
           S == {k \in 0 .. n : \E f : Reaches(f, k)}
<1> USE DEF Solves
<1>1. S \in SUBSET (0 .. n)
  OBVIOUS
<1>2. 0 \in S
  <2>1. Reaches([i \in 0 .. 0 |-> c], 0)
    OBVIOUS
  <2> HIDE DEF Reaches
  <2> QED BY <2>1
<1>3. ASSUME NEW k \in 0 .. n - 1, k \in S PROVE k + 1 \in S
  <2>1. PICK f : Reaches(f, k)
    BY <1>3
  <2> DEFINE g == [i \in 0 .. k + 1 |-> IF i = k + 1 THEN D[<<f[k], k + 1>>] ELSE f[i]]
  <2>2. D[<<f[k], k + 1>>] \in V
    BY <2>1
  <2>3. g \in [0 .. k + 1 -> V]
    BY <2>1, <2>2
  <2>4. g[0] = c
    BY <2>1
  <2>5. ASSUME NEW i \in 1 .. k + 1 PROVE g[i] = D[<<g[i - 1], i>>]
    <3>1. i - 1 \in 0 .. k /\ g[i - 1] = f[i - 1]
      OBVIOUS
    <3>2. CASE i = k + 1
      <4>1. i - 1 = k /\ g[i] = D[<<f[k], k + 1>>]
        BY <3>2
      <4> HIDE DEF g
      <4> QED BY <3>1, <3>2, <4>1
    <3>3. CASE i # k + 1
      <4>1. i \in 1 .. k /\ g[i] = f[i]
        BY <3>3
      <4> QED BY <2>1, <3>1, <4>1
    <3> QED BY <3>2, <3>3
  <2> HIDE DEF g
  <2>6. Reaches(g, k + 1) /\ k + 1 \in 0 .. n
    BY <2>3, <2>4, <2>5
  <2> HIDE DEF Reaches
  <2> QED BY <2>6
<1> HIDE DEF S
<1>4. n \in S
  BY <1>1, <1>2, <1>3, UpTo
<1>5. PICK f : Reaches(f, n)
  BY <1>4 DEF S
<1> QED BY <1>5

(***************************************************************************)
(* Feed.                                                                   *)
(***************************************************************************)

FrameSet == [cmd : STRING, id : Nat, third : Nat, body : Seq(STRING)]

(* What a stream of WireAssumption is. *)
WellSent(s) ==
    /\ s \in Seq(FrameSet)
    /\ \A i \in DOMAIN s :
          IF s[i].cmd = "response" THEN s[i].body = <<>>
          ELSE s[i].third > MaxBodySize \/ s[i].third = Len(s[i].body)

(* The frames of s lie one after the other in cells, the i-th from off[i-1].  *)
Layout(s, cells, off) ==
    /\ cells \in Seq(STRING \cup Nat)
    /\ off \in [0 .. Len(s) -> Nat]
    /\ off[0] = 0 /\ off[Len(s)] = Len(cells)
    /\ \A i \in 1 .. Len(s) :
          /\ off[i] = off[i - 1] + HeaderSize + Len(s[i].body)
          /\ cells[off[i - 1] + 1] = s[i].cmd
          /\ cells[off[i - 1] + 2] = s[i].id
          /\ cells[off[i - 1] + 3] = s[i].third
          /\ \A j \in 1 .. Len(s[i].body) : cells[off[i - 1] + 3 + j] = s[i].body[j]

LEMMA Starting ==
    ASSUME NEW C, NEW b \in Seq(C), NEW limit
    PROVE  /\ Starts(b, limit) \in [0 .. Len(b) -> 0 .. Len(b)]
           /\ Starts(b, limit)[0] = 0
           /\ \A k \in 1 .. Len(b) :
                 LET p == Starts(b, limit)[k - 1]
                 IN Starts(b, limit)[k] = IF Complete(b, p, limit) THEN p + Size(b, p) ELSE p
<1> DEFINE n == Len(b)
           Body(p) == IF Complete(b, p, limit) THEN p + Size(b, p) ELSE p
           D == [q \in (0 .. n) \X (1 .. n) |-> Body(q[1])]
<1>1. n \in Nat /\ 0 \in 0 .. n
  OBVIOUS
<1>2. D \in [(0 .. n) \X (1 .. n) -> 0 .. n]
  BY DEF Complete
<1>4. PICK f \in [0 .. n -> 0 .. n] :
         f[0] = 0 /\ \A i \in 1 .. n : f[i] = D[<<f[i - 1], i>>]
  <2> DEFINE V == 0 .. n
  <2>1. 0 \in V /\ D \in [V \X (1 .. n) -> V]
    BY <1>1, <1>2
  <2> HIDE DEF D, n, V
  <2>2. \E f \in [0 .. n -> V] : Solves(f, n, 0, D)
    BY <1>1, <2>1, Iterates
  <2> QED BY <2>2 DEF V, Solves
<1>5. f = [i \in 0 .. n |-> IF i = 0 THEN 0 ELSE Body(f[i - 1])]
  <2>1. ASSUME NEW i \in 1 .. n PROVE D[<<f[i - 1], i>>] = Body(f[i - 1])
    OBVIOUS
  <2>2. ASSUME NEW i \in 0 .. n PROVE f[i] = IF i = 0 THEN 0 ELSE Body(f[i - 1])
    <3>1. i = 0 \/ i \in 1 .. n
      BY <1>1
    <3> HIDE DEF D, Body
    <3> QED BY <1>4, <2>1, <3>1
  <2>3. f = [i \in 0 .. n |-> f[i]]
    OBVIOUS
  <2> HIDE DEF D, Body
  <2> QED BY <2>2, <2>3
<1> DEFINE g == CHOOSE g : g = [i \in 0 .. n |-> IF i = 0 THEN 0 ELSE Body(g[i - 1])]
<1>6. g = [i \in 0 .. n |-> IF i = 0 THEN 0 ELSE Body(g[i - 1])]
  <2> HIDE DEF Body, D
  <2> QED BY <1>5
<1>7. Starts(b, limit) = g
  BY DEF Starts
<1> HIDE DEF g
<1>8. ASSUME NEW k \in 0 .. n PROVE g[k] \in 0 .. n
  <2> DEFINE S == {j \in 0 .. n : g[j] \in 0 .. n}
  <2>1. 0 \in S
    BY <1>6
  <2>2. ASSUME NEW j \in 0 .. n - 1, j \in S PROVE j + 1 \in S
    <3>1. g[j + 1] = Body(g[j])
      BY <1>6
    <3> QED BY <2>2, <3>1 DEF Complete
  <2> HIDE DEF S
  <2>3. S = 0 .. n
    <3>1. S \in SUBSET (0 .. n)
      BY DEF S
    <3> QED BY <1>1, <2>1, <2>2, <3>1, UpTo
  <2> QED BY <2>3 DEF S
<1>9. g \in [0 .. n -> 0 .. n] /\ g[0] = 0
  BY <1>6, <1>8
<1>10. \A k \in 1 .. n : g[k] = Body(g[k - 1])
  BY <1>6
<1> QED BY <1>7, <1>9, <1>10

CellSet == STRING \cup Nat

LEMMA Encoding ==
    ASSUME NEW f \in FrameSet
    PROVE  /\ Encode(f) \in Seq(CellSet)
           /\ Len(Encode(f)) = 3 + Len(f.body)
           /\ Encode(f)[1] = f.cmd /\ Encode(f)[2] = f.id /\ Encode(f)[3] = f.third
           /\ \A j \in 1 .. Len(f.body) : Encode(f)[3 + j] = f.body[j]
<1> DEFINE h == <<f.cmd, f.id, f.third>>
<1>1. h \in Seq(CellSet) /\ Len(h) = 3 /\ h[1] = f.cmd /\ h[2] = f.id /\ h[3] = f.third
  BY DEF FrameSet, CellSet
<1>2. f.body \in Seq(CellSet)
  <2>1. f.body \in Seq(STRING)
    BY DEF FrameSet
  <2> QED BY <2>1, SeqMonotonic DEF CellSet
<1>3. Encode(f) = h \o f.body
  BY DEF Encode
<1> HIDE DEF h
<1>4. Len(f.body) \in Nat
  BY <1>2
<1>5. /\ h \o f.body \in Seq(CellSet)
      /\ Len(h \o f.body) = Len(h) + Len(f.body)
      /\ \A i \in 1 .. Len(h) + Len(f.body) :
            (h \o f.body)[i] = IF i <= Len(h) THEN h[i] ELSE f.body[i - Len(h)]
  BY <1>1, <1>2, ConcatProperties
<1>6. 1 \in 1 .. 3 + Len(f.body) /\ 2 \in 1 .. 3 + Len(f.body) /\ 3 \in 1 .. 3 + Len(f.body)
  BY <1>4
<1>7. ASSUME NEW j \in 1 .. Len(f.body)
      PROVE  3 + j \in 1 .. 3 + Len(f.body) /\ ~(3 + j <= 3) /\ 3 + j - 3 = j
  BY <1>4
<1> QED BY <1>1, <1>3, <1>5, <1>6, <1>7

(* FlattenSeq, as a recursion that begins with nothing.                      *)
Concats(f, n, enc) == f[0] = <<>> /\ \A i \in 1 .. n : f[i] = f[i - 1] \o enc[i]

LEMMA Flattened ==
    ASSUME NEW C, NEW n \in Nat, NEW enc \in [1 .. n -> Seq(C)]
    PROVE  \E f \in [0 .. n -> Seq(C)] : Concats(f, n, enc) /\ f[n] = FlattenSeq(enc)
<1> DEFINE V == Seq(C)
           D == [q \in V \X (1 .. n) |-> q[1] \o enc[q[2]]]
<1>1. <<>> \in V
  BY EmptySeq
<1>2. D \in [V \X (1 .. n) -> V]
  <2>1. ASSUME NEW x \in V, NEW i \in 1 .. n PROVE x \o enc[i] \in V
    BY ConcatProperties
  <2> HIDE DEF V
  <2> QED BY <2>1
<1>3. PICK f \in [0 .. n -> V] : Solves(f, n, <<>>, D)
  <2> HIDE DEF V, D
  <2> QED BY <1>1, <1>2, Iterates
<1>4. f[0] = <<>> /\ \A i \in 1 .. n : f[i] = f[i - 1] \o enc[i]
  <2>1. ASSUME NEW i \in 1 .. n PROVE D[<<f[i - 1], i>>] = f[i - 1] \o enc[i]
    <3>1. f[i - 1] \in V
      OBVIOUS
    <3> HIDE DEF V
    <3> QED BY <3>1
  <2> HIDE DEF V, D
  <2> QED BY <1>3, <2>1 DEF Solves
<1>5. f[n] = FlattenSeq(enc)
  <2>1. enc \in Seq(Seq(C)) /\ Len(enc) = n /\ DOMAIN enc = 1 .. n
    BY LenProperties
  <2>2. CASE n = 0
    <3>1. enc = <<>>
      BY <2>1, <2>2, EmptySeq
    <3> QED BY <1>4, <2>1, <2>2, <3>1 DEF FlattenSeq
  <2>3. CASE n # 0
    <3> DEFINE Flat(g) == g = [i \in 1 .. n |-> IF i = 1 THEN enc[i] ELSE g[i - 1] \o enc[i]]
               h == [i \in 1 .. n |-> f[i]]
               g == CHOOSE g : g = [i \in 1 .. n |-> IF i = 1 THEN enc[i] ELSE g[i - 1] \o enc[i]]
    <3>1. ASSUME NEW i \in 1 .. n PROVE h[i] = IF i = 1 THEN enc[i] ELSE h[i - 1] \o enc[i]
      <4>1. CASE i = 1
        <5>0. i - 1 = 0
          BY <4>1
        <5>4. h[i] = f[i]
          OBVIOUS
        <5>3. f[i] = f[i - 1] \o enc[i]
          BY <1>4
        <5>1. h[i] = <<>> \o enc[i]
          <6> HIDE DEF h
          <6> QED BY <1>4, <5>0, <5>3, <5>4
        <5>2. enc[i] \in Seq(C)
          OBVIOUS
        <5> QED BY <4>1, <5>1, <5>2, ConcatEmptySeq
      <4>2. CASE i # 1
        <5>1. i - 1 \in 1 .. n /\ h[i - 1] = f[i - 1] /\ h[i] = f[i]
          BY <4>2
        <5> QED BY <1>4, <4>2, <5>1
      <4> QED BY <4>1, <4>2
    <3>2. h = [i \in 1 .. n |-> h[i]]
      OBVIOUS
    <3>3. h[n] = f[n]
      BY <2>3
    <3>4. Flat(h)
      <4> HIDE DEF h
      <4> QED BY <3>1, <3>2
    <3>5. Flat(g)
      <4> HIDE DEF h
      <4> QED BY <3>4
    <3>6. FlattenSeq(enc) = g[n]
      BY <2>1, <2>3 DEF FlattenSeq
    <3> HIDE DEF g, h
    <3>8. \A i \in 1 .. n : g[i] = IF i = 1 THEN enc[i] ELSE g[i - 1] \o enc[i]
      BY <3>5
    <3>9. \A i \in 1 .. n : h[i] = IF i = 1 THEN enc[i] ELSE h[i - 1] \o enc[i]
      BY <3>4
    <3>7. ASSUME NEW i \in 1 .. n PROVE g[i] = h[i]
      <4> DEFINE S == {j \in 0 .. n : j = 0 \/ g[j] = h[j]}
      <4>1. S \in SUBSET (0 .. n) /\ 0 \in S
        OBVIOUS
      <4>2. ASSUME NEW j \in 0 .. n - 1, j \in S PROVE j + 1 \in S
        <5>1. j + 1 \in 1 .. n /\ j + 1 - 1 = j /\ (j + 1 = 1 <=> j = 0)
          OBVIOUS
        <5>2. PICK k \in 1 .. n : k = j + 1 /\ k - 1 = j
          BY <5>1
        <5>3. /\ g[k] = IF k = 1 THEN enc[k] ELSE g[j] \o enc[k]
              /\ h[k] = IF k = 1 THEN enc[k] ELSE h[j] \o enc[k]
          <6> HIDE DEF Flat
          <6> QED BY <3>8, <3>9, <5>2
        <5>4. g[k] = h[k]
          BY <4>2, <5>2, <5>3
        <5> QED BY <5>2, <5>4
      <4> HIDE DEF S
      <4>3. i \in S
        <5>1. S = 0 .. n
          BY <4>1, <4>2, UpTo
        <5> QED BY <5>1
      <4> QED BY <4>3 DEF S
    <3> QED BY <2>3, <3>3, <3>6, <3>7
  <2> QED BY <2>2, <2>3
<1> QED BY <1>4, <1>5 DEF Concats

LEMMA LaidOut ==
    ASSUME NEW s \in Seq(FrameSet)
    PROVE  \E off : Layout(s, FlattenSeq([i \in DOMAIN s |-> Encode(s[i])]), off)
<1> DEFINE n == Len(s)
           enc == [i \in 1 .. n |-> Encode(s[i])]
           cells == FlattenSeq(enc)
<1>1. n \in Nat /\ DOMAIN s = 1 .. n /\ \A i \in 1 .. n : s[i] \in FrameSet
  BY ElementOfSeq, LenProperties
<1>2. enc \in [1 .. n -> Seq(CellSet)]
  BY <1>1, Encoding
<1>3. PICK f \in [0 .. n -> Seq(CellSet)] : Concats(f, n, enc) /\ f[n] = cells
  <2> HIDE DEF enc, n
  <2> QED BY <1>1, <1>2, Flattened
<1>10. f[0] = <<>> /\ \A i \in 1 .. n : f[i] = f[i - 1] \o enc[i]
  BY <1>3 DEF Concats
<1> DEFINE off == [i \in 0 .. n |-> Len(f[i])]
<1>4. \A i \in 0 .. n : f[i] \in Seq(CellSet) /\ Len(f[i]) \in Nat
  BY LenProperties
<1>5. ASSUME NEW i \in 1 .. n
      PROVE  /\ i - 1 \in 0 .. n /\ enc[i] = Encode(s[i])
             /\ enc[i] \in Seq(CellSet) /\ Len(enc[i]) = 3 + Len(s[i].body)
             /\ Len(f[i]) = Len(f[i - 1]) + Len(enc[i])
             /\ \A x \in 1 .. Len(f[i]) :
                   f[i][x] = IF x <= Len(f[i - 1]) THEN f[i - 1][x] ELSE enc[i][x - Len(f[i - 1])]
  <2>1. i - 1 \in 0 .. n /\ enc[i] = Encode(s[i]) /\ enc[i] \in Seq(CellSet)
    BY <1>2
  <2>2. Len(enc[i]) = 3 + Len(s[i].body)
    BY <1>1, <2>1, Encoding
  <2>3. f[i] = f[i - 1] \o enc[i] /\ f[i - 1] \in Seq(CellSet)
    BY <1>4, <1>10, <2>1
  <2> HIDE DEF enc
  <2>4. /\ Len(f[i - 1] \o enc[i]) = Len(f[i - 1]) + Len(enc[i])
        /\ \A x \in 1 .. Len(f[i - 1]) + Len(enc[i]) :
              (f[i - 1] \o enc[i])[x] = IF x <= Len(f[i - 1]) THEN f[i - 1][x]
                                        ELSE enc[i][x - Len(f[i - 1])]
    BY <2>1, <2>3, ConcatProperties
  <2> QED BY <2>1, <2>2, <2>3, <2>4
<1> HIDE DEF enc, n
<1>6. ASSUME NEW i \in 0 .. n, NEW x \in 1 .. Len(f[i])
      PROVE  Len(f[i]) <= Len(cells) /\ cells[x] = f[i][x]
  <2> DEFINE S == {k \in 0 .. n : i <= k => Len(f[i]) <= Len(f[k]) /\ f[k][x] = f[i][x]}
  <2>1. S \in SUBSET (0 .. n)
    OBVIOUS
  <2>2. 0 \in S
    BY <1>1, <1>4
  <2>3. ASSUME NEW k \in 0 .. n - 1, k \in S PROVE k + 1 \in S
    <3>1. k + 1 \in 1 .. n /\ k + 1 - 1 = k /\ k \in 0 .. n /\ k + 1 \in 0 .. n
      BY <1>1
    <3>4. PICK l \in 1 .. n : l = k + 1 /\ l - 1 = k
      BY <3>1
    <3>2. CASE i <= k
      <4>1. /\ Len(f[i]) <= Len(f[k]) /\ f[k][x] = f[i][x]
            /\ Len(f[i]) \in Nat /\ Len(f[k]) \in Nat /\ x \in Nat /\ 1 <= x /\ x <= Len(f[i])
        BY <1>4, <2>3, <3>1, <3>2
      <4>2. /\ Len(f[l]) = Len(f[k]) + Len(enc[l])
            /\ \A y \in 1 .. Len(f[l]) : y <= Len(f[k]) => f[l][y] = f[k][y]
            /\ Len(enc[l]) \in Nat
        <5>1. /\ enc[l] \in Seq(CellSet)
              /\ Len(f[l]) = Len(f[l - 1]) + Len(enc[l])
              /\ \A y \in 1 .. Len(f[l]) :
                    f[l][y] = IF y <= Len(f[l - 1]) THEN f[l - 1][y] ELSE enc[l][y - Len(f[l - 1])]
          BY <1>5
        <5> QED BY <3>4, <5>1, LenProperties
      <4>6. PICK a \in Nat, b \in Nat, c \in Nat :
               a = Len(f[l]) /\ b = Len(f[k]) /\ c = Len(enc[l])
        BY <1>4, <3>1, <3>4, <4>1, <4>2
      <4>5. Len(f[k]) <= Len(f[l]) /\ Len(f[l]) \in Nat
        <5>1. a = b + c
          BY <4>2, <4>6
        <5>2. b <= a
          BY <5>1
        <5> QED BY <4>6, <5>2
      <4>3. x \in 1 .. Len(f[l]) /\ x <= Len(f[k]) /\ Len(f[i]) <= Len(f[l])
        BY <4>1, <4>5
      <4>4. Len(f[i]) <= Len(f[l]) /\ f[l][x] = f[i][x]
        BY <4>1, <4>2, <4>3
      <4> QED BY <3>1, <3>4, <4>4
    <3>3. CASE ~(i <= k)
      <4>1. i <= k + 1 => i = k + 1
        BY <1>1, <3>3
      <4> QED BY <1>4, <3>1, <4>1
    <3> QED BY <3>2, <3>3
  <2> HIDE DEF S
  <2>4. n \in S
    <3>1. S = 0 .. n
      BY <1>1, <2>1, <2>2, <2>3, UpTo
    <3> QED BY <1>1, <3>1
  <2> QED BY <1>1, <1>3, <2>4 DEF S
<1>7. ASSUME NEW i \in 1 .. n
      PROVE  /\ off[i] = off[i - 1] + HeaderSize + Len(s[i].body)
             /\ cells[off[i - 1] + 1] = s[i].cmd
             /\ cells[off[i - 1] + 2] = s[i].id
             /\ cells[off[i - 1] + 3] = s[i].third
             /\ \A j \in 1 .. Len(s[i].body) : cells[off[i - 1] + 3 + j] = s[i].body[j]
  <2>1. /\ off[i - 1] = Len(f[i - 1]) /\ off[i] = Len(f[i])
        /\ off[i - 1] \in Nat /\ i \in 0 .. n /\ HeaderSize = 3
    BY <1>1, <1>4, <1>5, WireAssumption
  <2>7. Len(f[i]) = Len(f[i - 1]) + (3 + Len(s[i].body)) /\ Len(f[i]) \in Nat
    <3>1. Len(f[i]) = Len(f[i - 1]) + Len(enc[i]) /\ Len(enc[i]) = 3 + Len(s[i].body)
      BY <1>5
    <3> QED BY <1>4, <2>1, <3>1
  <2>2. Len(s[i].body) \in Nat /\ s[i] \in FrameSet
    <3>1. s[i] \in FrameSet /\ s[i].body \in Seq(STRING)
      BY <1>1 DEF FrameSet
    <3> QED BY <3>1, LenProperties
  <2> HIDE DEF off
  <2>3. PICK a \in Nat, m \in Nat :
           /\ a = off[i - 1] /\ a = Len(f[i - 1]) /\ m = Len(s[i].body)
           /\ off[i] = Len(f[i]) /\ HeaderSize = 3
    BY <2>1, <2>2
  <2>4. Len(f[i]) = a + (3 + m)
    BY <2>3, <2>7
  <2>5. \A y \in 1 .. Len(f[i]) :
           f[i][y] = IF y <= a THEN f[i - 1][y] ELSE enc[i][y - a]
    BY <1>5, <2>3
  <2>6. ASSUME NEW y \in 1 .. m + 3
        PROVE  cells[a + y] = Encode(s[i])[y]
    <3>1. a + y \in 1 .. a + (3 + m) /\ ~(a + y <= a) /\ a + y - a = y
      OBVIOUS
    <3>2. f[i][a + y] = enc[i][y]
      BY <2>4, <2>5, <3>1
    <3>3. cells[a + y] = f[i][a + y]
      BY <1>6, <2>1, <2>4, <3>1
    <3> QED BY <1>5, <3>2, <3>3
  <2>8. 1 \in 1 .. m + 3 /\ 2 \in 1 .. m + 3 /\ 3 \in 1 .. m + 3
    OBVIOUS
  <2>9. ASSUME NEW j \in 1 .. m
        PROVE  cells[a + 3 + j] = s[i].body[j]
    <3>1. 3 + j \in 1 .. m + 3 /\ a + (3 + j) = a + 3 + j
      OBVIOUS
    <3>2. Encode(s[i])[3 + j] = s[i].body[j]
      BY <2>2, <2>3, Encoding
    <3> QED BY <2>6, <3>1, <3>2
  <2>10. a + (3 + m) = a + 3 + m
    OBVIOUS
  <2>11. /\ Encode(s[i])[1] = s[i].cmd /\ Encode(s[i])[2] = s[i].id
         /\ Encode(s[i])[3] = s[i].third
    BY <2>2, Encoding
  <2>12. off[i] = off[i - 1] + HeaderSize + Len(s[i].body)
    BY <2>3, <2>4, <2>10
  <2>13. /\ cells[a + 1] = s[i].cmd /\ cells[a + 2] = s[i].id /\ cells[a + 3] = s[i].third
    BY <2>6, <2>8, <2>11
  <2> QED BY <2>3, <2>9, <2>12, <2>13
<1>8. /\ cells \in Seq(CellSet) /\ off \in [0 .. n -> Nat]
      /\ off[0] = 0 /\ off[n] = Len(cells)
  BY <1>1, <1>3, <1>4
<1>9. cells = FlattenSeq([i \in DOMAIN s |-> Encode(s[i])])
  BY <1>1 DEF enc
<1> HIDE DEF off, cells
<1>11. Layout(s, cells, off)
  BY <1>7, <1>8 DEF Layout, n, CellSet
<1> QED BY <1>9, <1>11

(* The cells of stream from the frame after the t-th up to the e-th cell, as *)
(* Feed finds them: where its loop is after k frames.                        *)
Window(s, cells, off, t, e, b) ==
    /\ s \in Seq(FrameSet) /\ WellSent(s) /\ Layout(s, cells, off)
    /\ t \in 0 .. Len(s) /\ off[t] <= e /\ e \in 0 .. Len(cells)
    /\ b = SubSeq(cells, off[t] + 1, e)

LEMMA WindowCells ==
    ASSUME NEW s, NEW cells, NEW off, NEW t, NEW e, NEW b, Window(s, cells, off, t, e, b)
    PROVE  /\ b \in Seq(CellSet) /\ Len(b) = e - off[t] /\ Len(b) \in Nat
           /\ \A x \in 1 .. Len(b) : b[x] = cells[off[t] + x]
<1>1. /\ cells \in Seq(CellSet) /\ off[t] \in Nat /\ e \in Nat /\ off[t] <= e
      /\ e <= Len(cells) /\ b = SubSeq(cells, off[t] + 1, e) /\ Len(cells) \in Nat
  BY LenProperties DEF Window, Layout, CellSet
<1> DEFINE m == off[t] + 1
<1>2. m \in Int /\ e \in Int /\ \A i \in m .. e : cells[i] \in CellSet
  <2>1. \A i \in m .. e : i \in 1 .. Len(cells)
    BY <1>1
  <2> QED BY <1>1, <2>1, ElementOfSeq
<1>3. /\ SubSeq(cells, m, e) \in Seq(CellSet)
      /\ Len(SubSeq(cells, m, e)) = IF m <= e THEN e - m + 1 ELSE 0
      /\ \A i \in 1 .. e - m + 1 : SubSeq(cells, m, e)[i] = cells[m + i - 1]
  <2> HIDE DEF m
  <2> QED BY <1>2, SubSeqProperties
<1>4. Len(b) = e - off[t] /\ Len(b) \in Nat
  BY <1>1, <1>3
<1>5. ASSUME NEW x \in 1 .. Len(b) PROVE b[x] = cells[off[t] + x]
  <2>1. x \in 1 .. e - m + 1 /\ m + x - 1 = off[t] + x
    BY <1>1, <1>4
  <2> QED BY <1>1, <1>3, <2>1
<1> QED BY <1>1, <1>3, <1>4, <1>5

(* A frame of the window as Feed reads it.                                   *)
LEMMA FrameFound ==
    ASSUME NEW s, NEW cells, NEW off, NEW t, NEW e, NEW b, Window(s, cells, off, t, e, b),
           NEW i \in t + 1 .. Len(s), NEW p \in Nat, off[t] + p = off[i - 1], p <= Len(b)
    PROVE  LET whole == off[i] <= e
               sound == s[i].cmd = "response" \/ s[i].third <= MaxBodySize
           IN /\ ~sound => ~Complete(b, p, MaxBodySize)
              /\ ~whole => ~Complete(b, p, MaxBodySize)
              /\ whole /\ sound =>
                    /\ Complete(b, p, MaxBodySize) /\ off[t] + p + Size(b, p) = off[i]
                    /\ Size(b, p) \in Nat
                    /\ FrameAt(b, p) = s[i]
              /\ ~Corrupt(b, p, MaxBodySize) /\ ~Complete(b, p, MaxBodySize) =>
                    Len(b) - p < HeaderSize + MaxBodySize
<1> DEFINE sound == s[i].cmd = "response" \/ s[i].third <= MaxBodySize
<1>1. /\ b \in Seq(CellSet) /\ Len(b) = e - off[t] /\ Len(b) \in Nat
      /\ \A x \in 1 .. Len(b) : b[x] = cells[off[t] + x]
  BY WindowCells
<1>2. /\ s \in Seq(FrameSet) /\ WellSent(s) /\ Layout(s, cells, off) /\ t \in 0 .. Len(s)
      /\ e \in Nat /\ HeaderSize = 3 /\ MaxBodySize \in Nat /\ off \in [0 .. Len(s) -> Nat]
  BY WireAssumption DEF Window, Layout
<1>3. i \in 1 .. Len(s) /\ i \in DOMAIN s /\ s[i] \in FrameSet
  BY <1>2, ElementOfSeq, LenProperties
<1>4. i \in 0 .. Len(s) /\ i - 1 \in 0 .. Len(s) /\ off[i] \in Nat /\ off[i - 1] \in Nat /\ off[t] \in Nat
  BY <1>2, <1>3
<1>5. /\ s[i].cmd \in STRING /\ s[i].id \in Nat /\ s[i].third \in Nat /\ s[i].body \in Seq(STRING)
      /\ s[i] = [cmd |-> s[i].cmd, id |-> s[i].id, third |-> s[i].third, body |-> s[i].body]
  BY <1>3 DEF FrameSet
<1>6. PICK a \in Nat, d \in Nat, z \in Nat, l \in Nat :
         /\ a = off[i - 1] /\ z = off[i] /\ d = off[t] /\ l = Len(b)
  BY <1>1, <1>4
<1>7. PICK m \in Nat : m = Len(s[i].body)
  BY <1>5, LenProperties
<1>8. /\ z = a + 3 + m
      /\ cells[a + 1] = s[i].cmd /\ cells[a + 2] = s[i].id /\ cells[a + 3] = s[i].third
      /\ \A j \in 1 .. m : cells[a + 3 + j] = s[i].body[j]
  BY <1>2, <1>3, <1>6, <1>7 DEF Layout
<1>9. IF s[i].cmd = "response" THEN m = 0 ELSE s[i].third > MaxBodySize \/ s[i].third = m
  <2>1. IF s[i].cmd = "response" THEN s[i].body = <<>>
        ELSE s[i].third > MaxBodySize \/ s[i].third = Len(s[i].body)
    BY <1>2, <1>3 DEF WellSent
  <2> QED BY <1>7, <2>1
<1>10. a = d + p /\ l = e - d /\ p <= l
  BY <1>1, <1>6
<1>11. Header(b, p) <=> p + 3 <= l
  BY <1>2, <1>6 DEF Header
<1>12. ASSUME p + 3 <= l
       PROVE  /\ b[p + 1] = s[i].cmd /\ b[p + 2] = s[i].id /\ b[p + 3] = s[i].third
  <2>1. /\ p + 1 \in 1 .. l /\ p + 2 \in 1 .. l /\ p + 3 \in 1 .. l
        /\ d + (p + 1) = a + 1 /\ d + (p + 2) = a + 2 /\ d + (p + 3) = a + 3
    BY <1>10, <1>12
  <2> QED BY <1>1, <1>6, <1>8, <2>1
<1>13. ASSUME p + 3 <= l
       PROVE  /\ Reply(b, p) <=> s[i].cmd = "response"
              /\ Size(b, p) = IF s[i].cmd = "response" THEN 3 ELSE 3 + s[i].third
              /\ Corrupt(b, p, MaxBodySize) <=> ~sound
  <2>1. Reply(b, p) <=> s[i].cmd = "response"
    BY <1>12, <1>13 DEF Reply
  <2>2. b[p + HeaderSize] = s[i].third
    BY <1>2, <1>12, <1>13
  <2>3. Size(b, p) = IF s[i].cmd = "response" THEN 3 ELSE 3 + s[i].third
    BY <1>2, <2>1, <2>2 DEF Size
  <2>4. s[i].third > MaxBodySize <=> ~(s[i].third <= MaxBodySize)
    BY <1>2, <1>5
  <2>5. Corrupt(b, p, MaxBodySize) <=> ~sound
    BY <1>11, <1>13, <2>1, <2>2, <2>4 DEF Corrupt
  <2> QED BY <2>1, <2>3, <2>5
<1>14. ASSUME p + 3 > l
       PROVE  /\ ~Complete(b, p, MaxBodySize) /\ ~(off[i] <= e)
              /\ Len(b) - p < HeaderSize + MaxBodySize
  <2>1. ~Header(b, p)
    BY <1>10, <1>11, <1>14
  <2>2. ~(z <= e) /\ l - p < 3 + MaxBodySize
    <3>1. z = a + 3 + m /\ e \in Nat /\ MaxBodySize \in Nat
      BY <1>2, <1>8
    <3> QED BY <1>10, <1>14, <3>1
  <2> QED BY <1>2, <1>6, <2>1, <2>2 DEF Complete
<1>15. ASSUME p + 3 <= l, ~sound
       PROVE  ~Complete(b, p, MaxBodySize) /\ Corrupt(b, p, MaxBodySize)
  BY <1>13, <1>15 DEF Complete
<1>16. ASSUME p + 3 <= l, sound
       PROVE  /\ Size(b, p) = 3 + m /\ ~Corrupt(b, p, MaxBodySize)
              /\ Complete(b, p, MaxBodySize) <=> z <= e
  <2>1. Size(b, p) = 3 + m /\ ~Corrupt(b, p, MaxBodySize)
    BY <1>2, <1>5, <1>9, <1>13, <1>16
  <2>2. p + (3 + m) \in 0 .. l <=> z <= e
    BY <1>2, <1>8, <1>10
  <2> QED BY <1>6, <1>11, <1>16, <2>1, <2>2 DEF Complete
<1>17. ASSUME p + 3 <= l, sound, z <= e
       PROVE  FrameAt(b, p) = s[i]
  <2>1. CASE s[i].cmd = "response"
    <3>1. s[i].body = <<>>
      BY <1>2, <1>3, <2>1 DEF WellSent
    <3>2. FrameAt(b, p) = Response(s[i].id, s[i].third)
      BY <1>2, <1>12, <1>13, <1>17, <2>1 DEF FrameAt
    <3> QED BY <1>5, <2>1, <3>1, <3>2 DEF Response
  <2>2. CASE s[i].cmd # "response"
    <3> DEFINE body == SubSeq(b, p + 4, p + 3 + m)
    <3>1. s[i].third = m
      BY <1>2, <1>5, <1>9, <1>17, <2>2
    <3>2. p + HeaderSize + 1 = p + 4 /\ p + Size(b, p) = p + 3 + m
      <4>1. Size(b, p) = 3 + m /\ HeaderSize = 3
        BY <1>2, <1>16, <1>17
      <4> QED BY <4>1
    <3>3. FrameAt(b, p) = Frame(s[i].cmd, s[i].id, body)
      BY <1>12, <1>13, <1>17, <2>2, <3>2 DEF FrameAt
    <3>4. \A x \in p + 4 .. p + 3 + m : b[x] \in CellSet /\ x \in 1 .. l
      <4>2. p + 3 + m <= l
        BY <1>2, <1>8, <1>10, <1>17
      <4>1. \A x \in p + 4 .. p + 3 + m : x \in 1 .. l
        BY <4>2
      <4> QED BY <1>1, <1>6, <4>1, ElementOfSeq
    <3>5. /\ body \in Seq(CellSet)
          /\ Len(body) = m
          /\ \A j \in 1 .. m : body[j] = b[p + 3 + j]
      <4>1. p + 4 \in Int /\ p + 3 + m \in Int
        OBVIOUS
      <4>2. /\ body \in Seq(CellSet)
            /\ Len(body) = IF p + 4 <= p + 3 + m THEN p + 3 + m - (p + 4) + 1 ELSE 0
            /\ \A j \in 1 .. p + 3 + m - (p + 4) + 1 : body[j] = b[p + 4 + j - 1]
        BY <3>4, <4>1, SubSeqProperties
      <4> HIDE DEF body
      <4>3. p + 3 + m - (p + 4) + 1 = m /\ (p + 4 <= p + 3 + m <=> m >= 1)
        OBVIOUS
      <4>4. \A j \in 1 .. m : p + 4 + j - 1 = p + 3 + j
        OBVIOUS
      <4> QED BY <4>2, <4>3, <4>4
    <3> HIDE DEF body
    <3>6. ASSUME NEW j \in 1 .. m PROVE body[j] = s[i].body[j]
      <4>1. p + 3 + j \in 1 .. l /\ d + (p + 3 + j) = a + 3 + j
        BY <1>2, <1>8, <1>10, <1>17
      <4>2. b[p + 3 + j] = cells[d + (p + 3 + j)]
        BY <1>1, <1>6, <4>1
      <4> QED BY <1>8, <3>5, <4>1, <4>2
    <3>7. s[i].body \in Seq(CellSet)
      BY <1>5, SeqMonotonic DEF CellSet
    <3>8. body = s[i].body
      BY <1>7, <3>5, <3>6, <3>7, SeqEqual
    <3> QED BY <1>5, <3>1, <3>3, <3>5, <3>8 DEF Frame
  <2> QED BY <2>1, <2>2
<1>18. ASSUME p + 3 <= l, sound, ~(z <= e)
       PROVE  Len(b) - p < HeaderSize + MaxBodySize
  <2>1. m <= MaxBodySize
    BY <1>2, <1>5, <1>9, <1>18
  <2>2. l - p < 3 + MaxBodySize
    BY <1>2, <1>8, <1>10, <1>18, <2>1
  <2> QED BY <1>2, <1>6, <2>2
<1>19. ASSUME p + 3 <= l, sound, z <= e
       PROVE  off[t] + p + Size(b, p) = off[i] /\ Size(b, p) \in Nat
  <2>2. z = a + 3 + m /\ a = d + p
    BY <1>8, <1>10
  <2>1. d + p + (3 + m) = z /\ 3 + m \in Nat
    BY <2>2
  <2> QED BY <1>6, <1>16, <1>19, <2>1
<1>20. p + 3 <= l \/ p + 3 > l
  OBVIOUS
<1> QED BY <1>6, <1>14, <1>15, <1>16, <1>17, <1>18, <1>19, <1>20

LEMMA OffsetsGrow ==
    ASSUME NEW s, NEW cells, NEW off, NEW t, NEW e, NEW b, Window(s, cells, off, t, e, b),
           NEW k \in 0 .. Len(s) - t
    PROVE  t + k \in 0 .. Len(s) /\ off[t + k] \in Nat /\ off[t] + k <= off[t + k]
<1>1. /\ Len(s) \in Nat /\ t \in 0 .. Len(s) /\ off \in [0 .. Len(s) -> Nat]
      /\ s \in Seq(FrameSet) /\ HeaderSize = 3
      /\ \A i \in 1 .. Len(s) : off[i] = off[i - 1] + HeaderSize + Len(s[i].body)
  BY WireAssumption, LenProperties DEF Window, Layout
<1> DEFINE n == Len(s) - t
           S == {j \in 0 .. n : off[t] + j <= off[t + j]}
<1>2. n \in Nat /\ S \in SUBSET (0 .. n)
  BY <1>1
<1>3. ASSUME NEW j \in 0 .. n PROVE t + j \in 0 .. Len(s) /\ off[t + j] \in Nat
  <2>1. Len(s) \in Nat /\ t \in 0 .. Len(s)
    BY <1>1
  <2>2. t + j \in 0 .. Len(s)
    BY <2>1
  <2> QED BY <1>1, <2>2
<1>4. 0 \in S
  <2>1. PICK x \in Nat : x = off[t]
    BY <1>1
  <2>2. t + 0 = t /\ x + 0 <= x
    BY <1>1
  <2> QED BY <1>2, <2>1, <2>2
<1>5. ASSUME NEW j \in 0 .. n - 1, j \in S PROVE j + 1 \in S
  <2>1. PICK i \in 1 .. Len(s) : i = t + j + 1 /\ i - 1 = t + j
    BY <1>1
  <2>2. PICK l \in Nat : l = Len(s[i].body)
    <3>1. s[i] \in FrameSet
      BY <1>1, ElementOfSeq
    <3>2. s[i].body \in Seq(STRING)
      BY <3>1 DEF FrameSet
    <3> QED BY <3>2, LenProperties
  <2>3. off[i] = off[t + j] + 3 + l
    BY <1>1, <2>1, <2>2
  <2>4. off[t] + j <= off[t + j] /\ off[t + j] \in Nat /\ off[t] \in Nat /\ j \in Nat
    BY <1>1, <1>3, <1>5
  <2>5. off[t] + (j + 1) <= off[i]
    <3>1. PICK x \in Nat, y \in Nat : x = off[t] /\ y = off[t + j]
      BY <2>4
    <3>2. x + j <= y
      BY <2>4, <3>1
    <3>3. x + (j + 1) <= y + 3 + l
      BY <2>4, <3>2
    <3> QED BY <2>3, <3>1, <3>3
  <2>6. i = t + (j + 1) /\ j + 1 \in 0 .. n
    BY <1>1, <1>2, <2>1
  <2> QED BY <2>5, <2>6
<1> HIDE DEF S
<1>6. S = 0 .. n
  <2> HIDE DEF n
  <2> QED BY <1>2, <1>4, <1>5, UpTo
<1> QED BY <1>3, <1>6 DEF S

LEMMA FeedReads ==
    ASSUME NEW s, NEW cells, NEW off, NEW t, NEW e, NEW b, Window(s, cells, off, t, e, b)
    PROVE  \E m \in 0 .. Len(s) - t :
              /\ off[t + m] \in Nat /\ off[t + m] <= e
              /\ \A i \in t + 1 .. t + m : s[i].cmd = "response" \/ s[i].third <= MaxBodySize
              /\ Feed(b).frames = SubSeq(s, t + 1, t + m)
              /\ Feed(b).rest = SubSeq(cells, off[t + m] + 1, e)
              /\ ~Feed(b).bad => e - off[t + m] < HeaderSize + MaxBodySize
<1> DEFINE sound(i) == s[i].cmd = "response" \/ s[i].third <= MaxBodySize
           n == Len(s) - t
           G == {k \in 0 .. n : \A i \in t + 1 .. t + k : off[i] <= e /\ sound(i)}
           start == Starts(b, MaxBodySize)
<1>1. /\ Len(s) \in Nat /\ t \in 0 .. Len(s) /\ off \in [0 .. Len(s) -> Nat]
      /\ s \in Seq(FrameSet) /\ HeaderSize = 3 /\ MaxBodySize \in Nat
      /\ e \in Nat /\ off[t] <= e /\ e <= Len(cells) /\ off[t] \in Nat
      /\ off[Len(s)] = Len(cells) /\ Len(cells) \in Nat
  BY WireAssumption, LenProperties DEF Window, Layout
<1>2. /\ b \in Seq(CellSet) /\ Len(b) = e - off[t] /\ Len(b) \in Nat
      /\ \A x \in 1 .. Len(b) : b[x] = cells[off[t] + x]
  BY WindowCells
<1>3. n \in Nat /\ G \in SUBSET (0 .. n) /\ 0 \in G
  BY <1>1
<1>4. PICK m \in G : \A k \in G : k <= m
  <2> HIDE DEF n, G
  <2> QED BY <1>3, Greatest
<1>5. m \in 0 .. n /\ \A i \in t + 1 .. t + m : off[i] <= e /\ sound(i)
  OBVIOUS
<1> HIDE DEF sound
<1>6. \A k \in 0 .. n : t + k \in 0 .. Len(s) /\ off[t + k] \in Nat /\ off[t] + k <= off[t + k]
  BY OffsetsGrow
<1>7. ASSUME NEW k \in 0 .. m PROVE off[t + k] <= e /\ k \in 0 .. n
  <2>3. k \in 0 .. n
    BY <1>3, <1>5
  <2>1. CASE k = 0
    <3>1. t + k = t
      BY <1>1, <2>1
    <3> QED BY <1>1, <2>3, <3>1
  <2>2. CASE k # 0
    <3>1. t + k \in t + 1 .. t + m
      BY <1>1, <1>5, <2>2
    <3> QED BY <1>5, <2>3, <3>1
  <2> QED BY <2>1, <2>2
<1>8. ASSUME NEW k \in 0 .. m PROVE off[t + k] - off[t] \in 0 .. Len(b) /\ k \in 0 .. Len(b)
  <2>1. off[t + k] <= e /\ off[t + k] \in Nat /\ off[t] + k <= off[t + k] /\ k \in Nat
    BY <1>5, <1>6, <1>7
  <2>2. PICK x \in Nat, y \in Nat : x = off[t + k] /\ y = off[t]
    BY <1>1, <2>1
  <2>3. x <= e /\ y + k <= x /\ Len(b) = e - y
    BY <1>2, <2>1, <2>2
  <2>4. x - y \in 0 .. e - y /\ k \in 0 .. e - y
    BY <1>1, <2>1, <2>3
  <2> QED BY <2>2, <2>3, <2>4
<1>9. /\ start \in [0 .. Len(b) -> 0 .. Len(b)] /\ start[0] = 0
      /\ \A k \in 1 .. Len(b) :
            start[k] = IF Complete(b, start[k - 1], MaxBodySize)
                       THEN start[k - 1] + Size(b, start[k - 1]) ELSE start[k - 1]
  BY <1>2, Starting
<1> HIDE DEF start, n, G
<1>10. ASSUME NEW k \in 0 .. m - 1, start[k] = off[t + k] - off[t]
       PROVE  /\ Complete(b, start[k], MaxBodySize)
              /\ start[k + 1] = off[t + (k + 1)] - off[t]
              /\ FrameAt(b, start[k]) = s[t + k + 1]
  <2>1. k \in 0 .. m /\ k + 1 \in 0 .. m
    BY <1>3, <1>5
  <2>2. PICK i \in t + 1 .. Len(s) : i = t + (k + 1) /\ i - 1 = t + k
    BY <1>1, <1>5, <1>6, <1>7, <2>1
  <2>3. /\ start[k] \in Nat /\ off[t] + start[k] = off[i - 1] /\ start[k] <= Len(b)
        /\ off[i] <= e /\ off[i] \in Nat
    <3>1. /\ off[t + k] - off[t] \in 0 .. Len(b) /\ off[t + k] \in Nat
          /\ off[t + (k + 1)] <= e /\ off[t + (k + 1)] \in Nat
      BY <1>6, <1>7, <1>8, <2>1
    <3>2. PICK x \in Nat, y \in Nat : x = off[t + k] /\ y = off[t]
      BY <1>1, <3>1
    <3>3. start[k] = x - y /\ x - y \in 0 .. Len(b)
      BY <1>10, <3>1, <3>2
    <3>4. start[k] \in Nat /\ y + start[k] = x /\ start[k] <= Len(b)
      BY <1>2, <3>3
    <3> QED BY <2>2, <3>1, <3>2, <3>4
  <2>4. sound(i)
    BY <1>1, <1>5, <2>1, <2>2
  <2>5. /\ Complete(b, start[k], MaxBodySize)
        /\ off[t] + start[k] + Size(b, start[k]) = off[i] /\ Size(b, start[k]) \in Nat
        /\ FrameAt(b, start[k]) = s[i]
    BY <2>3, <2>4, FrameFound DEF sound
  <2>6. PICK j \in 1 .. Len(b) : j = k + 1 /\ j - 1 = k
    <3>1. k + 1 \in 0 .. Len(b)
      BY <1>8, <2>1
    <3>2. k \in Nat /\ k + 1 \in 1 .. Len(b) /\ k + 1 - 1 = k
      BY <3>1
    <3> QED BY <3>2
  <2>7. start[j] = start[k] + Size(b, start[k])
    BY <1>9, <2>5, <2>6
  <2>8. start[j] \in Nat
    BY <1>2, <1>9
  <2>9. start[j] = off[i] - off[t]
    <3>1. PICK x \in Nat, y \in Nat, z \in Nat, o \in Nat, w \in Nat :
             x = start[j] /\ y = start[k] /\ z = off[i] /\ o = off[t] /\ w = Size(b, start[k])
      BY <1>1, <2>3, <2>5, <2>8
    <3>2. x = y + w /\ o + y + w = z
      BY <2>5, <2>7, <3>1
    <3>3. x = z - o
      BY <3>2
    <3> QED BY <3>1, <3>3
  <2>10. t + k + 1 = t + (k + 1)
    BY <1>1, <2>1, <1>5
  <2> QED BY <2>2, <2>5, <2>6, <2>9, <2>10
<1>11. ASSUME NEW k \in 0 .. m PROVE start[k] = off[t + k] - off[t]
  <2> DEFINE S == {j \in 0 .. m : start[j] = off[t + j] - off[t]}
  <2>1. m \in Nat /\ S \in SUBSET (0 .. m)
    BY <1>3, <1>5
  <2>2. 0 \in S
    <3>1. t + 0 = t /\ off[t] - off[t] = 0
      BY <1>1
    <3> QED BY <1>9, <2>1, <3>1
  <2>3. ASSUME NEW j \in 0 .. m - 1, j \in S PROVE j + 1 \in S
    BY <1>10, <2>1, <2>3
  <2> HIDE DEF S
  <2>4. S = 0 .. m
    BY <2>1, <2>2, <2>3, UpTo
  <2> QED BY <2>4 DEF S
<1>12. m \in 0 .. m /\ m \in Nat /\ m \in 0 .. Len(b)
  BY <1>3, <1>5, <1>8
<1>13. /\ off[t + m] \in Nat /\ off[t + m] <= e /\ t + m \in 0 .. Len(s)
       /\ start[m] = off[t + m] - off[t] /\ start[m] \in Nat /\ start[m] <= Len(b)
  BY <1>2, <1>6, <1>7, <1>8, <1>11, <1>12
<1>14. Len(b) - start[m] = e - off[t + m]
  BY <1>1, <1>2, <1>13
<1>15. /\ ~Complete(b, start[m], MaxBodySize)
       /\ ~Corrupt(b, start[m], MaxBodySize) => e - off[t + m] < HeaderSize + MaxBodySize
  <2>1. CASE t + m = Len(s)
    <3>1. Len(b) - start[m] = 0
      BY <1>1, <1>13, <1>14, <2>1
    <3>2. ~Header(b, start[m])
      BY <1>1, <1>2, <1>13, <3>1 DEF Header
    <3> QED BY <1>1, <1>14, <3>1, <3>2 DEF Complete
  <2>2. CASE t + m # Len(s)
    <3>1. PICK i \in t + 1 .. Len(s) : i = t + m + 1 /\ i - 1 = t + m
      BY <1>1, <1>12, <1>13, <2>2
    <3>2. ~(off[i] <= e /\ sound(i))
      <4>1. SUFFICES ASSUME off[i] <= e, sound(i) PROVE FALSE
        OBVIOUS
      <4>2. m + 1 \in 0 .. n
        BY <1>1, <1>12, <3>1 DEF n
      <4>3. \A j \in t + 1 .. t + (m + 1) : j = i \/ j \in t + 1 .. t + m
        BY <1>1, <1>12, <3>1
      <4>4. m + 1 \in G
        BY <1>5, <4>1, <4>2, <4>3 DEF G
      <4> QED BY <1>4, <1>12, <4>4
    <3>3. off[t] + start[m] = off[i - 1]
      BY <1>1, <1>13, <3>1
    <3>4. /\ ~Complete(b, start[m], MaxBodySize)
          /\ ~Corrupt(b, start[m], MaxBodySize) =>
                Len(b) - start[m] < HeaderSize + MaxBodySize
      BY <1>13, <3>2, <3>3, FrameFound DEF sound
    <3> QED BY <1>14, <3>4
  <2> QED BY <2>1, <2>2
<1>16. \A k \in 0 .. m - 1 : Complete(b, start[k], MaxBodySize) /\ FrameAt(b, start[k]) = s[t + k + 1]
  <2>1. ASSUME NEW k \in 0 .. m - 1
        PROVE  Complete(b, start[k], MaxBodySize) /\ FrameAt(b, start[k]) = s[t + k + 1]
    <3>1. k \in 0 .. m
      BY <1>12
    <3> QED BY <1>10, <1>11, <3>1
  <2> QED BY <2>1
<1> DEFINE Ends(k) == /\ ~Complete(b, start[k], MaxBodySize)
                      /\ \A j \in 0 .. k - 1 : Complete(b, start[j], MaxBodySize)
           c == CHOOSE k \in 0 .. Len(b) : Ends(k)
<1>17. c = m
  <2>1. Ends(m)
    BY <1>15, <1>16
  <2>2. c \in 0 .. Len(b) /\ Ends(c)
    <3> HIDE DEF Ends
    <3> QED BY <1>12, <2>1
  <2> HIDE DEF c
  <2>3. c \in Nat
    BY <2>2
  <2>4. ~(c < m) /\ ~(m < c)
    <3>1. ASSUME c < m PROVE FALSE
      <4>1. c \in 0 .. m - 1
        BY <1>12, <2>3, <3>1
      <4> QED BY <2>1, <2>2, <4>1
    <3>2. ASSUME m < c PROVE FALSE
      <4>1. m \in 0 .. c - 1
        BY <1>12, <2>3, <3>2
      <4> QED BY <2>1, <2>2, <4>1
    <3> QED BY <3>1, <3>2
  <2> QED BY <1>12, <2>3, <2>4
<1>18. /\ Feed(b).frames = [i \in 1 .. c |-> FrameAt(b, start[i - 1])]
       /\ Feed(b).rest = SubSeq(b, start[c] + 1, Len(b))
       /\ Feed(b).bad = Corrupt(b, start[c], MaxBodySize)
  BY DEF Feed, FeedUpTo, start
<1> HIDE DEF c
<1>19. Feed(b).frames = SubSeq(s, t + 1, t + m)
  <2> DEFINE sent == SubSeq(s, t + 1, t + m)
  <2>1. /\ t + 1 \in Int /\ t + m \in Int /\ \A i \in t + 1 .. t + m : s[i] \in FrameSet
    <3>1. \A i \in t + 1 .. t + m : i \in 1 .. Len(s)
      BY <1>1, <1>12, <1>13
    <3> QED BY <1>1, <1>12, <3>1, ElementOfSeq
  <2>9. PICK x \in Int, y \in Int : x = t + 1 /\ y = t + m
    BY <2>1
  <2>2. /\ sent \in Seq(FrameSet)
        /\ Len(sent) = IF x <= y THEN y - x + 1 ELSE 0
        /\ \A i \in 1 .. y - x + 1 : sent[i] = s[x + i - 1]
    BY <2>1, <2>9, SubSeqProperties
  <2> HIDE DEF sent
  <2>3. y - x + 1 = m /\ (x <= y <=> m >= 1) /\ m \in Nat
    BY <1>1, <1>12, <2>9
  <2>4. Len(sent) = m
    BY <2>2, <2>3
  <2>5. ASSUME NEW i \in 1 .. m
        PROVE  i - 1 \in 0 .. m - 1 /\ t + (i - 1) + 1 = t + i /\ x + i - 1 = t + i
    BY <1>1, <2>3, <2>9
  <2>6. ASSUME NEW i \in 1 .. m PROVE FrameAt(b, start[i - 1]) = sent[i]
    <3>1. PICK j \in 0 .. m - 1 : j = i - 1 /\ t + j + 1 = t + i
      BY <2>5
    <3>2. FrameAt(b, start[j]) = s[t + i]
      BY <1>16, <3>1
    <3>3. sent[i] = s[t + i]
      BY <2>2, <2>3, <2>5
    <3> QED BY <3>1, <3>2, <3>3
  <2>7. sent = [i \in 1 .. m |-> sent[i]]
    BY <2>2, <2>4, LenProperties
  <2>8. [i \in 1 .. m |-> FrameAt(b, start[i - 1])] = [i \in 1 .. m |-> sent[i]]
    BY <2>6
  <2> QED BY <1>17, <1>18, <2>7, <2>8 DEF sent
<1>20. Feed(b).rest = SubSeq(cells, off[t + m] + 1, e)
  <2>1. PICK p \in Nat, d \in Nat, z \in Nat :
           p = start[m] /\ d = off[t] /\ z = off[t + m]
    BY <1>1, <1>13
  <2>2. z = d + p /\ p <= Len(b) /\ Len(b) = e - d
    BY <1>1, <1>2, <1>13, <2>1
  <2> DEFINE u == SubSeq(b, p + 1, Len(b))
             v == SubSeq(cells, z + 1, e)
  <2>3. \A x \in p + 1 .. Len(b) : b[x] \in CellSet
    BY <1>2, ElementOfSeq
  <2>4. /\ u \in Seq(CellSet)
        /\ Len(u) = IF p + 1 <= Len(b) THEN Len(b) - (p + 1) + 1 ELSE 0
        /\ \A x \in 1 .. Len(b) - (p + 1) + 1 : u[x] = b[p + 1 + x - 1]
    <3>1. p + 1 \in Int /\ Len(b) \in Int
      BY <1>2
    <3> QED BY <2>3, <3>1, SubSeqProperties
  <2>5. \A x \in z + 1 .. e : cells[x] \in CellSet
    <3>1. cells \in Seq(CellSet)
      BY DEF Window, Layout, CellSet
    <3>2. \A x \in z + 1 .. e : x \in 1 .. Len(cells)
      BY <1>1
    <3> QED BY <3>1, <3>2, ElementOfSeq
  <2>6. /\ v \in Seq(CellSet)
        /\ Len(v) = IF z + 1 <= e THEN e - (z + 1) + 1 ELSE 0
        /\ \A x \in 1 .. e - (z + 1) + 1 : v[x] = cells[z + 1 + x - 1]
    <3>1. z + 1 \in Int /\ e \in Int
      BY <1>1
    <3> QED BY <2>5, <3>1, SubSeqProperties
  <2> HIDE DEF u, v
  <2>7. PICK q \in Nat : q = Len(b) - p
    BY <1>2, <2>2
  <2>8. /\ Len(b) - (p + 1) + 1 = q /\ e - (z + 1) + 1 = q
        /\ (p + 1 <= Len(b) <=> q >= 1) /\ (z + 1 <= e <=> q >= 1)
    BY <1>1, <1>2, <2>2, <2>7
  <2>9. Len(u) = q /\ Len(v) = q
    BY <2>4, <2>6, <2>8
  <2>10. ASSUME NEW x \in 1 .. q PROVE u[x] = v[x]
    <3>1. /\ p + 1 + x - 1 = p + x /\ z + 1 + x - 1 = d + (p + x)
          /\ p + x \in 1 .. Len(b)
      BY <1>2, <2>2, <2>7
    <3>2. b[p + x] = cells[d + (p + x)]
      BY <1>2, <2>1, <3>1
    <3> QED BY <2>4, <2>6, <2>8, <3>1, <3>2
  <2>11. u = v
    BY <2>4, <2>6, <2>9, <2>10, SeqEqual
  <2> QED BY <1>17, <1>18, <2>1, <2>11 DEF u, v
<1>21. ~Feed(b).bad => e - off[t + m] < HeaderSize + MaxBodySize
  BY <1>15, <1>17, <1>18
<1> QED BY <1>5, <1>13, <1>19, <1>20, <1>21 DEF sound, n

(***************************************************************************)
(* The reads of a connection.                                              *)
(***************************************************************************)

(* What is buffered is what was read behind the last frame that was taken,   *)
(* and less than a frame.                                                    *)
Behind(off) ==
    /\ Layout(stream, Cells, off)
    /\ off[taken] <= read /\ read <= Len(Cells)
    /\ buf = SubSeq(Cells, off[taken] + 1, read)
    /\ read - off[taken] < HeaderSize + MaxBodySize

ReadInv ==
    /\ stream \in Streams \cup {<<>>}
    /\ taken \in 0 .. Len(stream) /\ read \in Nat
    /\ open \in BOOLEAN
    /\ open => stream \in Streams /\ \E off : Behind(off)

LEMMA StreamsAre ==
    ASSUME NEW s \in Streams
    PROVE  s \in Seq(FrameSet) /\ WellSent(s) /\ Len(s) \in Nat /\ FromFirmware(s)
<1>1. s \in Seq(FrameSet) /\ FromFirmware(s)
  BY WireAssumption DEF FrameSet
<1>2. WellSent(s)
  BY <1>1, WireAssumption DEF WellSent
<1> QED BY <1>1, <1>2, LenProperties

(* A read up to the e-th cell brings the next m frames of the stream.        *)
Brings(got, e, m, off) ==
    /\ Layout(stream, Cells, off)
    /\ off[taken + m] \in Nat /\ off[taken + m] <= e
    /\ \A i \in taken + 1 .. taken + m :
          stream[i].cmd = "response" \/ stream[i].third <= MaxBodySize
    /\ got.frames = SubSeq(stream, taken + 1, taken + m)
    /\ Len(got.frames) = m
    /\ got.rest = SubSeq(Cells, off[taken + m] + 1, e)
    /\ ~got.bad => e - off[taken + m] < HeaderSize + MaxBodySize

LEMMA ReadFrames ==
    ASSUME ReadInv, open, NEW n \in 1 .. readBufferSize, read + n <= Len(Cells)
    PROVE  \E m \in 0 .. Len(stream) - taken : \E off :
              Brings(Feed(buf \o SubSeq(Cells, read + 1, read + n)), read + n, m, off)
<1>1. /\ stream \in Streams /\ stream \in Seq(FrameSet) /\ WellSent(stream) /\ Len(stream) \in Nat
      /\ taken \in 0 .. Len(stream) /\ read \in Nat /\ n \in Nat
  BY StreamsAre, WireAssumption DEF ReadInv
<1>2. PICK off : Behind(off)
  BY DEF ReadInv
<1>3. /\ Layout(stream, Cells, off) /\ Cells \in Seq(CellSet) /\ Len(Cells) \in Nat
      /\ off[taken] \in Nat /\ off[taken] <= read /\ read <= Len(Cells)
      /\ buf = SubSeq(Cells, off[taken] + 1, read)
  <2>1. Layout(stream, Cells, off)
    BY <1>2 DEF Behind
  <2>2. Cells \in Seq(CellSet) /\ off \in [0 .. Len(stream) -> Nat]
    BY <2>1 DEF Layout, CellSet
  <2> QED BY <1>1, <1>2, <2>1, <2>2, LenProperties DEF Behind
<1> DEFINE e == read + n
           b == buf \o SubSeq(Cells, read + 1, e)
<1>4. b = SubSeq(Cells, off[taken] + 1, e)
  <2>1. PICK x \in Nat : x = off[taken]
    BY <1>3
  <2>2. /\ x + 1 \in 1 .. Len(Cells) + 1 /\ read \in x + 1 - 1 .. Len(Cells)
        /\ e \in read .. Len(Cells)
    BY <1>1, <1>3, <2>1
  <2>3. SubSeq(Cells, x + 1, read) \o SubSeq(Cells, read + 1, e) = SubSeq(Cells, x + 1, e)
    <3> HIDE DEF e
    <3> QED BY <1>3, <2>2, ConcatAdjacentSubSeq
  <2> QED BY <1>3, <2>1, <2>3
<1>5. e \in 0 .. Len(Cells) /\ off[taken] <= e
  <2>1. PICK x \in Nat : x = off[taken]
    BY <1>3
  <2> QED BY <1>1, <1>3, <2>1
<1> HIDE DEF e, b
<1>6. Window(stream, Cells, off, taken, e, b)
  BY <1>1, <1>3, <1>4, <1>5 DEF Window
<1>7. PICK m \in 0 .. Len(stream) - taken :
         /\ off[taken + m] \in Nat /\ off[taken + m] <= e
         /\ \A i \in taken + 1 .. taken + m :
               stream[i].cmd = "response" \/ stream[i].third <= MaxBodySize
         /\ Feed(b).frames = SubSeq(stream, taken + 1, taken + m)
         /\ Feed(b).rest = SubSeq(Cells, off[taken + m] + 1, e)
         /\ ~Feed(b).bad => e - off[taken + m] < HeaderSize + MaxBodySize
  BY <1>6, FeedReads
<1>8. Len(Feed(b).frames) = m
  <2>1. PICK x \in Int, y \in Int : x = taken + 1 /\ y = taken + m
    BY <1>1
  <2>2. \A i \in x .. y : stream[i] \in FrameSet
    <3>1. \A i \in x .. y : i \in 1 .. Len(stream)
      BY <1>1, <2>1
    <3> QED BY <1>1, <3>1, ElementOfSeq
  <2>3. Len(SubSeq(stream, x, y)) = IF x <= y THEN y - x + 1 ELSE 0
    BY <2>2, SubSeqProperties
  <2>4. m = IF x <= y THEN y - x + 1 ELSE 0
    BY <1>1, <2>1
  <2> QED BY <1>7, <2>1, <2>3, <2>4
<1>9. Brings(Feed(b), e, m, off)
  BY <1>3, <1>7, <1>8 DEF Brings
<1> QED BY <1>9 DEF e, b

LEMMA InitReads == Init => ReadInv
<1> SUFFICES ASSUME Init PROVE ReadInv
  OBVIOUS
<1>1. stream = <<>> /\ taken = 0 /\ read = 0 /\ open = FALSE
  BY DEF Init
<1>2. Len(stream) = 0 /\ 0 \in 0 .. 0
  BY <1>1
<1> QED BY <1>1, <1>2 DEF ReadInv

LEMMA StepReads ==
    ASSUME ReadInv, [Next]_vars
    PROVE  ReadInv'
<1>1. CASE Connect
  <2>1. /\ stream' \in Streams /\ taken' = 0 /\ read' = 0 /\ buf' = <<>> /\ open' = TRUE
        /\ stream' \in Seq(FrameSet) /\ Len(stream') \in Nat
    BY <1>1, StreamsAre DEF Connect
  <2>2. PICK off : Layout(stream', FlattenSeq([i \in DOMAIN stream' |-> Encode(stream'[i])]), off)
    BY <2>1, LaidOut
  <2>3. Layout(stream', Cells', off)
    BY <2>2 DEF Cells
  <2>4. off[0] = 0 /\ Cells' \in Seq(CellSet) /\ Len(Cells') \in Nat
    BY <2>3, LenProperties DEF Layout, CellSet
  <2>5. SubSeq(Cells', 0 + 1, 0) = <<>>
    BY SubSeqEmpty
  <2>6. off[taken'] <= read' /\ read' <= Len(Cells') /\ read' - off[taken'] < HeaderSize + MaxBodySize
    BY <2>1, <2>4, WireAssumption
  <2>7. Behind(off)'
    BY <2>1, <2>3, <2>4, <2>5, <2>6 DEF Behind
  <2> QED BY <2>1, <2>7 DEF ReadInv
<1>2. CASE Close
  BY <1>2 DEF Close, ReadInv
<1>3. ASSUME NEW n \in 1 .. readBufferSize, NEW sent \in BOOLEAN, NEW stores \in BOOLEAN,
             read + n <= Len(Cells), Read(n, sent, stores)
      PROVE  ReadInv'
  <2> DEFINE got == Feed(buf \o SubSeq(Cells, read + 1, read + n))
  <2>1. /\ open /\ read' = read + n /\ buf' = got.rest /\ stream' = stream /\ open' \in BOOLEAN
        /\ taken' = IF sent THEN taken + Len(got.frames) ELSE taken
        /\ open' => ~got.bad /\ (sent \/ got.frames = <<>>)
    BY <1>3 DEF Read
  <2>2. PICK m \in 0 .. Len(stream) - taken : \E off : Brings(got, read + n, m, off)
    BY <1>3, <2>1, ReadFrames
  <2> HIDE DEF got
  <2>9. PICK off : Brings(got, read + n, m, off)
    BY <2>2
  <2>10. Len(got.frames) = m
    BY <2>9 DEF Brings
  <2>3. /\ stream \in Streams /\ Len(stream) \in Nat /\ taken \in 0 .. Len(stream)
        /\ read \in Nat /\ n \in Nat
    BY <2>1, StreamsAre, WireAssumption DEF ReadInv
  <2>4. taken' \in 0 .. Len(stream) /\ read' \in Nat
    <3>1. taken + m \in 0 .. Len(stream) /\ read + n \in Nat
      BY <2>2, <2>3
    <3> QED BY <2>1, <2>3, <2>10, <3>1
  <2>5. Cells' = Cells
    BY <2>1 DEF Cells
  <2>6. ASSUME open' PROVE taken' = taken + m
    <3>1. Len(<<>>) = 0 /\ taken + 0 = taken
      BY <2>3
    <3>2. CASE sent
      BY <2>1, <2>10, <3>2
    <3>3. CASE ~sent
      BY <2>1, <2>10, <2>6, <3>1, <3>3
    <3> QED BY <3>2, <3>3
  <2>7. ASSUME open' PROVE Behind(off)'
    <3>1. taken' = taken + m /\ read' = read + n /\ buf' = got.rest /\ ~got.bad
      BY <2>1, <2>6, <2>7
    <3>2. Layout(stream', Cells', off)
      BY <2>1, <2>5, <2>9 DEF Brings
    <3>3. buf' = SubSeq(Cells', off[taken'] + 1, read')
      BY <2>5, <2>9, <3>1 DEF Brings
    <3>4. read' - off[taken'] < HeaderSize + MaxBodySize /\ off[taken'] <= read'
      <4>1. off[taken + m] <= read + n /\ (read + n) - off[taken + m] < HeaderSize + MaxBodySize
        <5>1. /\ off[taken + m] <= read + n
              /\ ~got.bad => (read + n) - off[taken + m] < HeaderSize + MaxBodySize
          BY <2>9, Zenon DEF Brings
        <5> QED BY <3>1, <5>1, Zenon
      <4>2. PICK x \in Nat : x = read + n
        BY <2>3
      <4>3. PICK y \in Nat : y = off[taken + m]
        BY <2>9, Zenon DEF Brings
      <4>4. read' = x /\ off[taken'] = y
        BY <3>1, <4>2, <4>3
      <4>5. y <= x /\ x - y < HeaderSize + MaxBodySize
        BY <4>1, <4>2, <4>3, WireAssumption
      <4> QED BY <4>4, <4>5
    <3>5. read' <= Len(Cells')
      BY <1>3, <2>5, <3>1
    <3> QED BY <3>2, <3>3, <3>4, <3>5 DEF Behind
  <2> QED BY <2>1, <2>3, <2>4, <2>7 DEF ReadInv
<1>4. CASE UNCHANGED vars
  BY <1>4 DEF vars, ReadInv, Behind, Cells
<1> QED BY <1>1, <1>2, <1>3, <1>4 DEF Next

LEMMA Reads == Spec => []ReadInv
BY InitReads, StepReads, PTL DEF Spec

(* Between two reads an open connection holds less than one frame.           *)
THEOREM BufferStaysSmall == Spec => []BufferBounded
<1>1. ReadInv => BufferBounded
  <2> SUFFICES ASSUME ReadInv, open PROVE Len(buf) < HeaderSize + MaxBodySize
    BY DEF BufferBounded
  <2>1. PICK off : Behind(off)
    BY DEF ReadInv
  <2>2. /\ Cells \in Seq(CellSet) /\ off \in [0 .. Len(stream) -> Nat]
        /\ taken \in 0 .. Len(stream) /\ read \in Nat
        /\ off[taken] <= read /\ read <= Len(Cells)
        /\ buf = SubSeq(Cells, off[taken] + 1, read)
        /\ read - off[taken] < HeaderSize + MaxBodySize
    BY <2>1 DEF ReadInv, Behind, Layout, CellSet
  <2>3. PICK x \in Nat : x = off[taken]
    BY <2>2
  <2>4. x + 1 \in Int /\ read \in Int /\ \A i \in x + 1 .. read : Cells[i] \in CellSet
    <3>1. \A i \in x + 1 .. read : i \in 1 .. Len(Cells)
      BY <2>2, <2>3, LenProperties
    <3> QED BY <2>2, <2>3, <3>1, ElementOfSeq
  <2>5. Len(SubSeq(Cells, x + 1, read)) = IF x + 1 <= read THEN read - (x + 1) + 1 ELSE 0
    BY <2>4, SubSeqProperties
  <2>6. /\ HeaderSize = 3 /\ MaxBodySize \in Nat
        /\ read - x = IF x + 1 <= read THEN read - (x + 1) + 1 ELSE 0
    BY WireAssumption, <2>2, <2>3
  <2> QED BY <2>2, <2>3, <2>5, <2>6
<1> QED BY <1>1, Reads, PTL

LEMMA MaxIs ==
    ASSUME NEW n \in Nat, NEW s \in SUBSET (1 .. n), s # {}
    PROVE  Max(s) \in s /\ Max(s) \in 1 .. n /\ \A i \in s : i <= Max(s)
<1>1. s \in SUBSET (0 .. n)
  OBVIOUS
<1>2. PICK m \in s : \A i \in s : i <= m
  BY <1>1, Greatest
<1>3. \A i \in s : m >= i
  BY <1>2
<1>4. Max(s) \in s /\ \A i \in s : Max(s) >= i
  BY <1>3 DEF Max
<1> QED BY <1>4

LEMMA MaxUpTo ==
    ASSUME NEW n \in Nat, NEW k \in 1 .. n
    PROVE  Max(1 .. k) = k /\ (1 .. k) \ {k} = 1 .. k - 1 /\ 1 .. k # {} /\ 1 .. k \in SUBSET (1 .. n)
<1>1. 1 .. k # {} /\ 1 .. k \in SUBSET (1 .. n) /\ k \in 1 .. k
  OBVIOUS
<1>2. Max(1 .. k) \in 1 .. k /\ k <= Max(1 .. k)
  BY <1>1, MaxIs
<1>3. Max(1 .. k) = k
  BY <1>2
<1> QED BY <1>1, <1>3

(***************************************************************************)
(* FoldLeft, for the operators that fold here.                             *)
(***************************************************************************)

Op(kind, a, x) ==
    CASE kind = "decode" -> DecodeFrame(a, x)
      [] kind = "set" -> SetPin(a, x)
      [] kind = "stored" -> Stream!Alone(a, x, FALSE, TRUE)
      [] kind = "lost" -> Stream!Alone(a, x, FALSE, FALSE)
      [] kind = "kegStored" -> Stream!Alone(a, x, TRUE, TRUE)
      [] OTHER -> Stream!Alone(a, x, TRUE, FALSE)

(* p[i] is the fold over those of the first i places of seq that are in s.   *)
Running(p, n, kind, base, seq, s) ==
    /\ p[0] = base
    /\ \A i \in 1 .. n : p[i] = IF i \in s THEN Op(kind, p[i - 1], seq[i]) ELSE p[i - 1]

LEMMA RunsOn ==
    ASSUME NEW n \in Nat, NEW kind, NEW base, NEW seq, NEW s
    PROVE  \E p : Running(p, n, kind, base, seq, s)
<1> DEFINE S == {k \in 0 .. n : \E p : Running(p, k, kind, base, seq, s)}
<1>1. S \in SUBSET (0 .. n)
  OBVIOUS
<1>2. 0 \in S
  <2>1. Running([i \in 0 .. 0 |-> base], 0, kind, base, seq, s)
    BY DEF Running
  <2> QED BY <2>1
<1>3. ASSUME NEW k \in 0 .. n - 1, k \in S PROVE k + 1 \in S
  <2>1. PICK p : Running(p, k, kind, base, seq, s)
    BY <1>3
  <2>2. PICK m \in 1 .. n : m = k + 1 /\ m - 1 = k
    OBVIOUS
  <2> DEFINE next == IF m \in s THEN Op(kind, p[k], seq[m]) ELSE p[k]
             q == [i \in 0 .. m |-> IF i = m THEN next ELSE p[i]]
  <2> HIDE DEF next
  <2>3. q[0] = base /\ q[m] = next /\ q[k] = p[k]
    BY <2>1, <2>2 DEF Running
  <2>4. ASSUME NEW i \in 1 .. m
        PROVE  q[i] = IF i \in s THEN Op(kind, q[i - 1], seq[i]) ELSE q[i - 1]
    <3>1. CASE i = m
      <4> HIDE DEF q
      <4> QED BY <2>2, <2>3, <3>1 DEF next
    <3>2. CASE i # m
      <4>1. i \in 1 .. k /\ q[i] = p[i] /\ q[i - 1] = p[i - 1]
        BY <2>2, <3>2
      <4> HIDE DEF q
      <4> QED BY <2>1, <4>1 DEF Running
    <3> QED BY <3>1, <3>2
  <2> HIDE DEF q
  <2>5. Running(q, m, kind, base, seq, s)
    BY <2>3, <2>4 DEF Running
  <2> QED BY <2>2, <2>5
<1> HIDE DEF S
<1>4. n \in S
  BY <1>1, <1>2, <1>3, UpTo
<1> QED BY <1>4 DEF S

LEMMA RunsPast ==
    ASSUME NEW n \in Nat, NEW kind, NEW base, NEW seq, NEW s, NEW p,
           Running(p, n, kind, base, seq, s), NEW j \in 0 .. n, \A i \in 1 .. n : i \in s => i <= j
    PROVE  p[n] = p[j]
<1> DEFINE S == {i \in 0 .. n : i >= j => p[i] = p[j]}
<1>1. S \in SUBSET (0 .. n)
  OBVIOUS
<1>2. 0 \in S
  <2>1. 0 >= j => j = 0
    OBVIOUS
  <2> QED BY <2>1
<1>3. ASSUME NEW k \in 0 .. n - 1, k \in S PROVE k + 1 \in S
  <2>1. PICK m \in 1 .. n : m = k + 1 /\ m - 1 = k
    OBVIOUS
  <2>2. p[m] = IF m \in s THEN Op(kind, p[k], seq[m]) ELSE p[k]
    BY <2>1 DEF Running
  <2>3. CASE k >= j
    <3>1. m \notin s /\ p[k] = p[j]
      BY <1>3, <2>1, <2>3
    <3> QED BY <2>1, <2>2, <3>1
  <2>4. CASE ~(k >= j)
    <3>1. m >= j => m = j
      BY <2>1, <2>4
    <3> QED BY <2>1, <3>1
  <2> QED BY <2>3, <2>4
<1> HIDE DEF S
<1>4. n \in S
  <2>1. S = 0 .. n
    BY <1>1, <1>2, <1>3, UpTo
  <2> QED BY <2>1
<1> QED BY <1>4 DEF S

(* Two folds that begin alike are alike as far as they take the same.        *)
LEMMA RunsAlike ==
    ASSUME NEW n \in Nat, NEW kind, NEW base, NEW seq, NEW s, NEW p,
           NEW m \in Nat, NEW seq2, NEW s2, NEW p2,
           Running(p, n, kind, base, seq, s), Running(p2, m, kind, base, seq2, s2),
           NEW j \in 0 .. n, j <= m,
           \A i \in 1 .. j : (i \in s <=> i \in s2) /\ seq[i] = seq2[i]
    PROVE  p[j] = p2[j]
<1> DEFINE S == {i \in 0 .. j : p[i] = p2[i]}
<1>1. j \in Nat /\ S \in SUBSET (0 .. j)
  OBVIOUS
<1>2. 0 \in S
  BY <1>1 DEF Running
<1>3. ASSUME NEW k \in 0 .. j - 1, k \in S PROVE k + 1 \in S
  <2>1. PICK i \in 1 .. j : i = k + 1 /\ i - 1 = k
    BY <1>1
  <2>2. i \in 1 .. n /\ i \in 1 .. m /\ p[k] = p2[k] /\ seq[i] = seq2[i] /\ (i \in s <=> i \in s2)
    BY <1>1, <1>3, <2>1
  <2>3. p[i] = IF i \in s THEN Op(kind, p[k], seq[i]) ELSE p[k]
    BY <2>1, <2>2 DEF Running
  <2>4. p2[i] = IF i \in s2 THEN Op(kind, p2[k], seq2[i]) ELSE p2[k]
    BY <2>1, <2>2 DEF Running
  <2>5. p[i] = p2[i]
    BY <2>2, <2>3, <2>4
  <2> QED BY <2>1, <2>5
<1> HIDE DEF S
<1>4. j \in S
  BY <1>1, <1>2, <1>3, UpTo
<1> QED BY <1>4 DEF S

(* The recursion of MapThenFoldSet.                                          *)
FoldsOver(g, n, kind, base, seq) ==
    g = [s \in SUBSET (1 .. n) |->
           IF s = {} THEN base ELSE Op(kind, g[s \ {Max(s)}], seq[Max(s)])]

LEMMA FoldExists ==
    ASSUME NEW n \in Nat, NEW kind, NEW base, NEW seq
    PROVE  \E g : FoldsOver(g, n, kind, base, seq)
<1> DEFINE h(s) == CHOOSE p : Running(p, n, kind, base, seq, s)
           g == [s \in SUBSET (1 .. n) |-> h(s)[n]]
<1>1. ASSUME NEW s PROVE Running(h(s), n, kind, base, seq, s)
  BY RunsOn
<1> HIDE DEF h
<1>2. g[{}] = base
  <2>1. PICK p : p = h({}) /\ Running(p, n, kind, base, seq, {})
    BY <1>1
  <2>2. 0 \in 0 .. n /\ \A i \in 1 .. n : i \in {} => i <= 0
    OBVIOUS
  <2>3. p[n] = p[0]
    BY <2>1, <2>2, RunsPast
  <2> QED BY <2>1, <2>3 DEF Running
<1>3. ASSUME NEW s \in SUBSET (1 .. n), s # {}
      PROVE  g[s] = Op(kind, g[s \ {Max(s)}], seq[Max(s)])
  <2>1. PICK m \in 1 .. n : m = Max(s) /\ m \in s /\ \A i \in s : i <= m
    BY <1>3, MaxIs
  <2>2. PICK u \in SUBSET (1 .. n) : u = s \ {m}
    OBVIOUS
  <2>3. PICK k \in 0 .. n : k = m - 1
    OBVIOUS
  <2>4. PICK p, q : /\ p = h(s) /\ Running(p, n, kind, base, seq, s)
                    /\ q = h(u) /\ Running(q, n, kind, base, seq, u)
    BY <1>1
  <2>5. p[n] = p[m]
    <3>1. m \in 0 .. n /\ \A i \in 1 .. n : i \in s => i <= m
      BY <2>1
    <3>2. Running(p, n, kind, base, seq, s)
      BY <2>4
    <3> HIDE DEF g
    <3> QED BY <3>1, <3>2, RunsPast
  <2>6. q[n] = q[k]
    <3>1. \A i \in 1 .. n : i \in u => i <= k
      BY <2>1, <2>2, <2>3
    <3>2. Running(q, n, kind, base, seq, u)
      BY <2>4
    <3> HIDE DEF g
    <3> QED BY <3>1, <3>2, RunsPast
  <2>7. p[m] = Op(kind, p[k], seq[m])
    BY <2>1, <2>3, <2>4 DEF Running
  <2>8. p[k] = q[k]
    <3>1. k <= n /\ \A i \in 1 .. k : (i \in s <=> i \in u) /\ seq[i] = seq[i]
      BY <2>2, <2>3
    <3> QED BY <2>4, <3>1, RunsAlike
  <2>9. g[s] = p[n] /\ g[u] = q[n]
    BY <2>4
  <2> HIDE DEF g
  <2> QED BY <2>1, <2>2, <2>5, <2>6, <2>7, <2>8, <2>9
<1>4. g = [s \in SUBSET (1 .. n) |-> g[s]]
  OBVIOUS
<1> HIDE DEF g
<1>5. FoldsOver(g, n, kind, base, seq)
  BY <1>2, <1>3, <1>4 DEF FoldsOver
<1> QED BY <1>5

LEMMA FoldRuns ==
    ASSUME NEW n \in Nat, NEW kind, NEW base, NEW seq, NEW g, NEW p,
           FoldsOver(g, n, kind, base, seq), Running(p, n, kind, base, seq, 1 .. n)
    PROVE  g[1 .. n] = p[n]
<1> DEFINE S == {k \in 0 .. n : g[1 .. k] = p[k]}
<1>0. /\ g[{}] = base
      /\ \A s \in SUBSET (1 .. n) : s # {} => g[s] = Op(kind, g[s \ {Max(s)}], seq[Max(s)])
  BY DEF FoldsOver
<1>1. S \in SUBSET (0 .. n)
  OBVIOUS
<1>2. 0 \in S
  <2>1. 1 .. 0 = {}
    OBVIOUS
  <2> QED BY <1>0, <2>1 DEF Running
<1>3. ASSUME NEW k \in 0 .. n - 1, k \in S PROVE k + 1 \in S
  <2>1. PICK i \in 1 .. n : i = k + 1 /\ i - 1 = k
    OBVIOUS
  <2>2. PICK s \in SUBSET (1 .. n) : s = 1 .. i /\ s # {} /\ Max(s) = i /\ s \ {i} = 1 .. k
    BY <2>1, MaxUpTo
  <2>3. g[s] = Op(kind, g[1 .. k], seq[i])
    BY <1>0, <2>2
  <2>4. p[i] = Op(kind, p[k], seq[i])
    BY <2>1 DEF Running
  <2>5. g[1 .. i] = p[i]
    BY <1>3, <2>2, <2>3, <2>4
  <2> QED BY <2>1, <2>5
<1> HIDE DEF S
<1>4. n \in S
  BY <1>1, <1>2, <1>3, UpTo
<1> QED BY <1>4 DEF S

LEMMA DecodeRuns ==
    ASSUME NEW X, NEW seq \in Seq(X), NEW base, NEW p,
           Running(p, Len(seq), "decode", base, seq, 1 .. Len(seq))
    PROVE  FoldLeft(DecodeFrame, base, seq) = p[Len(seq)]
<1>1. PICK n \in Nat : n = Len(seq) /\ DOMAIN seq = 1 .. n
  BY LenProperties
<1> DEFINE Q(g) == g = [s \in SUBSET (1 .. n) |->
                          IF s = {} THEN base ELSE DecodeFrame(g[s \ {Max(s)}], seq[Max(s)])]
           G == CHOOSE g : g = [s \in SUBSET (1 .. n) |->
                          IF s = {} THEN base ELSE DecodeFrame(g[s \ {Max(s)}], seq[Max(s)])]
<1>2. FoldLeft(DecodeFrame, base, seq) = G[1 .. n]
  BY <1>1 DEF FoldLeft, MapThenFoldSet
<1>3. \A g : FoldsOver(g, n, "decode", base, seq) <=> Q(g)
  BY DEF FoldsOver, Op
<1>4. Q(G)
  <2>1. \E g : Q(g)
    BY <1>3, FoldExists
  <2> QED BY <2>1
<1> HIDE DEF G, Q
<1>5. FoldsOver(G, n, "decode", base, seq)
  BY <1>3, <1>4
<1> QED BY <1>1, <1>2, <1>5, FoldRuns

LEMMA SetRuns ==
    ASSUME NEW X, NEW seq \in Seq(X), NEW base, NEW p,
           Running(p, Len(seq), "set", base, seq, 1 .. Len(seq))
    PROVE  FoldLeft(SetPin, base, seq) = p[Len(seq)]
<1>1. PICK n \in Nat : n = Len(seq) /\ DOMAIN seq = 1 .. n
  BY LenProperties
<1> DEFINE Q(g) == g = [s \in SUBSET (1 .. n) |->
                          IF s = {} THEN base ELSE SetPin(g[s \ {Max(s)}], seq[Max(s)])]
           G == CHOOSE g : g = [s \in SUBSET (1 .. n) |->
                          IF s = {} THEN base ELSE SetPin(g[s \ {Max(s)}], seq[Max(s)])]
<1>2. FoldLeft(SetPin, base, seq) = G[1 .. n]
  BY <1>1 DEF FoldLeft, MapThenFoldSet
<1>3. \A g : FoldsOver(g, n, "set", base, seq) <=> Q(g)
  BY DEF FoldsOver, Op
<1>4. Q(G)
  <2>1. \E g : Q(g)
    BY <1>3, FoldExists
  <2> QED BY <2>1
<1> HIDE DEF G, Q
<1>5. FoldsOver(G, n, "set", base, seq)
  BY <1>3, <1>4
<1> QED BY <1>1, <1>2, <1>5, FoldRuns

(* Of frames taken one by one: whether one of them tells a keg, and whether  *)
(* they are stored.                                                          *)
Kind(known, stores) ==
    IF known THEN IF stores THEN "kegStored" ELSE "kegLost"
    ELSE IF stores THEN "stored" ELSE "lost"

LEMMA KindIs ==
    ASSUME NEW known \in BOOLEAN, NEW stores \in BOOLEAN
    PROVE  \A a, x : Op(Kind(known, stores), a, x) = Stream!Alone(a, x, known, stores)
<1>1. CASE known = TRUE /\ stores = TRUE
  <2>1. Kind(known, stores) = "kegStored"
    BY <1>1 DEF Kind
  <2> QED BY <1>1, <2>1 DEF Op
<1>2. CASE known = TRUE /\ stores = FALSE
  <2>1. Kind(known, stores) = "kegLost"
    BY <1>2 DEF Kind
  <2> QED BY <1>2, <2>1 DEF Op
<1>3. CASE known = FALSE /\ stores = TRUE
  <2>1. Kind(known, stores) = "stored"
    BY <1>3 DEF Kind
  <2> QED BY <1>3, <2>1 DEF Op
<1>4. CASE known = FALSE /\ stores = FALSE
  <2>1. Kind(known, stores) = "lost"
    BY <1>4 DEF Kind
  <2> QED BY <1>4, <2>1 DEF Op
<1> QED BY <1>1, <1>2, <1>3, <1>4

LEMMA EachRuns ==
    ASSUME NEW X, NEW m \in Nat, NEW stores \in BOOLEAN, NEW known \in BOOLEAN, NEW p,
           SubSeq(stream, taken + 1, taken + m) \in Seq(X),
           Len(SubSeq(stream, taken + 1, taken + m)) = m,
           known = Stream!Known(SubSeq(stream, taken + 1, taken + m)),
           Running(p, m, Kind(known, stores), state, SubSeq(stream, taken + 1, taken + m), 1 .. m)
    PROVE  Stream!Each(m, stores) = p[m]
<1>1. PICK seq \in Seq(X) : /\ seq = SubSeq(stream, taken + 1, taken + m)
                            /\ Len(seq) = m /\ DOMAIN seq = 1 .. m
  BY LenProperties
<1> DEFINE Q(g) == g = [s \in SUBSET (1 .. m) |->
                          IF s = {} THEN state
                          ELSE Stream!Alone(g[s \ {Max(s)}], seq[Max(s)], known, stores)]
           G == CHOOSE g : g = [s \in SUBSET (1 .. m) |->
                          IF s = {} THEN state
                          ELSE Stream!Alone(g[s \ {Max(s)}], seq[Max(s)], known, stores)]
<1>2. Stream!Each(m, stores) = G[1 .. m]
  <2>1. \A s : Stream!Max(s) = Max(s)
    BY DEF Stream!Max, Max
  <2>2. known = Stream!Known(seq)
    BY <1>1
  <2> QED BY <1>1, <2>1, <2>2 DEF Stream!Each, Stream!FoldLeft, Stream!MapThenFoldSet
<1>3. \A g : FoldsOver(g, m, Kind(known, stores), state, seq) <=> Q(g)
  <2>1. \A a, x : Op(Kind(known, stores), a, x) = Stream!Alone(a, x, known, stores)
    BY KindIs
  <2> QED BY <2>1 DEF FoldsOver
<1>4. Q(G)
  <2>1. \E g : Q(g)
    BY <1>3, FoldExists
  <2> QED BY <2>1
<1> HIDE DEF G, Q
<1>5. FoldsOver(G, m, Kind(known, stores), state, seq)
  BY <1>3, <1>4
<1>6. Running(p, m, Kind(known, stores), state, seq, 1 .. m)
  BY <1>1
<1> QED BY <1>2, <1>5, <1>6, FoldRuns

(***************************************************************************)
(* Maps: what is set later counts.                                         *)
(***************************************************************************)

AMap(f) == f = [x \in DOMAIN f |-> f[x]]

LEMMA NoKeys == DOMAIN <<>> = {} /\ AMap(<<>>) /\ \A f : AMap(f) /\ DOMAIN f = {} => f = <<>>
BY DEF AMap

LEMMA UpdatedIs ==
    ASSUME NEW f, NEW g
    PROVE  AMap(Updated(f, g)) /\ DOMAIN Updated(f, g) = DOMAIN f \cup DOMAIN g
BY DEF Updated, AMap

LEMMA UpdatedTwice ==
    ASSUME NEW f, NEW g, NEW h
    PROVE  Updated(Updated(f, g), h) = Updated(f, Updated(g, h))
BY DEF Updated

LEMMA UpdatedByNone ==
    ASSUME NEW f, NEW g
    PROVE  /\ Updated(Updated(f, <<>>), g) = Updated(f, g)
           /\ Updated(f, Updated(<<>>, g)) = Updated(f, g)
           /\ Updated(f, Updated(g, <<>>)) = Updated(f, g)
           /\ AMap(f) => Updated(f, <<>>) = f /\ Updated(<<>>, f) = f
<1>1. Updated(Updated(f, <<>>), g) = Updated(f, g)
  BY NoKeys DEF Updated
<1>2. Updated(f, Updated(<<>>, g)) = Updated(f, g)
  BY NoKeys DEF Updated
<1>3. Updated(f, Updated(g, <<>>)) = Updated(f, g)
  BY NoKeys DEF Updated
<1>4. AMap(f) => Updated(f, <<>>) = f /\ Updated(<<>>, f) = f
  BY NoKeys DEF Updated, AMap
<1> QED BY <1>1, <1>2, <1>3, <1>4

LEMMA NoneUpdated ==
    ASSUME NEW f, NEW g, AMap(f), AMap(g)
    PROVE  Updated(f, g) = <<>> <=> f = <<>> /\ g = <<>>
<1>1. Updated(f, g) = <<>> => DOMAIN f = {} /\ DOMAIN g = {}
  <2>1. Updated(f, g) = <<>> => DOMAIN Updated(f, g) = {}
    BY NoKeys
  <2> QED BY <2>1, UpdatedIs
<1>2. DOMAIN f = {} /\ DOMAIN g = {} => Updated(f, g) = <<>>
  BY NoKeys, UpdatedIs
<1> QED BY <1>1, <1>2, NoKeys

(* A row is written over and over as if it had been written once.            *)
One(k, a) == [id \in {k} |-> a]

LEMMA WrittenTwice ==
    ASSUME NEW rows, NEW k, NEW a, NEW b
    PROVE  /\ Updated(Updated(rows, One(k, a)), One(k, b)) = Updated(rows, One(k, b))
           /\ k \in DOMAIN Updated(rows, One(k, a))
           /\ Updated(rows, One(k, a))[k] = a
BY DEF Updated, One

(***************************************************************************)
(* Packets: what frames mean together is what each means, joined.          *)
(***************************************************************************)

Packet(d, i, q, u) == [deviceID |-> d, internal |-> i, props |-> q, unknown |-> u]

APacket(p) ==
    /\ p = Packet(p.deviceID, p.internal, p.props, p.unknown)
    /\ AMap(p.internal) /\ AMap(p.unknown)
    /\ \E X : p.props \in Seq(X)

Put(q, x) == Append(q, x)
Cat(q, r) == q \o r
Device(d, d2) == IF d2 # Blank THEN d2 ELSE d

Joined(p, e) ==
    Packet(Device(p.deviceID, e.deviceID),
           Updated(p.internal, e.internal), Cat(p.props, e.props), Updated(p.unknown, e.unknown))

LEMMA PacketIs ==
    ASSUME NEW d, NEW i, NEW q, NEW u
    PROVE  /\ Packet(d, i, q, u).deviceID = d /\ Packet(d, i, q, u).internal = i
           /\ Packet(d, i, q, u).props = q /\ Packet(d, i, q, u).unknown = u
BY DEF Packet

LEMMA PacketMade ==
    ASSUME NEW d, NEW i, NEW q, NEW u, AMap(i), AMap(u), \E X : q \in Seq(X)
    PROVE  APacket(Packet(d, i, q, u))
<1> PICK p : p = Packet(d, i, q, u)
  OBVIOUS
<1>1. p.deviceID = d /\ p.internal = i /\ p.props = q /\ p.unknown = u
  BY PacketIs
<1>2. p = Packet(p.deviceID, p.internal, p.props, p.unknown)
  BY <1>1
<1>3. APacket(p)
  BY <1>1, <1>2, Zenon DEF APacket
<1> QED BY <1>3

LEMMA JoinedIs ==
    ASSUME NEW d, NEW i, NEW q, NEW u, NEW d2, NEW i2, NEW q2, NEW u2
    PROVE  Joined(Packet(d, i, q, u), Packet(d2, i2, q2, u2))
             = Packet(Device(d, d2), Updated(i, i2), Cat(q, q2), Updated(u, u2))
<1> PICK p, e : p = Packet(d, i, q, u) /\ e = Packet(d2, i2, q2, u2)
  OBVIOUS
<1>1. /\ p.internal = i /\ p.props = q /\ p.unknown = u /\ p.deviceID = d
      /\ e.internal = i2 /\ e.props = q2 /\ e.unknown = u2 /\ e.deviceID = d2
  BY PacketIs
<1>2. Joined(p, e) = Packet(Device(d, d2), Updated(i, i2), Cat(q, q2), Updated(u, u2))
  BY <1>1 DEF Joined
<1> QED BY <1>2

(* A frame does one thing to whatever packet it comes to.                    *)
Names(f, t) ==
    \A d, i, q, u :
       DecodeFrame(Packet(d, i, q, u), f) = Packet(Device(d, t), i, q, u)
Tells(f, m) ==
    \A d, i, q, u : DecodeFrame(Packet(d, i, q, u), f) = Packet(d, Updated(i, m), q, u)
Keeps(f, m) ==
    \A d, i, q, u : DecodeFrame(Packet(d, i, q, u), f) = Packet(d, i, q, Updated(u, m))
Writes(f, x) ==
    \A d, i, q, u : DecodeFrame(Packet(d, i, q, u), f) = Packet(d, i, Put(q, x), u)
Idles(f) ==
    \A d, i, q, u : DecodeFrame(Packet(d, i, q, u), f) = Packet(d, i, q, u)

LEMMA FrameDoes ==
    ASSUME NEW f
    PROVE  \/ Token(f) /\ Names(f, IF f.body # <<>> /\ f.body[1] # Blank THEN f.body[1] ELSE Blank)
           \/ ~Token(f) /\ ~PinWrite(f) /\ \E m : Tells(f, m)
           \/ ~Token(f) /\ PinWrite(f) /\ ((\E m : Keeps(f, m)) \/ \E x : Writes(f, x))
           \/ ~Token(f) /\ Idles(f)
<1> DEFINE fields == splitBody(f.body)
<1>1. CASE Token(f)
  <2> DEFINE t == IF f.body # <<>> /\ f.body[1] # Blank THEN f.body[1] ELSE Blank
  <2>1. ASSUME NEW d, NEW i, NEW q, NEW u
        PROVE  DecodeFrame(Packet(d, i, q, u), f) = Packet(Device(d, t), i, q, u)
    <3>1. CASE f.body # <<>> /\ f.body[1] # Blank
      BY <1>1, <3>1 DEF DecodeFrame, Token, Packet, Device
    <3>2. CASE ~(f.body # <<>> /\ f.body[1] # Blank)
      <4>1. DecodeFrame(Packet(d, i, q, u), f) = [Packet(d, i, q, u) EXCEPT !.deviceID = @]
        BY <1>1, <3>2 DEF DecodeFrame, Token
      <4>2. [Packet(d, i, q, u) EXCEPT !.deviceID = @] = Packet(d, i, q, u)
        BY DEF Packet
      <4> QED BY <3>2, <4>1, <4>2 DEF Device
    <3> QED BY <3>1, <3>2
  <2> HIDE DEF t
  <2>2. Names(f, t)
    BY <2>1 DEF Names
  <2> QED BY <1>1, <2>2 DEF t
<1>2. CASE f.cmd = "internal"
  <2>1. ~Token(f) /\ ~PinWrite(f)
    BY <1>2 DEF Token, PinWrite
  <2> DEFINE m == InternalOf(fields)
  <2>2. ASSUME NEW d, NEW i, NEW q, NEW u
        PROVE  DecodeFrame(Packet(d, i, q, u), f) = Packet(d, Updated(i, m), q, u)
    <3> HIDE DEF m
    <3>1. DecodeFrame(Packet(d, i, q, u), f)
            = [Packet(d, i, q, u) EXCEPT !.internal = Updated(@, m)]
      BY <1>2 DEF DecodeFrame, m
    <3> QED BY <3>1 DEF Packet
  <2> HIDE DEF m
  <2>3. Tells(f, m)
    BY <2>2 DEF Tells
  <2> QED BY <2>1, <2>3
<1>3. CASE PinWrite(f) /\ Len(fields) = 3
  <2> DEFINE cmd == f.cmd
             known == IF cmd = "hardware" THEN fields[2] \in DOMAIN hardwarePins
                      ELSE <<fields[1], fields[2]>> \in DOMAIN propertyPins
             pin == IF cmd = "hardware" THEN hardwarePins[fields[2]]
                    ELSE propertyPins[<<fields[1], fields[2]>>]
             m == [k \in {<<cmd, fields[1], fields[2]>>} |-> fields[3]]
             x == [name |-> pin.name, value |-> fields[3], transient |-> pin.transient]
  <2>1. \A p : DecodeFrame(p, f) = decodePinWrite(p, cmd, fields)
    BY <1>3 DEF DecodeFrame, PinWrite
  <2>2. ~Token(f)
    BY <1>3 DEF Token, PinWrite
  <2>3. ASSUME NEW p
        PROVE  decodePinWrite(p, cmd, fields) =
                  IF cmd = "hardware" /\ fields[1] # "vw" THEN p
                  ELSE IF ~known
                  THEN IF includeUnknown THEN [p EXCEPT !.unknown = Updated(@, m)] ELSE p
                  ELSE IF parseValue(pin, fields[3])
                  THEN [p EXCEPT !.props = Append(@, x)] ELSE p
    <3> HIDE DEF fields
    <3> QED BY DEF decodePinWrite
  <2> HIDE DEF fields, cmd, known, pin, m, x
  <2>4. CASE cmd = "hardware" /\ fields[1] # "vw"
    BY <2>1, <2>2, <2>3, <2>4 DEF Idles
  <2>5. CASE ~(cmd = "hardware" /\ fields[1] # "vw") /\ ~known
    <3>1. CASE includeUnknown
      <4>1. ASSUME NEW d, NEW i, NEW q, NEW u
            PROVE  DecodeFrame(Packet(d, i, q, u), f) = Packet(d, i, q, Updated(u, m))
        <5>1. DecodeFrame(Packet(d, i, q, u), f)
                = [Packet(d, i, q, u) EXCEPT !.unknown = Updated(@, m)]
          BY <2>1, <2>3, <2>5, <3>1
        <5> QED BY <5>1 DEF Packet
      <4>2. Keeps(f, m)
        BY <4>1 DEF Keeps
      <4> QED BY <1>3, <2>2, <4>2
    <3>2. CASE ~includeUnknown
      BY <2>1, <2>2, <2>3, <2>5, <3>2 DEF Idles
    <3> QED BY <3>1, <3>2
  <2>6. CASE ~(cmd = "hardware" /\ fields[1] # "vw") /\ known
    <3>1. CASE parseValue(pin, fields[3])
      <4>1. ASSUME NEW d, NEW i, NEW q, NEW u
            PROVE  DecodeFrame(Packet(d, i, q, u), f) = Packet(d, i, Put(q, x), u)
        <5>1. DecodeFrame(Packet(d, i, q, u), f)
                = [Packet(d, i, q, u) EXCEPT !.props = Append(@, x)]
          BY <2>1, <2>3, <2>6, <3>1
        <5> QED BY <5>1 DEF Packet, Put
      <4>2. Writes(f, x)
        BY <4>1 DEF Writes
      <4> QED BY <1>3, <2>2, <4>2
    <3>2. CASE ~parseValue(pin, fields[3])
      BY <2>1, <2>2, <2>3, <2>6, <3>2 DEF Idles
    <3> QED BY <3>1, <3>2
  <2> QED BY <2>4, <2>5, <2>6
<1>4. CASE ~Token(f) /\ f.cmd # "internal" /\ ~(PinWrite(f) /\ Len(fields) = 3)
  <2>1. \A p : DecodeFrame(p, f) = p
    BY <1>4 DEF DecodeFrame, Token, PinWrite
  <2> QED BY <1>4, <2>1 DEF Idles
<1> QED BY <1>1, <1>2, <1>3, <1>4

LEMMA NothingIn == APacket(EmptyPacket) /\ EmptyPacket = Packet(Blank, <<>>, <<>>, <<>>)
<1>1. <<>> \in Seq({}) /\ AMap(<<>>)
  BY EmptySeq, NoKeys
<1>2. EmptyPacket = Packet(Blank, <<>>, <<>>, <<>>)
  BY DEF EmptyPacket, Packet
<1>3. \E X : <<>> \in Seq(X)
  BY <1>1
<1> QED BY <1>1, <1>2, <1>3, PacketMade

LEMMA Appends ==
    ASSUME NEW q, NEW x, \E X : q \in Seq(X)
    PROVE  /\ Cat(q, <<>>) = q /\ Cat(q, <<x>>) = Put(q, x)
           /\ Put(<<>>, x) = <<x>> /\ Len(<<x>>) = 1 /\ <<x>> # <<>>
           /\ \E X : <<x>> \in Seq(X)
<1>1. PICK X : q \in Seq(X)
  OBVIOUS
<1>2. PICK Y : Y = X \cup {x}
  OBVIOUS
<1>3. q \in Seq(Y) /\ x \in Y /\ <<x>> \in Seq(Y)
  BY <1>1, <1>2
<1>4. q \o <<>> = q /\ q \o <<x>> \in Seq(Y)
  BY <1>3, ConcatEmptySeq, ConcatProperties
<1>5. q \o <<x>> = Append(q, x)
  BY <1>3
<1> QED BY <1>3, <1>4, <1>5 DEF Put, Cat

(* A frame by itself, and the packet it is joined to.                        *)
Joins(p, f, e) ==
    /\ APacket(e) /\ DecodeFrame(p, f) = Joined(p, e)
    /\ e.props = <<>> \/ \E x : e.props = <<x>>
    /\ Token(f) => e.internal = <<>> /\ e.props = <<>> /\ e.unknown = <<>>
    /\ Token(f) /\ f.body # <<>> /\ f.body[1] # Blank => e.deviceID # Blank
    /\ ~Token(f) => e.deviceID = Blank
    /\ ~PinWrite(f) => e.props = <<>> /\ e.unknown = <<>>

LEMMA FrameJoins ==
    ASSUME NEW p, APacket(p), NEW f
    PROVE  Joins(p, f, DecodeFrame(EmptyPacket, f))
<1>1. PICK d, i, q, u : /\ p = Packet(d, i, q, u) /\ AMap(i) /\ AMap(u)
                        /\ \E X : q \in Seq(X)
  BY DEF APacket
<1>2. /\ EmptyPacket = Packet(Blank, <<>>, <<>>, <<>>) /\ APacket(EmptyPacket)
      /\ EmptyPacket.deviceID = Blank /\ EmptyPacket.internal = <<>>
      /\ EmptyPacket.props = <<>> /\ EmptyPacket.unknown = <<>>
  BY NothingIn, PacketIs
<1>3. /\ Device(d, Blank) = d /\ Cat(q, <<>>) = q /\ Updated(i, <<>>) = i /\ Updated(u, <<>>) = u
      /\ AMap(<<>>) /\ \E X : <<>> \in Seq(X)
  <2>1. Device(d, Blank) = d
    BY DEF Device
  <2> QED BY <1>1, <2>1, Appends, UpdatedByNone, NoKeys, EmptySeq
<1> PICK e : e = DecodeFrame(EmptyPacket, f)
  OBVIOUS
<1>4. ASSUME ~Token(f), ~PinWrite(f), NEW m, Tells(f, m) PROVE Joins(p, f, e)
  <2>1. AMap(Updated(<<>>, m)) /\ Updated(i, Updated(<<>>, m)) = Updated(i, m)
    <3>1. AMap(Updated(<<>>, m))
      BY UpdatedIs
    <3> QED BY <3>1, UpdatedByNone
  <2>2. e = Packet(Blank, Updated(<<>>, m), <<>>, <<>>)
    BY <1>2, <1>4, <2>1 DEF Tells
  <2>3. DecodeFrame(p, f) = Packet(d, Updated(i, m), q, u)
    BY <1>1, <1>4 DEF Tells
  <2>4. APacket(e)
    BY <1>3, <2>1, <2>2, PacketMade
  <2>5. Joined(p, e) = Packet(d, Updated(i, m), q, u)
    <3>1. Joined(p, e) = Packet(Device(d, Blank), Updated(i, Updated(<<>>, m)), Cat(q, <<>>),
                                Updated(u, <<>>))
      BY <1>1, <2>2, JoinedIs
    <3> QED BY <1>3, <2>1, <3>1
  <2> QED BY <1>4, <2>2, <2>3, <2>4, <2>5, PacketIs DEF Joins
<1>5. ASSUME ~Token(f), PinWrite(f), NEW m, Keeps(f, m) PROVE Joins(p, f, e)
  <2>1. AMap(Updated(<<>>, m)) /\ Updated(u, Updated(<<>>, m)) = Updated(u, m)
    <3>1. AMap(Updated(<<>>, m))
      BY UpdatedIs
    <3> QED BY <3>1, UpdatedByNone
  <2>2. e = Packet(Blank, <<>>, <<>>, Updated(<<>>, m))
    BY <1>2, <1>5, <2>1 DEF Keeps
  <2>3. DecodeFrame(p, f) = Packet(d, i, q, Updated(u, m))
    BY <1>1, <1>5 DEF Keeps
  <2>4. APacket(e)
    BY <1>3, <2>1, <2>2, PacketMade
  <2>5. Joined(p, e) = Packet(d, i, q, Updated(u, m))
    <3>1. Joined(p, e) = Packet(Device(d, Blank), Updated(i, <<>>), Cat(q, <<>>),
                                Updated(u, Updated(<<>>, m)))
      BY <1>1, <2>2, JoinedIs
    <3> QED BY <1>3, <2>1, <3>1
  <2> QED BY <1>5, <2>2, <2>3, <2>4, <2>5, PacketIs DEF Joins
<1>6. ASSUME ~Token(f), PinWrite(f), NEW x, Writes(f, x) PROVE Joins(p, f, e)
  <2>1. /\ Put(<<>>, x) = <<x>> /\ Cat(q, <<x>>) = Put(q, x)
        /\ \E X : <<x>> \in Seq(X)
    BY <1>1, Appends
  <2>2. e = Packet(Blank, <<>>, <<x>>, <<>>)
    <3>1. e = Packet(Blank, <<>>, Put(<<>>, x), <<>>)
      BY <1>2, <1>6 DEF Writes
    <3> QED BY <2>1, <3>1
  <2>3. DecodeFrame(p, f) = Packet(d, i, Put(q, x), u)
    BY <1>1, <1>6 DEF Writes
  <2>4. APacket(e)
    BY <1>3, <2>1, <2>2, PacketMade
  <2>5. Joined(p, e) = Packet(d, i, Put(q, x), u)
    <3>1. Joined(p, e) = Packet(Device(d, Blank), Updated(i, <<>>), Cat(q, <<x>>),
                                Updated(u, <<>>))
      BY <1>1, <2>2, JoinedIs
    <3> QED BY <1>3, <2>1, <3>1
  <2>6. e.props = <<x>> /\ e.deviceID = Blank
    BY <2>2, PacketIs
  <2> QED BY <1>6, <2>3, <2>4, <2>5, <2>6 DEF Joins
<1>7. ASSUME ~Token(f), Idles(f) PROVE Joins(p, f, e)
  <2>1. e = EmptyPacket /\ DecodeFrame(p, f) = p
    BY <1>1, <1>2, <1>7 DEF Idles
  <2>2. Joined(p, e) = p
    <3>1. Joined(p, e) = Packet(Device(d, Blank), Updated(i, <<>>), Cat(q, <<>>),
                                Updated(u, <<>>))
      BY <1>1, <1>2, <2>1, JoinedIs
    <3> QED BY <1>1, <1>3, <3>1
  <2> QED BY <1>2, <1>7, <2>1, <2>2 DEF Joins
<1>8. ASSUME Token(f), Names(f, IF f.body # <<>> /\ f.body[1] # Blank THEN f.body[1] ELSE Blank)
      PROVE  Joins(p, f, e)
  <2>1. PICK t : /\ t = (IF f.body # <<>> /\ f.body[1] # Blank THEN f.body[1] ELSE Blank)
                 /\ Names(f, t)
    BY <1>8
  <2>2. e = Packet(t, <<>>, <<>>, <<>>)
    <3>1. e = Packet(Device(Blank, t), <<>>, <<>>, <<>>)
      BY <1>2, <2>1 DEF Names
    <3> QED BY <3>1 DEF Device
  <2>3. DecodeFrame(p, f) = Packet(Device(d, t), i, q, u)
    BY <1>1, <2>1 DEF Names
  <2>4. APacket(e)
    BY <1>3, <2>2, PacketMade
  <2>5. Joined(p, e) = Packet(Device(d, t), i, q, u)
    <3>1. Joined(p, e) = Packet(Device(d, t), Updated(i, <<>>), Cat(q, <<>>),
                                Updated(u, <<>>))
      BY <1>1, <2>2, JoinedIs
    <3> QED BY <1>3, <3>1
  <2> QED BY <1>8, <2>1, <2>2, <2>3, <2>4, <2>5, PacketIs DEF Joins
<1>9. Joins(p, f, e)
  BY <1>4, <1>5, <1>6, <1>7, <1>8, FrameDoes
<1> QED BY <1>9

(***************************************************************************)
(* Rows: a packet leaves a row as its frames leave it one by one.          *)
(***************************************************************************)

Pins(base, q) == FoldLeft(SetPin, base, q)

LEMMA SetTwice ==
    ASSUME NEW base, NEW q, \E X : q \in Seq(X)
    PROVE  /\ Pins(base, <<>>) = base
           /\ \A x : Pins(base, Put(q, x)) = SetPin(Pins(base, q), x)
<1>1. PICK X : q \in Seq(X)
  OBVIOUS
<1>2. Pins(base, <<>>) = base
  <2>1. <<>> \in Seq(X) /\ Len(<<>>) = 0
    OBVIOUS
  <2>2. PICK p : Running(p, 0, "set", base, <<>>, 1 .. 0)
    BY RunsOn
  <2>3. Running(p, Len(<<>>), "set", base, <<>>, 1 .. Len(<<>>))
    BY <2>1, <2>2
  <2>4. FoldLeft(SetPin, base, <<>>) = p[Len(<<>>)]
    BY <2>1, <2>3, SetRuns
  <2> QED BY <2>1, <2>2, <2>4 DEF Running, Pins
<1>3. ASSUME NEW x PROVE Pins(base, Put(q, x)) = SetPin(Pins(base, q), x)
  <2>1. PICK Y, r : Y = X \cup {x} /\ r = Append(q, x)
    OBVIOUS
  <2>2. PICK n \in Nat, m \in Nat : n = Len(q) /\ m = n + 1
    BY <1>1
  <2>3. q \in Seq(Y) /\ r \in Seq(Y) /\ Len(r) = m /\ r[m] = x /\ \A i \in 1 .. n : r[i] = q[i]
    <3>1. q \in Seq(Y) /\ x \in Y
      BY <1>1, <2>1
    <3> QED BY <2>1, <2>2, <3>1, AppendProperties
  <2>4. PICK p : Running(p, n, "set", base, q, 1 .. n)
    BY RunsOn
  <2>5. PICK p2 : Running(p2, m, "set", base, r, 1 .. m)
    BY RunsOn
  <2>6. p[n] = p2[n]
    <3>1. n \in 0 .. n /\ n <= m /\ \A i \in 1 .. n : (i \in 1 .. n <=> i \in 1 .. m) /\ q[i] = r[i]
      BY <2>2, <2>3
    <3> QED BY <2>4, <2>5, <3>1, RunsAlike
  <2>7. p2[m] = SetPin(p2[n], x)
    <3>1. m \in 1 .. m /\ m - 1 = n
      BY <2>2
    <3>2. p2[m] = Op("set", p2[n], r[m])
      BY <2>5, <3>1 DEF Running
    <3> QED BY <2>3, <3>2 DEF Op
  <2>8. Pins(base, q) = p[n]
    BY <2>2, <2>3, <2>4, SetRuns DEF Pins
  <2>9. Pins(base, r) = p2[m]
    BY <2>3, <2>5, SetRuns DEF Pins
  <2> QED BY <2>1, <2>6, <2>7, <2>8, <2>9 DEF Put
<1> QED BY <1>2, <1>3

Few(q) == q = <<>> \/ \E x : q = <<x>>

LEMMA PinsTwice ==
    ASSUME NEW base, NEW q, \E X : q \in Seq(X), NEW q2, Few(q2)
    PROVE  /\ Pins(Pins(base, q), q2) = Pins(base, Cat(q, q2))
           /\ Cat(q, q2) = <<>> <=> q = <<>> /\ q2 = <<>>
           /\ q = <<>> => Cat(q, q2) = q2
           /\ q2 = <<>> => Cat(q, q2) = q
<1>0. \E X : <<>> \in Seq(X)
  BY EmptySeq
<1>1. CASE q2 = <<>>
  BY <1>1, SetTwice, Appends
<1>2. ASSUME NEW x, q2 = <<x>> PROVE
           /\ Pins(Pins(base, q), q2) = Pins(base, Cat(q, q2))
           /\ Cat(q, q2) = <<>> <=> q = <<>> /\ q2 = <<>>
           /\ q = <<>> => Cat(q, q2) = q2
           /\ q2 = <<>> => Cat(q, q2) = q
  <2>1. /\ Cat(q, q2) = Put(q, x) /\ q2 = Put(<<>>, x) /\ q2 # <<>>
        /\ \E X : <<>> \in Seq(X)
    BY <1>0, <1>2, Appends
  <2>2. Pins(base, Put(q, x)) = SetPin(Pins(base, q), x)
    BY SetTwice
  <2>3. Pins(Pins(base, q), Put(<<>>, x)) = SetPin(Pins(Pins(base, q), <<>>), x)
    <3>1. PICK c : c = Pins(base, q)
      OBVIOUS
    <3>2. \A z : (\E X : z \in Seq(X)) => Pins(c, Put(z, x)) = SetPin(Pins(c, z), x)
      BY SetTwice
    <3> QED BY <2>1, <3>1, <3>2, Zenon
  <2>4. Pins(Pins(base, q), <<>>) = Pins(base, q)
    BY SetTwice
  <2>5. Put(q, x) # <<>>
    <3>1. PICK X : q \in Seq(X)
      OBVIOUS
    <3>2. PICK Y : Y = X \cup {x}
      OBVIOUS
    <3>3. q \in Seq(Y) /\ x \in Y
      BY <3>1, <3>2
    <3>4. Len(Append(q, x)) = Len(q) + 1 /\ Len(q) \in Nat
      BY <3>3, AppendProperties
    <3>5. Append(q, x) # <<>>
      BY <3>4
    <3> QED BY <3>5 DEF Put
  <2> QED BY <2>1, <2>2, <2>3, <2>4, <2>5
<1> QED BY <1>1, <1>2 DEF Few

Row(rows, k) == IF k \in DOMAIN rows THEN rows[k] ELSE NewKeg

Applied(row, q, i, u) ==
    [props |-> Pins(row.props, q), internal |-> Updated(row.internal, i),
     extra |-> Updated(row.extra, u)]

LEMMA ApplyIs ==
    ASSUME NEW rows, NEW k, NEW pkt, NEW i
    PROVE  ApplyPacket(rows, k, pkt, i)
             = Updated(rows, One(k, Applied(Row(rows, k), pkt.props, i, pkt.unknown)))
BY DEF ApplyPacket, Applied, Row, Pins, One

LEMMA AppliedTwice ==
    ASSUME NEW row, NEW q, NEW i, NEW u, NEW q2, NEW i2, NEW u2,
           \E X : q \in Seq(X), Few(q2)
    PROVE  Applied(Applied(row, q, i, u), q2, Updated(<<>>, i2), u2)
             = Applied(row, Cat(q, q2), Updated(i, i2), Updated(u, u2))
<1>1. PICK r : r = Applied(row, q, i, u)
  OBVIOUS
<1>2. /\ r.props = Pins(row.props, q) /\ r.internal = Updated(row.internal, i)
      /\ r.extra = Updated(row.extra, u)
  BY <1>1 DEF Applied
<1>3. Pins(r.props, q2) = Pins(row.props, Cat(q, q2))
  BY <1>2, PinsTwice
<1>4. Updated(r.internal, Updated(<<>>, i2)) = Updated(row.internal, Updated(i, i2))
  <2>1. Updated(r.internal, Updated(<<>>, i2)) = Updated(r.internal, i2)
    BY UpdatedByNone
  <2> QED BY <1>2, <2>1, UpdatedTwice
<1>5. Updated(r.extra, u2) = Updated(row.extra, Updated(u, u2))
  BY <1>2, UpdatedTwice
<1> QED BY <1>1, <1>3, <1>4, <1>5 DEF Applied

(* What ingest stores of a packet, with the metadata that goes with it.      *)
Rows(rows, k, pkt, i, stores) ==
    IF ~stores \/ (pkt.props = <<>> /\ i = <<>> /\ pkt.unknown = <<>>) THEN rows
    ELSE ApplyPacket(rows, k, pkt, i)

LEMMA RowsTwice ==
    ASSUME NEW rows, NEW k, NEW p, APacket(p), NEW e, APacket(e), Few(e.props),
           NEW i, AMap(i), NEW stores \in BOOLEAN
    PROVE  Rows(Rows(rows, k, p, i, stores), k, e, Updated(<<>>, e.internal), stores)
             = Rows(rows, k, Joined(p, e), Updated(i, e.internal), stores)
<1> DEFINE None1 == p.props = <<>> /\ i = <<>> /\ p.unknown = <<>>
           None2 == e.props = <<>> /\ e.internal = <<>> /\ e.unknown = <<>>
<1>1. PICK j : j = Joined(p, e)
  OBVIOUS
<1>2. j.props = Cat(p.props, e.props) /\ j.unknown = Updated(p.unknown, e.unknown)
  BY <1>1, PacketIs DEF Joined
<1>3. /\ AMap(p.internal) /\ AMap(e.internal) /\ AMap(p.unknown) /\ AMap(e.unknown)
      /\ \E X : p.props \in Seq(X)
  BY DEF APacket
<1>4. Updated(<<>>, e.internal) = e.internal
  BY <1>3, UpdatedByNone
<1>5. CASE ~stores
  BY <1>5 DEF Rows
<1>6. CASE stores /\ None1
  <2>1. j.props = e.props
    BY <1>2, <1>3, <1>6, PinsTwice
  <2>2. j.unknown = e.unknown
    BY <1>2, <1>3, <1>6, UpdatedByNone
  <2>3. Rows(rows, k, p, i, stores) = rows
    BY <1>6 DEF Rows
  <2> QED BY <1>1, <1>6, <2>1, <2>2, <2>3, ApplyIs DEF Rows
<1>7. CASE stores /\ None2
  <2>1. j.props = p.props
    BY <1>2, <1>3, <1>7, PinsTwice
  <2>2. j.unknown = p.unknown /\ Updated(i, e.internal) = i
    BY <1>2, <1>3, <1>7, UpdatedByNone
  <2>3. ASSUME NEW r PROVE Rows(r, k, e, Updated(<<>>, e.internal), stores) = r
    BY <1>4, <1>7 DEF Rows
  <2> QED BY <1>1, <1>7, <2>1, <2>2, <2>3, ApplyIs DEF Rows
<1>8. CASE stores /\ ~None1 /\ ~None2
  <2>1. ~(j.props = <<>> /\ Updated(i, e.internal) = <<>> /\ j.unknown = <<>>)
    <3>1. j.props = <<>> => p.props = <<>> /\ e.props = <<>>
      BY <1>2, <1>3, PinsTwice
    <3>2. Updated(i, e.internal) = <<>> => i = <<>> /\ e.internal = <<>>
      BY <1>3, NoneUpdated
    <3>3. j.unknown = <<>> => p.unknown = <<>> /\ e.unknown = <<>>
      BY <1>2, <1>3, NoneUpdated
    <3> QED BY <1>8, <3>1, <3>2, <3>3
  <2> DEFINE a == Applied(Row(rows, k), p.props, i, p.unknown)
             mid == Updated(rows, One(k, a))
             b == Applied(a, e.props, Updated(<<>>, e.internal), e.unknown)
  <2>2. Rows(rows, k, p, i, stores) = mid
    BY <1>8, ApplyIs DEF Rows
  <2>3. Row(mid, k) = a
    BY WrittenTwice DEF Row
  <2>4. b = Applied(Row(rows, k), j.props, Updated(i, e.internal), j.unknown)
    BY <1>2, <1>3, AppliedTwice
  <2> HIDE DEF a, b
  <2>5. Rows(mid, k, e, Updated(<<>>, e.internal), stores) = Updated(mid, One(k, b))
    <3> HIDE DEF mid
    <3> QED BY <1>4, <1>8, <2>3, ApplyIs DEF Rows, b
  <2>6. Updated(mid, One(k, b)) = Updated(rows, One(k, b))
    BY WrittenTwice
  <2>7. Rows(rows, k, j, Updated(i, e.internal), stores) = Updated(rows, One(k, b))
    BY <1>8, <2>1, <2>4, ApplyIs DEF Rows
  <2> HIDE DEF mid
  <2> QED BY <1>1, <2>2, <2>5, <2>6, <2>7
<1> QED BY <1>5, <1>6, <1>7, <1>8

(***************************************************************************)
(* ingest: what a batch does is what its frames do one by one.             *)
(***************************************************************************)

Held(k, c, h, r) == [kegID |-> k, confirmed |-> c, pendingInternal |-> h, refused |-> r]

State(k, c, h, r, rows) == [peer |-> Held(k, c, h, r), stored |-> rows]

LEMMA StateIs ==
    ASSUME NEW k, NEW c, NEW h, NEW r, NEW rows
    PROVE  /\ State(k, c, h, r, rows).stored = rows
           /\ State(k, c, h, r, rows).peer = Held(k, c, h, r)
           /\ Held(k, c, h, r).kegID = k /\ Held(k, c, h, r).confirmed = c
           /\ Held(k, c, h, r).pendingInternal = h /\ Held(k, c, h, r).refused = r
BY DEF State, Held

(* Truth values are named: the provers do not take formulas for values.      *)
No == FALSE
Yes == TRUE

Known(peer, k, c) == [peer EXCEPT !.kegID = k, !.confirmed = c]
Holding(peer, h) == [peer EXCEPT !.pendingInternal = h]
Refused(peer, r) == [peer EXCEPT !.refused = r]
At(s, peer) == [s EXCEPT !.peer = peer]

LEMMA Changes ==
    ASSUME NEW k, NEW c, NEW h, NEW r, NEW a, NEW b
    PROVE  /\ Known(Held(k, c, h, r), a, b) = Held(a, b, h, r)
           /\ Holding(Held(k, c, h, r), a) = Held(k, c, a, r)
           /\ Refused(Held(k, c, h, r), a) = Held(k, c, h, a)
<1>1. [Held(k, c, h, r) EXCEPT !.pendingInternal = a] = Held(k, c, a, r)
  BY DEF Held
<1>2. [Held(k, c, h, r) EXCEPT !.refused = a] = Held(k, c, h, a)
  BY DEF Held
<1>3. [Held(k, c, h, r) EXCEPT !.kegID = a] = Held(a, c, h, r)
  BY DEF Held
<1>4. [Held(a, c, h, r) EXCEPT !.confirmed = b] = Held(a, b, h, r)
  BY DEF Held
<1>5. PICK p, q : p = Held(k, c, h, r) /\ q = [p EXCEPT !.kegID = a]
  OBVIOUS
<1>6. [p EXCEPT !.kegID = a, !.confirmed = b] = [q EXCEPT !.confirmed = b]
  BY <1>5, Zenon
<1>7. q = Held(a, c, h, r)
  BY <1>3, <1>5
<1>8. Known(Held(k, c, h, r), a, b) = Held(a, b, h, r)
  BY <1>4, <1>5, <1>6, <1>7 DEF Known
<1> QED BY <1>1, <1>2, <1>8 DEF Holding, Refused

Malformed(d) == d # Blank /\ d \notin Tokens

(* ingest of a packet, by a device that was not refused.                     *)
Got(k, c, h, rows, p, stores) ==
    LET id == Device(k, p.deviceID)
        i == Updated(h, p.internal)
    IN IF Malformed(p.deviceID) THEN State(None, No, <<>>, Yes, rows)
       ELSE IF ~(c = Yes \/ identifiesAKeg(p)) THEN State(id, No, i, No, rows)
       ELSE IF id = None THEN State(id, Yes, h, No, rows)
       ELSE State(id, Yes, <<>>, No, Rows(rows, id, p, i, stores))

LEMMA GotIs ==
    ASSUME NEW k, NEW c \in {No, Yes}, NEW h, NEW rows, NEW frames, NEW stores \in BOOLEAN
    PROVE  ingest(State(k, c, h, No, rows), frames, stores)
             = Got(k, c, h, rows, Decode(frames), stores)
<1> PICK s, p : s = State(k, c, h, No, rows) /\ p = Decode(frames)
  OBVIOUS
<1> DEFINE id == IF p.deviceID # Blank THEN p.deviceID ELSE s.peer.kegID
           con == s.peer.confirmed \/ identifiesAKeg(p)
           i == Updated(s.peer.pendingInternal, p.internal)
           known == Known(s.peer, id, con)
<1>1. /\ s.peer = Held(k, c, h, No) /\ s.stored = rows
      /\ s.peer.kegID = k /\ s.peer.confirmed = c /\ s.peer.pendingInternal = h
  BY StateIs
<1>2. id = Device(k, p.deviceID) /\ i = Updated(h, p.internal)
  BY <1>1 DEF Device
<1>3. con = IF c = Yes \/ identifiesAKeg(p) THEN Yes ELSE No
  BY <1>1 DEF No, Yes
<1>4. ingest(s, frames, stores) =
         IF Malformed(p.deviceID) THEN At(s, Refused(Stranger, Yes))
         ELSE IF ~con THEN At(s, Holding(known, i))
         ELSE IF id = None THEN At(s, known)
         ELSE [peer |-> Holding(known, <<>>),
               stored |-> IF ~stores \/ (p.props = <<>> /\ i = <<>> /\ p.unknown = <<>>)
                          THEN s.stored ELSE ApplyPacket(s.stored, id, p, i)]
  BY DEF ingest, WithPending, Malformed, At, Refused, Holding, Known, Yes
<1>5. ~con <=> con = No
  BY <1>3 DEF No, Yes
<1> HIDE DEF id, con, i
<1>6. known = Held(id, con, h, No)
  BY <1>1, Changes
<1>7. \A x : At(s, x) = [peer |-> x, stored |-> rows]
  BY DEF At, State
<1> HIDE DEF known
<1>8. CASE Malformed(p.deviceID)
  <2>1. PICK x : x = <<>> /\ Stranger = Held(None, No, x, No)
    BY DEF Stranger, Held, No
  <2>2. Refused(Stranger, Yes) = Held(None, No, x, Yes)
    <3>1. Refused(Held(None, No, x, No), Yes) = Held(None, No, x, Yes)
      BY Changes
    <3> QED BY <2>1, <3>1, Zenon
  <2> QED BY <1>4, <1>7, <1>8, <2>1, <2>2 DEF Got, State
<1>9. CASE ~Malformed(p.deviceID) /\ ~con
  <2>1. con = No /\ ~(c = Yes \/ identifiesAKeg(p))
    BY <1>3, <1>5, <1>9 DEF No, Yes
  <2>2. Holding(known, i) = Held(id, No, i, No)
    BY <1>6, <2>1, Changes
  <2>3. ingest(s, frames, stores) = State(id, No, i, No, rows)
    BY <1>4, <1>7, <1>9, <2>2 DEF State
  <2>4. Got(k, c, h, rows, p, stores) = State(id, No, i, No, rows)
    BY <1>2, <1>9, <2>1 DEF Got
  <2> QED BY <2>3, <2>4
<1>10. ASSUME ~Malformed(p.deviceID), con
       PROVE  con = Yes /\ (c = Yes \/ identifiesAKeg(p))
  BY <1>3, <1>5, <1>10 DEF No, Yes
<1>11. CASE ~Malformed(p.deviceID) /\ con /\ id = None
  <2>1. con = Yes /\ (c = Yes \/ identifiesAKeg(p))
    BY <1>10, <1>11
  <2>2. known = Held(id, Yes, h, No)
    BY <1>6, <2>1
  <2>3. ingest(s, frames, stores) = State(id, Yes, h, No, rows)
    BY <1>4, <1>7, <1>11, <2>2 DEF State
  <2>4. Got(k, c, h, rows, p, stores) = State(id, Yes, h, No, rows)
    BY <1>2, <1>11, <2>1 DEF Got
  <2> QED BY <2>3, <2>4
<1>12. CASE ~Malformed(p.deviceID) /\ con /\ id # None
  <2>1. con = Yes /\ (c = Yes \/ identifiesAKeg(p))
    BY <1>10, <1>12
  <2>2. Holding(known, <<>>) = Held(id, Yes, <<>>, No)
    <3>1. PICK x : x = <<>>
      OBVIOUS
    <3>2. Holding(known, x) = Held(id, Yes, x, No)
      BY <1>6, <2>1, Changes
    <3> QED BY <3>1, <3>2
  <2>3. ingest(s, frames, stores) = State(id, Yes, <<>>, No, Rows(rows, id, p, i, stores))
    BY <1>1, <1>4, <1>12, <2>2 DEF State, Rows
  <2>4. Got(k, c, h, rows, p, stores)
          = State(id, Yes, <<>>, No, Rows(rows, id, p, i, stores))
    BY <1>2, <1>12, <2>1 DEF Got
  <2> QED BY <2>3, <2>4
<1> QED BY <1>8, <1>9, <1>11, <1>12

LEMMA DecodeOne == \A f : Decode(<<f>>) = DecodeFrame(EmptyPacket, f)
<1> SUFFICES ASSUME NEW f PROVE Decode(<<f>>) = DecodeFrame(EmptyPacket, f)
  OBVIOUS
<1>1. PICK q : q = <<f>> /\ q \in Seq({f}) /\ Len(q) = 1 /\ q[1] = f
  <2>1. <<f>> \in Seq({f}) /\ Len(<<f>>) = 1 /\ <<f>>[1] = f
    OBVIOUS
  <2> QED BY <2>1, Zenon
<1>2. PICK p : Running(p, 1, "decode", EmptyPacket, q, 1 .. 1)
  BY RunsOn
<1>3. FoldLeft(DecodeFrame, EmptyPacket, q) = p[1]
  <2>1. Running(p, Len(q), "decode", EmptyPacket, q, 1 .. Len(q))
    BY <1>1, <1>2
  <2> QED BY <1>1, <2>1, DecodeRuns
<1>4. p[1] = DecodeFrame(EmptyPacket, f)
  <2>1. p[0] = EmptyPacket /\ p[1] = Op("decode", p[1 - 1], q[1])
    BY <1>2 DEF Running
  <2> QED BY <1>1, <2>1 DEF Op
<1> QED BY <1>1, <1>3, <1>4 DEF Decode

LEMMA IdentifiesJoined ==
    ASSUME NEW p, APacket(p), NEW e, Few(e.props)
    PROVE  identifiesAKeg(Joined(p, e)) <=> identifiesAKeg(p) \/ identifiesAKeg(e)
<1>1. PICK q, q2, r : /\ q = p.props /\ q2 = e.props /\ r = Joined(p, e).props
                      /\ r = Cat(q, q2) /\ \E X : q \in Seq(X)
  BY PacketIs DEF Joined, APacket
<1>2. CASE q2 = <<>>
  <2>1. r = q
    BY <1>1, <1>2, Appends
  <2>2. DOMAIN q2 = {}
    BY <1>2
  <2> QED BY <1>1, <2>1, <2>2 DEF identifiesAKeg
<1>3. ASSUME NEW x, q2 = <<x>>
      PROVE  identifiesAKeg(Joined(p, e)) <=> identifiesAKeg(p) \/ identifiesAKeg(e)
  <2>1. r = Append(q, x)
    BY <1>1, <1>3, Appends DEF Put
  <2>2. PICK X : q \in Seq(X) /\ x \in X
    <3>1. PICK Y : q \in Seq(Y)
      BY <1>1
    <3>2. PICK X : X = Y \cup {x}
      OBVIOUS
    <3> QED BY <3>1, <3>2
  <2>3. PICK n \in Nat : n = Len(q) /\ DOMAIN q = 1 .. n
    BY <2>2, LenProperties
  <2>4. /\ DOMAIN r = 1 .. n + 1 /\ r[n + 1] = x /\ \A i \in 1 .. n : r[i] = q[i]
    BY <2>1, <2>2, <2>3, AppendProperties, LenProperties
  <2>5. DOMAIN q2 = {1} /\ q2[1] = x
    BY <1>3
  <2>6. \A i : i \in 1 .. n + 1 <=> i \in 1 .. n \/ i = n + 1
    BY <2>3
  <2>7. (\E i \in DOMAIN r : r[i].name \in kegIdentifyingPins)
          <=> (\E i \in DOMAIN q : q[i].name \in kegIdentifyingPins) \/ x.name \in kegIdentifyingPins
    BY <2>3, <2>4, <2>6
  <2>8. (\E i \in DOMAIN q2 : q2[i].name \in kegIdentifyingPins) <=> x.name \in kegIdentifyingPins
    BY <2>5
  <2> QED BY <1>1, <2>7, <2>8 DEF identifiesAKeg
<1> QED BY <1>1, <1>2, <1>3 DEF Few

(* The same, on being told whether the device is known to be a keg.          *)
Heard(on, k, h, rows, p, stores) ==
    LET id == Device(k, p.deviceID)
        i == Updated(h, p.internal)
    IN IF Malformed(p.deviceID) THEN State(None, No, <<>>, Yes, rows)
       ELSE IF on # Yes THEN State(id, No, i, No, rows)
       ELSE IF id = None THEN State(id, Yes, h, No, rows)
       ELSE State(id, Yes, <<>>, No, Rows(rows, id, p, i, stores))

LEMMA GotHeard ==
    ASSUME NEW k, NEW c, NEW h, NEW rows, NEW p, NEW stores,
           NEW on, on = Yes <=> c = Yes \/ identifiesAKeg(p)
    PROVE  Got(k, c, h, rows, p, stores) = Heard(on, k, h, rows, p, stores)
BY DEF Got, Heard

LEMMA Confirms ==
    ASSUME NEW k, NEW c, NEW h, NEW r, NEW rows
    PROVE  [State(k, c, h, r, rows) EXCEPT !.peer.confirmed = TRUE] = State(k, Yes, h, r, rows)
<1>1. PICK s, q : s = State(k, c, h, r, rows) /\ q = Held(k, c, h, r)
  OBVIOUS
<1>2. s = [peer |-> q, stored |-> rows] /\ s.peer = q
  BY <1>1 DEF State
<1>3. [q EXCEPT !.confirmed = TRUE] = Held(k, Yes, h, r)
  <2>1. \A b : [Held(k, c, h, r) EXCEPT !.confirmed = b] = Held(k, b, h, r)
    BY DEF Held
  <2>2. [Held(k, c, h, r) EXCEPT !.confirmed = Yes] = Held(k, Yes, h, r)
    BY <2>1
  <2> QED BY <1>1, <2>2 DEF Yes
<1>4. [s EXCEPT !.peer.confirmed = TRUE] = [s EXCEPT !.peer = [q EXCEPT !.confirmed = TRUE]]
  BY <1>2
<1>5. [s EXCEPT !.peer = Held(k, Yes, h, r)] = State(k, Yes, h, r, rows)
  BY <1>2 DEF State
<1> QED BY <1>1, <1>3, <1>4, <1>5

LEMMA AloneIs ==
    ASSUME NEW k, NEW c \in {No, Yes}, NEW h, NEW rows, NEW f, NEW e,
           e = DecodeFrame(EmptyPacket, f), NEW stores \in BOOLEAN, NEW known \in BOOLEAN,
           NEW w \in {No, Yes}, w = Yes <=> c = Yes \/ (known /\ PinWrite(f)),
           identifiesAKeg(e) => known /\ PinWrite(f)
    PROVE  Stream!Alone(State(k, c, h, No, rows), f, known, stores)
             = Heard(w, k, h, rows, e, stores)
<1> PICK s : s = State(k, c, h, No, rows)
  OBVIOUS
<1>1. s.peer.refused = No
  BY StateIs
<1>2. \A x \in {No, Yes} : ingest(State(k, x, h, No, rows), <<f>>, stores)
                             = Got(k, x, h, rows, e, stores)
  BY GotIs, DecodeOne
<1>3. CASE known /\ PinWrite(f)
  <2>1. Stream!Alone(s, f, known, stores)
          = ingest([s EXCEPT !.peer.confirmed = TRUE], <<f>>, stores)
    BY <1>1, <1>3 DEF Stream!Alone, No
  <2>2. [s EXCEPT !.peer.confirmed = TRUE] = State(k, Yes, h, No, rows)
    BY Confirms
  <2>3. Got(k, Yes, h, rows, e, stores) = Heard(w, k, h, rows, e, stores)
    BY <1>3, GotHeard
  <2> QED BY <1>2, <2>1, <2>2, <2>3
<1>4. CASE ~(known /\ PinWrite(f))
  <2>1. Stream!Alone(s, f, known, stores) = ingest(s, <<f>>, stores)
    BY <1>1, <1>4 DEF Stream!Alone, No
  <2>2. Got(k, c, h, rows, e, stores) = Heard(w, k, h, rows, e, stores)
    BY <1>4, GotHeard
  <2> QED BY <1>2, <2>1, <2>2
<1> QED BY <1>3, <1>4

(* When a packet may be followed by a frame: a token is the first that came  *)
(* and comes before any pin; a device is known to be a keg by its token; and *)
(* it becomes known at the first pin write of a batch.                       *)
Fits(k, on, w, p, e) ==
    /\ on = Yes => w = Yes
    /\ e.deviceID # Blank => p.deviceID = Blank /\ w # Yes
    /\ ~Malformed(p.deviceID) /\ w = Yes => Device(k, p.deviceID) # None
    /\ w = Yes /\ on # Yes => p.props = <<>> /\ p.unknown = <<>>

LEMMA HeardTwice ==
    ASSUME NEW k, NEW on \in {No, Yes}, NEW w \in {No, Yes}, NEW h, NEW rows,
           NEW p, APacket(p), NEW f, NEW e, e = DecodeFrame(EmptyPacket, f), APacket(e),
           Few(e.props), NEW stores \in BOOLEAN, NEW known \in BOOLEAN,
           w = Yes <=> on = Yes \/ (known /\ PinWrite(f)),
           identifiesAKeg(e) => known /\ PinWrite(f), Fits(k, on, w, p, e)
    PROVE  Stream!Alone(Heard(on, k, h, rows, p, stores), f, known, stores)
             = Heard(w, k, h, rows, Joined(p, e), stores)
<1> PICK j, id, i : /\ j = Joined(p, e) /\ id = Device(k, p.deviceID)
                    /\ i = Updated(h, p.internal)
  OBVIOUS
<1>1. /\ j.deviceID = Device(p.deviceID, e.deviceID)
      /\ j.internal = Updated(p.internal, e.internal)
      /\ j.props = Cat(p.props, e.props) /\ j.unknown = Updated(p.unknown, e.unknown)
  BY PacketIs DEF Joined
<1>3. Device(k, j.deviceID) = Device(id, e.deviceID)
  BY <1>1 DEF Device
<1>4. Updated(h, j.internal) = Updated(i, e.internal)
  BY <1>1, UpdatedTwice
<1>5. ASSUME NEW k2, NEW h2, NEW rows2
      PROVE  Stream!Alone(State(k2, on, h2, No, rows2), f, known, stores)
               = Heard(w, k2, h2, rows2, e, stores)
  BY AloneIs
<1>6. CASE Malformed(p.deviceID)
  <2>1. Malformed(j.deviceID)
    BY <1>1, <1>6 DEF Fits, Malformed, Device
  <2>2. PICK s : s = State(None, No, <<>>, Yes, rows)
    OBVIOUS
  <2>3. s.peer.refused = Yes
    BY <2>2, StateIs
  <2>4. Stream!Alone(s, f, known, stores) = s
    BY <2>3 DEF Stream!Alone, No, Yes
  <2> QED BY <1>6, <2>1, <2>2, <2>4 DEF Heard
<1>7. CASE ~Malformed(p.deviceID) /\ on # Yes
  <2>1. Heard(on, k, h, rows, p, stores) = State(id, on, i, No, rows)
    BY <1>7 DEF Heard
  <2>2. CASE Malformed(e.deviceID)
    <3>1. j.deviceID = e.deviceID
      BY <1>1, <2>2 DEF Device, Malformed
    <3> QED BY <1>5, <2>1, <2>2, <3>1 DEF Heard
  <2>3. CASE ~Malformed(e.deviceID) /\ w # Yes
    <3>1. ~Malformed(j.deviceID)
      BY <1>1, <1>7, <2>3 DEF Device
    <3> QED BY <1>3, <1>4, <1>5, <2>1, <2>3, <3>1 DEF Heard
  <2>4. CASE ~Malformed(e.deviceID) /\ w = Yes
    <3>1. /\ e.deviceID = Blank /\ id # None /\ p.props = <<>> /\ p.unknown = <<>>
          /\ ~Malformed(j.deviceID) /\ Device(id, e.deviceID) = id
      BY <1>1, <1>7, <2>4 DEF Fits, Device
    <3>2. Heard(w, id, i, rows, e, stores)
            = State(id, Yes, <<>>, No, Rows(rows, id, e, Updated(i, e.internal), stores))
      BY <2>4, <3>1 DEF Heard
    <3>3. Heard(w, k, h, rows, j, stores)
            = State(id, Yes, <<>>, No, Rows(rows, id, j, Updated(i, e.internal), stores))
      BY <1>3, <1>4, <2>4, <3>1 DEF Heard
    <3>4. j.props = e.props /\ j.unknown = e.unknown
      <4>1. AMap(e.unknown) /\ \E X : p.props \in Seq(X)
        BY DEF APacket
      <4>2. j.props = e.props
        BY <1>1, <3>1, <4>1, PinsTwice
      <4>3. j.unknown = e.unknown
        BY <1>1, <3>1, <4>1, UpdatedByNone
      <4> QED BY <4>2, <4>3
    <3>5. Rows(rows, id, j, Updated(i, e.internal), stores)
            = Rows(rows, id, e, Updated(i, e.internal), stores)
      BY <3>4, ApplyIs DEF Rows
    <3> QED BY <1>5, <2>1, <3>2, <3>3, <3>5
  <2> QED BY <2>2, <2>3, <2>4
<1>8. CASE ~Malformed(p.deviceID) /\ on = Yes
  <2>1. w = Yes /\ e.deviceID = Blank /\ id # None
    BY <1>8 DEF Fits
  <2>2. /\ ~Malformed(j.deviceID) /\ ~Malformed(e.deviceID)
        /\ Device(id, e.deviceID) = id /\ Device(k, j.deviceID) = id
    BY <1>1, <1>3, <1>8, <2>1 DEF Malformed, Device
  <2>3. PICK rows2, x : rows2 = Rows(rows, id, p, i, stores) /\ x = <<>>
    OBVIOUS
  <2>4. Heard(on, k, h, rows, p, stores) = State(id, on, x, No, rows2)
    BY <1>8, <2>1, <2>3 DEF Heard
  <2>5. Heard(w, id, x, rows2, e, stores)
          = State(id, Yes, x, No, Rows(rows2, id, e, Updated(x, e.internal), stores))
    BY <2>1, <2>2, <2>3 DEF Heard
  <2>6. Heard(w, k, h, rows, j, stores)
          = State(id, Yes, x, No, Rows(rows, id, j, Updated(i, e.internal), stores))
    BY <1>4, <2>1, <2>2, <2>3 DEF Heard
  <2>7. AMap(i)
    BY UpdatedIs
  <2>8. Rows(rows2, id, e, Updated(x, e.internal), stores)
          = Rows(rows, id, j, Updated(i, e.internal), stores)
    BY <2>3, <2>7, RowsTwice
  <2> QED BY <1>5, <2>4, <2>5, <2>6, <2>8
<1> QED BY <1>6, <1>7, <1>8

(***************************************************************************)
(* What a connection knows after j frames of a stream: the packet p of the *)
(* batch it is in, and of the batches before the token k and whether a pin *)
(* has identified a keg, c.                                                *)
(***************************************************************************)

Pinned(s, j) == \E i \in 1 .. j : PinWrite(s[i])

Knows(s, k, c, p, j) ==
    /\ (\A i \in 1 .. j : ~Token(s[i])) => p.deviceID = Blank /\ k = None
    /\ (\E i \in 1 .. j : Token(s[i])) => p.deviceID # Blank \/ k # None
    /\ ~Pinned(s, j) => c # Yes /\ p.props = <<>> /\ p.unknown = <<>>

(* What the packet of a batch tells of its frames. *)
InBatch(fr, i, p) ==
    /\ ~Pinned(fr, i) => p.props = <<>> /\ p.unknown = <<>>
    /\ identifiesAKeg(p) <=> \E x \in 1 .. i : identifies(fr[x])

LEMMA NothingIdentifies == \A q : q.props = <<>> => ~identifiesAKeg(q)
<1> SUFFICES ASSUME NEW q, NEW r, r = q.props, r = <<>> PROVE ~identifiesAKeg(q)
  OBVIOUS
<1>1. DOMAIN r = {}
  OBVIOUS
<1> QED BY <1>1 DEF identifiesAKeg

LEMMA JoinedPacket ==
    ASSUME NEW p, APacket(p), NEW e, APacket(e), Few(e.props)
    PROVE  APacket(Joined(p, e))
<1>1. PICK q, q2, r : q = p.props /\ q2 = e.props /\ r = Cat(q, q2)
  OBVIOUS
<1>2. PICK X : q \in Seq(X)
  BY <1>1 DEF APacket
<1>3. \E Y : r \in Seq(Y)
  <2>1. CASE q2 = <<>>
    <3>1. \E Y : q \in Seq(Y)
      BY <1>2
    <3>2. Cat(q, <<>>) = q
      BY <3>1, Appends
    <3> QED BY <1>1, <2>1, <3>1, <3>2
  <2>2. ASSUME NEW x, q2 = <<x>> PROVE \E Y : r \in Seq(Y)
    <3>1. PICK Y : Y = X \cup {x}
      OBVIOUS
    <3>2. q \in Seq(Y) /\ x \in Y
      BY <1>2, <3>1
    <3>3. r = Append(q, x)
      BY <1>1, <1>2, <2>2, Appends DEF Put
    <3> QED BY <3>2, <3>3, AppendProperties
  <2> QED BY <1>1, <2>1, <2>2 DEF Few
<1>4. AMap(Updated(p.internal, e.internal)) /\ AMap(Updated(p.unknown, e.unknown))
  BY UpdatedIs
<1> QED BY <1>1, <1>3, <1>4, PacketMade DEF Joined

LEMMA PinnedNext ==
    ASSUME NEW s, NEW j \in Nat, NEW l, l = j + 1
    PROVE  Pinned(s, l) <=> Pinned(s, j) \/ PinWrite(s[l])
<1>1. \A i : i \in 1 .. l <=> i \in 1 .. j \/ i = l
  OBVIOUS
<1> QED BY <1>1 DEF Pinned

(* The token is the first that comes, and comes before any pin.              *)
TokenFirst(s, k, p, e, l) ==
    /\ e.deviceID # Blank => p.deviceID = Blank /\ ~Pinned(s, l)
    /\ ~Malformed(p.deviceID) /\ Pinned(s, l) => Device(k, p.deviceID) # None

LEMMA KnowsNext ==
    ASSUME NEW s, s \in Seq(FrameSet), FromFirmware(s), NEW j \in Nat,
           NEW l \in 1 .. Len(s), l = j + 1,
           NEW k, NEW c \in {No, Yes}, NEW p, APacket(p), NEW e,
           e = DecodeFrame(EmptyPacket, s[l]), Joins(p, s[l], e),
           Knows(s, k, c, p, j)
    PROVE  Knows(s, k, c, Joined(p, e), l) /\ TokenFirst(s, k, p, e, l)
<1>1. Len(s) \in Nat /\ DOMAIN s = 1 .. Len(s) /\ j = l - 1 /\ j \in 0 .. Len(s)
  BY LenProperties
<1>2. PICK f : f = s[l]
  OBVIOUS
<1>3. /\ Few(e.props)
      /\ Token(f) => e.props = <<>> /\ e.unknown = <<>> /\ e.deviceID # Blank
      /\ ~Token(f) => e.deviceID = Blank
      /\ ~PinWrite(f) => e.props = <<>> /\ e.unknown = <<>>
  <2>1. Token(f) => f.body # <<>> /\ f.body[1] # Blank
    BY <1>1, <1>2 DEF FromFirmware
  <2> QED BY <1>2, <2>1 DEF Joins, Few
<1>4. PICK q : q = Joined(p, e)
  OBVIOUS
<1>5. /\ q.deviceID = Device(p.deviceID, e.deviceID)
      /\ q.props = Cat(p.props, e.props) /\ q.unknown = Updated(p.unknown, e.unknown)
  BY <1>4, PacketIs DEF Joined
<1>6. \A i : i \in 1 .. l <=> i \in 1 .. j \/ i = l
  BY <1>1
<1>7. Pinned(s, l) <=> Pinned(s, j) \/ PinWrite(f)
  BY <1>2, PinnedNext
<1>8. Pinned(s, l) => \E i \in 1 .. j : Token(s[i])
  <2>1. ASSUME NEW i \in 1 .. l, PinWrite(s[i]) PROVE \E x \in 1 .. j : Token(s[x])
    <3>1. i \in DOMAIN s /\ \A x \in 1 .. i - 1 : x \in 1 .. j
      BY <1>1
    <3> QED BY <2>1, <3>1 DEF FromFirmware
  <2> QED BY <2>1 DEF Pinned
<1>9. Token(f) => \A i \in 1 .. j : ~Token(s[i])
  <2>1. ASSUME Token(f), NEW i \in 1 .. j PROVE ~Token(s[i])
    <3>1. l \in DOMAIN s /\ i \in DOMAIN s \ {l}
      BY <1>1
    <3> QED BY <1>2, <2>1, <3>1 DEF FromFirmware
  <2> QED BY <2>1
<1>10. e.deviceID # Blank => p.deviceID = Blank /\ ~Pinned(s, l)
  BY <1>3, <1>8, <1>9 DEF Knows
<1>11. ~Malformed(p.deviceID) /\ Pinned(s, l) => Device(k, p.deviceID) # None
  BY <1>8, PlaatoAssumption DEF Knows, Malformed, Device
<1>12. Knows(s, k, c, q, l)
  <2>1. ASSUME \A i \in 1 .. l : ~Token(s[i]) PROVE q.deviceID = Blank /\ k = None
    <3>1. ~Token(f) /\ \A i \in 1 .. j : ~Token(s[i])
      BY <1>2, <1>6, <2>1
    <3> QED BY <1>3, <1>5, <3>1 DEF Knows, Device
  <2>2. ASSUME \E i \in 1 .. l : Token(s[i]) PROVE q.deviceID # Blank \/ k # None
    <3>1. Token(f) \/ \E i \in 1 .. j : Token(s[i])
      BY <1>2, <1>6, <2>2
    <3> QED BY <1>3, <1>5, <3>1 DEF Knows, Device
  <2>3. ASSUME ~Pinned(s, l) PROVE c # Yes /\ q.props = <<>> /\ q.unknown = <<>>
    <3>1. ~PinWrite(f) /\ ~Pinned(s, j)
      BY <1>7, <2>3
    <3>2. /\ c # Yes /\ p.props = <<>> /\ p.unknown = <<>> /\ e.props = <<>> /\ e.unknown = <<>>
      BY <1>3, <3>1 DEF Knows
    <3>3. AMap(<<>>) /\ Updated(<<>>, <<>>) = <<>>
      BY NoKeys, UpdatedByNone
    <3>4. \E X : p.props \in Seq(X)
      BY DEF APacket
    <3>5. Cat(p.props, e.props) = p.props
      BY <1>3, <3>2, <3>4, PinsTwice
    <3> QED BY <1>5, <3>2, <3>3, <3>5
  <2> QED BY <2>1, <2>2, <2>3 DEF Knows
<1> QED BY <1>4, <1>10, <1>11, <1>12 DEF TokenFirst

LEMMA BatchNext ==
    ASSUME NEW fr, NEW i \in Nat, NEW n, n = i + 1, NEW p, APacket(p), NEW e,
           e = DecodeFrame(EmptyPacket, fr[n]), Joins(p, fr[n], e), InBatch(fr, i, p)
    PROVE  /\ InBatch(fr, n, Joined(p, e))
           /\ identifiesAKeg(e) <=> identifies(fr[n])
           /\ identifies(fr[n]) => PinWrite(fr[n])
<1>1. PICK f, q : f = fr[n] /\ q = Joined(p, e)
  OBVIOUS
<1>2. /\ Few(e.props) /\ (~PinWrite(f) => e.props = <<>> /\ e.unknown = <<>>)
  BY <1>1 DEF Joins, Few
<1>3. /\ q.props = Cat(p.props, e.props) /\ q.unknown = Updated(p.unknown, e.unknown)
      /\ identifiesAKeg(q) <=> identifiesAKeg(p) \/ identifiesAKeg(e)
  BY <1>1, <1>2, PacketIs, IdentifiesJoined DEF Joined
<1>4. identifiesAKeg(e) <=> identifies(f)
  BY <1>1, DecodeOne DEF identifies
<1>5. identifies(f) => PinWrite(f)
  BY <1>2, <1>4, NothingIdentifies
<1>6. \A x : x \in 1 .. n <=> x \in 1 .. i \/ x = n
  OBVIOUS
<1>7. Pinned(fr, n) <=> Pinned(fr, i) \/ PinWrite(f)
  BY <1>1, PinnedNext
<1>8. ASSUME ~Pinned(fr, n) PROVE q.props = <<>> /\ q.unknown = <<>>
  <2>1. /\ p.props = <<>> /\ p.unknown = <<>> /\ e.props = <<>> /\ e.unknown = <<>>
    BY <1>2, <1>7, <1>8 DEF InBatch
  <2>2. AMap(<<>>) /\ Updated(<<>>, <<>>) = <<>>
    BY NoKeys, UpdatedByNone
  <2>3. \E X : p.props \in Seq(X)
    BY DEF APacket
  <2>4. Cat(p.props, e.props) = p.props
    BY <1>2, <2>1, <2>3, PinsTwice
  <2> QED BY <1>3, <2>1, <2>2, <2>4
<1>9. identifiesAKeg(q) <=> \E x \in 1 .. n : identifies(fr[x])
  BY <1>1, <1>3, <1>4, <1>6 DEF InBatch
<1> QED BY <1>1, <1>4, <1>5, <1>8, <1>9 DEF InBatch

Sent(s, l, f) == s \in Seq(FrameSet) /\ FromFirmware(s) /\ l \in 1 .. Len(s) /\ f = s[l]

(* The frame f comes to a packet p of j frames.                              *)
Comes(s, j, f, k, c, p, e) ==
    /\ j \in Nat /\ Sent(s, j + 1, f) /\ APacket(p) /\ Knows(s, k, c, p, j)
    /\ e = DecodeFrame(EmptyPacket, f)

(* Whether the device is known to be a keg before the frame, on, and after   *)
(* it, w, in a batch that tells so or not, known.                            *)
Turns(s, j, f, p, e, known, on, w) ==
    /\ known \in BOOLEAN /\ on \in {No, Yes} /\ w \in {No, Yes}
    /\ w = Yes <=> on = Yes \/ (known /\ PinWrite(f))
    /\ on = Yes => Pinned(s, j)
    /\ known /\ on # Yes => p.props = <<>> /\ p.unknown = <<>>
    /\ identifiesAKeg(e) => known /\ PinWrite(f)

Makes(p, f, q) == DecodeFrame(p, f) = q
Leads(a, f, known, stores, b) == Stream!Alone(a, f, known, stores) = b

LEMMA OneMore ==
    ASSUME NEW s, NEW j, NEW f, NEW k, NEW c \in {No, Yes}, NEW p, NEW e,
           Comes(s, j, f, k, c, p, e), NEW h, NEW rows, NEW stores \in BOOLEAN,
           NEW known, NEW on, NEW w, Turns(s, j, f, p, e, known, on, w)
    PROVE  /\ Makes(p, f, Joined(p, e)) /\ APacket(Joined(p, e)) /\ Joins(p, f, e)
           /\ Knows(s, k, c, Joined(p, e), j + 1)
           /\ Leads(State(k, on, h, No, rows), f, known, stores, Heard(w, k, h, rows, e, stores))
           /\ Leads(Heard(on, k, h, rows, p, stores), f, known, stores,
                    Heard(w, k, h, rows, Joined(p, e), stores))
<1>0. PICK l \in Nat : l = j + 1 /\ j \in Nat /\ Sent(s, l, f)
  BY DEF Comes
<1>1. e = DecodeFrame(EmptyPacket, f) /\ APacket(p) /\ Joins(p, f, e)
  BY FrameJoins DEF Comes
<1>2. APacket(e) /\ Few(e.props) /\ DecodeFrame(p, f) = Joined(p, e)
  BY <1>1 DEF Joins, Few
<1>3. Knows(s, k, c, Joined(p, e), l) /\ TokenFirst(s, k, p, e, l)
  <2>1. /\ s \in Seq(FrameSet) /\ FromFirmware(s) /\ l \in 1 .. Len(s)
        /\ e = DecodeFrame(EmptyPacket, s[l]) /\ Joins(p, s[l], e)
    BY <1>0, <1>1 DEF Sent
  <2>2. Knows(s, k, c, p, j)
    BY DEF Comes
  <2> QED BY <1>0, <1>1, <2>1, <2>2, KnowsNext
<1>4. APacket(Joined(p, e))
  BY <1>1, <1>2, JoinedPacket
<1>5. /\ known \in BOOLEAN /\ on \in {No, Yes} /\ w \in {No, Yes}
      /\ w = Yes <=> on = Yes \/ (known /\ PinWrite(f))
      /\ identifiesAKeg(e) => known /\ PinWrite(f)
  BY DEF Turns
<1>6. Stream!Alone(State(k, on, h, No, rows), f, known, stores) = Heard(w, k, h, rows, e, stores)
  BY <1>1, <1>5, AloneIs
<1>7. Fits(k, on, w, p, e)
  <2>1. w = Yes => Pinned(s, l)
    <3>1. Pinned(s, l) <=> Pinned(s, j) \/ PinWrite(f)
      BY <1>0, PinnedNext DEF Sent
    <3> QED BY <3>1 DEF Turns
  <2> QED BY <1>3, <2>1 DEF Fits, Turns, TokenFirst
<1>8. Stream!Alone(Heard(on, k, h, rows, p, stores), f, known, stores)
        = Heard(w, k, h, rows, Joined(p, e), stores)
  BY <1>1, <1>2, <1>5, <1>7, HeardTwice
<1> QED BY <1>0, <1>1, <1>2, <1>3, <1>4, <1>6, <1>8 DEF Makes, Leads

Ends(A, m, g) == m = 0 \/ A[m] = g
AllSent(s, t, m, fr) == \A i \in 1 .. m : Sent(s, t + i, fr[i])
IsTold(fr, m, known) == known \in BOOLEAN /\ (known <=> \E x \in 1 .. m : identifies(fr[x]))

(* Whether the device is known to be a keg after i frames of a batch.        *)
Sure(c, known, fr, i) == IF c = Yes \/ (known /\ Pinned(fr, i)) THEN Yes ELSE No

(* The m frames of a read after t of a stream: P is their packet as it grows, *)
(* A what has become of the state as they are taken one by one.              *)
Batch(s, t, m, fr, k, c, h, rows, known, stores, P, A) ==
    /\ t \in Nat /\ m \in Nat /\ AllSent(s, t, m, fr)
    /\ c \in {No, Yes} /\ Knows(s, k, c, EmptyPacket, t)
    /\ stores \in BOOLEAN /\ IsTold(fr, m, known)
    /\ Running(P, m, "decode", EmptyPacket, fr, 1 .. m)
    /\ Running(A, m, Kind(known, stores), State(k, c, h, No, rows), fr, 1 .. m)

(* The frames of a read, ingested one by one and together.                   *)
LEMMA Together ==
    ASSUME NEW s, NEW t, NEW m, NEW fr, NEW k, NEW c, NEW h, NEW rows, NEW known,
           NEW stores, NEW P, NEW A, Batch(s, t, m, fr, k, c, h, rows, known, stores, P, A)
    PROVE  /\ Ends(A, m, Got(k, c, h, rows, P[m], stores))
           /\ Knows(s, k, c, P[m], t + m)
<1> SUFFICES ASSUME
         /\ t \in Nat /\ m \in Nat /\ AllSent(s, t, m, fr)
         /\ c \in {No, Yes} /\ Knows(s, k, c, EmptyPacket, t)
         /\ stores \in BOOLEAN /\ IsTold(fr, m, known)
         /\ Running(P, m, "decode", EmptyPacket, fr, 1 .. m)
         /\ Running(A, m, Kind(known, stores), State(k, c, h, No, rows), fr, 1 .. m)
      PROVE  /\ Ends(A, m, Got(k, c, h, rows, P[m], stores))
             /\ Knows(s, k, c, P[m], t + m)
  BY DEF Batch
<1>0. known \in BOOLEAN
  BY DEF IsTold
<1> DEFINE Alike(i) == /\ APacket(P[i]) /\ Knows(s, k, c, P[i], t + i) /\ InBatch(fr, i, P[i])
                       /\ i >= 1 => A[i] = Heard(Sure(c, known, fr, i), k, h, rows, P[i], stores)
           S == {i \in 0 .. m : Alike(i)}
<1>1. S \in SUBSET (0 .. m)
  OBVIOUS
<1>2. 0 \in S
  <2>1. P[0] = EmptyPacket /\ t + 0 = t
    BY DEF Running
  <2>2. APacket(P[0]) /\ Knows(s, k, c, P[0], t + 0)
    BY <2>1, NothingIn
  <2>3. EmptyPacket.props = <<>> /\ EmptyPacket.unknown = <<>> /\ 1 .. 0 = {}
    BY NothingIn, PacketIs
  <2>4. InBatch(fr, 0, P[0])
    BY <2>1, <2>3, NothingIdentifies DEF InBatch
  <2> QED BY <2>2, <2>4
<1>3. ASSUME NEW i \in 0 .. m - 1, i \in S PROVE i + 1 \in S
  <2>1. PICK n \in 1 .. m : n = i + 1 /\ n - 1 = i
    OBVIOUS
  <2>2. PICK j \in Nat, l \in Nat : j = t + i /\ l = t + n /\ l = j + 1
    BY <2>1
  <2>3. PICK p, f, e : /\ p = P[i] /\ f = fr[n] /\ Sent(s, l, f)
                       /\ e = DecodeFrame(EmptyPacket, f)
    BY <2>1, <2>2 DEF AllSent
  <2>4. PICK on \in {No, Yes}, w \in {No, Yes} :
           on = Sure(c, known, fr, i) /\ w = Sure(c, known, fr, n)
    BY DEF Sure
  <2>5. /\ APacket(p) /\ Knows(s, k, c, p, j) /\ InBatch(fr, i, p)
        /\ i >= 1 => A[i] = Heard(on, k, h, rows, p, stores)
    BY <1>3, <2>2, <2>3, <2>4
  <2>6. Comes(s, j, f, k, c, p, e)
    BY <2>2, <2>3, <2>5 DEF Comes
  <2>7. /\ InBatch(fr, n, Joined(p, e))
        /\ identifiesAKeg(e) <=> identifies(f)
        /\ identifies(f) => PinWrite(f)
    <3>1. Joins(p, fr[n], e) /\ e = DecodeFrame(EmptyPacket, fr[n])
      BY <2>3, <2>5, FrameJoins
    <3>2. i \in Nat /\ n = i + 1
      BY <2>1
    <3> QED BY <2>3, <2>5, <3>1, <3>2, BatchNext
  <2>8. Turns(s, j, f, p, e, known, on, w)
    <3>1. Pinned(fr, n) <=> Pinned(fr, i) \/ PinWrite(f)
      BY <2>1, <2>3, PinnedNext
    <3>2. w = Yes <=> on = Yes \/ (known /\ PinWrite(f))
      BY <2>4, <3>1 DEF Sure, No, Yes
    <3>3. Pinned(fr, i) => Pinned(s, j)
      <4>1. ASSUME NEW x \in 1 .. i PROVE fr[x] = s[t + x] /\ t + x \in 1 .. j
        <5>1. x \in 1 .. m /\ t + x \in 1 .. j
          BY <2>1, <2>2
        <5> QED BY <5>1 DEF AllSent, Sent
      <4> QED BY <4>1 DEF Pinned
    <3>4. on = Yes => Pinned(s, j)
      BY <2>4, <2>5, <3>3 DEF Sure, Knows, No, Yes
    <3>5. known /\ on # Yes => p.props = <<>> /\ p.unknown = <<>>
      BY <2>4, <2>5 DEF Sure, InBatch
    <3>6. identifies(f) => known
      BY <2>1, <2>3 DEF IsTold
    <3> QED BY <1>0, <2>4, <2>7, <3>2, <3>4, <3>5, <3>6 DEF Turns
  <2>9. /\ DecodeFrame(p, f) = Joined(p, e) /\ APacket(Joined(p, e))
        /\ Knows(s, k, c, Joined(p, e), l)
        /\ Stream!Alone(State(k, on, h, No, rows), f, known, stores)
             = Heard(w, k, h, rows, e, stores)
        /\ Stream!Alone(Heard(on, k, h, rows, p, stores), f, known, stores)
             = Heard(w, k, h, rows, Joined(p, e), stores)
    <3>1. /\ Makes(p, f, Joined(p, e)) /\ APacket(Joined(p, e))
          /\ Knows(s, k, c, Joined(p, e), j + 1)
          /\ Leads(State(k, on, h, No, rows), f, known, stores, Heard(w, k, h, rows, e, stores))
          /\ Leads(Heard(on, k, h, rows, p, stores), f, known, stores,
                   Heard(w, k, h, rows, Joined(p, e), stores))
      BY <2>6, <2>8, OneMore
    <3> QED BY <2>2, <3>1 DEF Makes, Leads
  <2>10. P[n] = Joined(p, e)
    <3>1. P[n] = Op("decode", P[n - 1], fr[n])
      BY <2>1 DEF Running
    <3> QED BY <2>1, <2>3, <2>9, <3>1 DEF Op
  <2>11. A[n] = Stream!Alone(A[i], f, known, stores)
    <3>1. A[n] = Op(Kind(known, stores), A[n - 1], fr[n])
      BY <2>1 DEF Running
    <3>2. \A a, x : Op(Kind(known, stores), a, x) = Stream!Alone(a, x, known, stores)
      BY <1>0, KindIs
    <3> QED BY <2>1, <2>3, <3>1, <3>2
  <2>12. A[n] = Heard(w, k, h, rows, P[n], stores)
    <3>1. CASE i = 0
      <4>1. A[i] = State(k, c, h, No, rows) /\ p = EmptyPacket
        BY <2>3, <3>1 DEF Running
      <4>2. P[n] = e
        BY <2>3, <2>9, <2>10, <4>1
      <4>3. on = c
        <5>1. ~Pinned(fr, 0)
          BY DEF Pinned
        <5> QED BY <2>4, <3>1, <5>1 DEF Sure
      <4> QED BY <2>9, <2>11, <4>1, <4>2, <4>3
    <3>2. CASE i >= 1
      BY <2>5, <2>9, <2>10, <2>11, <3>2
    <3> QED BY <3>1, <3>2
  <2>13. APacket(P[n]) /\ InBatch(fr, n, P[n])
    BY <2>7, <2>9, <2>10
  <2>14. Alike(n)
    BY <2>2, <2>4, <2>9, <2>10, <2>12, <2>13
  <2> HIDE DEF Alike
  <2> QED BY <2>1, <2>14
<1> HIDE DEF S
<1>4. m \in S
  <2>1. S = 0 .. m
    BY <1>1, <1>2, <1>3, UpTo
  <2> QED BY <2>1
<1>5. /\ Knows(s, k, c, P[m], t + m) /\ InBatch(fr, m, P[m])
      /\ m >= 1 => A[m] = Heard(Sure(c, known, fr, m), k, h, rows, P[m], stores)
  BY <1>4 DEF S
<1>6. Sure(c, known, fr, m) = Yes <=> c = Yes \/ identifiesAKeg(P[m])
  <2>1. identifiesAKeg(P[m]) <=> known
    BY <1>5 DEF InBatch, IsTold
  <2>2. known => Pinned(fr, m)
    <3>1. identifiesAKeg(P[m]) => Pinned(fr, m)
      BY <1>5, NothingIdentifies DEF InBatch
    <3> QED BY <2>1, <3>1
  <2> QED BY <2>1, <2>2 DEF Sure, No, Yes
<1>7. Got(k, c, h, rows, P[m], stores) = Heard(Sure(c, known, fr, m), k, h, rows, P[m], stores)
  BY <1>6, GotHeard
<1> QED BY <1>5, <1>7 DEF Ends

(***************************************************************************)
(* A read takes the frames it completes as KegStream takes them.           *)
(***************************************************************************)

Acquainted(s, t, st) ==
    \E c \in {No, Yes} : \E k, h, rows :
        st = State(k, c, h, No, rows) /\ Knows(s, k, c, EmptyPacket, t)

PeerInv ==
    /\ \E peer, rows : state = [peer |-> peer, stored |-> rows]
    /\ open => Acquainted(stream, taken, state)

LEMMA After ==
    ASSUME NEW s, NEW j, NEW k, NEW c \in {No, Yes}, NEW h, NEW rows, NEW p,
           Knows(s, k, c, p, j), NEW stores
    PROVE  \/ Got(k, c, h, rows, p, stores) = State(None, No, <<>>, Yes, rows)
           \/ Acquainted(s, j, Got(k, c, h, rows, p, stores))
<1>1. PICK id, g : id = Device(k, p.deviceID) /\ g = Got(k, c, h, rows, p, stores)
  OBVIOUS
<1>2. /\ EmptyPacket.deviceID = Blank /\ EmptyPacket.props = <<>> /\ EmptyPacket.unknown = <<>>
      /\ ~identifiesAKeg(EmptyPacket)
  <2>1. EmptyPacket.deviceID = Blank /\ EmptyPacket.props = <<>> /\ EmptyPacket.unknown = <<>>
    BY NothingIn, PacketIs
  <2> QED BY <2>1, NothingIdentifies
<1>3. CASE Malformed(p.deviceID)
  BY <1>3 DEF Got
<1>4. CASE ~Malformed(p.deviceID)
  <2>1. /\ (\A i \in 1 .. j : ~Token(s[i])) => id = None
        /\ (\E i \in 1 .. j : Token(s[i])) => id # None
    BY <1>1, <1>4, PlaatoAssumption DEF Knows, Malformed, Device
  <2>2. ~Pinned(s, j) => ~(c = Yes \/ identifiesAKeg(p))
    BY NothingIdentifies DEF Knows
  <2>3. CASE ~(c = Yes \/ identifiesAKeg(p))
    <3>1. PICK i : i = Updated(h, p.internal)
      OBVIOUS
    <3>2. g = State(id, No, i, No, rows)
      BY <1>1, <1>4, <2>3, <3>1 DEF Got
    <3>3. Knows(s, id, No, EmptyPacket, j)
      BY <1>2, <2>1, <2>2, <2>3 DEF Knows, No, Yes
    <3> QED BY <1>1, <3>2, <3>3 DEF Acquainted
  <2>4. CASE c = Yes \/ identifiesAKeg(p)
    <3>1. Knows(s, id, Yes, EmptyPacket, j)
      BY <1>2, <2>1, <2>2, <2>4 DEF Knows
    <3>2. CASE id = None
      <4>1. g = State(id, Yes, h, No, rows)
        BY <1>1, <1>4, <2>4, <3>2 DEF Got
      <4> QED BY <1>1, <3>1, <4>1 DEF Acquainted
    <3>3. CASE id # None
      <4>1. PICK x, r : /\ x = <<>>
                        /\ r = Rows(rows, id, p, Updated(h, p.internal), stores)
        OBVIOUS
      <4>2. g = State(id, Yes, x, No, r)
        BY <1>1, <1>4, <2>4, <3>3, <4>1 DEF Got
      <4> QED BY <1>1, <3>1, <4>2 DEF Acquainted
    <3> QED BY <3>2, <3>3
  <2> QED BY <2>3, <2>4
<1> QED BY <1>3, <1>4

LEMMA BatchIs ==
    ASSUME ReadInv, PeerInv, open, NEW m \in 1 .. Len(stream) - taken, NEW stores \in BOOLEAN,
           NEW after, after = ingest(state, SubSeq(stream, taken + 1, taken + m), stores)
    PROVE  /\ Stream!Each(m, stores) = after
           /\ \E peer, rows : after = [peer |-> peer, stored |-> rows]
           /\ after.peer.refused \/ Acquainted(stream, taken + m, after)
<1>1. /\ stream \in Seq(FrameSet) /\ FromFirmware(stream) /\ Len(stream) \in Nat
      /\ taken \in Nat /\ m \in Nat /\ m >= 1 /\ taken + m <= Len(stream)
  BY StreamsAre DEF ReadInv
<1>2. PICK fr : fr = SubSeq(stream, taken + 1, taken + m)
  OBVIOUS
<1>3. /\ fr \in Seq(FrameSet) /\ Len(fr) = m
      /\ \A i \in 1 .. m : fr[i] = stream[taken + i] /\ taken + i \in 1 .. Len(stream)
  <2>1. PICK x \in Int, y \in Int : x = taken + 1 /\ y = taken + m
    BY <1>1
  <2>2. \A i \in x .. y : stream[i] \in FrameSet
    <3>1. \A i \in x .. y : i \in 1 .. Len(stream)
      BY <1>1, <2>1
    <3> QED BY <1>1, <3>1, ElementOfSeq
  <2>3. /\ SubSeq(stream, x, y) \in Seq(FrameSet)
        /\ Len(SubSeq(stream, x, y)) = IF x <= y THEN y - x + 1 ELSE 0
        /\ \A i \in 1 .. y - x + 1 : SubSeq(stream, x, y)[i] = stream[x + i - 1]
    BY <2>2, SubSeqProperties
  <2>4. /\ x <= y /\ y - x + 1 = m
        /\ \A i \in 1 .. m : x + i - 1 = taken + i /\ taken + i \in 1 .. Len(stream)
    BY <1>1, <2>1
  <2> QED BY <1>2, <2>1, <2>3, <2>4
<1>0. PICK c \in {No, Yes} : \E k, h, rows :
         state = State(k, c, h, No, rows) /\ Knows(stream, k, c, EmptyPacket, taken)
  BY DEF PeerInv, Acquainted
<1>4. PICK k, h, rows :
         state = State(k, c, h, No, rows) /\ Knows(stream, k, c, EmptyPacket, taken)
  BY <1>0
<1>5. PICK P : Running(P, m, "decode", EmptyPacket, fr, 1 .. m)
  BY <1>1, RunsOn
<1>15. PICK known \in BOOLEAN : known <=> \E x \in 1 .. m : identifies(fr[x])
  OBVIOUS
<1>6. PICK A : Running(A, m, Kind(known, stores), state, fr, 1 .. m)
  BY <1>1, RunsOn
<1>16. IsTold(fr, m, known)
  BY <1>15 DEF IsTold
<1>7. AllSent(stream, taken, m, fr)
  BY <1>1, <1>3 DEF Sent, AllSent
<1>8. A[m] = Got(k, c, h, rows, P[m], stores) /\ Knows(stream, k, c, P[m], taken + m)
  <2>1. Running(A, m, Kind(known, stores), State(k, c, h, No, rows), fr, 1 .. m)
    BY <1>4, <1>6
  <2>2. taken \in Nat /\ m \in Nat /\ Knows(stream, k, c, EmptyPacket, taken)
    BY <1>1, <1>4
  <2>3. /\ Ends(A, m, Got(k, c, h, rows, P[m], stores))
        /\ Knows(stream, k, c, P[m], taken + m)
    <3>1. Batch(stream, taken, m, fr, k, c, h, rows, known, stores, P, A)
      BY <1>5, <1>7, <1>16, <2>1, <2>2 DEF Batch
    <3> QED BY <3>1, Together, Zenon
  <2> QED BY <1>1, <2>3 DEF Ends
<1>9. Decode(fr) = P[m]
  <2>1. Running(P, Len(fr), "decode", EmptyPacket, fr, 1 .. Len(fr))
    BY <1>3, <1>5
  <2>2. FoldLeft(DecodeFrame, EmptyPacket, fr) = P[Len(fr)]
    BY <1>3, <2>1, DecodeRuns
  <2> QED BY <1>3, <2>2 DEF Decode
<1>10. after = Got(k, c, h, rows, P[m], stores)
  <2>1. ingest(State(k, c, h, No, rows), fr, stores) = Got(k, c, h, rows, Decode(fr), stores)
    BY GotIs
  <2> QED BY <1>2, <1>4, <1>9, <2>1
<1>11. Stream!Each(m, stores) = A[m]
  <2>1. known = Stream!Known(fr)
    <3>1. DOMAIN fr = 1 .. m
      BY <1>3, LenProperties
    <3> QED BY <1>15, <3>1 DEF Stream!Known
  <2>2. /\ SubSeq(stream, taken + 1, taken + m) \in Seq(FrameSet)
        /\ Len(SubSeq(stream, taken + 1, taken + m)) = m
        /\ known = Stream!Known(SubSeq(stream, taken + 1, taken + m))
        /\ Running(A, m, Kind(known, stores), state,
                   SubSeq(stream, taken + 1, taken + m), 1 .. m)
    BY <1>2, <1>3, <1>6, <2>1, Zenon
  <2>3. m \in Nat /\ known \in BOOLEAN
    BY <1>1
  <2> QED BY <2>2, <2>3, EachRuns
<1>12. after = State(None, No, <<>>, Yes, rows) \/ Acquainted(stream, taken + m, after)
  BY <1>8, <1>10, After
<1>13. after.peer.refused \/ Acquainted(stream, taken + m, after)
  <2>1. CASE after = State(None, No, <<>>, Yes, rows)
    <3>1. after.peer.refused = Yes
      BY <2>1, StateIs
    <3> QED BY <3>1 DEF Yes
  <2> QED BY <1>12, <2>1
<1>14. \E peer, rws : after = [peer |-> peer, stored |-> rws]
  BY <1>12 DEF Acquainted, State
<1> QED BY <1>8, <1>10, <1>11, <1>13, <1>14

LEMMA NewPeer ==
    ASSUME NEW st, NEW peer, NEW rows, st = [peer |-> peer, stored |-> rows], NEW s
    PROVE  Acquainted(s, 0, [st EXCEPT !.peer = Stranger])
<1>1. [st EXCEPT !.peer = Stranger] = [peer |-> Stranger, stored |-> rows]
  OBVIOUS
<1>2. PICK x : x = <<>> /\ Stranger = Held(None, No, x, No)
  BY DEF Stranger, Held, No
<1>3. Knows(s, None, No, EmptyPacket, 0)
  <2>1. /\ EmptyPacket.deviceID = Blank /\ EmptyPacket.props = <<>> /\ EmptyPacket.unknown = <<>>
        /\ 1 .. 0 = {}
    BY NothingIn, PacketIs
  <2> QED BY <2>1 DEF Knows, Pinned, No, Yes
<1>4. [st EXCEPT !.peer = Stranger] = State(None, No, x, No, rows)
  BY <1>1, <1>2 DEF State
<1> QED BY <1>3, <1>4 DEF Acquainted

LEMMA ReadTakes ==
    ASSUME ReadInv, PeerInv, NEW n \in 1 .. readBufferSize, NEW sent \in BOOLEAN,
           NEW stores \in BOOLEAN, read + n <= Len(Cells), Read(n, sent, stores)
    PROVE  PeerInv' /\ [Stream!Next]_(Stream!streamVars)
<1>1. PICK got : got = Feed(buf \o SubSeq(Cells, read + 1, read + n))
  OBVIOUS
<1>2. /\ open /\ stream' = stream
      /\ state' = IF got.frames = <<>> \/ ~sent THEN state ELSE ingest(state, got.frames, stores)
      /\ taken' = IF sent THEN taken + Len(got.frames) ELSE taken
      /\ open' => ~state'.peer.refused /\ (sent \/ got.frames = <<>>)
  BY <1>1 DEF Read
<1>3. PICK m \in 0 .. Len(stream) - taken : \E off : Brings(got, read + n, m, off)
  BY <1>1, <1>2, ReadFrames
<1>4. /\ got.frames = SubSeq(stream, taken + 1, taken + m) /\ Len(got.frames) = m
      /\ \A i \in taken + 1 .. taken + m :
            stream[i].cmd = "response" \/ stream[i].third <= MaxBodySize
  <2>1. PICK off : Brings(got, read + n, m, off)
    BY <1>3
  <2> QED BY <2>1 DEF Brings
<1>5. taken \in Nat /\ Len(stream) \in Nat /\ m \in Nat
  BY <1>2, StreamsAre DEF ReadInv
<1>6. CASE m = 0 \/ ~sent
  <2>1. state' = state /\ taken' = taken
    <3>1. CASE ~sent
      BY <1>2, <3>1
    <3>2. CASE m = 0
      <4>1. got.frames = <<>>
        BY <1>4, <1>5, <3>2, SubSeqEmpty
      <4> QED BY <1>2, <1>4, <1>5, <3>2, <4>1
    <3> QED BY <1>6, <3>1, <3>2
  <2>2. PeerInv'
    BY <1>2, <2>1 DEF PeerInv
  <2> QED BY <1>2, <2>1, <2>2 DEF Stream!streamVars
<1>7. CASE m # 0 /\ sent
  <2>1. m \in 1 .. Len(stream) - taken
    BY <1>5, <1>7
  <2>2. got.frames # <<>>
    <3>1. Len(<<>>) = 0
      OBVIOUS
    <3> QED BY <1>4, <1>7, <3>1
  <2>3. state' = ingest(state, SubSeq(stream, taken + 1, taken + m), stores) /\ taken' = taken + m
    BY <1>2, <1>4, <1>7, <2>2
  <2>4. /\ Stream!Each(m, stores) = state'
        /\ \E peer, rows : state' = [peer |-> peer, stored |-> rows]
        /\ state'.peer.refused \/ Acquainted(stream, taken + m, state')
    BY <1>2, <2>1, <2>3, BatchIs
  <2>5. PeerInv'
    BY <1>2, <2>3, <2>4 DEF PeerInv
  <2>6. ~state.peer.refused
    <3>1. PICK c, k, h, rows : state = State(k, c, h, No, rows)
      BY <1>2 DEF PeerInv, Acquainted
    <3>2. state.peer.refused = No
      BY <3>1, StateIs
    <3> QED BY <3>2 DEF No
  <2>7. Stream!Take(m)
    BY <1>2, <1>4, <2>3, <2>4, <2>6 DEF Stream!Take, Stream!Sound
  <2> QED BY <2>1, <2>5, <2>7 DEF Stream!Next
<1> QED BY <1>6, <1>7

(* However a stream is cut into reads, and whatever reads are lost with their *)
(* connection, the frames are taken as KegStream takes them: each once, in    *)
(* order, as if it had come alone, and none behind one that is too long or a  *)
(* token that is refused.                                                     *)
THEOREM TakenInOrder == Spec => StreamTakenInOrder
<1>1. Init => Stream!Init /\ PeerInv
  BY DEF Init, Stream!Init, PeerInv
<1>2. ReadInv /\ PeerInv /\ [Next]_vars => PeerInv' /\ [Stream!Next]_(Stream!streamVars)
  <2> SUFFICES ASSUME ReadInv, PeerInv, [Next]_vars
               PROVE  PeerInv' /\ [Stream!Next]_(Stream!streamVars)
    OBVIOUS
  <2>1. CASE Connect
    <3>1. /\ stream' \in Streams /\ taken' = 0 /\ state' = [state EXCEPT !.peer = Stranger]
      BY <2>1 DEF Connect
    <3>2. PICK peer, rows : state = [peer |-> peer, stored |-> rows]
      BY DEF PeerInv
    <3>3. Acquainted(stream', taken', state')
      BY <3>1, <3>2, NewPeer
    <3>4. state' = [peer |-> Stranger, stored |-> rows]
      BY <3>1, <3>2
    <3>5. Stream!Connect
      BY <3>1 DEF Stream!Connect
    <3> QED BY <3>3, <3>4, <3>5 DEF PeerInv, Stream!Next
  <2>2. CASE Close
    BY <2>2 DEF Close, PeerInv, Stream!streamVars
  <2>3. CASE \E n \in 1 .. readBufferSize : \E sent, stores \in BOOLEAN :
                read + n <= Len(Cells) /\ Read(n, sent, stores)
    BY <2>3, ReadTakes
  <2>4. CASE UNCHANGED vars
    BY <2>4 DEF vars, PeerInv, Stream!streamVars
  <2> QED BY <2>1, <2>2, <2>3, <2>4 DEF Next
<1> QED BY <1>1, <1>2, Reads, PTL DEF Spec, StreamTakenInOrder, Stream!Spec
=============================================================================
