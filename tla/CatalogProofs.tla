---------------------------- MODULE CatalogProofs ----------------------------
(***************************************************************************)
(* Theorems about Catalog for any taps, kegs, browsers and requests: a keg *)
(* is not put on a second tap, no change of a setting is lost, an order of *)
(* kegs is written whole, and a correction is stored as what it meant.     *)
(***************************************************************************)
EXTENDS Catalog, WellFoundedInduction, TLAPS

(* A set of places in a request has a last one. *)
LEMMA Below == IsWellFoundedOn({p \in Nat \X Nat : p[1] < p[2]}, Nat)
BY NatLessThanWellFounded DEF OpToRel

LEMMA Largest ==
    ASSUME NEW n \in Nat, NEW S \in SUBSET (1 .. n), S # {}
    PROVE  \E i \in S : \A j \in S : j <= i
<1> DEFINE R == {p \in Nat \X Nat : p[1] < p[2]}
           T == {n - i : i \in S}
<1>1. IsWellFoundedOn(R, Nat)
  BY Below
<1>2. T \subseteq Nat
  OBVIOUS
<1>3. T # {}
  <2>1. PICK i \in S : TRUE
    OBVIOUS
  <2> QED BY <2>1
<1> HIDE DEF T, R
<1>4. PICK x \in T : \A y \in T : <<y, x>> \notin R
  BY <1>1, <1>2, <1>3, WFMin
<1>5. PICK i \in S : x = n - i
  BY DEF T
<1>6. ASSUME NEW j \in S PROVE j <= i
  <2>1. n - j \in T /\ <<n - j, x>> \notin R
    BY <1>4 DEF T
  <2>2. ~(n - j < x) /\ x \in Nat /\ n - j \in Nat
    BY <1>2, <2>1 DEF R
  <2> QED BY <1>5, <2>2
<1> QED BY <1>6

LEMMA Element ==
    ASSUME NEW S, NEW s \in Seq(S), NEW i \in 1 .. Len(s) PROVE s[i] \in S
OBVIOUS

(***************************************************************************)
(* What a handler carries from one of its steps to the next.               *)
(***************************************************************************)

Carried ==
    /\ DOMAIN request' = Browsers
    /\ \A o \in Browsers : request'[o].at \in {"replace", "config"} =>
          request'[o] = request[o]

LEMMA Going ==
    ASSUME DOMAIN request = Browsers, NEW b \in Browsers, NEW r, Go(b, r)
    PROVE  /\ DOMAIN request' = Browsers /\ request'[b] = r
           /\ \A o \in Browsers \ {b} : request'[o] = request[o]
           /\ r.at \notin {"replace", "config"} => Carried
BY DEF Go, Carried

LEMMA Answering ==
    ASSUME DOMAIN request = Browsers, NEW b \in Browsers, Answer(b)
    PROVE  Carried /\ request'[b].at = "idle"
BY DEF Answer, Go, Idle, Told, Carried

(* An order that is disturbed, or goes on, stays an order.                   *)
LEMMA StaysOrder ==
    ASSUME NEW r, NEW k, NEW n
    PROVE  /\ Disturbed(r, k).at = r.at
           /\ r.at # "order" => Disturbed(r, k) = r
           /\ [r EXCEPT !.next = n].at = r.at
BY DEF Disturbed

LEMMA KegsCarry ==
    ASSUME DOMAIN request = Browsers, NEW b \in Browsers, KegRequest(b)
    PROVE  Carried /\ UNCHANGED <<tap, config, conn, wanted>>
<1>1. ASSUME NEW k \in Kegs, DeleteKeg(b, k) PROVE Carried /\ UNCHANGED <<tap, config, conn, wanted>>
  BY <1>1 DEF DeleteKeg, Disturbed, Carried
<1>2. ASSUME NEW ids \in Orders, BeginOrder(b, ids)
      PROVE  Carried /\ UNCHANGED <<tap, config, conn, wanted>>
  BY <1>2, Going DEF BeginOrder, tables
<1>3. CASE CheckKeg(b)
  <2> DEFINE r == request[b]
  <2>0. UNCHANGED <<tap, config, conn, wanted>> /\ r.at = "order"
    BY <1>3 DEF CheckKeg, tables, ghostVars
  <2>1. CASE Go(b, Told("missing"))
    BY <2>0, <2>1, Going DEF Told
  <2>2. CASE Go(b, [r EXCEPT !.checked = TRUE, !.next = 1])
    BY <2>0, <2>2 DEF Go, Carried
  <2>3. CASE Go(b, [r EXCEPT !.next = @ + 1])
    BY <2>0, <2>3 DEF Go, Carried
  <2> QED BY <1>3, <2>0, <2>1, <2>2, <2>3 DEF CheckKeg
<1>4. CASE WriteOrder(b)
  <2> DEFINE r == request[b]
             k == r.ids[r.next]
  <2>1. request' = [o \in Browsers |->
              IF o # b THEN Disturbed(request[o], k)
              ELSE IF keg[k] = None THEN Told("missing")
              ELSE IF r.next = Len(r.ids) THEN Told("ok")
              ELSE [r EXCEPT !.next = @ + 1]]
    BY <1>4 DEF WriteOrder
  <2>2. r.at = "order" /\ r.at \notin {"replace", "config"}
    BY <1>4 DEF WriteOrder
  <2> HIDE DEF k
  <2>3. \A o \in Browsers \ {b} : request'[o].at \in {"replace", "config"} => request'[o] = request[o]
    <3>1. "order" \notin {"replace", "config"}
      OBVIOUS
    <3>2. \A o \in Browsers \ {b} : request'[o] = Disturbed(request[o], k)
      BY <2>1
    <3> QED BY <3>1, <3>2, StaysOrder
  <2>4. request'[b].at \notin {"replace", "config"}
    <3>1. \/ request'[b] = Told("missing") \/ request'[b] = Told("ok")
          \/ request'[b] = [r EXCEPT !.next = r.next + 1]
      BY <2>1
    <3>2. Told("missing").at = "idle" /\ Told("ok").at = "idle" /\ "idle" \notin {"replace", "config"}
      BY DEF Told
    <3>3. [r EXCEPT !.next = r.next + 1].at = r.at
      BY StaysOrder
    <3> QED BY <2>2, <3>1, <3>2, <3>3
  <2> QED BY <1>4, <2>1, <2>3, <2>4 DEF WriteOrder, Carried, ghostVars
<1> QED BY <1>1, <1>2, <1>3, <1>4 DEF KegRequest

(* A call that fails and a restart end handlers, and carry the rest on.      *)
LEMMA FailCarries ==
    ASSUME DOMAIN request = Browsers, NEW b \in Browsers, FailCall(b)
    PROVE  Carried /\ UNCHANGED <<tap, config, conn, wanted>>
<1>1. Go(b, Told("failed")) /\ UNCHANGED <<tap, config, conn, wanted>>
  BY DEF FailCall, tables, ghostVars
<1> QED BY <1>1, Going DEF Told

LEMMA RestartCarries ==
    ASSUME DOMAIN request = Browsers, Restart
    PROVE  /\ Carried /\ UNCHANGED <<tap, config, wanted>>
           /\ \A o \in Browsers : request'[o].at = "idle"
BY DEF Restart, Carried, Idle, Told, tables, ghostVars

LEMMA PagesCarry ==
    ASSUME DOMAIN request = Browsers, NEW b \in Browsers, PageRequest(b)
    PROVE  Carried /\ UNCHANGED <<tap, config, conn, wanted>>
<1>1. CASE ShowLog(b)
  BY <1>1, Answering DEF ShowLog, tables, ghostVars
<1>2. CASE ConvertCorrection(b)
  BY <1>2, Going DEF ConvertCorrection, tables
<1>3. CASE StoreCorrection(b)
  BY <1>3, Answering DEF StoreCorrection
<1>4. CASE ShowPour(b) \/ DeletePours(b)
  BY <1>4 DEF ShowPour, DeletePours, OneCall, Carried, tables
<1>5. CASE UpdatePours(b)
  BY <1>5, Answering DEF UpdatePours
<1>6. ASSUME NEW k \in Kegs, FindKeg(b, k)
      PROVE  Carried /\ UNCHANGED <<tap, config, conn, wanted>>
  BY <1>6, Going DEF FindKeg, tables
<1>7. ASSUME NEW v \in Corrections, CorrectLog(b, v) \/ CorrectPour(b, v)
      PROVE  Carried /\ UNCHANGED <<tap, config, conn, wanted>>
  <2>1. CASE CorrectLog(b, v)
    BY <2>1, Going DEF CorrectLog, tables
  <2>2. CASE CorrectPour(b, v)
    <3>1. PICK u \in displayUnits :
            Go(b, [at |-> "storePour", typed |-> v, read |-> UnitsRead(u)])
      BY <2>2 DEF CorrectPour
    <3> QED BY <2>2, <3>1, Going DEF CorrectPour, tables
  <2> QED BY <1>7, <2>1, <2>2
<1> QED BY <1>1, <1>2, <1>3, <1>4, <1>5, <1>6, <1>7 DEF PageRequest

(***************************************************************************)
(* Taps.                                                                   *)
(***************************************************************************)

Rows == [Taps -> TapRow \cup {None}]
OneTap(t, u, k) == Draws(t, k)' /\ Draws(u, k)' => Draws(t, k) /\ Draws(u, k)
NoNewShare == \A t, u \in Taps : \A k \in Kegs : t # u => OneTap(t, u, k)

TapInv ==
    /\ tap \in Rows
    /\ DOMAIN request = Browsers
    /\ \A b \in Browsers : request[b].at = "replace" =>
          request[b].tap \in Taps /\ request[b].form \in TapRow

LEMMA InitTaps == Init => TapInv
BY CatalogAssumption DEF Init, Idle, Told, TapInv, Rows

LEMMA Saves ==
    ASSUME tap \in Rows, NEW t \in Taps, NEW form \in TapRow, SaveTap(t, form)
    PROVE  tap' \in Rows /\ NoNewShare
<1>1. CASE UNCHANGED tap
  BY <1>1 DEF Rows, NoNewShare, OneTap, Draws
<1>2. CASE /\ form.keg = None \/ checkKegFree(tap, form.keg, t)
           /\ tap' = [tap EXCEPT ![t] = form]
  <2>1. tap' \in Rows /\ tap'[t] = form /\ \A u \in Taps \ {t} : tap'[u] = tap[u]
    BY <1>2 DEF Rows
  <2>2. ASSUME NEW u \in Taps, NEW w \in Taps, NEW k \in Kegs, u # w PROVE OneTap(u, w, k)
    <3>1. k # None
      BY CatalogAssumption
    <3>2. \A o \in Taps \ {t} : Draws(o, k) => form.keg # k
      BY <1>2, <3>1 DEF checkKegFree, Draws
    <3> QED BY <2>1, <2>2, <3>2 DEF OneTap, Draws
  <2> QED BY <2>1, <2>2 DEF NoNewShare
<1> QED BY <1>1, <1>2 DEF SaveTap

LEMMA LinksMade ==
    ASSUME tap \in Rows, NEW b \in Browsers, NEW links \in Links, LinkTaps(b, links)
    PROVE  tap' \in Rows /\ NoNewShare
<1>1. CASE UNCHANGED tap
  BY <1>1 DEF Rows, NoNewShare, OneTap, Draws
<1>2. CASE /\ \A i \in DOMAIN links : tap[links[i].tap] # None
           /\ \A i \in DOMAIN links : links[i].keg = None
                 \/ checkKegFree(Linked(links), links[i].keg, links[i].tap)
           /\ tap' = Linked(links)
  <2> DEFINE of(t) == {i \in DOMAIN links : links[i].tap = t}
             last(t) == CHOOSE i \in of(t) : \A j \in of(t) : j <= i
  <2>1. /\ DOMAIN links = 1 .. Len(links) /\ Len(links) \in Nat
        /\ \A i \in DOMAIN links : links[i].tap \in Taps /\ links[i].keg \in Kegs \cup {None}
    <3>1. links \in Seq([tap : Taps, keg : Kegs \cup {None}])
      BY CatalogAssumption
    <3>2. DOMAIN links = 1 .. Len(links) /\ Len(links) \in Nat
      BY <3>1
    <3>3. \A i \in 1 .. Len(links) : links[i] \in [tap : Taps, keg : Kegs \cup {None}]
      BY <3>1, Element
    <3> QED BY <3>2, <3>3
  <2>2. ASSUME NEW t \in Taps, of(t) # {} PROVE last(t) \in of(t)
    <3>1. of(t) \in SUBSET (1 .. Len(links))
      BY <2>1
    <3>2. \E i \in of(t) : \A j \in of(t) : j <= i
      BY <2>1, <2>2, <3>1, Largest
    <3> QED BY <3>2
  <2>3. \A t \in Taps : tap'[t] = IF of(t) = {} THEN tap[t]
                                  ELSE [tap[t] EXCEPT !.keg = links[last(t)].keg]
    BY <1>2 DEF Linked
  <2>4. \A t \in Taps : of(t) # {} => tap[t] \in TapRow
    BY <1>2, <2>1 DEF Rows
  <2> HIDE DEF last
  <2>5. \A t \in Taps : of(t) # {} =>
           /\ links[last(t)].tap = t /\ links[last(t)].keg \in Kegs \cup {None}
           /\ last(t) \in DOMAIN links
    BY <2>1, <2>2
  <2> HIDE DEF of
  <2>6. ASSUME NEW t \in Taps PROVE tap'[t] \in TapRow \cup {None}
    BY <2>3, <2>4, <2>5 DEF Rows, TapRow
  <2>7. tap' \in Rows
    BY <1>2, <2>6 DEF Linked, Rows
  <2>8. ASSUME NEW t \in Taps, NEW u \in Taps, NEW k \in Kegs, t # u, of(t) # {},
               Draws(t, k)', Draws(u, k)'
        PROVE  FALSE
    <3>1. tap'[t].keg = links[last(t)].keg
      BY <2>3, <2>4, <2>5, <2>8 DEF TapRow
    <3>2. links[last(t)].keg = k /\ k # None
      BY <2>8, <3>1, CatalogAssumption DEF Draws
    <3>3. checkKegFree(tap', k, t)
      BY <1>2, <2>5, <2>8, <3>2
    <3> QED BY <2>8, <3>3 DEF checkKegFree, Draws
  <2>9. ASSUME NEW t \in Taps, NEW u \in Taps, NEW k \in Kegs, t # u PROVE OneTap(t, u, k)
    <3>1. CASE of(t) = {} /\ of(u) = {}
      BY <2>3, <3>1 DEF OneTap, Draws
    <3>2. CASE of(t) # {} \/ of(u) # {}
      BY <2>8, <2>9, <3>2 DEF OneTap
    <3> QED BY <3>1, <3>2
  <2> QED BY <2>7, <2>9 DEF NoNewShare
<1> QED BY <1>1, <1>2 DEF LinkTaps

LEMMA Reordered ==
    ASSUME tap \in Rows, NEW b \in Browsers, NEW ids \in TapOrders, OrderTaps(b, ids)
    PROVE  tap' \in Rows /\ NoNewShare
<1>1. CASE UNCHANGED tap
  BY <1>1 DEF Rows, NoNewShare, OneTap, Draws
<1> DEFINE places(t) == {i \in DOMAIN ids : ids[i] = t}
           last(t) == CHOOSE i \in places(t) : \A j \in places(t) : j <= i
<1>2. CASE /\ \A i \in DOMAIN ids : tap[ids[i]] # None
           /\ tap' = [t \in Taps |-> IF places(t) = {} THEN tap[t]
                                     ELSE [tap[t] EXCEPT !.number = last(t)]]
  <2>1. DOMAIN ids = 1 .. Len(ids) /\ Len(ids) \in Nat
    BY CatalogAssumption
  <2>2. ASSUME NEW t \in Taps, places(t) # {} PROVE last(t) \in Nat
    <3>1. places(t) \in SUBSET (1 .. Len(ids))
      BY <2>1
    <3>2. \E i \in places(t) : \A j \in places(t) : j <= i
      BY <2>1, <2>2, <3>1, Largest
    <3>3. last(t) \in places(t)
      BY <3>2
    <3> QED BY <2>1, <3>3
  <2>3. \A t \in Taps : places(t) # {} => tap[t] \in TapRow /\ tap[t] # None
    BY <1>2 DEF Rows
  <2>4. \A t \in Taps : tap'[t] = IF places(t) = {} THEN tap[t]
                                  ELSE [tap[t] EXCEPT !.number = last(t)]
    BY <1>2
  <2>5. DOMAIN tap' = Taps /\ tap' = [t \in Taps |-> tap'[t]]
    BY <1>2
  <2> HIDE DEF last, places
  <2>6. \A t \in Taps : tap'[t] \in TapRow \cup {None}
    BY <2>2, <2>3, <2>4 DEF Rows, TapRow
  <2>7. \A t \in Taps : tap'[t] = tap[t] \/ (tap[t] \in TapRow /\ tap'[t].keg = tap[t].keg)
    BY <2>2, <2>3, <2>4 DEF TapRow
  <2>8. \A t \in Taps : \A k \in Kegs : Draws(t, k)' => Draws(t, k)
    BY <2>3, <2>4, <2>7 DEF Draws
  <2> QED BY <2>5, <2>6, <2>8 DEF Rows, NoNewShare, OneTap
<1> QED BY <1>1, <1>2 DEF OrderTaps

LEMMA TapsStep ==
    ASSUME TapInv, NEW b \in Browsers, TapRequest(b)
    PROVE  TapInv' /\ NoNewShare
<1>1. ASSUME NEW t \in Taps, DeleteTap(b, t) PROVE TapInv' /\ NoNewShare
  BY <1>1 DEF DeleteTap, OneCall, TapInv, Rows, NoNewShare, OneTap, Draws
<1>2. ASSUME NEW t \in Taps, NEW form \in TapForms, CreateTap(b, t, form)
      PROVE  TapInv' /\ NoNewShare
  BY <1>2, Saves, CatalogAssumption DEF CreateTap, OneCall, TapInv
<1>3. ASSUME NEW t \in Taps, NEW form \in TapForms, FindTap(b, t, form)
      PROVE  TapInv' /\ NoNewShare
  BY <1>3, Going, CatalogAssumption
  DEF FindTap, tables, TapInv, Rows, NoNewShare, OneTap, Draws
<1>4. CASE ReplaceTap(b)
  <2>1. tap' \in Rows /\ NoNewShare
    BY <1>4, Saves DEF ReplaceTap, TapInv
  <2> QED BY <1>4, <2>1, Answering DEF ReplaceTap, TapInv, Carried
<1>5. ASSUME NEW links \in Links, LinkTaps(b, links) PROVE TapInv' /\ NoNewShare
  BY <1>5, LinksMade DEF LinkTaps, OneCall, TapInv
<1>6. ASSUME NEW ids \in TapOrders, OrderTaps(b, ids) PROVE TapInv' /\ NoNewShare
  BY <1>6, Reordered DEF OrderTaps, OneCall, TapInv
<1> QED BY <1>1, <1>2, <1>3, <1>4, <1>5, <1>6 DEF TapRequest

LEMMA ConfigGoes ==
    ASSUME DOMAIN request = Browsers, NEW b \in Browsers, ConfigRequest(b)
    PROVE  /\ UNCHANGED tap
           /\ DOMAIN request' = Browsers
           /\ \A o \in Browsers : request'[o].at = "replace" => request'[o] = request[o]
<1>1. ASSUME NEW patch \in Patches, ReadConfig(b, patch)
      PROVE  /\ UNCHANGED tap
             /\ DOMAIN request' = Browsers
             /\ \A o \in Browsers : request'[o].at = "replace" => request'[o] = request[o]
  BY <1>1, Going DEF ReadConfig, tables
<1>2. CASE WriteConfig(b) \/ RollBackConfig(b)
  BY <1>2, Answering DEF WriteConfig, RollBackConfig, tables, Carried
<1> QED BY <1>1, <1>2 DEF ConfigRequest

LEMMA NextTaps == ASSUME TapInv, [Next]_vars PROVE TapInv' /\ NoNewShare
<1>1. ASSUME UNCHANGED tap, DOMAIN request' = Browsers,
             \A o \in Browsers : request'[o].at = "replace" => request'[o] = request[o]
      PROVE  TapInv' /\ NoNewShare
  BY <1>1 DEF TapInv, Rows, NoNewShare, OneTap, Draws
<1>2. ASSUME NEW b \in Browsers, TapRequest(b) PROVE TapInv' /\ NoNewShare
  BY <1>2, TapsStep
<1>3. ASSUME NEW b \in Browsers, KegRequest(b) \/ PageRequest(b)
      PROVE  TapInv' /\ NoNewShare
  BY <1>1, <1>3, KegsCarry, PagesCarry DEF TapInv, Carried
<1>4. ASSUME NEW b \in Browsers, ConfigRequest(b) PROVE TapInv' /\ NoNewShare
  BY <1>1, <1>4, ConfigGoes DEF TapInv
<1>5. ASSUME NEW k \in Kegs, NEW d \in Devices, ApplyPacket(k, d)
      PROVE  TapInv' /\ NoNewShare
  BY <1>1, <1>5 DEF ApplyPacket, TapInv
<1>6. CASE UNCHANGED vars
  BY <1>1, <1>6 DEF vars, TapInv
<1>7. ASSUME NEW b \in Browsers, FailCall(b) PROVE TapInv' /\ NoNewShare
  BY <1>1, <1>7, FailCarries DEF TapInv, Carried
<1>8. CASE Restart
  BY <1>1, <1>8, RestartCarries DEF TapInv, Carried
<1> QED BY <1>2, <1>3, <1>4, <1>5, <1>6, <1>7, <1>8 DEF Next

(* Whatever is saved, replaced, linked, renumbered and deleted, in whatever  *)
(* order the requests of any number of browsers come, no keg comes to feed a *)
(* second tap.                                                               *)
THEOREM OneTapEach == Spec => KegStaysOnOneTap
<1>1. TapInv /\ [Next]_vars => TapInv'
  BY NextTaps
<1>2. TapInv /\ [Next]_vars =>
         [\A t, u \in Taps : \A k \in Kegs :
             t # u /\ Draws(t, k)' /\ Draws(u, k)' => Draws(t, k) /\ Draws(u, k)]_tap
  BY NextTaps DEF NoNewShare, OneTap
<1> QED
  BY InitTaps, <1>1, <1>2, PTL DEF Spec, KegStaysOnOneTap

(***************************************************************************)
(* The settings.                                                           *)
(***************************************************************************)

ConfigInv ==
    /\ DOMAIN request = Browsers
    /\ getAppConfig(config) = wanted
    /\ wanted.minPour.value \in Int
    /\ \A b \in Browsers : request[b].at = "config" =>
          /\ conn = b /\ request[b].patch \in Patches
          /\ request[b].next = normalizeAppConfig(Patched(wanted, request[b].patch))

(* What is written is read back, value by value. *)
LEMMA ReadBack ==
    ASSUME NEW c, c.minPour.value \in Int
    PROVE  LET n == normalizeAppConfig(c)
           IN getAppConfig(TableOf(n)) = n /\ n.minPour.value \in Int
<1> DEFINE n == normalizeAppConfig(c)
           t == TableOf(n)
<1>1. /\ n = [display |-> n.display, minPour |-> n.minPour]
      /\ n.display = [system |-> NormalizeDisplaySystem(c.display.system),
                      measure |-> NormalizeDisplayMeasure(c.display.measure)]
      /\ n.minPour = NormalizeMinPour(c.minPour)
  BY DEF normalizeAppConfig
<1>2. /\ n.minPour.value = IF c.minPour.value < 0 THEN 0 ELSE c.minPour.value
      /\ n.minPour.unit = OneOf(c.minPour.unit, {"ml"}, "oz")
      /\ n.minPour = [value |-> n.minPour.value, unit |-> n.minPour.unit]
  BY <1>1 DEF NormalizeMinPour
<1>3. n.minPour.value \in Nat /\ n.minPour.value # None
  BY <1>2, CatalogAssumption
<1>4. /\ DOMAIN t = Keys
      /\ t["display_unit_system"] = n.display.system
      /\ t["display_unit_measure"] = n.display.measure
      /\ t["min_pour_value"] = n.minPour.value
      /\ t["min_pour_unit"] = n.minPour.unit
  BY DEF TableOf, Keys
<1> HIDE DEF n, t
<1>5. /\ Stored(t, "display_unit_system", "device") = n.display.system
      /\ Stored(t, "display_unit_measure", "device") = n.display.measure
      /\ Stored(t, "min_pour_value", DefaultMinPour.value) = n.minPour.value
      /\ Stored(t, "min_pour_unit", DefaultMinPour.unit) = n.minPour.unit
  BY <1>4 DEF Stored, Keys
<1>6. /\ NormalizeDisplaySystem(n.display.system) = n.display.system
      /\ NormalizeDisplayMeasure(n.display.measure) = n.display.measure
  BY <1>1 DEF NormalizeDisplaySystem, NormalizeDisplayMeasure, OneOf
<1>7. NormalizeMinPour([value |-> Parsed(n.minPour.value, DefaultMinPour.value),
                        unit |-> n.minPour.unit]) = n.minPour
  <2>1. Parsed(n.minPour.value, DefaultMinPour.value) = n.minPour.value
    BY <1>3 DEF Parsed
  <2>2. OneOf(n.minPour.unit, {"ml"}, "oz") = n.minPour.unit
    BY <1>2 DEF OneOf
  <2> QED BY <1>2, <1>3, <2>1, <2>2 DEF NormalizeMinPour
<1>8. getAppConfig(t) = n
  BY <1>1, <1>5, <1>6, <1>7 DEF getAppConfig
<1> QED BY <1>3, <1>8 DEF n, t

LEMMA InitConfig == Init => ConfigInv
<1> SUFFICES ASSUME Init PROVE ConfigInv
  OBVIOUS
<1>1. config \in Tables /\ wanted = getAppConfig(config) /\ request = [b \in Browsers |-> Idle]
  BY DEF Init
<1>2. getAppConfig(config).minPour.value \in Int
  <2>1. Stored(config, "min_pour_value", DefaultMinPour.value) \in Int \cup {None}
    BY <1>1, CatalogAssumption DEF Stored, MinPour
  <2>2. DefaultMinPour.value \in Int
    BY CatalogAssumption DEF MinPour
  <2> QED BY <2>1, <2>2 DEF getAppConfig, Parsed, NormalizeMinPour
<1> QED BY <1>1, <1>2 DEF ConfigInv, Idle, Told

LEMMA ConfigStep ==
    ASSUME ConfigInv, NEW b \in Browsers, ConfigRequest(b)
    PROVE  ConfigInv'
<1>1. ASSUME NEW patch \in Patches, ReadConfig(b, patch) PROVE ConfigInv'
  <2>1. \A o \in Browsers : request[o].at # "config"
    BY <1>1, CatalogAssumption DEF ReadConfig, Free, ConfigInv
  <2>2. /\ conn' = b /\ UNCHANGED <<config, wanted>>
        /\ DOMAIN request' = Browsers
        /\ request'[b] = [at |-> "config", patch |-> patch,
              next |-> normalizeAppConfig(Patched(getAppConfig(config), patch))]
        /\ \A o \in Browsers \ {b} : request'[o] = request[o]
    BY <1>1, Going DEF ReadConfig, tables, ConfigInv
  <2> QED BY <2>1, <2>2 DEF ConfigInv
<1>2. CASE WriteConfig(b)
  <2> DEFINE c == Patched(wanted, request[b].patch)
  <2>1. /\ config' = TableOf(normalizeAppConfig(c)) /\ wanted' = normalizeAppConfig(c)
        /\ request[b].patch \in Patches
    BY <1>2 DEF WriteConfig, ConfigInv
  <2>2. c.minPour.value \in Int
    BY <2>1, CatalogAssumption DEF ConfigInv, Patched
  <2>3. getAppConfig(config') = wanted' /\ wanted'.minPour.value \in Int
    BY <2>1, <2>2, ReadBack
  <2>4. \A o \in Browsers : request'[o].at # "config"
    BY <1>2, Answering DEF WriteConfig, ConfigInv, Carried
  <2> QED BY <1>2, <2>3, <2>4, Answering DEF WriteConfig, ConfigInv, Carried
<1>3. CASE RollBackConfig(b)
  <2>1. \A o \in Browsers : request'[o].at # "config"
    BY <1>3, Answering DEF RollBackConfig, ConfigInv, Carried
  <2> QED BY <1>3, <2>1, Answering DEF RollBackConfig, ConfigInv, Carried, tables, ghostVars
<1> QED BY <1>1, <1>2, <1>3 DEF ConfigRequest

LEMMA TapsCarry ==
    ASSUME DOMAIN request = Browsers, NEW b \in Browsers, TapRequest(b)
    PROVE  /\ UNCHANGED <<config, conn, wanted>>
           /\ DOMAIN request' = Browsers
           /\ \A o \in Browsers : request'[o].at = "config" => request'[o] = request[o]
<1> DEFINE Goal == /\ UNCHANGED <<config, conn, wanted>>
                   /\ DOMAIN request' = Browsers
                   /\ \A o \in Browsers : request'[o].at = "config" => request'[o] = request[o]
<1>1. ASSUME NEW t \in Taps, DeleteTap(b, t) PROVE Goal
  BY <1>1 DEF DeleteTap, OneCall
<1>2. ASSUME NEW t \in Taps, NEW form \in TapForms, CreateTap(b, t, form) PROVE Goal
  BY <1>2 DEF CreateTap, OneCall
<1>3. ASSUME NEW t \in Taps, NEW form \in TapForms, FindTap(b, t, form) PROVE Goal
  BY <1>3, Going DEF FindTap, tables
<1>4. CASE ReplaceTap(b)
  BY <1>4, Answering DEF ReplaceTap, ghostVars, Carried
<1>5. CASE \/ \E links \in Links : LinkTaps(b, links)
           \/ \E ids \in TapOrders : OrderTaps(b, ids)
  BY <1>5 DEF LinkTaps, OrderTaps, OneCall
<1> QED BY <1>1, <1>2, <1>3, <1>4, <1>5 DEF TapRequest

LEMMA NextConfig == ASSUME ConfigInv, [Next]_vars PROVE ConfigInv'
<1>1. ASSUME UNCHANGED <<config, conn, wanted>>, DOMAIN request' = Browsers,
             \A o \in Browsers : request'[o].at = "config" => request'[o] = request[o]
      PROVE  ConfigInv'
  BY <1>1 DEF ConfigInv
<1>2. ASSUME NEW b \in Browsers, TapRequest(b) PROVE ConfigInv'
  BY <1>1, <1>2, TapsCarry DEF ConfigInv
<1>3. ASSUME NEW b \in Browsers, KegRequest(b) \/ PageRequest(b) PROVE ConfigInv'
  BY <1>1, <1>3, KegsCarry, PagesCarry DEF ConfigInv, Carried
<1>4. ASSUME NEW b \in Browsers, ConfigRequest(b) PROVE ConfigInv'
  BY <1>4, ConfigStep
<1>5. ASSUME NEW k \in Kegs, NEW d \in Devices, ApplyPacket(k, d) PROVE ConfigInv'
  BY <1>1, <1>5 DEF ApplyPacket, ConfigInv
<1>6. CASE UNCHANGED vars
  BY <1>1, <1>6 DEF vars, ghostVars, ConfigInv
<1>7. ASSUME NEW b \in Browsers, FailCall(b) PROVE ConfigInv'
  BY <1>1, <1>7, FailCarries DEF ConfigInv, Carried
<1>8. CASE Restart
  BY <1>8, RestartCarries DEF ConfigInv, Carried
<1> QED BY <1>2, <1>3, <1>4, <1>5, <1>6, <1>7, <1>8 DEF Next

(* The settings that are read, by pages and by trackPour, are those the      *)
(* requests made, one after the other.                                       *)
THEOREM SettingsStay == Spec => []SettingsKept
<1>1. pourMinimumsTx(config) = getAppConfig(config).minPour
  <2> DEFINE value == Stored(config, "min_pour_value", DefaultMinPour.value)
             unit == Stored(config, "min_pour_unit", DefaultMinPour.unit)
  <2>1. pourMinimumsTx(config) =
          NormalizeMinPour([value |-> Parsed(value, DefaultMinPour.value), unit |-> unit])
    BY DEF pourMinimumsTx, Stored, Parsed
  <2>2. getAppConfig(config).minPour =
          NormalizeMinPour([value |-> Parsed(value, DefaultMinPour.value), unit |-> unit])
    BY DEF getAppConfig
  <2> QED BY <2>1, <2>2
<1>2. ConfigInv => SettingsKept
  BY <1>1 DEF ConfigInv, SettingsKept
<1> QED
  BY InitConfig, NextConfig, <1>2, PTL DEF Spec

(***************************************************************************)
(* The order of kegs.                                                      *)
(***************************************************************************)

KegRows == [Kegs -> KegRow \cup {None}]
OrderRequest == [at : {"order"}, ids : Orders, next : Nat, checked : BOOLEAN,
                 before : KegRows, others : SUBSET Kegs]

(* How many kegs of an order have been written, and looked up.               *)
Written(r) == IF r.checked THEN r.next - 1 ELSE 0
LookedUp(r) == IF r.checked THEN Len(r.ids) ELSE r.next - 1

(* How far r has come: those that were written have their place and the      *)
(* others the one they had, and what was looked up is still there, but for   *)
(* what another request moved.                                               *)
Progress(r, rows) ==
    /\ r \in OrderRequest /\ r.next \in 1 .. Len(r.ids)
    /\ Placed(r, Written(r), rows)
    /\ \A i \in 1 .. LookedUp(r) : rows[r.ids[i]] = None => r.ids[i] \in r.others

OrderInv ==
    /\ DOMAIN request = Browsers
    /\ keg \in KegRows
    /\ \A b \in Browsers : request[b].at = "order" => Progress(request[b], keg)

(* What the property says of one browser's step.                             *)
Ended(r, answer) ==
    /\ \E n \in 0 .. Len(r.ids) : Placed(r, n, keg')
    /\ answer = "ok" => Placed(r, Len(r.ids), keg')
    /\ answer = "missing" =>
          Placed(r, 0, keg') \/ \E i \in DOMAIN r.ids : r.ids[i] \in r.others
WholeOrReported(b) ==
    request[b].at = "order" /\ request'[b].at # "order" =>
        Ended(request[b], request'[b].answer)
AllReported == \A b \in Browsers : WholeOrReported(b)

LEMMA Asked ==
    ASSUME NEW r, NEW rows, Progress(r, rows)
    PROVE  /\ r.ids \in Seq(Kegs) /\ DOMAIN r.ids = 1 .. Len(r.ids) /\ Len(r.ids) \in Nat
           /\ \A i \in 1 .. Len(r.ids) : r.ids[i] \in Kegs
           /\ r.next \in 1 .. Len(r.ids) /\ r.checked \in BOOLEAN
           /\ Written(r) \in 0 .. Len(r.ids) /\ LookedUp(r) \in 0 .. Len(r.ids)
<1>1. r.ids \in Seq(Kegs)
  BY OrderAssumption DEF Progress, OrderRequest
<1>2. r.next \in 1 .. Len(r.ids) /\ r.checked \in BOOLEAN
  BY DEF Progress, OrderRequest
<1> QED
  BY <1>1, <1>2 DEF Written, LookedUp

(* Kegs that stay stored in their places leave an order where it was.        *)
Kept(rows, after) ==
    \A k \in Kegs : rows[k] # None => after[k] # None /\ after[k].order = rows[k].order

LEMMA KeptProgress ==
    ASSUME NEW r, NEW rows, NEW after, Progress(r, rows), Kept(rows, after)
    PROVE  Progress(r, after)
<1>1. Placed(r, Written(r), after)
  BY DEF Progress, Placed, Kept
<1>2. \A i \in 1 .. LookedUp(r) : r.ids[i] \in Kegs
  BY Asked
<1> QED
  BY <1>1, <1>2 DEF Progress, Kept

(* So does what another request does to one keg, once that is excepted.      *)
LEMMA MovedProgress ==
    ASSUME NEW r, NEW rows, NEW after, NEW k \in Kegs,
           r.at = "order" => Progress(r, rows), r.at = "order",
           \A j \in Kegs \ {k} : after[j] = rows[j]
    PROVE  /\ Disturbed(r, k).at = "order"
           /\ Progress(Disturbed(r, k), after)
<1> DEFINE q == [r EXCEPT !.others = r.others \cup {k}]
<1>1. Progress(r, rows) /\ Disturbed(r, k) = q
  BY DEF Disturbed
<1>2. /\ q \in OrderRequest /\ q.at = "order" /\ q.next = r.next /\ q.checked = r.checked
      /\ q.ids = r.ids /\ q.before = r.before /\ q.others = r.others \cup {k}
  BY <1>1 DEF Progress, OrderRequest
<1>3. Written(q) = Written(r) /\ LookedUp(q) = LookedUp(r)
  BY <1>2 DEF Written, LookedUp
<1> HIDE DEF q
<1>4. Kegs \ q.others \subseteq Kegs \ r.others /\ k \in q.others
  BY <1>2
<1>5. Placed(q, Written(q), after)
  BY <1>1, <1>2, <1>3, <1>4 DEF Progress, Placed
<1>6. \A i \in 1 .. LookedUp(q) : after[q.ids[i]] = None => q.ids[i] \in q.others
  <2>1. \A i \in 1 .. LookedUp(r) : r.ids[i] \in Kegs
    BY <1>1, Asked
  <2> QED
    BY <1>1, <1>2, <1>3, <2>1 DEF Progress
<1> QED
  BY <1>1, <1>2, <1>5, <1>6 DEF Progress

(* No step of another kind touches an order that is under way.               *)
OrdersKept ==
    /\ DOMAIN request' = Browsers
    /\ \A o \in Browsers : request[o].at = "order" \/ request'[o].at = "order" =>
          request'[o] = request[o]

LEMMA GoesOn ==
    ASSUME DOMAIN request = Browsers, NEW b \in Browsers, NEW r, Go(b, r),
           r.at # "order", request[b].at # "order"
    PROVE  OrdersKept
BY DEF Go, OrdersKept

LEMMA Ends ==
    ASSUME DOMAIN request = Browsers, NEW b \in Browsers, Answer(b),
           request[b].at # "order"
    PROVE  OrdersKept
BY GoesOn DEF Answer, Idle, Told

LEMMA OtherRequests ==
    ASSUME DOMAIN request = Browsers, NEW b \in Browsers,
           TapRequest(b) \/ ConfigRequest(b) \/ PageRequest(b)
    PROVE  OrdersKept /\ UNCHANGED keg
<1> DEFINE Goal == OrdersKept /\ UNCHANGED keg
<1>1. ASSUME NEW t \in Taps, DeleteTap(b, t) PROVE Goal
  BY <1>1 DEF DeleteTap, OneCall, OrdersKept
<1>2. ASSUME NEW t \in Taps, NEW form \in TapForms, CreateTap(b, t, form) PROVE Goal
  BY <1>2 DEF CreateTap, OneCall, OrdersKept
<1>3. ASSUME NEW t \in Taps, NEW form \in TapForms, FindTap(b, t, form) PROVE Goal
  BY <1>3, GoesOn DEF FindTap, Begin, tables
<1>4. CASE ReplaceTap(b)
  BY <1>4, Ends DEF ReplaceTap
<1>5. CASE \/ \E links \in Links : LinkTaps(b, links)
           \/ \E ids \in TapOrders : OrderTaps(b, ids)
  BY <1>5 DEF LinkTaps, OrderTaps, OneCall, OrdersKept
<1>6. ASSUME NEW patch \in Patches, ReadConfig(b, patch) PROVE Goal
  BY <1>6, GoesOn DEF ReadConfig, Begin, tables
<1>7. CASE WriteConfig(b) \/ RollBackConfig(b)
  BY <1>7, Ends DEF WriteConfig, RollBackConfig, tables
<1>8. CASE ShowLog(b)
  BY <1>8, Ends DEF ShowLog, tables
<1>9. CASE ConvertCorrection(b)
  <2>1. PICK u \in displayUnits :
          Go(b, [at |-> "store", typed |-> request[b].typed, device |-> request[b].device,
                 read |-> UnitsRead(u),
                 amount |-> LogStored(request[b].typed, request[b].device, u)])
    BY <1>9 DEF ConvertCorrection
  <2> QED BY <1>9, <2>1, GoesOn DEF ConvertCorrection, tables
<1>10. CASE StoreCorrection(b) \/ UpdatePours(b)
  BY <1>10, Ends DEF StoreCorrection, UpdatePours
<1>11. CASE ShowPour(b) \/ DeletePours(b)
  BY <1>11 DEF ShowPour, DeletePours, OneCall, tables, OrdersKept
<1>12. ASSUME NEW k \in Kegs, FindKeg(b, k) PROVE Goal
  BY <1>12, GoesOn DEF FindKeg, Begin, tables
<1>13. ASSUME NEW v \in Corrections, CorrectLog(b, v) \/ CorrectPour(b, v) PROVE Goal
  BY <1>13, GoesOn DEF CorrectLog, CorrectPour, Begin, tables
<1> QED
  BY <1>1, <1>2, <1>3, <1>4, <1>5, <1>6, <1>7, <1>8, <1>9, <1>10, <1>11, <1>12, <1>13
  DEF TapRequest, ConfigRequest, PageRequest

(* A step that keeps the orders under way and the places of kegs.            *)
LEMMA KeptOrders ==
    ASSUME OrderInv, OrdersKept, keg' \in KegRows, Kept(keg, keg')
    PROVE  OrderInv' /\ AllReported
<1>1. ASSUME NEW b \in Browsers, request'[b].at = "order"
      PROVE  Progress(request'[b], keg')
  BY <1>1, KeptProgress DEF OrderInv, OrdersKept
<1> QED
  BY <1>1 DEF OrderInv, OrdersKept, AllReported, WholeOrReported

(* A packet changes how a keg is set, and not its place.                     *)
LEMMA PacketOrders ==
    ASSUME OrderInv, NEW k \in Kegs, NEW d \in Devices, ApplyPacket(k, d)
    PROVE  OrderInv' /\ AllReported
<1>1. keg' = [keg EXCEPT ![k] = IF keg[k] = None THEN [device |-> d, order |-> 0]
                                ELSE [keg[k] EXCEPT !.device = d]]
  BY DEF ApplyPacket
<1>2. d \in Device
  BY CatalogAssumption
<1>3. /\ [device |-> d, order |-> 0] \in KegRow
      /\ keg[k] # None => /\ [keg[k] EXCEPT !.device = d] \in KegRow
                          /\ [keg[k] EXCEPT !.device = d].order = keg[k].order
  BY <1>2 DEF OrderInv, KegRows, KegRow
<1>4. keg' \in KegRows
  BY <1>1, <1>3 DEF OrderInv, KegRows
<1>5. None \notin KegRow
  BY CatalogAssumption
<1>6. Kept(keg, keg')
  BY <1>1, <1>3, <1>5 DEF Kept, OrderInv, KegRows
<1>7. OrdersKept
  BY DEF ApplyPacket, OrdersKept, OrderInv
<1> QED
  BY <1>4, <1>6, <1>7, KeptOrders

(* A delete moves one keg, of every order under way.                         *)
LEMMA DeleteOrders ==
    ASSUME OrderInv, NEW b \in Browsers, NEW k \in Kegs, DeleteKeg(b, k)
    PROVE  OrderInv' /\ AllReported
<1>1. /\ keg' \in KegRows /\ DOMAIN request' = Browsers
      /\ \A o \in Browsers : request'[o] = Disturbed(request[o], k)
      /\ \A j \in Kegs \ {k} : keg'[j] = keg[j]
  BY DEF DeleteKeg, OrderInv, KegRows
<1>2. ASSUME NEW o \in Browsers, request[o].at = "order"
      PROVE  request'[o].at = "order" /\ Progress(request'[o], keg')
  BY <1>1, <1>2, MovedProgress DEF OrderInv
<1>3. ASSUME NEW o \in Browsers, request[o].at # "order"
      PROVE  request'[o].at # "order"
  BY <1>1, <1>3 DEF Disturbed
<1> QED
  BY <1>1, <1>2, <1>3 DEF OrderInv, AllReported, WholeOrReported

LEMMA BeginOrders ==
    ASSUME OrderInv, NEW b \in Browsers, NEW ids \in Orders, BeginOrder(b, ids)
    PROVE  OrderInv' /\ AllReported
<1> DEFINE r == [at |-> "order", ids |-> ids, next |-> 1, checked |-> FALSE,
                 before |-> keg, others |-> {}]
<1>1. /\ keg' = keg /\ DOMAIN request' = Browsers /\ request'[b] = r
      /\ request[b].at # "order"
      /\ \A o \in Browsers \ {b} : request'[o] = request[o]
  BY DEF BeginOrder, Begin, Go, OrderInv, tables
<1>2. 1 \in 1 .. Len(ids)
  <2>1. ids \in Seq(Kegs) /\ ids # <<>>
    BY OrderAssumption
  <2> QED BY <2>1
<1>3. Progress(r, keg)
  <2>1. Written(r) = 0 /\ LookedUp(r) = 0
    BY DEF Written, LookedUp
  <2>2. r \in OrderRequest /\ r.next = 1 /\ r.ids = ids /\ r.before = keg
    BY DEF OrderRequest, OrderInv
  <2> HIDE DEF r
  <2>3. Placed(r, 0, keg)
    BY <2>2 DEF Placed
  <2> QED
    BY <1>2, <2>1, <2>2, <2>3 DEF Progress
<1> QED
  BY <1>1, <1>3 DEF OrderInv, AllReported, WholeOrReported

(* A lookup that fails ends an order that has changed nothing.               *)
LEMMA CheckOrders ==
    ASSUME OrderInv, NEW b \in Browsers, CheckKeg(b)
    PROVE  OrderInv' /\ AllReported
<1> DEFINE r == request[b]
<1>1. /\ r.at = "order" /\ ~r.checked /\ keg' = keg
      /\ Progress(r, keg)
  BY DEF CheckKeg, OrderInv, tables
<1>2. /\ r.ids \in Seq(Kegs) /\ r.next \in 1 .. Len(r.ids) /\ r \in OrderRequest
      /\ Len(r.ids) \in Nat
  BY <1>1, Asked DEF Progress
<1>3. Placed(r, 0, keg) /\ \A i \in 1 .. r.next - 1 : keg[r.ids[i]] = None => r.ids[i] \in r.others
  BY <1>1 DEF Progress, Written, LookedUp
<1>4. ASSUME NEW q, request' = [request EXCEPT ![b] = q],
             q.at = "order" => Progress(q, keg),
             q.at # "order" => q.answer = "missing"
      PROVE  OrderInv' /\ AllReported
  <2>1. q.at # "order" => Ended(r, q.answer)
    <3>1. 0 \in 0 .. Len(r.ids) /\ Placed(r, 0, keg')
      BY <1>1, <1>2, <1>3
    <3>2. q.at # "order" => q.answer # "ok"
      BY <1>4
    <3> HIDE DEF r
    <3> QED BY <3>1, <3>2 DEF Ended
  <2> QED
    BY <1>1, <1>4, <2>1 DEF OrderInv, AllReported, WholeOrReported
<1>5. CASE keg[r.ids[r.next]] = None
  <2>1. request' = [request EXCEPT ![b] = Told("missing")]
    BY <1>5 DEF CheckKeg, Go
  <2> QED
    BY <1>4, <2>1 DEF Told
<1>6. CASE keg[r.ids[r.next]] # None /\ r.next = Len(r.ids)
  <2> DEFINE q == [r EXCEPT !.checked = TRUE, !.next = 1]
  <2>1. request' = [request EXCEPT ![b] = q]
    BY <1>6 DEF CheckKeg, Go
  <2>2. /\ q \in OrderRequest /\ q.at = "order" /\ q.next = 1 /\ q.checked
        /\ q.ids = r.ids /\ q.before = r.before /\ q.others = r.others
    BY <1>2 DEF OrderRequest
  <2>3. 1 \in 1 .. Len(q.ids) /\ Written(q) = 0 /\ LookedUp(q) = Len(r.ids)
    BY <1>2, <2>2 DEF Written, LookedUp
  <2>4. \A i \in 1 .. Len(r.ids) : keg[r.ids[i]] = None => r.ids[i] \in r.others
    <3>1. 1 .. Len(r.ids) = 1 .. (r.next - 1) \cup {r.next}
      BY <1>2, <1>6
    <3> QED
      BY <1>3, <1>6, <3>1
  <2> HIDE DEF q
  <2>5. Placed(q, 0, keg)
    BY <1>3, <2>2 DEF Placed
  <2>6. Progress(q, keg)
    BY <2>2, <2>3, <2>4, <2>5 DEF Progress
  <2> QED
    BY <1>4, <2>1, <2>2, <2>6
<1>7. CASE keg[r.ids[r.next]] # None /\ r.next # Len(r.ids)
  <2> DEFINE q == [r EXCEPT !.next = r.next + 1]
  <2>1. request' = [request EXCEPT ![b] = q]
    BY <1>7 DEF CheckKeg, Go
  <2>2. /\ q \in OrderRequest /\ q.at = "order" /\ q.next = r.next + 1 /\ ~q.checked
        /\ q.ids = r.ids /\ q.before = r.before /\ q.others = r.others
    BY <1>1, <1>2 DEF OrderRequest
  <2>3. /\ q.next \in 1 .. Len(q.ids)
        /\ 1 .. q.next - 1 = 1 .. (r.next - 1) \cup {r.next}
        /\ Written(q) = 0 /\ LookedUp(q) = q.next - 1
    BY <1>2, <1>7, <2>2 DEF Written, LookedUp
  <2> HIDE DEF q
  <2>4. Placed(q, 0, keg)
    BY <1>3, <2>2 DEF Placed
  <2>5. Progress(q, keg)
    BY <1>3, <1>7, <2>2, <2>3, <2>4 DEF Progress
  <2> QED
    BY <1>4, <2>1, <2>2, <2>5
<1> QED
  BY <1>5, <1>6, <1>7

(* UpdateExistingKeg gives one keg its place.                                *)
LEMMA Renumbered ==
    ASSUME keg \in KegRows, NEW k \in Kegs, keg[k] # None, NEW n \in Nat,
           keg' = [keg EXCEPT ![k].order = n]
    PROVE  /\ keg' \in KegRows
           /\ keg'[k] # None /\ keg'[k].order = n
           /\ \A j \in Kegs \ {k} : keg'[j] = keg[j]
<1>1. keg[k] \in KegRow
  BY DEF KegRows
<1>2. keg' = [keg EXCEPT ![k] = [keg[k] EXCEPT !.order = n]]
  OBVIOUS
<1>3. [keg[k] EXCEPT !.order = n] \in KegRow /\ [keg[k] EXCEPT !.order = n].order = n
  BY <1>1 DEF KegRow
<1>4. None \notin KegRow
  BY CatalogAssumption
<1> QED
  BY <1>2, <1>3, <1>4 DEF KegRows

(* A keg written in its place is one more of the order, also when the order  *)
(* names it more than once: then it has the last place so far.               *)
LEMMA OneMorePlaced ==
    ASSUME NEW r, NEW rows, NEW after, NEW n \in Nat, NEW k,
           Placed(r, n, rows), r.ids[n + 1] = k,
           after[k] # None, after[k].order = n,
           \A j \in Kegs \ {k} : after[j] = rows[j]
    PROVE  Placed(r, n + 1, after)
<1> SUFFICES ASSUME NEW j \in Kegs \ r.others
             PROVE  LET given == {i \in 1 .. n + 1 : r.ids[i] = j}
                    IN IF given = {}
                       THEN r.before[j] # None => after[j] # None /\ after[j].order = r.before[j].order
                       ELSE /\ after[j] # None
                            /\ \E i \in given : after[j].order = i - 1 /\ \A m \in given : m <= i
  BY DEF Placed
<1>1. CASE j = k
  <2>1. n + 1 \in {i \in 1 .. n + 1 : r.ids[i] = j}
    BY <1>1
  <2>2. \A m \in {i \in 1 .. n + 1 : r.ids[i] = j} : m <= n + 1
    OBVIOUS
  <2>3. after[j] # None /\ after[j].order = (n + 1) - 1
    BY <1>1
  <2> QED BY <2>1, <2>2, <2>3
<1>2. CASE j # k
  <2>1. {i \in 1 .. n + 1 : r.ids[i] = j} = {i \in 1 .. n : r.ids[i] = j}
    BY <1>2
  <2>2. after[j] = rows[j]
    BY <1>2
  <2> QED BY <2>1, <2>2 DEF Placed
<1> QED BY <1>1, <1>2

(* A write is a place more of one's own order, the last one completes it; of *)
(* the orders of others it moves a keg.                                      *)
LEMMA WriteOrders ==
    ASSUME OrderInv, NEW b \in Browsers, WriteOrder(b)
    PROVE  OrderInv' /\ AllReported
<1> DEFINE r == request[b]
           k == r.ids[r.next]
           q == [r EXCEPT !.next = r.next + 1]
<1>1. r.at = "order" /\ r.checked /\ Progress(r, keg)
  BY DEF WriteOrder, OrderInv
<1>2. /\ r.next \in 1 .. Len(r.ids) /\ Len(r.ids) \in Nat /\ r \in OrderRequest
      /\ DOMAIN r.ids = 1 .. Len(r.ids)
      /\ k \in Kegs
  BY <1>1, Asked DEF Progress
<1>3. /\ DOMAIN request' = Browsers
      /\ request'[b] = IF keg[k] = None THEN Told("missing")
                       ELSE IF r.next = Len(r.ids) THEN Told("ok") ELSE q
      /\ \A o \in Browsers \ {b} : request'[o] = Disturbed(request[o], k)
  BY DEF WriteOrder, OrderInv
<1>4. keg' = IF keg[k] = None THEN keg ELSE [keg EXCEPT ![k].order = r.next - 1]
  BY DEF WriteOrder, UpdateExistingKeg
<1>5. r.next - 1 \in Nat /\ r.next - 1 + 1 = r.next
  BY <1>2
<1>6. Placed(r, r.next - 1, keg) /\ (keg[k] = None => k \in r.others)
  BY <1>1, <1>2 DEF Progress, Written, LookedUp
<1>7. keg[k] # None =>
          /\ keg' \in KegRows
          /\ keg'[k] # None /\ keg'[k].order = r.next - 1
          /\ \A j \in Kegs \ {k} : keg'[j] = keg[j]
  <2> HIDE DEF k
  <2> SUFFICES ASSUME keg[k] # None
               PROVE  /\ keg' \in KegRows
                      /\ keg'[k] # None /\ keg'[k].order = r.next - 1
                      /\ \A j \in Kegs \ {k} : keg'[j] = keg[j]
    OBVIOUS
  <2>1. keg' = [keg EXCEPT ![k].order = r.next - 1]
    BY <1>4
  <2>2. keg \in KegRows
    BY DEF OrderInv
  <2> QED
    BY <1>2, <1>5, <2>1, <2>2, Renumbered
<1>8. keg' \in KegRows /\ \A j \in Kegs \ {k} : keg'[j] = keg[j]
  BY <1>4, <1>7 DEF OrderInv
<1>9. ASSUME NEW o \in Browsers \ {b}
      PROVE  /\ request'[o].at = "order" => Progress(request'[o], keg')
             /\ request[o].at = "order" => request'[o].at = "order"
  <2> HIDE DEF k
  <2>1. request'[o] = Disturbed(request[o], k)
    BY <1>3
  <2>2. request[o].at = "order" => Progress(request[o], keg)
    BY DEF OrderInv
  <2>3. CASE request[o].at = "order"
    <3>1. /\ Disturbed(request[o], k).at = "order"
          /\ Progress(Disturbed(request[o], k), keg')
      BY <1>2, <1>8, <2>2, <2>3, MovedProgress
    <3> QED BY <2>1, <3>1
  <2>4. CASE request[o].at # "order"
    BY <2>1, <2>4 DEF Disturbed
  <2> QED
    BY <2>3, <2>4
<1>10. keg[k] # None => Placed(r, r.next, keg')
  <2> HIDE DEF k, r
  <2> SUFFICES ASSUME keg[k] # None PROVE Placed(r, r.next, keg')
    OBVIOUS
  <2>1. r.ids[r.next - 1 + 1] = k
    BY <1>5 DEF k
  <2>2. Placed(r, r.next - 1 + 1, keg')
    BY <1>5, <1>6, <1>7, <2>1, OneMorePlaced
  <2> QED BY <1>5, <2>2
<1>11. CASE keg[k] = None
  <2>1. keg' = keg /\ request'[b] = Told("missing")
    BY <1>3, <1>4, <1>11
  <2>2. Ended(r, "missing")
    <3>1. r.next - 1 \in 0 .. Len(r.ids)
      BY <1>2
    <3> QED BY <1>2, <1>6, <1>11, <2>1, <3>1 DEF Ended
  <2> HIDE DEF k
  <2>3. request'[b].at = "idle" /\ request'[b].answer = "missing"
    <3>1. request'[b] = Told("missing")
      BY <2>1
    <3> HIDE DEF r
    <3> QED BY <3>1 DEF Told
  <2>4. Ended(request[b], request'[b].answer)
    BY <2>2, <2>3
  <2>5. WholeOrReported(b) /\ request'[b].at # "order"
    BY <2>3, <2>4 DEF WholeOrReported
  <2> HIDE DEF r
  <2> QED
    BY <1>3, <1>8, <1>9, <2>5 DEF OrderInv, AllReported, WholeOrReported
<1>12. CASE keg[k] # None /\ r.next = Len(r.ids)
  <2>1. request'[b] = Told("ok")
    BY <1>3, <1>12
  <2>2. Ended(r, "ok")
    <3>1. Len(r.ids) \in 0 .. Len(r.ids) /\ Placed(r, Len(r.ids), keg')
      BY <1>2, <1>10, <1>12
    <3> QED BY <3>1 DEF Ended
  <2> HIDE DEF k
  <2>3. request'[b].at = "idle" /\ request'[b].answer = "ok"
    BY <2>1 DEF Told
  <2>4. Ended(request[b], request'[b].answer)
    BY <2>2, <2>3
  <2>5. WholeOrReported(b) /\ request'[b].at # "order"
    BY <2>3, <2>4 DEF WholeOrReported
  <2> HIDE DEF r
  <2> QED
    BY <1>3, <1>8, <1>9, <2>5 DEF OrderInv, AllReported, WholeOrReported
<1>13. CASE keg[k] # None /\ r.next # Len(r.ids)
  <2>1. request'[b] = q
    BY <1>3, <1>13
  <2>2. /\ q \in OrderRequest /\ q.at = "order" /\ q.next = r.next + 1 /\ q.checked
        /\ q.ids = r.ids /\ q.before = r.before /\ q.others = r.others
    BY <1>1, <1>2 DEF OrderRequest
  <2> HIDE DEF q
  <2>3. q.next \in 1 .. Len(q.ids) /\ Written(q) = r.next /\ LookedUp(q) = Len(r.ids)
    BY <1>2, <1>13, <2>2 DEF Written, LookedUp
  <2>4. Placed(q, r.next, keg')
    BY <1>10, <1>13, <2>2 DEF Placed
  <2>5. \A i \in 1 .. Len(r.ids) : keg'[r.ids[i]] = None => r.ids[i] \in r.others
    <3>1. \A i \in 1 .. Len(r.ids) : r.ids[i] \in Kegs
      BY <1>1, Asked
    <3>2. \A i \in 1 .. Len(r.ids) : keg[r.ids[i]] = None => r.ids[i] \in r.others
      BY <1>1 DEF Progress, LookedUp
    <3> HIDE DEF r
    <3> QED BY <1>7, <1>8, <1>13, <3>1, <3>2
  <2>6. Progress(q, keg')
    BY <2>2, <2>3, <2>4, <2>5 DEF Progress
  <2> QED
    BY <1>3, <1>8, <1>9, <2>1, <2>2, <2>6 DEF OrderInv, AllReported, WholeOrReported
<1> QED
  BY <1>11, <1>12, <1>13

(* An order that fails or is cut short ends with what was written.           *)
LEMMA CutShort ==
    ASSUME NEW r, NEW rows, Progress(r, rows), keg' = rows
    PROVE  \A a : a \notin {"ok", "missing"} => Ended(r, a)
<1>1. \E n \in 0 .. Len(r.ids) : Placed(r, n, keg')
  <2>1. Written(r) \in 0 .. Len(r.ids)
    BY Asked
  <2> QED BY <2>1 DEF Progress
<1> QED BY <1>1 DEF Ended

LEMMA FailOrders ==
    ASSUME OrderInv, NEW b \in Browsers, FailCall(b)
    PROVE  OrderInv' /\ AllReported
<1>1. /\ keg' = keg /\ DOMAIN request' = Browsers /\ request'[b] = Told("failed")
      /\ \A o \in Browsers \ {b} : request'[o] = request[o]
  BY Going DEF FailCall, tables, OrderInv
<1>2. request[b].at = "order" => Ended(request[b], "failed")
  <2>1. "failed" \notin {"ok", "missing"}
    OBVIOUS
  <2> QED BY <1>1, <2>1, CutShort DEF OrderInv
<1> QED
  BY <1>1, <1>2 DEF OrderInv, AllReported, WholeOrReported, Told

LEMMA RestartOrders ==
    ASSUME OrderInv, Restart
    PROVE  OrderInv' /\ AllReported
<1>1. /\ keg' = keg /\ DOMAIN request' = Browsers
      /\ \A o \in Browsers : request[o].at = "order" => request'[o] = Idle
      /\ \A o \in Browsers : request'[o].at = "idle"
  BY DEF Restart, tables, OrderInv, Idle, Told
<1>2. Idle.answer \notin {"ok", "missing"}
  BY OrderAssumption DEF Idle, Told
<1>3. \A o \in Browsers : request[o].at = "order" => Ended(request[o], Idle.answer)
  BY <1>1, <1>2, CutShort DEF OrderInv
<1> QED
  BY <1>1, <1>3 DEF OrderInv, AllReported, WholeOrReported

LEMMA NextOrders ==
    ASSUME OrderInv, [Next]_vars
    PROVE  OrderInv' /\ AllReported
<1>1. ASSUME NEW b \in Browsers, TapRequest(b) \/ ConfigRequest(b) \/ PageRequest(b)
      PROVE  OrderInv' /\ AllReported
  BY <1>1, OtherRequests, KeptOrders DEF OrderInv, Kept
<1>2. ASSUME NEW b \in Browsers, KegRequest(b) PROVE OrderInv' /\ AllReported
  BY <1>2, DeleteOrders, BeginOrders, CheckOrders, WriteOrders DEF KegRequest
<1>3. ASSUME NEW k \in Kegs, NEW d \in Devices, ApplyPacket(k, d)
      PROVE  OrderInv' /\ AllReported
  BY <1>3, PacketOrders
<1>4. CASE UNCHANGED vars
  <2>1. OrdersKept /\ keg' \in KegRows /\ Kept(keg, keg')
    BY <1>4 DEF vars, OrdersKept, OrderInv, Kept
  <2> QED
    BY <2>1, KeptOrders
<1> QED
  BY <1>1, <1>2, <1>3, <1>4, FailOrders, RestartOrders DEF Next

(* Whatever the kegs report, the other browsers do, or fails, a new order of *)
(* any kegs ends written up to some keg: whole when it is answered "ok", and *)
(* not at all when a keg is not there and nothing was moved meanwhile.       *)
THEOREM OrderWhole == Spec => OrderWholeOrReported
<1>1. Init => OrderInv
  <2> SUFFICES ASSUME Init PROVE OrderInv
    OBVIOUS
  <2>1. \A d \in Devices : [device |-> d, order |-> 0] \in KegRow
    BY CatalogAssumption DEF KegRow
  <2>2. keg \in KegRows
    BY <2>1 DEF Init, KegRows
  <2> QED
    BY <2>2 DEF Init, OrderInv, Idle, Told
<1> DEFINE A == \A b \in Browsers :
                  LET r == request[b]
                      answer == request'[b].answer
                  IN r.at = "order" /\ request'[b].at # "order" =>
                        /\ \E n \in 0 .. Len(r.ids) : Placed(r, n, keg')
                        /\ answer = "ok" => Placed(r, Len(r.ids), keg')
                        /\ answer = "missing" =>
                              Placed(r, 0, keg') \/ \E i \in DOMAIN r.ids : r.ids[i] \in r.others
<1>2. OrderInv /\ [Next]_vars => OrderInv' /\ [A]_vars
  BY NextOrders DEF AllReported, WholeOrReported, Ended
<1> QED
  BY <1>1, <1>2, PTL DEF Spec, OrderWholeOrReported

(***************************************************************************)
(* Corrections.                                                            *)
(***************************************************************************)

(* A handler that loads a page, or is to store what was typed into one.      *)
Editing == {"load", "correct", "store", "storePour"}

(* A page that shows a keg's row, or the pour, names the unit that follows    *)
(* from the units it was given.                                              *)
ShowsKeg(b) ==
    /\ page[b] # None /\ page[b].of \in Kegs
    /\ page[b].unit = displayAmountUnit(DeriveBeerLeftUnit(page[b].device), page[b].read.units)
ShowsPour(b) ==
    /\ page[b] # None /\ page[b].of = "pour"
    /\ page[b].unit = displayAmountUnit(PourUnit, page[b].read.units)

(* The inductive invariant: a correction under way belongs to such a page,   *)
(* which does not change until it is stored.                                 *)
EditInv ==
    /\ DOMAIN request = Browsers /\ DOMAIN page = Browsers
    /\ EditMeansWhatWasShown
    /\ \A b \in Browsers :
          /\ page[b] # None => ShowsKeg(b) \/ ShowsPour(b)
          /\ request[b].at = "load" => request[b].keg \in Kegs
          /\ request[b].at = "correct" => ShowsKeg(b) /\ request[b].typed \in Corrections
          /\ request[b].at = "store" =>
                /\ ShowsKeg(b) /\ request[b].typed \in Corrections
                /\ request[b].amount =
                      LogStored(request[b].typed, request[b].device, request[b].read.units)
          /\ request[b].at = "storePour" =>
                ShowsPour(b) /\ request[b].typed \in Corrections

(* Multiplying what was divided without remainder.                           *)
LEMMA Divided ==
    ASSUME NEW a \in Nat, NEW c \in Nat \ {0}, a % c = 0
    PROVE  (a \div c) * c = a
OBVIOUS

(* What an amount is displayed in is a label the conversions know, if what   *)
(* it is stored in is.                                                       *)
LEMMA DisplayLabel ==
    ASSUME NEW from, NEW u
    PROVE  /\ from \notin Labels => displayAmountUnit(from, u) = from
           /\ from \in Labels => displayAmountUnit(from, u) \in Labels
BY DEF displayAmountUnit, Known, Label, Labels

(* An amount converted back from the unit it was shown in weighs the same.   *)
LEMMA SameWeight ==
    ASSUME NEW w \in Nat, NEW from, NEW u,
           displayAmountUnit(from, u) \in Labels /\ from \in Labels =>
               (w * KgPerUnit[displayAmountUnit(from, u)]) % KgPerUnit[from] = 0
    PROVE  Weight(ConvertAmount(w, displayAmountUnit(from, u), from), from)
              = Weight(w, displayAmountUnit(from, u))
<1> DEFINE to == displayAmountUnit(from, u)
<1>1. CASE from \notin Labels
  <2>1. to = from
    BY <1>1, DisplayLabel
  <2> QED BY <2>1 DEF ConvertAmount
<1>2. CASE from \in Labels
  <2>1. to \in Labels
    BY <1>2, DisplayLabel
  <2> HIDE DEF to
  <2>2. CASE to = from
    BY <2>2 DEF ConvertAmount, to
  <2>3. CASE to # from
    <3>1. ConvertAmount(w, to, from) = (w * KgPerUnit[to]) \div KgPerUnit[from]
      BY <1>2, <2>1, <2>3 DEF ConvertAmount, Known
    <3>2. KgPerUnit[to] \in Nat /\ KgPerUnit[from] \in Nat \ {0}
      BY <1>2, <2>1, CatalogAssumption
    <3>3. w * KgPerUnit[to] \in Nat /\ (w * KgPerUnit[to]) % KgPerUnit[from] = 0
      <4>1. (w * KgPerUnit[to]) % KgPerUnit[from] = 0
        BY <1>2, <2>1 DEF to
      <4> QED BY <3>2, <4>1
    <3>4. ((w * KgPerUnit[to]) \div KgPerUnit[from]) * KgPerUnit[from] = w * KgPerUnit[to]
      BY <3>2, <3>3, Divided
    <3> QED BY <1>2, <2>1, <3>1, <3>4 DEF Weight, Known, to
  <2> QED BY <2>2, <2>3
<1> QED BY <1>1, <1>2

(* A step that neither stores nor shows anything.                            *)
EditsKept ==
    /\ UNCHANGED <<page, saved>>
    /\ DOMAIN request' = Browsers
    /\ \A o \in Browsers : request'[o].at \in Editing => request'[o] = request[o]

(* Such a step keeps the invariant.                                          *)
LEMMA KeepEdits == ASSUME EditInv, EditsKept PROVE EditInv'
BY DEF EditInv, EditsKept, Editing, EditMeansWhatWasShown, ShowsKeg, ShowsPour

(* A handler that goes on to something else, or answers, is such a step; so  *)
(* is every request about taps, settings and kegs.                           *)
LEMMA GoingElsewhere ==
    ASSUME DOMAIN request = Browsers, NEW b \in Browsers, NEW r, Go(b, r),
           r.at \notin Editing, UNCHANGED <<page, saved>>
    PROVE  EditsKept
BY DEF Go, EditsKept

LEMMA AnswerEdits ==
    ASSUME DOMAIN request = Browsers, NEW b \in Browsers, Answer(b), UNCHANGED <<page, saved>>
    PROVE  EditsKept
BY GoingElsewhere DEF Answer, Idle, Told, Editing

LEMMA TapsEdits ==
    ASSUME DOMAIN request = Browsers, NEW b \in Browsers, TapRequest(b) \/ ConfigRequest(b)
    PROVE  EditsKept
<1>1. ASSUME NEW t \in Taps, DeleteTap(b, t) PROVE EditsKept
  BY <1>1 DEF DeleteTap, OneCall, EditsKept
<1>2. ASSUME NEW t \in Taps, NEW form \in TapForms, CreateTap(b, t, form) PROVE EditsKept
  BY <1>2 DEF CreateTap, OneCall, EditsKept
<1>3. ASSUME NEW t \in Taps, NEW form \in TapForms, FindTap(b, t, form) PROVE EditsKept
  BY <1>3, GoingElsewhere DEF FindTap, tables, Editing
<1>4. CASE ReplaceTap(b)
  BY <1>4, AnswerEdits DEF ReplaceTap, ghostVars
<1>5. CASE \/ \E links \in Links : LinkTaps(b, links)
           \/ \E ids \in TapOrders : OrderTaps(b, ids)
  BY <1>5 DEF LinkTaps, OrderTaps, OneCall, EditsKept
<1>6. ASSUME NEW patch \in Patches, ReadConfig(b, patch) PROVE EditsKept
  BY <1>6, GoingElsewhere DEF ReadConfig, tables, Editing
<1>7. CASE WriteConfig(b) \/ RollBackConfig(b)
  BY <1>7, AnswerEdits DEF WriteConfig, RollBackConfig, tables, ghostVars
<1> QED BY <1>1, <1>2, <1>3, <1>4, <1>5, <1>6, <1>7 DEF TapRequest, ConfigRequest

LEMMA KegsEdits ==
    ASSUME DOMAIN request = Browsers, NEW b \in Browsers, KegRequest(b)
    PROVE  EditsKept
<1>1. ASSUME NEW k \in Kegs, DeleteKeg(b, k) PROVE EditsKept
  BY <1>1 DEF DeleteKeg, Disturbed, EditsKept, Editing
<1>2. ASSUME NEW ids \in Orders, BeginOrder(b, ids) PROVE EditsKept
  BY <1>2, GoingElsewhere DEF BeginOrder, tables, Editing
<1>3. CASE CheckKeg(b)
  <2> DEFINE r == request[b]
  <2>0. UNCHANGED <<page, saved>> /\ r.at = "order"
    BY <1>3 DEF CheckKeg, tables, ghostVars
  <2>1. CASE Go(b, Told("missing"))
    BY <2>0, <2>1, GoingElsewhere DEF Told, Editing
  <2>2. CASE Go(b, [r EXCEPT !.checked = TRUE, !.next = 1])
    BY <2>0, <2>2 DEF Go, EditsKept, Editing
  <2>3. CASE Go(b, [r EXCEPT !.next = @ + 1])
    BY <2>0, <2>3 DEF Go, EditsKept, Editing
  <2> QED BY <1>3, <2>0, <2>1, <2>2, <2>3 DEF CheckKeg
<1>4. CASE WriteOrder(b)
  <2> DEFINE r == request[b]
             k == r.ids[r.next]
  <2>1. request' = [o \in Browsers |->
              IF o # b THEN Disturbed(request[o], k)
              ELSE IF keg[k] = None THEN Told("missing")
              ELSE IF r.next = Len(r.ids) THEN Told("ok")
              ELSE [r EXCEPT !.next = @ + 1]]
    BY <1>4 DEF WriteOrder
  <2>2. r.at = "order" /\ r.at \notin Editing
    BY <1>4 DEF WriteOrder, Editing
  <2> HIDE DEF k
  <2>3. \A o \in Browsers \ {b} : request'[o].at \in Editing => request'[o] = request[o]
    <3>1. "order" \notin Editing
      BY DEF Editing
    <3>2. \A o \in Browsers \ {b} : request'[o] = Disturbed(request[o], k)
      BY <2>1
    <3> QED BY <3>1, <3>2, StaysOrder
  <2>4. request'[b].at \notin Editing
    <3>1. \/ request'[b] = Told("missing") \/ request'[b] = Told("ok")
          \/ request'[b] = [r EXCEPT !.next = r.next + 1]
      BY <2>1
    <3>2. Told("missing").at = "idle" /\ Told("ok").at = "idle" /\ "idle" \notin Editing
      BY DEF Told, Editing
    <3>3. [r EXCEPT !.next = r.next + 1].at = r.at
      BY StaysOrder
    <3> QED BY <2>2, <3>1, <3>2, <3>3
  <2> QED BY <1>4, <2>1, <2>3, <2>4 DEF WriteOrder, EditsKept, ghostVars
<1> QED BY <1>1, <1>2, <1>3, <1>4 DEF KegRequest

(* What is stored of a correction of a row weighs what the handler took it    *)
(* for; with the units and the keg as they were, what the page showed.       *)
LEMMA LogStoredMeans ==
    ASSUME EditInv, NEW b \in Browsers, StoreCorrection(b)
    PROVE  EditInv'
<1> DEFINE r == request[b]
           from == DeriveBeerLeftUnit(r.device)
           shown == Weight(r.typed, page[b].unit)
           handled == Weight(r.typed, displayAmountUnit(from, r.read.units))
           stored == Weight(r.amount, from)
           c == Correction(shown, handled, stored, page[b], r)
           new == [c EXCEPT !.changed = c.changed \/ page[b].device # r.device]
<1>1. /\ r.at = "store" /\ ShowsKeg(b) /\ r.typed \in Corrections
      /\ r.amount = LogStored(r.typed, r.device, r.read.units)
      /\ Answer(b) /\ UNCHANGED page
  BY DEF StoreCorrection, EditInv
<1>2. UNCHANGED saved \/ saved' = new
  BY DEF StoreCorrection
<1>3. CASE UNCHANGED saved
  BY <1>1, <1>3, AnswerEdits, KeepEdits DEF EditInv
<1>4. CASE saved' = new
  <2>1. stored = handled
    <3>1. r.amount = ConvertAmount(r.typed, displayAmountUnit(from, r.read.units), from)
      BY <1>1 DEF LogStored
    <3>2. r.typed \in Nat /\ \A x, y \in Labels : (r.typed * KgPerUnit[x]) % KgPerUnit[y] = 0
      BY <1>1, CatalogAssumption, WholeConversions
    <3> HIDE DEF from, r
    <3> QED BY <3>1, <3>2, SameWeight DEF from
  <2>2. ASSUME ~new.changed, ~new.misread PROVE shown = handled
    <3>1. page[b].device = r.device /\ page[b].read.set = r.read.set
      BY <2>2 DEF Correction
    <3>2. page[b].read.units = page[b].read.set /\ r.read.units = r.read.set
      BY <2>2 DEF Correction
    <3>3. page[b].unit = displayAmountUnit(from, r.read.units)
      BY <1>1, <3>1, <3>2 DEF ShowsKeg
    <3> QED BY <3>3
  <2>3. new.shown = shown /\ new.handled = handled /\ new.stored = stored
    BY DEF Correction
  <2> HIDE DEF new, shown, handled, stored
  <2>4. EditMeansWhatWasShown'
    BY <1>4, <2>1, <2>2, <2>3 DEF EditMeansWhatWasShown
  <2>5. /\ DOMAIN request' = Browsers
        /\ \A o \in Browsers : request'[o].at \in Editing => request'[o] = request[o]
    BY <1>1 DEF Answer, Go, Idle, Told, EditInv, Editing
  <2> QED BY <1>1, <2>4, <2>5 DEF EditInv, Editing, ShowsKeg, ShowsPour
<1> QED BY <1>2, <1>3, <1>4

(* A correction of a pour is first divided by the sub-unit it was shown in.  *)
LEMMA PourStoredMeans ==
    ASSUME EditInv, NEW b \in Browsers, UpdatePours(b)
    PROVE  EditInv'
<1> DEFINE r == request[b]
           to == displayAmountUnit(PourUnit, r.read.units)
           amount == pourAmountToStored(r.typed, PourUnit, r.read.units)
           shown == PourWeight(r.typed, page[b].unit)
           handled == PourWeight(r.typed, to)
           stored == Weight(amount, PourUnit)
           new == Correction(shown, handled, stored, page[b], r)
<1>1. /\ r.at = "storePour" /\ ShowsPour(b) /\ r.typed \in Corrections
      /\ Answer(b) /\ UNCHANGED page
  BY DEF UpdatePours, EditInv
<1>2. UNCHANGED saved \/ saved' = new
  BY DEF UpdatePours
<1>3. CASE UNCHANGED saved
  BY <1>1, <1>3, AnswerEdits, KeepEdits DEF EditInv
<1>4. CASE saved' = new
  <2>1. stored = handled
    <3> DEFINE w == r.typed \div PourSubUnit(to)
    <3>1. amount = ConvertAmount(w, to, PourUnit)
      BY DEF pourAmountToStored
    <3>2. to \in Labels /\ r.typed \in Nat
      BY <1>1, CatalogAssumption, DisplayLabel
    <3>3. w = r.typed \div pourSubUnits[to]
      BY <3>2 DEF PourSubUnit, Known
    <3>4. w \in Nat
      <4>1. pourSubUnits[to] \in Nat \ {0}
        BY <3>2, CatalogAssumption
      <4> QED BY <3>2, <3>3, <4>1
    <3>5. (w * KgPerUnit[to]) % KgPerUnit[PourUnit] = 0
      BY <3>2, <3>3, <1>1, WholeConversions, CatalogAssumption
    <3> QED BY <3>1, <3>4, <3>5, SameWeight DEF PourWeight
  <2>2. ASSUME ~new.changed, ~new.misread PROVE shown = handled
    <3>1. page[b].read.set = r.read.set
      BY <2>2 DEF Correction
    <3>2. page[b].read.units = page[b].read.set /\ r.read.units = r.read.set
      BY <2>2 DEF Correction
    <3>3. page[b].unit = to
      BY <1>1, <3>1, <3>2 DEF ShowsPour
    <3> QED BY <3>3
  <2>3. new.shown = shown /\ new.handled = handled /\ new.stored = stored
    BY DEF Correction
  <2> HIDE DEF new, shown, handled, stored
  <2>4. EditMeansWhatWasShown'
    BY <1>4, <2>1, <2>2, <2>3 DEF EditMeansWhatWasShown
  <2>5. /\ DOMAIN request' = Browsers
        /\ \A o \in Browsers : request'[o].at \in Editing => request'[o] = request[o]
    BY <1>1 DEF Answer, Go, Idle, Told, EditInv, Editing
  <2> QED BY <1>1, <2>4, <2>5 DEF EditInv, Editing, ShowsKeg, ShowsPour
<1> QED BY <1>2, <1>3, <1>4

(* The requests of pages: a page that is loaded names its unit, and a        *)
(* correction begins and goes on only from a page of its kind.               *)
LEMMA PagesEdit ==
    ASSUME EditInv, NEW b \in Browsers, PageRequest(b)
    PROVE  EditInv'
<1> DEFINE r == request[b]
<1>0. DOMAIN request = Browsers /\ DOMAIN page = Browsers
  BY DEF EditInv
<1>1. ASSUME NEW x, Go(b, x), UNCHANGED <<page, saved>>,
             x.at = "load" => x.keg \in Kegs,
             x.at = "correct" => ShowsKeg(b) /\ x.typed \in Corrections,
             x.at = "store" =>
                /\ ShowsKeg(b) /\ x.typed \in Corrections
                /\ x.amount = LogStored(x.typed, x.device, x.read.units),
             x.at = "storePour" => ShowsPour(b) /\ x.typed \in Corrections
      PROVE  EditInv'
  <2>1. /\ DOMAIN request' = Browsers /\ request'[b] = x
        /\ \A o \in Browsers \ {b} : request'[o] = request[o]
    BY <1>0, <1>1, Going
  <2>2. \A o \in Browsers : (ShowsKeg(o)' <=> ShowsKeg(o)) /\ (ShowsPour(o)' <=> ShowsPour(o))
    BY <1>1 DEF ShowsKeg, ShowsPour
  <2>3. EditMeansWhatWasShown'
    BY <1>1 DEF EditInv, EditMeansWhatWasShown
  <2> QED BY <1>0, <1>1, <2>1, <2>2, <2>3 DEF EditInv
<1>2. ASSUME NEW x, page' = [page EXCEPT ![b] = x], UNCHANGED saved,
             DOMAIN request' = Browsers, request'[b].at \notin Editing,
             \A o \in Browsers \ {b} : request'[o] = request[o],
             x # None => ShowsKeg(b)' \/ ShowsPour(b)'
      PROVE  EditInv'
  <2>1. /\ DOMAIN page' = Browsers /\ page'[b] = x
        /\ \A o \in Browsers \ {b} : page'[o] = page[o]
    BY <1>0, <1>2
  <2>2. \A o \in Browsers \ {b} :
           (ShowsKeg(o)' <=> ShowsKeg(o)) /\ (ShowsPour(o)' <=> ShowsPour(o))
    BY <2>1 DEF ShowsKeg, ShowsPour
  <2>3. EditMeansWhatWasShown'
    BY <1>2 DEF EditInv, EditMeansWhatWasShown
  <2> QED BY <1>0, <1>2, <2>1, <2>2, <2>3 DEF EditInv, Editing
<1>3. CASE ShowLog(b)
  <2>1. PICK u \in displayUnits :
          page' = [page EXCEPT ![b] =
              IF row[r.keg] = None THEN None
              ELSE [of |-> r.keg, device |-> r.device, read |-> UnitsRead(u),
                    amount |-> LogShown(row[r.keg], r.device, u),
                    unit |-> displayAmountUnit(DeriveBeerLeftUnit(r.device), u)]]
    BY <1>3 DEF ShowLog
  <2> DEFINE new == [of |-> r.keg, device |-> r.device, read |-> UnitsRead(u),
                     amount |-> LogShown(row[r.keg], r.device, u),
                     unit |-> displayAmountUnit(DeriveBeerLeftUnit(r.device), u)]
             x == IF row[r.keg] = None THEN None ELSE new
  <2>2. /\ page' = [page EXCEPT ![b] = x] /\ Answer(b) /\ UNCHANGED saved
        /\ r.keg \in Kegs
    BY <1>3, <2>1 DEF ShowLog, EditInv, ghostVars
  <2>3. /\ DOMAIN request' = Browsers /\ request'[b] = Idle
        /\ \A o \in Browsers \ {b} : request'[o] = request[o]
    BY <1>0, <2>2 DEF Answer, Go
  <2>4. page'[b] = x
    BY <1>0, <2>2
  <2>5. ASSUME x # None PROVE ShowsKeg(b)'
    <3>1. page'[b] = new
      BY <2>4, <2>5
    <3>2. new.read.units = u
      BY DEF UnitsRead
    <3> QED BY <2>2, <2>4, <2>5, <3>1, <3>2 DEF ShowsKeg
  <2>6. request'[b].at \notin Editing
    BY <2>3 DEF Editing, Idle, Told
  <2> HIDE DEF x, r
  <2> QED BY <1>2, <2>2, <2>3, <2>5, <2>6
<1>4. CASE ShowPour(b)
  <2>1. PICK u \in displayUnits :
          page' = [page EXCEPT ![b] =
              IF pour = None THEN None
              ELSE [of |-> "pour", read |-> UnitsRead(u),
                    amount |-> pourDisplay(pour, PourUnit, u),
                    unit |-> displayAmountUnit(PourUnit, u)]]
    BY <1>4 DEF ShowPour
  <2> DEFINE new == [of |-> "pour", read |-> UnitsRead(u),
                     amount |-> pourDisplay(pour, PourUnit, u),
                     unit |-> displayAmountUnit(PourUnit, u)]
             x == IF pour = None THEN None ELSE new
  <2>2. /\ page' = [page EXCEPT ![b] = x] /\ UNCHANGED <<saved, request>>
        /\ request[b].at = "idle"
    BY <1>4, <2>1 DEF ShowPour, OneCall, Begin
  <2>3. page'[b] = x
    BY <1>0, <2>2
  <2>4. ASSUME x # None PROVE ShowsPour(b)'
    <3>1. page'[b] = new
      BY <2>3, <2>4
    <3>2. new.read.units = u /\ new.of = "pour" /\ new.unit = displayAmountUnit(PourUnit, u)
      BY DEF UnitsRead
    <3> QED BY <2>3, <2>4, <3>1, <3>2 DEF ShowsPour
  <2>5. request'[b].at \notin Editing
    BY <2>2 DEF Editing
  <2> HIDE DEF x, r
  <2> QED BY <1>0, <1>2, <2>2, <2>4, <2>5
<1>5. CASE ConvertCorrection(b)
  <2>1. PICK u \in displayUnits :
          Go(b, [at |-> "store", typed |-> r.typed, device |-> r.device,
                 read |-> UnitsRead(u), amount |-> LogStored(r.typed, r.device, u)])
    BY <1>5 DEF ConvertCorrection
  <2> DEFINE x == [at |-> "store", typed |-> r.typed, device |-> r.device,
                   read |-> UnitsRead(u), amount |-> LogStored(r.typed, r.device, u)]
  <2>2. /\ Go(b, x) /\ UNCHANGED <<page, saved>>
        /\ ShowsKeg(b) /\ r.typed \in Corrections
    BY <1>5, <2>1 DEF ConvertCorrection, EditInv
  <2>3. /\ x.at = "store" /\ x.typed = r.typed
        /\ x.amount = LogStored(x.typed, x.device, x.read.units)
    BY DEF UnitsRead
  <2> HIDE DEF x, r
  <2> QED BY <1>1, <2>2, <2>3
<1>6. ASSUME NEW k \in Kegs, FindKeg(b, k) PROVE EditInv'
  <2> DEFINE x == [at |-> "load", keg |-> k, device |-> keg[k].device]
  <2>1. Go(b, x) /\ UNCHANGED <<page, saved>> /\ x.at = "load" /\ x.keg = k
    BY <1>6 DEF FindKeg
  <2> HIDE DEF x
  <2> QED BY <1>1, <2>1
<1>7. ASSUME NEW v \in Corrections, CorrectLog(b, v) PROVE EditInv'
  <2> DEFINE x == [at |-> "correct", typed |-> v, device |-> keg[page[b].of].device]
  <2>1. /\ Go(b, x) /\ UNCHANGED <<page, saved>> /\ x.at = "correct" /\ x.typed = v
        /\ page[b] # None /\ page[b].of \in Kegs
    BY <1>7 DEF CorrectLog
  <2>2. ShowsKeg(b)
    BY <2>1, CatalogAssumption DEF EditInv, ShowsPour
  <2> HIDE DEF x
  <2> QED BY <1>1, <2>1, <2>2
<1>8. ASSUME NEW v \in Corrections, CorrectPour(b, v) PROVE EditInv'
  <2>1. PICK u \in displayUnits : Go(b, [at |-> "storePour", typed |-> v, read |-> UnitsRead(u)])
    BY <1>8 DEF CorrectPour
  <2> DEFINE x == [at |-> "storePour", typed |-> v, read |-> UnitsRead(u)]
  <2>2. /\ Go(b, x) /\ UNCHANGED <<page, saved>> /\ x.at = "storePour" /\ x.typed = v
        /\ page[b] # None /\ page[b].of = "pour"
    BY <1>8, <2>1 DEF CorrectPour
  <2>3. ShowsPour(b)
    BY <2>2, CatalogAssumption DEF EditInv, ShowsKeg
  <2> HIDE DEF x
  <2> QED BY <1>1, <2>2, <2>3
<1>9. CASE DeletePours(b)
  BY <1>0, <1>9, KeepEdits DEF DeletePours, OneCall, EditsKept
<1> QED
  BY <1>3, <1>4, <1>5, <1>6, <1>7, <1>8, <1>9, LogStoredMeans, PourStoredMeans DEF PageRequest

LEMMA InitEdits == Init => EditInv
BY DEF Init, EditInv, EditMeansWhatWasShown, Idle, Told

LEMMA NextEdits == ASSUME EditInv, [Next]_vars PROVE EditInv'
<1>0. DOMAIN request = Browsers
  BY DEF EditInv
<1>1. ASSUME NEW b \in Browsers, TapRequest(b) \/ ConfigRequest(b) \/ KegRequest(b)
      PROVE  EditInv'
  BY <1>0, <1>1, TapsEdits, KegsEdits, KeepEdits
<1>2. ASSUME NEW b \in Browsers, PageRequest(b) PROVE EditInv'
  BY <1>2, PagesEdit
<1>3. ASSUME NEW k \in Kegs, NEW d \in Devices, ApplyPacket(k, d) PROVE EditInv'
  BY <1>0, <1>3, KeepEdits DEF ApplyPacket, EditsKept
<1>4. CASE UNCHANGED vars
  BY <1>0, <1>4, KeepEdits DEF vars, ghostVars, EditsKept
<1>5. ASSUME NEW b \in Browsers, FailCall(b) PROVE EditInv'
  <2>1. Go(b, Told("failed")) /\ UNCHANGED <<page, saved>>
    BY <1>5 DEF FailCall, ghostVars
  <2>2. Told("failed").at \notin Editing
    BY DEF Told, Editing
  <2>3. EditsKept
    BY <1>0, <2>1, <2>2, GoingElsewhere
  <2> QED BY <2>3, KeepEdits
<1>6. CASE Restart
  BY <1>0, <1>6, KeepEdits DEF Restart, Idle, Told, EditsKept, Editing, ghostVars
<1> QED BY <1>1, <1>2, <1>3, <1>4, <1>5, <1>6 DEF Next

(* For any kegs, units and settings, what is stored of an amount typed into a *)
(* page weighs what the handler took it for, and that is what the page showed *)
(* unless the units were changed in between or a read of them had failed.    *)
THEOREM EditsMean == Spec => []EditMeansWhatWasShown
<1>1. EditInv => EditMeansWhatWasShown
  BY DEF EditInv
<1>2. EditInv /\ [Next]_vars => EditInv'
  BY NextEdits
<1> QED BY InitEdits, <1>1, <1>2, PTL DEF Spec

=============================================================================
