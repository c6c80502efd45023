------------------------------ MODULE Catalog ------------------------------
(***************************************************************************)
(* What operators arrange and correct through the HTTP API: taps and the   *)
(* kegs they draw from, the order of kegs, the settings, and the amounts a *)
(* page shows in the units of the settings and sends back corrected.       *)
(*                                                                         *)
(* A browser has one request under way.  Its handler calls the store a few *)
(* times, and other requests and the packets of kegs come between.  The    *)
(* store holds one connection: a transaction is one step, save the one of  *)
(* UpdateAppConfig, whose read and write are two, with conn held between.  *)
(*                                                                         *)
(* Of a keg's history one row is modelled, and one pour of a table; names, *)
(* colours and other text are left out.  Amounts are whole numbers of a    *)
(* size that the conversions of the instance leave whole.                  *)
(***************************************************************************)
EXTENDS Integers, Sequences, FiniteSets

CONSTANTS
    Taps, Kegs, Browsers,
    None,           \* no row, no keg on a tap, a NULL, nobody
    KgPerUnit,      \* units.KgPerUnit, scaled to whole numbers
    pourSubUnits,   \* the multipliers of units.pourSubUnits
    Devices,        \* how kegs are set: unit, measure, mode and what they name
    Tables,         \* what an app_config table may hold at the start
    Layouts,        \* what the taps may be at the start
    Patches,        \* settings that a request changes
    TapForms,       \* the number and keg of a tap that a request saves
    Links,          \* the links of a request, in order
    TapOrders,      \* the taps of a request in their new order
    Orders,         \* the kegs of a request in their new order
    Corrections,    \* what operators may type instead of an amount
    Amount,         \* what the log row and the pour hold at first
    PourUnit,       \* the unit the pour was recorded in
    DefaultMinPour,
    StoreFails,     \* whether a call to the store may fail
    MaxRequests,    \* bound: requests
    MaxPackets      \* bound: packets that change how a keg is set

Labels == {"litre", "kg", "gal", "lbs", "kg CO2", "lbs CO2"}
(* "odd" is a unit that no table knows. *)
Device == [unit : {1, 2, None}, measure : {1, 2, None}, mode : {1, 2, None},
           named : Labels \cup {"odd", None}]
Display == [system : {"device", "metric", "us"}, measure : {"device", "weight", "volume"}]
MinPour == [value : Nat, unit : {"oz", "ml"}]
TapRow == [number : Nat, keg : Kegs \cup {None}]
KegRow == [device : Device, order : Nat]

ASSUME CatalogAssumption ==
    /\ KgPerUnit \in [Labels -> Nat \ {0}] /\ pourSubUnits \in [Labels -> Nat \ {0}]
    /\ Devices \subseteq Device
    /\ DefaultMinPour \in MinPour
    /\ Amount \in Nat /\ PourUnit \in Labels /\ Corrections \subseteq Nat
    /\ None \notin Taps \cup Kegs \cup Browsers \cup Int /\ None \notin KegRow
    /\ "pour" \notin Kegs
    /\ \A table \in Tables : "min_pour_value" \in DOMAIN table =>
          table["min_pour_value"] \in Int \cup {None}
    /\ \A patch \in Patches : "min_pour" \in DOMAIN patch => patch["min_pour"].value \in Int
    /\ Layouts \subseteq [Taps -> TapRow \cup {None}]
    /\ TapForms \subseteq TapRow
    /\ \A links \in Links : links \in Seq([tap : Taps, keg : Kegs \cup {None}])
    /\ TapOrders \subseteq Seq(Taps)
    /\ MaxRequests \in Nat /\ MaxPackets \in Nat

(* The handler refuses an empty order. *)
ASSUME OrderAssumption ==
    /\ \A ids \in Orders : ids \in Seq(Kegs) /\ ids # <<>>
    /\ StoreFails \in BOOLEAN
    /\ None # "ok" /\ None # "missing"

(* What operators type stays whole through every conversion.                 *)
ASSUME WholeConversions ==
    \A v \in Corrections : \A from, to \in Labels :
        /\ (v * KgPerUnit[from]) % KgPerUnit[to] = 0
        /\ ((v \div pourSubUnits[from]) * KgPerUnit[from]) % KgPerUnit[to] = 0

VARIABLES
    tap,            \* the taps table: number and keg
    keg,            \* the kegs table: how it is set, and its display order
    row,            \* row[k]: the amount in k's one row of keg_log
    pour,           \* the amount of the one pour, in PourUnit
    config,         \* the app_config table, a function from the keys it holds
    conn,           \* who holds the store's connection in a transaction
    request,        \* request[b]: what b's handler is doing
    page,           \* page[b]: the amount b shows, and as what
    (* History, read by properties and bounds only. *)
    wanted,         \* the settings as the requests so far made them
    saved,          \* the last correction: what was shown, handled and stored
    requests, packets

ghostVars == <<wanted, saved, requests, packets>>
vars == <<tap, keg, row, pour, config, conn, request, page, ghostVars>>

(***************************************************************************)
(* Units.                                                                  *)
(***************************************************************************)

Known(label) == label \in Labels
Weighed(label) == label \in {"kg", "lbs", "kg CO2", "lbs CO2"}
IsMetric(label) == label \in {"litre", "kg", "kg CO2"}
IsCO2(label) == label \in {"kg CO2", "lbs CO2"}

Label(metric, weight, co2) ==
    CASE co2 /\ metric -> "kg CO2"
      [] co2 /\ ~metric -> "lbs CO2"
      [] ~co2 /\ metric /\ weight -> "kg"
      [] ~co2 /\ metric /\ ~weight -> "litre"
      [] ~co2 /\ ~metric /\ weight -> "lbs"
      [] OTHER -> "gal"

(* A unit system the keg has not reported leaves what it calls its unit. *)
DeriveBeerLeftUnit(d) ==
    IF d.unit = None THEN IF d.named = None THEN "litre" ELSE d.named
    ELSE Label(d.unit = 1, d.measure = 1, d.mode = 2)

displayAmountUnit(from, u) ==
    IF ~Known(from) THEN from
    ELSE Label(IF u.system = "device" THEN IsMetric(from) ELSE u.system = "metric",
               IF u.measure = "device" THEN Weighed(from) ELSE u.measure = "weight",
               IsCO2(from))

ConvertAmount(v, from, to) ==
    IF from = to \/ ~Known(from) \/ ~Known(to) THEN v
    ELSE (v * KgPerUnit[from]) \div KgPerUnit[to]

PourSubUnit(unit) == IF Known(unit) THEN pourSubUnits[unit] ELSE 1

(* An amount of a log row as a page shows it, and back. *)
LogShown(v, d, u) ==
    LET from == DeriveBeerLeftUnit(d)
    IN ConvertAmount(v, from, displayAmountUnit(from, u))

(* Mutant: the correction is converted the way the page was. *)
LogStoredForward(v, d, u) == LogShown(v, d, u)

LogStored(v, d, u) ==
    LET from == DeriveBeerLeftUnit(d)
    IN ConvertAmount(v, displayAmountUnit(from, u), from)

pourDisplay(v, unit, u) ==
    LET to == displayAmountUnit(unit, u)
    IN ConvertAmount(v, unit, to) * PourSubUnit(to)

pourAmountToStored(v, unit, u) ==
    LET to == displayAmountUnit(unit, u)
    IN ConvertAmount(v \div PourSubUnit(to), to, unit)

(* The weight that an amount means, in the scale of KgPerUnit. *)
Weight(v, unit) == IF Known(unit) THEN v * KgPerUnit[unit] ELSE v

(***************************************************************************)
(* Settings.  A stored value may be missing, or one that no version knows. *)
(***************************************************************************)

Keys == {"display_unit_system", "display_unit_measure", "min_pour_value", "min_pour_unit"}

OneOf(v, known, default) == IF v \in known THEN v ELSE default

NormalizeDisplaySystem(s) == OneOf(s, {"metric", "us"}, "device")
NormalizeDisplayMeasure(m) == OneOf(m, {"weight", "volume"}, "device")
NormalizeMinPour(m) ==
    [value |-> IF m.value < 0 THEN 0 ELSE m.value, unit |-> OneOf(m.unit, {"ml"}, "oz")]

normalizeAppConfig(c) ==
    [display |-> [system |-> NormalizeDisplaySystem(c.display.system),
                  measure |-> NormalizeDisplayMeasure(c.display.measure)],
     minPour |-> NormalizeMinPour(c.minPour)]

Stored(table, key, default) == IF key \in DOMAIN table THEN table[key] ELSE default

(* A number that does not parse leaves the default. *)
Parsed(v, default) == IF v = None THEN default ELSE v

getAppConfig(table) ==
    [display |-> [system |-> NormalizeDisplaySystem(Stored(table, "display_unit_system", "device")),
                  measure |-> NormalizeDisplayMeasure(Stored(table, "display_unit_measure", "device"))],
     minPour |-> NormalizeMinPour(
        [value |-> Parsed(Stored(table, "min_pour_value", DefaultMinPour.value),
                          DefaultMinPour.value),
         unit |-> Stored(table, "min_pour_unit", DefaultMinPour.unit)])]

(* What trackPour reads, in its own transaction: only the keys it needs, over *)
(* the defaults.                                                             *)
pourMinimumsTx(table) ==
    LET read == {"min_pour_value", "min_pour_unit"} \cap DOMAIN table
        value == IF "min_pour_value" \in read
                 THEN Parsed(table["min_pour_value"], DefaultMinPour.value)
                 ELSE DefaultMinPour.value
        unit == IF "min_pour_unit" \in read THEN table["min_pour_unit"]
                ELSE DefaultMinPour.unit
    IN NormalizeMinPour([value |-> value, unit |-> unit])

(* The units a handler takes for the settings': a read that fails is not     *)
(* reported, and leaves those of the device.                                 *)
displayUnits ==
    {getAppConfig(config).display}
        \cup (IF StoreFails THEN {[system |-> "device", measure |-> "device"]} ELSE {})

(* A key that is present replaces its setting whole. *)
Patched(c, patch) ==
    [display |-> IF "display_units" \in DOMAIN patch THEN patch["display_units"] ELSE c.display,
     minPour |-> IF "min_pour" \in DOMAIN patch THEN patch["min_pour"] ELSE c.minPour]

TableOf(c) ==
    [key \in Keys |->
        CASE key = "display_unit_system" -> c.display.system
          [] key = "display_unit_measure" -> c.display.measure
          [] key = "min_pour_value" -> c.minPour.value
          [] key = "min_pour_unit" -> c.minPour.unit]

(***************************************************************************)
(* Requests.                                                               *)
(***************************************************************************)

(* No request under way; what the last order of kegs was answered. *)
Told(answer) == [at |-> "idle", answer |-> answer]
Idle == Told(None)

Init ==
    /\ tap \in Layouts
    /\ keg \in [Kegs -> {[device |-> d, order |-> 0] : d \in Devices}]
    /\ row = [k \in Kegs |-> Amount] /\ pour = Amount
    /\ config \in Tables
    /\ conn = None
    /\ request = [b \in Browsers |-> Idle] /\ page = [b \in Browsers |-> None]
    /\ wanted = getAppConfig(config)
    /\ saved = None
    /\ requests = 0 /\ packets = 0

tables == <<tap, keg, row, pour, config>>

(* b's handler begins; a new handler may find the connection taken. *)
Begin(b) ==
    /\ request[b].at = "idle"
    /\ requests < MaxRequests /\ requests' = requests + 1

Go(b, r) == request' = [request EXCEPT ![b] = r]
Answer(b) == Go(b, Idle)

Free == conn = None

(* A request of one call to the store, answered by that step. *)
OneCall(b) == Begin(b) /\ Free /\ UNCHANGED <<conn, request, wanted, saved, packets>>

(* A later call fails: the handler answers so, and the call changed nothing. *)
FailCall(b) ==
    /\ StoreFails /\ Free
    /\ request[b].at \in {"replace", "order", "load", "store", "storePour"}
    /\ Go(b, Told("failed"))
    /\ UNCHANGED <<tables, conn, page, ghostVars>>

(* The process is killed and started again: no handler goes on, and what was *)
(* not committed is rolled back.                                             *)
Restart ==
    /\ \E b \in Browsers : request[b].at # "idle"
    /\ request' = [b \in Browsers |-> IF request[b].at = "idle" THEN request[b] ELSE Idle]
    /\ conn' = None
    /\ UNCHANGED <<tables, page, ghostVars>>

(***************************************************************************)
(* Taps.                                                                   *)
(***************************************************************************)

checkKegFree(taps, k, t) == \A o \in Taps \ {t} : taps[o] = None \/ taps[o].keg # k

SaveTap(t, form) ==
    IF form.keg = None \/ checkKegFree(tap, form.keg, t)
    THEN tap' = [tap EXCEPT ![t] = form]
    ELSE UNCHANGED tap

CreateTap(b, t, form) ==
    /\ OneCall(b)
    /\ tap[t] = None
    /\ SaveTap(t, form)
    /\ UNCHANGED <<keg, row, pour, config, page>>

(* The tap is looked up, then replaced, in two transactions. *)
FindTap(b, t, form) ==
    /\ Begin(b) /\ Free
    /\ tap[t] # None
    /\ Go(b, [at |-> "replace", tap |-> t, form |-> form])
    /\ UNCHANGED <<tables, conn, page, wanted, saved, packets>>

ReplaceTap(b) ==
    /\ request[b].at = "replace" /\ Free
    /\ SaveTap(request[b].tap, request[b].form)
    /\ Answer(b)
    /\ UNCHANGED <<keg, row, pour, config, conn, page, ghostVars>>

Linked(links) ==
    [t \in Taps |->
        LET of == {i \in DOMAIN links : links[i].tap = t}
        IN IF of = {} THEN tap[t]
           ELSE [tap[t] EXCEPT !.keg =
                    links[CHOOSE i \in of : \A j \in of : j <= i].keg]]

(* Mutant: the links are checked against the taps as they were. *)
LinkTapsCheckedFirst(b, links) ==
    /\ OneCall(b)
    /\ IF \A i \in DOMAIN links :
             /\ tap[links[i].tap] # None
             /\ links[i].keg = None \/ checkKegFree(tap, links[i].keg, links[i].tap)
       THEN tap' = Linked(links)
       ELSE UNCHANGED tap
    /\ UNCHANGED <<keg, row, pour, config, page>>

(* Every link is made, then every keg named is checked, or nothing is changed. *)
LinkTaps(b, links) ==
    /\ OneCall(b)
    /\ IF /\ \A i \in DOMAIN links : tap[links[i].tap] # None
          /\ \A i \in DOMAIN links :
                links[i].keg = None \/ checkKegFree(Linked(links), links[i].keg, links[i].tap)
       THEN tap' = Linked(links)
       ELSE UNCHANGED tap
    /\ UNCHANGED <<keg, row, pour, config, page>>

(* Taps 1 .. n in the order given; the others keep their numbers. *)
OrderTaps(b, ids) ==
    /\ OneCall(b)
    /\ IF \A i \in DOMAIN ids : tap[ids[i]] # None
       THEN tap' = [t \in Taps |->
                LET at == {i \in DOMAIN ids : ids[i] = t}
                IN IF at = {} THEN tap[t]
                   ELSE [tap[t] EXCEPT !.number = CHOOSE i \in at : \A j \in at : j <= i]]
       ELSE UNCHANGED tap
    /\ UNCHANGED <<keg, row, pour, config, page>>

DeleteTap(b, t) ==
    /\ OneCall(b)
    /\ tap' = [tap EXCEPT ![t] = None]
    /\ UNCHANGED <<keg, row, pour, config, page>>

(***************************************************************************)
(* Kegs: packets, deletes, and a new display order.                        *)
(***************************************************************************)

(* A packet stores the keg, creating it if need be. *)
ApplyPacket(k, d) ==
    /\ Free
    /\ packets < MaxPackets /\ packets' = packets + 1
    /\ keg' = [keg EXCEPT ![k] = IF @ = None THEN [device |-> d, order |-> 0]
                                 ELSE [@ EXCEPT !.device = d]]
    /\ UNCHANGED <<tap, row, pour, config, conn, request, page, wanted, saved, requests>>

(* An order under way learns, as history, that another request moved k. *)
Disturbed(r, k) == IF r.at = "order" THEN [r EXCEPT !.others = @ \cup {k}] ELSE r

DeleteKeg(b, k) ==
    /\ Begin(b) /\ Free
    /\ keg' = [keg EXCEPT ![k] = None]
    /\ row' = [row EXCEPT ![k] = None]
    /\ request' = [o \in Browsers |-> Disturbed(request[o], k)]
    /\ UNCHANGED <<tap, pour, config, conn, page, wanted, saved, packets>>

(* Every keg is looked up first; next counts the lookups, then the writes. *)
BeginOrder(b, ids) ==
    /\ Begin(b)
    /\ Go(b, [at |-> "order", ids |-> ids, next |-> 1, checked |-> FALSE,
              before |-> keg, others |-> {}])
    /\ UNCHANGED <<tables, conn, page, wanted, saved, packets>>

(* Mutant: the kegs are not looked up first. *)
CheckNothing(b) ==
    LET r == request[b]
    IN /\ r.at = "order"
       /\ ~r.checked
       /\ Go(b, [r EXCEPT !.checked = TRUE])
       /\ UNCHANGED <<tables, conn, page, ghostVars>>

CheckKeg(b) ==
    LET r == request[b]
    IN /\ r.at = "order"
       /\ ~r.checked /\ Free
       /\ IF keg[r.ids[r.next]] = None THEN Go(b, Told("missing"))
          ELSE IF r.next = Len(r.ids) THEN Go(b, [r EXCEPT !.checked = TRUE, !.next = 1])
          ELSE Go(b, [r EXCEPT !.next = @ + 1])
       /\ UNCHANGED <<tables, conn, page, ghostVars>>

UpdateExistingKeg(k, order) ==
    keg' = IF keg[k] = None THEN keg ELSE [keg EXCEPT ![k].order = order]

(* Answered when the last is written, or one is gone; what was written of the *)
(* order before stays.                                                       *)
WriteOrder(b) ==
    LET r == request[b]
        k == r.ids[r.next]
    IN /\ r.at = "order"
       /\ r.checked /\ Free
       /\ UpdateExistingKeg(k, r.next - 1)
       /\ request' = [o \in Browsers |->
              IF o # b THEN Disturbed(request[o], k)
              ELSE IF keg[k] = None THEN Told("missing")
              ELSE IF r.next = Len(r.ids) THEN Told("ok")
              ELSE [r EXCEPT !.next = @ + 1]]
       /\ UNCHANGED <<tap, row, pour, config, conn, page, ghostVars>>

(***************************************************************************)
(* The settings: read, change and write in one transaction.                *)
(***************************************************************************)

(* Mutant: the settings are read before the transaction. *)
ReadConfigOutside(b, patch) ==
    /\ Begin(b) /\ Free
    /\ Go(b, [at |-> "config", patch |-> patch,
              next |-> normalizeAppConfig(Patched(getAppConfig(config), patch))])
    /\ UNCHANGED <<tables, conn, page, wanted, saved, packets>>

ReadConfig(b, patch) ==
    /\ Begin(b) /\ Free
    /\ conn' = b
    /\ Go(b, [at |-> "config", patch |-> patch,
              next |-> normalizeAppConfig(Patched(getAppConfig(config), patch))])
    /\ UNCHANGED <<tables, page, wanted, saved, packets>>

WriteConfig(b) ==
    /\ request[b].at = "config"
    /\ config' = TableOf(request[b].next)
    /\ conn' = None
    /\ wanted' = normalizeAppConfig(Patched(wanted, request[b].patch))
    /\ Answer(b)
    /\ UNCHANGED <<tap, keg, row, pour, page, saved, requests, packets>>

(* A write that fails, or a commit, rolls all of it back. *)
RollBackConfig(b) ==
    /\ request[b].at = "config"
    /\ conn' = None
    /\ Answer(b)
    /\ UNCHANGED <<tables, page, ghostVars>>

(***************************************************************************)
(* Pages that show amounts, and what is typed into them.                   *)
(***************************************************************************)

(* The units that were read, and as history the ones that were set. *)
UnitsRead(u) == [units |-> u, set |-> getAppConfig(config).display]

(* The history editor: the keg is read, then its rows and the settings. *)
FindKeg(b, k) ==
    /\ Begin(b) /\ Free
    /\ keg[k] # None
    /\ Go(b, [at |-> "load", keg |-> k, device |-> keg[k].device])
    /\ UNCHANGED <<tables, conn, page, wanted, saved, packets>>

ShowLog(b) ==
    LET r == request[b]
    IN /\ r.at = "load" /\ Free
       /\ \E u \in displayUnits :
             page' = [page EXCEPT ![b] =
                 IF row[r.keg] = None THEN None
                 ELSE [of |-> r.keg, device |-> r.device, read |-> UnitsRead(u),
                       amount |-> LogShown(row[r.keg], r.device, u),
                       unit |-> displayAmountUnit(DeriveBeerLeftUnit(r.device), u)]]
       /\ Answer(b)
       /\ UNCHANGED <<tables, conn, ghostVars>>

(* A correction: the keg is read, then the settings, then the row is written *)
(* unless it has gone.                                                       *)
CorrectLog(b, v) ==
    /\ page[b] # None /\ page[b].of \in Kegs
    /\ Begin(b) /\ Free
    /\ keg[page[b].of] # None
    /\ Go(b, [at |-> "correct", typed |-> v, device |-> keg[page[b].of].device])
    /\ UNCHANGED <<tables, conn, page, wanted, saved, packets>>

(* displayUnits, then ConvertLogEditsToDevice. *)
ConvertCorrection(b) ==
    LET r == request[b]
    IN /\ r.at = "correct" /\ Free
       /\ \E u \in displayUnits :
             Go(b, [at |-> "store", typed |-> r.typed, device |-> r.device,
                    read |-> UnitsRead(u), amount |-> LogStored(r.typed, r.device, u)])
       /\ UNCHANGED <<tables, conn, page, wanted, saved, packets, requests>>

(* What was typed as the page showed it, as the handler took it, and as it is *)
(* stored; whether the units set were others by then, and whether either read *)
(* of them had failed.                                                       *)
Correction(shown, handled, stored, p, r) ==
    [shown |-> shown, handled |-> handled, stored |-> stored,
     changed |-> p.read.set # r.read.set,
     misread |-> p.read.units # p.read.set \/ r.read.units # r.read.set]

StoreCorrection(b) ==
    LET r == request[b]
        k == page[b].of
        from == DeriveBeerLeftUnit(r.device)
        c == Correction(Weight(r.typed, page[b].unit),
                        Weight(r.typed, displayAmountUnit(from, r.read.units)),
                        Weight(r.amount, from), page[b], r)
    IN /\ r.at = "store" /\ Free
       /\ IF row[k] = None THEN UNCHANGED <<row, saved>>
          ELSE /\ row' = [row EXCEPT ![k] = r.amount]
               /\ saved' = [c EXCEPT !.changed = @ \/ page[b].device # r.device]
       /\ Answer(b)
       /\ UNCHANGED <<tap, keg, pour, config, conn, page, wanted, requests, packets>>

(* All Pours: the settings are read, then the pours, each in its own unit. *)
ShowPour(b) ==
    /\ OneCall(b)
    /\ \E u \in displayUnits :
          page' = [page EXCEPT ![b] =
              IF pour = None THEN None
              ELSE [of |-> "pour", read |-> UnitsRead(u),
                    amount |-> pourDisplay(pour, PourUnit, u),
                    unit |-> displayAmountUnit(PourUnit, u)]]
    /\ UNCHANGED tables

CorrectPour(b, v) ==
    /\ page[b] # None /\ page[b].of = "pour"
    /\ Begin(b) /\ Free
    /\ \E u \in displayUnits :
          Go(b, [at |-> "storePour", typed |-> v, read |-> UnitsRead(u)])
    /\ UNCHANGED <<tables, conn, page, wanted, saved, packets>>

(* A pour amount is typed in the sub-unit of the unit it is shown in. *)
PourWeight(v, unit) == Weight(v \div PourSubUnit(unit), unit)

(* A pour that has gone is a conflict. *)
UpdatePours(b) ==
    LET r == request[b]
        amount == pourAmountToStored(r.typed, PourUnit, r.read.units)
    IN /\ r.at = "storePour" /\ Free
       /\ IF pour = None THEN UNCHANGED <<pour, saved>>
          ELSE /\ pour' = amount
               /\ saved' = Correction(PourWeight(r.typed, page[b].unit),
                                       PourWeight(r.typed, displayAmountUnit(PourUnit, r.read.units)),
                                       Weight(amount, PourUnit), page[b], r)
       /\ Answer(b)
       /\ UNCHANGED <<tap, keg, row, config, conn, page, wanted, requests, packets>>

DeletePours(b) ==
    /\ OneCall(b)
    /\ pour' = None
    /\ UNCHANGED <<tap, keg, row, config, page>>

(***************************************************************************)
(* The specification.                                                      *)
(***************************************************************************)

TapRequest(b) ==
    \/ ReplaceTap(b)
    \/ \E t \in Taps : DeleteTap(b, t) \/ \E form \in TapForms :
           CreateTap(b, t, form) \/ FindTap(b, t, form)
    \/ \E links \in Links : LinkTaps(b, links)
    \/ \E ids \in TapOrders : OrderTaps(b, ids)

KegRequest(b) ==
    \/ CheckKeg(b) \/ WriteOrder(b)
    \/ \E k \in Kegs : DeleteKeg(b, k)
    \/ \E ids \in Orders : BeginOrder(b, ids)

ConfigRequest(b) ==
    \/ WriteConfig(b) \/ RollBackConfig(b)
    \/ \E patch \in Patches : ReadConfig(b, patch)

PageRequest(b) ==
    \/ ShowLog(b) \/ ConvertCorrection(b) \/ StoreCorrection(b)
    \/ ShowPour(b) \/ UpdatePours(b) \/ DeletePours(b)
    \/ \E k \in Kegs : FindKeg(b, k)
    \/ \E v \in Corrections : CorrectLog(b, v) \/ CorrectPour(b, v)

Next ==
    \/ \E b \in Browsers : TapRequest(b) \/ KegRequest(b) \/ ConfigRequest(b) \/ PageRequest(b)
                             \/ FailCall(b)
    \/ Restart
    \/ \E k \in Kegs, d \in Devices : ApplyPacket(k, d)

Spec == Init /\ [][Next]_vars

(***************************************************************************)
(* Properties.                                                             *)
(***************************************************************************)

Draws(t, k) == tap[t] # None /\ tap[t].keg = k

(* A keg feeds one tap: whatever is saved, linked, replaced or deleted, and  *)
(* in whatever order the requests of several browsers come, two taps draw    *)
(* from one keg only if they did before (as an old database may have it).    *)
KegStaysOnOneTap ==
    [][\A t, u \in Taps : \A k \in Kegs :
          t # u /\ Draws(t, k)' /\ Draws(u, k)' => Draws(t, k) /\ Draws(u, k)]_tap

(* The settings are what the requests that were answered made them, one      *)
(* after the other: none undoes what another has changed, none is applied in *)
(* part, and an unknown value in the table reads as its default, for a page  *)
(* and for trackPour alike.                                                  *)
SettingsKept ==
    getAppConfig(config) = wanted /\ pourMinimumsTx(config) = wanted.minPour

(* What is stored of an amount typed into a page weighs what the handler took *)
(* it for, in a sub-unit or not, in every unit; and that is what the page     *)
(* showed, unless the settings or the keg's own units were others by the time *)
(* of the save, or a read of the settings had failed and was not reported:    *)
(* those two let an edit mean something else, and nothing else does, be it a  *)
(* failed store, a restart, or what other browsers do.                        *)
EditMeansWhatWasShown ==
    saved # None =>
        /\ saved.stored = saved.handled
        /\ saved.shown = saved.handled \/ saved.changed \/ saved.misread

(* The first n of an order have the place they were last given there, and the *)
(* other kegs the place they had; but for what another request moved since.   *)
Placed(r, n, after) ==
    \A k \in Kegs \ r.others :
        LET given == {i \in 1 .. n : r.ids[i] = k}
        IN IF given = {}
           THEN r.before[k] # None => after[k] # None /\ after[k].order = r.before[k].order
           ELSE /\ after[k] # None
                /\ \E i \in given : after[k].order = i - 1 /\ \A j \in given : j <= i

(* A new order of kegs ends written up to some keg, in the order asked for,   *)
(* whatever fails, is deleted, or comes between, and not in any other way:    *)
(* when it is answered "ok" all of it is written, and when the answer is that *)
(* a keg is not there nothing is, unless another request moved one of its     *)
(* kegs meanwhile.                                                            *)
OrderWholeOrReported ==
    [][\A b \in Browsers :
          LET r == request[b]
              answer == request'[b].answer
          IN r.at = "order" /\ request'[b].at # "order" =>
                /\ \E n \in 0 .. Len(r.ids) : Placed(r, n, keg')
                /\ answer = "ok" => Placed(r, Len(r.ids), keg')
                /\ answer = "missing" =>
                      Placed(r, 0, keg') \/ \E i \in DOMAIN r.ids : r.ids[i] \in r.others]_vars

=============================================================================
