------------------------------- MODULE KegLog -------------------------------
(***************************************************************************)
(* The reading history: what ingest records of a keg and how often, the    *)
(* daily pass that prunes the keg_log table and folds old readings into    *)
(* one row per hour, what an operator clears, edits and deletes, the pages *)
(* of the history editor and the averaging of a chart.                     *)
(*                                                                         *)
(* The store holds one connection, so a transaction is one step; the pass  *)
(* is many of them, and everything else comes between.  A transaction that *)
(* fails changes nothing: of those, the insert of a reading and the steps  *)
(* of the pass matter, since they go on from there.                        *)
(*                                                                         *)
(* Time is in seconds of some length, the clock does not go back, and a    *)
(* row's temperature and percentage go the way of its amount.              *)
(***************************************************************************)
EXTENDS Integers, FiniteSets, FiniteSetsExt

CONSTANTS
    Kegs,
    None,           \* NULL in a column, no entry in a map, no pass, no page
    Keep,           \* a value an edit does not set
    Edits,          \* what an operator sets in a row
    Interval,       \* LogInterval
    CompactStep,
    compactChunk,
    CompactAfter,   \* LOG_COMPACT_AFTER_DAYS
    Retention,      \* LOG_RETENTION_DAYS
    sampleSteps,    \* the steps of a chart, up to a day
    Day,
    maxChartPoints,
    Limit,          \* rows of a page
    From, To,       \* the window of the history editor
    ChartEnds,      \* where the window of a chart may start and end
    Times,          \* bound: the instants at which something happens
    Reads,          \* bound: Reads[t]: what a keg reports at t, if it reports
    MaxReadings,    \* bound: readings kept of a keg
    MaxEdits        \* bound: what operators do

Snapshot == [amount : Int \cup {None}, pouring : BOOLEAN \cup {None}]

ASSUME LogAssumption ==
    /\ None \notin Int \cup BOOLEAN \cup Kegs /\ Keep \notin Int \cup BOOLEAN \cup {None}
    /\ Edits \subseteq [amount : Int \cup {None, Keep}, pouring : BOOLEAN \cup {None, Keep}]
    /\ Interval \in Nat /\ CompactStep \in Nat \ {0} /\ CompactAfter \in Nat
    /\ compactChunk \in Nat \ {0} /\ compactChunk % CompactStep = 0
    /\ Retention \in Nat
    /\ sampleSteps \subseteq Nat \ {0} /\ Day \in Nat \ {0} /\ Day \in sampleSteps
    /\ \A s \in sampleSteps : s <= Day
    /\ \A s \in sampleSteps : s >= CompactStep => s % CompactStep = 0
    /\ Day >= CompactStep
    /\ maxChartPoints \in Nat \ {0} /\ Limit \in Nat \ {0}
    /\ From \in Nat /\ To \in Nat /\ ChartEnds \subseteq Nat
    /\ Times \subseteq Nat /\ Times # {} /\ Reads \in [Times -> Snapshot]
    /\ \A t \in Times : t >= CompactStep \* 1970 is long past
    /\ MaxReadings \in Nat /\ MaxEdits \in Nat

VARIABLES
    now,
    keg,            \* keg[k]: no row, a row that holds no reading, or one that does
    held,           \* held[k]: the row a packet was stored in, not yet logged
    log,            \* log[k]: k's rows of keg_log
    last,           \* LogThrottle.last: when k was last recorded
    pass,           \* where the pass of prune is
    page,           \* the history editor of one keg, as a browser shows it
    (* History, read by properties and bounds only. *)
    reading,        \* reading[k]: k's recorded readings by time, as edited since
    compactedTo,    \* the cutoff of the last pass that ended well
    unseen,         \* rows ahead of the page since its walk began
    edits           \* how often operators acted

ghostVars == <<reading, compactedTo, unseen, edits>>
serverVars == <<held, last, pass>>
vars == <<now, keg, held, log, last, pass, page, ghostVars>>

(* A row of keg_log, and the times of the readings it was folded from. *)
Row == [ts : Nat, amount : Int \cup {None}, pouring : BOOLEAN \cup {None},
        covers : SUBSET Nat]

idle == [at |-> "idle", cutoff |-> 0, ids |-> {}, keg |-> None, start |-> 0]

Init ==
    /\ now = Min(Times)
    /\ keg = [k \in Kegs |-> "none"] /\ held = [k \in Kegs |-> "none"]
    /\ log = [k \in Kegs |-> {}]
    /\ last = [k \in Kegs |-> None]
    /\ pass = idle /\ page = None
    /\ reading = [k \in Kegs |-> <<>>]
    /\ compactedTo = 0 /\ unseen = {} /\ edits = 0

Elapse ==
    /\ now' \in Times
    /\ now' > now
    /\ UNCHANGED <<keg, held, log, last, pass, page, ghostVars>>

Stamps(k) == {r.ts : r \in log[k]}
Present == IF page = None THEN {} ELSE Stamps(page.keg)

(* Rows that go are no longer ahead of the page. *)
Forget == unseen' = IF page = None THEN {}
                    ELSE unseen \cap {r.ts : r \in log'[page.keg]}

(***************************************************************************)
(* ingest: the row that ApplyPacket returned, whatever the packet said, is *)
(* logged when it holds a reading and the throttle has a slot.  The delete *)
(* of the keg, a pass and the clock may come between.                      *)
(***************************************************************************)

ApplyPacket(k, reads) ==
    /\ held[k] = "none"
    /\ keg' = [keg EXCEPT ![k] = IF reads \/ @ = "reads" THEN "reads" ELSE "bare"]
    /\ held' = [held EXCEPT ![k] = keg'[k]]
    /\ UNCHANGED <<now, log, last, pass, page, ghostVars>>

HasSlot(k) == last[k] = None \/ now - last[k] >= Interval

HasLoggableReading(row) == row = "reads"

AppendLog(k, s) ==
    /\ Cardinality(DOMAIN reading[k] \cup {now}) <= MaxReadings
    /\ log' = [log EXCEPT ![k] = {r \in @ : r.ts # now} \cup
          {[ts |-> now, amount |-> s.amount, pouring |-> s.pouring, covers |-> {now}]}]
    /\ reading' = [reading EXCEPT ![k] =
          [t \in DOMAIN @ \cup {now} |-> IF t = now THEN s ELSE @[t]]]
    /\ UNCHANGED unseen

Record(k) ==
    /\ held[k] # "none"
    /\ held' = [held EXCEPT ![k] = "none"]
    /\ IF HasLoggableReading(held[k]) /\ HasSlot(k)
       THEN /\ last' = [last EXCEPT ![k] = now]
            /\ AppendLog(k, Reads[now]) \/ UNCHANGED <<log, reading, unseen>>
       ELSE UNCHANGED <<last, log, reading, unseen>>
    /\ UNCHANGED <<now, keg, pass, page, compactedTo, edits>>

(* The server is killed, or stops, and is started again. *)
Restart ==
    /\ held' = [k \in Kegs |-> "none"] /\ last' = [k \in Kegs |-> None]
    /\ pass' = idle
    /\ UNCHANGED <<now, keg, log, page, reading, compactedTo, unseen, edits>>

(***************************************************************************)
(* prune: one pass prunes, then folds what is older than CompactAfter keg  *)
(* by keg and chunk by chunk.  An error ends it until the next day.        *)
(***************************************************************************)

StepOf(t) == (t \div CompactStep) * CompactStep
(* Mutant: the cutoff is not brought down to the start of its step. *)
UnalignedCutoff == IF now > CompactAfter THEN now - CompactAfter ELSE 0

Cutoff == StepOf(IF now > CompactAfter THEN now - CompactAfter ELSE 0)
Older(k, t) == {r \in log[k] : r.ts < t}

StartPass ==
    /\ pass.at = "idle"
    /\ log' = IF Retention = 0 THEN log
              ELSE [k \in Kegs |-> log[k] \ Older(k, now - Retention)]
    /\ Forget
    /\ pass' = [pass EXCEPT !.at = "pruned"]
    /\ UNCHANGED <<now, keg, held, last, page, reading, compactedTo, edits>>

(* CompactLog takes its cutoff and the kegs that have rows. *)
CompactLog ==
    /\ pass.at = "pruned"
    /\ pass' = IF CompactAfter = 0 THEN idle
               ELSE [idle EXCEPT !.at = "compacting", !.cutoff = Cutoff,
                                 !.ids = {k \in Kegs : log[k] # {}}]
    /\ UNCHANGED <<now, keg, held, log, last, page, ghostVars>>

Compacting == pass.at = "compacting"

(* The next keg and the step of its oldest row, if that is old enough. *)
NextKeg(k) ==
    /\ Compacting
    /\ pass.keg = None /\ k \in pass.ids
    /\ LET old == {r.ts : r \in Older(k, pass.cutoff)}
       IN pass' = [pass EXCEPT !.ids = @ \ {k},
              !.keg = IF old = {} THEN None ELSE k,
              !.start = IF old = {} THEN 0 ELSE StepOf(Min(old))]
    /\ UNCHANGED <<now, keg, held, log, last, page, ghostVars>>

(* AVG leaves out NULLs, MAX finds TRUE if there is one. *)
AVG(rows) ==
    LET known == {r \in rows : r.amount # None}
    IN IF known = {} THEN None
       ELSE MapThenSumSet(LAMBDA r : r.amount, known) \div Cardinality(known)

MAX(rows) ==
    LET known == {r \in rows : r.pouring # None}
    IN IF known = {} THEN None ELSE \E r \in known : r.pouring

(* Mutant: the fold takes the values of its last row. *)
FoldedLast(rows, start) ==
    LET end == CHOOSE r \in rows : \A q \in rows : q.ts <= r.ts
    IN [ts |-> start, amount |-> end.amount, pouring |-> end.pouring,
        covers |-> UNION {r.covers : r \in rows}]

Folded(rows, start) ==
    [ts |-> start, amount |-> AVG(rows), pouring |-> MAX(rows),
     covers |-> UNION {r.covers : r \in rows}]

Bucket(rows, b) == {r \in rows : StepOf(r.ts) = b}

(* The steps between from and to not yet one row at their start. *)
Unfolded(rows, from, to) ==
    LET between == {r \in rows : r.ts >= from /\ r.ts < to}
    IN {b \in {StepOf(r.ts) : r \in between} :
           \/ Cardinality(Bucket(between, b)) > 1
           \/ \E r \in Bucket(between, b) : r.ts # b}

(* Mutant: the rows of a step are deleted from after its start on. *)
compactRangeAfterStart(rows, from, to) ==
    LET between == {r \in rows : r.ts >= from /\ r.ts < to}
        steps == Unfolded(rows, from, to)
    IN {r \in rows : StepOf(r.ts) \notin steps \/ r.ts = StepOf(r.ts)}
       \cup {Folded(Bucket(between, b), b) : b \in steps}

compactRange(rows, from, to) ==
    LET between == {r \in rows : r.ts >= from /\ r.ts < to}
        steps == Unfolded(rows, from, to)
    IN {r \in rows : StepOf(r.ts) \notin steps}
       \cup {Folded(Bucket(between, b), b) : b \in steps}

ChunkEnd == IF pass.start + compactChunk < pass.cutoff
            THEN pass.start + compactChunk ELSE pass.cutoff

(* Mutant: the loop takes whole chunks only. *)
CompactWholeChunk ==
    /\ Compacting
    /\ pass.keg # None
    /\ IF pass.start + compactChunk <= pass.cutoff
       THEN log' = [log EXCEPT ![pass.keg] = compactRange(@, pass.start, ChunkEnd)]
       ELSE UNCHANGED log
    /\ Forget
    /\ pass' = [pass EXCEPT !.start = @ + compactChunk,
                            !.keg = IF ChunkEnd < pass.cutoff THEN @ ELSE None]
    /\ UNCHANGED <<now, keg, held, last, page, reading, compactedTo, edits>>

CompactChunk ==
    /\ Compacting
    /\ pass.keg # None
    /\ log' = [log EXCEPT ![pass.keg] = compactRange(@, pass.start, ChunkEnd)]
    /\ Forget
    /\ pass' = [pass EXCEPT !.start = @ + compactChunk,
                            !.keg = IF ChunkEnd < pass.cutoff THEN @ ELSE None]
    /\ UNCHANGED <<now, keg, held, last, page, reading, compactedTo, edits>>

EndPass ==
    /\ Compacting
    /\ pass.keg = None /\ pass.ids = {}
    /\ pass' = idle
    /\ compactedTo' = pass.cutoff
    /\ UNCHANGED <<now, keg, held, log, last, page, reading, unseen, edits>>

FailPass ==
    /\ Compacting
    /\ pass' = idle
    /\ UNCHANGED <<now, keg, held, log, last, page, ghostVars>>

(***************************************************************************)
(* What an operator does to a history.                                     *)
(***************************************************************************)

Act == edits < MaxEdits /\ edits' = edits + 1

ClearLog(k) ==
    /\ Act /\ keg[k] # "none"
    /\ log' = [log EXCEPT ![k] = {}]
    /\ reading' = [reading EXCEPT ![k] = <<>>]
    /\ Forget
    /\ UNCHANGED <<now, keg, held, last, pass, page, compactedTo>>

DeleteKeg(k) ==
    /\ Act /\ keg[k] # "none"
    /\ keg' = [keg EXCEPT ![k] = "none"]
    /\ log' = [log EXCEPT ![k] = {}]
    /\ reading' = [reading EXCEPT ![k] = <<>>]
    /\ Forget
    /\ UNCHANGED <<now, held, last, pass, page, compactedTo>>

(* What an edit makes of a row, or of a reading: only what it sets. *)
Edited(r, e) ==
    [r EXCEPT !.amount = IF e.amount = Keep THEN @ ELSE e.amount,
              !.pouring = IF e.pouring = Keep THEN @ ELSE e.pouring]

CoveredBy(rows) == UNION {r.covers : r \in rows}

(* Every row must still be there, or nothing is changed: a conflict. *)
UpdateLogEntries(k, stamps, e) ==
    /\ stamps \subseteq Stamps(k)
    /\ LET hit == {r \in log[k] : r.ts \in stamps}
       IN /\ log' = [log EXCEPT ![k] = (@ \ hit) \cup {Edited(r, e) : r \in hit}]
          /\ reading' = [reading EXCEPT ![k] =
                [t \in DOMAIN @ |-> IF t \in CoveredBy(hit) THEN Edited(@[t], e)
                                    ELSE @[t]]]

DeleteLogEntries(k, stamps) ==
    LET hit == {r \in log[k] : r.ts \in stamps}
    IN /\ log' = [log EXCEPT ![k] = @ \ hit]
       /\ reading' = [reading EXCEPT ![k] =
             [t \in DOMAIN @ \ CoveredBy(hit) |-> @[t]]]

(***************************************************************************)
(* The history editor.  A page is a set of rows cut at a cursor; 0 is no   *)
(* cursor.  It reloads after what it saved or deleted.                     *)
(***************************************************************************)

FirstOf(rows, n) == {r \in rows : Cardinality({q \in rows : q.ts < r.ts}) < n}
LastOf(rows, n) == {r \in rows : Cardinality({q \in rows : q.ts > r.ts}) < n}

Window(k) == {r \in log[k] : r.ts >= From /\ r.ts <= To}

(* Mutant: a page before a cursor begins at the start of the window. *)
PageFromStart(k, after, before) ==
    IF after > 0 THEN FirstOf({r \in Window(k) : r.ts > after}, Limit)
    ELSE IF before > 0 THEN FirstOf({r \in Window(k) : r.ts < before}, Limit)
    ELSE FirstOf(Window(k), Limit)

PageEntries(k, after, before) ==
    IF after > 0 THEN FirstOf({r \in Window(k) : r.ts > after}, Limit)
    ELSE IF before > 0 THEN LastOf({r \in Window(k) : r.ts < before}, Limit)
    ELSE FirstOf(Window(k), Limit)

(* An empty page has nothing to measure from, so the cursor stands in. *)
ReadLogPage(k, after, before) ==
    LET entries == PageEntries(k, after, before)
        stamps == {r.ts : r \in entries}
        cursor == IF after > 0 THEN after ELSE before
        first == IF entries # {} THEN Min(stamps) ELSE cursor
        end == IF entries # {} THEN Max(stamps) ELSE cursor
    IN [keg |-> k, after |-> after, before |-> before, stale |-> FALSE,
        rows |-> {[ts |-> r.ts, covers |-> r.covers] : r \in entries},
        earlier |-> first > 0 /\ \E r \in Window(k) : r.ts < first,
        later |-> end > 0 /\ \E r \in Window(k) : r.ts > end]

(* The page goes where its cursor says; on a turn its walk begins anew.      *)
(* A page that came back empty with rows before it asks again from its end.  *)
Load(k, after, before, turned) ==
    LET got == ReadLogPage(k, after, before)
        ahead == {r.ts : r \in {q \in Window(k) :
                     IF before > 0 THEN q.ts < before ELSE q.ts > after}}
        back == got.rows = {} /\ got.earlier /\ before = 0
    IN /\ page' = IF back
                  THEN [got EXCEPT !.stale = TRUE, !.after = 0,
                           !.before = (IF after > 0 THEN after ELSE To) + 1]
                  ELSE got
       /\ unseen' = (IF turned THEN ahead ELSE unseen) \ {r.ts : r \in got.rows}
       /\ UNCHANGED <<now, keg, held, log, last, pass, reading, compactedTo, edits>>

Open(k) == keg[k] # "none" /\ Load(k, 0, 0, TRUE)

Browsing == page # None /\ ~page.stale /\ keg[page.keg] # "none"

PageStamps == {r.ts : r \in page.rows}

Later ==
    /\ Browsing
    /\ page.later /\ page.rows # {}
    /\ Load(page.keg, Max(PageStamps), 0, page.before > 0)

Earlier ==
    /\ Browsing
    /\ page.earlier /\ page.rows # {}
    /\ Load(page.keg, 0, Min(PageStamps), page.before = 0)

Reload ==
    /\ page # None
    /\ page.stale /\ keg[page.keg] # "none"
    /\ Load(page.keg, page.after, page.before, page.rows = {})

(* Saved, or answered with a conflict: then the page keeps what it shows. *)
Save(stamps, e) ==
    /\ Browsing /\ Act
    /\ UpdateLogEntries(page.keg, stamps, e)
    /\ page' = [page EXCEPT !.stale = TRUE]
    /\ UNCHANGED <<now, keg, held, last, pass, compactedTo, unseen>>

Delete(stamps) ==
    /\ Browsing /\ Act
    /\ DeleteLogEntries(page.keg, stamps)
    /\ page' = [page EXCEPT !.stale = TRUE]
    /\ Forget
    /\ UNCHANGED <<now, keg, held, last, pass, compactedTo>>

(***************************************************************************)
(* The specification.                                                      *)
(***************************************************************************)

Ingest == \E k \in Kegs : Record(k) \/ \E reads \in BOOLEAN : ApplyPacket(k, reads)

Pass == \/ StartPass \/ CompactLog \/ CompactChunk \/ EndPass \/ FailPass
        \/ \E k \in Kegs : NextKeg(k)

Editor ==
    \/ Later \/ Earlier \/ Reload
    \/ \E k \in Kegs : Open(k)
    \/ page # None /\ \E stamps \in SUBSET PageStamps \ {{}} :
           Delete(stamps) \/ \E e \in Edits : Save(stamps, e)

Next ==
    \/ Elapse \/ Ingest \/ Restart \/ Pass \/ Editor
    \/ \E k \in Kegs : ClearLog(k) \/ DeleteKeg(k)

Spec == Init /\ [][Next]_vars

(***************************************************************************)
(* A chart: the window is averaged to a step that keeps its points few.    *)
(***************************************************************************)

(* Mutant: a step that is not a whole number of hours. *)
sampleStepUnaligned(window) ==
    LET need == window \div maxChartPoints
    IN IF need <= Interval THEN 0 ELSE need

sampleStep(window) ==
    LET need == window \div maxChartPoints
        enough == {s \in sampleSteps : s >= need}
    IN IF need <= Interval THEN 0
       ELSE IF enough # {} THEN Min(enough)
       ELSE ((need + Day - 1) \div Day) * Day

(* The rows of each point; a point's values are the AVG and MAX of its rows. *)
ReadLogSampled(k, from, to, step) ==
    LET within == {r \in log[k] : r.ts >= from /\ r.ts <= to}
    IN {{r \in within : r.ts \div step = g} : g \in {r.ts \div step : r \in within}}

(***************************************************************************)
(* Properties.                                                             *)
(***************************************************************************)

Page == [keg : Kegs, after : Nat, before : Nat, stale : BOOLEAN,
         rows : SUBSET [ts : Nat, covers : SUBSET Nat],
         earlier : BOOLEAN, later : BOOLEAN]

(* Types, and the primary key of keg_log: one row for a keg and a second.    *)
TypeOK ==
    /\ now \in Nat
    /\ keg \in [Kegs -> {"none", "bare", "reads"}]
    /\ held \in [Kegs -> {"none", "bare", "reads"}]
    /\ \A k \in Kegs : log[k] \subseteq Row
    /\ \A k \in Kegs : \A r, q \in log[k] : r.ts = q.ts => r = q
    /\ last \in [Kegs -> Nat \cup {None}]
    /\ pass \in [at : {"idle", "pruned", "compacting"}, cutoff : Nat,
                ids : SUBSET Kegs, keg : Kegs \cup {None}, start : Nat]
    /\ page \in {None} \cup Page
    /\ compactedTo \in Nat /\ unseen \subseteq Nat /\ edits \in Nat

(* No reading is lost or counted twice: whatever passes, failures, restarts  *)
(* and edits came between, a recorded reading that nobody removed is in one  *)
(* row, that row lies in its step, and only the retention takes it, at most  *)
(* a step early because a folded row stands at the start of its step.        *)
EveryReadingKept ==
    \A k \in Kegs :
        /\ \A r, q \in log[k] : r # q => r.covers \cap q.covers = {}
        /\ \A r \in log[k] : \A t \in r.covers :
              t \in DOMAIN reading[k] /\ r.ts <= t /\ StepOf(t) = StepOf(r.ts)
        /\ \A t \in DOMAIN reading[k] :
              Retention = 0 \/ StepOf(t) >= now - Retention =>
                  \E r \in log[k] : t \in r.covers

(* A row shows the mean of the readings it covers, as they were recorded or  *)
(* edited: no step is averaged in two goes, which would weigh its readings   *)
(* unevenly, and none is averaged again after an operator edited the result. *)
ReadingsOf(k, covers) ==
    {[ts |-> t, amount |-> reading[k][t].amount, pouring |-> reading[k][t].pouring] :
        t \in covers}

AveragesExact ==
    \A k \in Kegs : \A r \in log[k] :
        /\ r.amount = AVG(ReadingsOf(k, r.covers))
        /\ r.pouring = MAX(ReadingsOf(k, r.covers))

(* A pass that ended well has folded all there was below its cutoff, and     *)
(* nothing that is older comes in afterwards.                                *)
CompactedStaysHourly ==
    \A k \in Kegs : \A r \in log[k] : r.ts < compactedTo => r.ts = StepOf(r.ts)

(* A time on the editor's page names the row that the page shows, or no row  *)
(* any more, and then a save is refused: docs/architecture.md:568-570 says   *)
(* so of a row that compaction folded since the page loaded.  The reading    *)
(* that begins an hour has the time of the hour's average.                   *)
FoldedEditRefused ==
    page # None =>
        \A p \in page.rows : \A r \in log[page.keg] :
            r.ts = p.ts => r.covers = p.covers

(* Walking the editor's pages in one direction shows every row that was      *)
(* there when the walk began and still is, before any row beyond it, and the *)
(* button that goes on is off only when none is left, whatever is recorded,  *)
(* folded, deleted and reloaded on the way.                                  *)
WalkShowsAll ==
    page # None /\ ~page.stale =>
        /\ \A t \in unseen, p \in page.rows :
              IF page.before > 0 THEN t < p.ts ELSE t > p.ts
        /\ unseen # {} => IF page.before > 0 THEN page.earlier ELSE page.later

(* A chart of points of an hour or longer, whatever mid-hour its window      *)
(* starts and ends at: a point covers readings of one time and no other      *)
(* point covers readings of that time, folded or not, and of the hours that  *)
(* lie in the window no reading is left out.  An hour that the window cuts   *)
(* may be shown in part, and once it is folded as a whole or not at all.     *)
HoursWhole(k, from, to) ==
    LET step == sampleStep(to - from)
        chart == ReadLogSampled(k, from, to, step)
        shown == CoveredBy(UNION chart)
        inside == {t \in CoveredBy(log[k]) :
                      StepOf(t) >= from /\ StepOf(t) + CompactStep - 1 <= to}
    IN step >= CompactStep =>
           /\ \A rows, other \in chart :
                  \A t \in CoveredBy(rows), u \in CoveredBy(other) :
                      t \div step = u \div step <=> rows = other
           /\ inside \subseteq shown
           /\ \A t \in shown : t >= from /\ StepOf(t) <= to

ChartKeepsHoursWhole ==
    \A k \in Kegs : \A from, to \in ChartEnds : from < to => HoursWhole(k, from, to)

=============================================================================
