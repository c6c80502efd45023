------------------------------ MODULE BarHelper ------------------------------
(***************************************************************************)
(* barhelper.Client: the latest volume of each monitor, the worker that    *)
(* wakes once per flushInterval, chooses what is due and sends it request  *)
(* by request, and the BarHelper service with the network in front of it.  *)
(*                                                                         *)
(* Time is discrete and one unit is flushInterval.  It passes only while   *)
(* the worker waits for its ticker or for an answer: scheduling delays are *)
(* nothing against a second.                                               *)
(***************************************************************************)
EXTENDS Naturals, Sequences, FiniteSets

CONSTANTS
    Kegs,
    MonitorOf,         \* cfg.Monitors: monitor ids by keg, ordered as Nat
    Amounts,
    None,              \* no amount yet
    MinSendInterval,
    GlobalSendLimit,
    GlobalSendWindow,
    RequestTimeout,
    Faults,            \* what goes wrong: "refuse", "unconfirmed", "lose", "late"
    MaxTime,           \* bound: the time modelled
    MaxReports,        \* bound: how many volumes the kegs report
    MaxCrashes         \* bound: how often the process is killed and restarted

Monitors == {MonitorOf[k] : k \in DOMAIN MonitorOf}

ASSUME BarHelperAssumption ==
    /\ DOMAIN MonitorOf \subseteq Kegs /\ IsFiniteSet(DOMAIN MonitorOf)
    /\ \A k \in DOMAIN MonitorOf : MonitorOf[k] \in Nat
    /\ None \notin Amounts
    /\ MinSendInterval \in Nat \ {0} /\ GlobalSendLimit \in Nat \ {0}
    /\ GlobalSendWindow \in Nat \ {0} /\ RequestTimeout \in Nat \ {0}
    /\ Faults \subseteq {"refuse", "unconfirmed", "lose", "late"}
    /\ MaxTime \in Nat \ {0} /\ MaxReports \in Nat /\ MaxCrashes \in Nat

(* A window is longer than its requests can take, and than an interval and   *)
(* a request: 63 s, two requests of at most 15 s, an interval of 30 s.       *)
ASSUME PaceAssumption ==
    /\ GlobalSendLimit * RequestTimeout < GlobalSendWindow
    /\ MinSendInterval + RequestTimeout <= GlobalSendWindow

Reading == [keg : Kegs, monitor : Monitors, amount : Amounts]
NotYet == 0     \* the zero time.Time; the clock starts at 1

VARIABLES
    now,
    tick,           \* the ticker's channel: the time of its tick, or NotYet
    worker,         \* running, or returned
    stopping,       \* the context is cancelled
    reporter,       \* monitorState.kegID
    latest,         \* monitorState.latest, None while ~haveLatest
    lastSent,       \* monitorState.lastSent, None while ~haveSent
    lastSendAt,
    recentSends,
    batch,          \* what due returned and has not been answered
    sentAt,         \* when Head(batch) was dispatched, or NotYet
    answer,         \* what the service answered to it
    (* The service. *)
    shown,          \* shown[m]: the volume BarHelper shows, or None
    late,           \* requests the client has given up that may yet be served
    (* History, read by properties only. *)
    reports, crashes,
    dispatched,     \* the requests of the last window: their time and monitor
    waitsFrom,      \* since when m has had a volume to send and no attempt
    unsure          \* monitors with a request whose fate the client does not know

stateVars == <<reporter, latest, lastSent, lastSendAt, recentSends>>
sendVars == <<batch, sentAt, answer>>
serviceVars == <<shown, late>>
ghostVars == <<reports, crashes, dispatched, waitsFrom, unsure>>
vars == <<now, tick, worker, stopping, stateVars, sendVars, 
          serviceVars, ghostVars>>

InitClient ==
    /\ tick = NotYet /\ worker = "running" /\ stopping = FALSE
    /\ reporter = [m \in Monitors |-> None]
    /\ latest = [m \in Monitors |-> None]
    /\ lastSent = [m \in Monitors |-> None]
    /\ lastSendAt = [m \in Monitors |-> NotYet]
    /\ recentSends = <<>>
    /\ batch = <<>> /\ sentAt = NotYet /\ answer = "none"

Init ==
    /\ now = 1
    /\ InitClient
    /\ shown = [m \in Monitors |-> None] /\ late = {}
    /\ reports = 0 /\ crashes = 0
    /\ dispatched = <<>>
    /\ waitsFrom = [m \in Monitors |-> NotYet]
    /\ unsure = {}

(* There is something to send: BarHelper has not accepted the latest volume. *)
Changed(last, sent) == last # None /\ last # sent

(***************************************************************************)
(* The kegs and the operators, from other goroutines.                      *)
(***************************************************************************)

(* A keg without a monitor is not forwarded. *)
KegAmount(k, a) ==
    LET m == MonitorOf[k] IN
    /\ k \in DOMAIN MonitorOf
    /\ reports < MaxReports
    /\ reports' = reports + 1
    /\ reporter' = [reporter EXCEPT ![m] = k]
    /\ latest' = [latest EXCEPT ![m] = a]
    /\ waitsFrom' = [waitsFrom EXCEPT ![m] =
                        IF ~Changed(latest[m], lastSent[m]) THEN now ELSE @]
    /\ UNCHANGED <<now, tick, worker, stopping, lastSent, lastSendAt, recentSends,
                   sendVars, serviceVars, crashes, dispatched, unsure>>

(***************************************************************************)
(* The clock and the ticker, which drops a tick nobody has taken.          *)
(***************************************************************************)

(* s without its entries at the places old, which are the first of s: all    *)
(* that is timed here is kept in the order of time.                          *)
Without(s, old) == SubSeq(s, Cardinality(old) + 1, Len(s))

Waiting ==
    \/ batch = <<>> /\ tick = NotYet /\ ~stopping
    \/ sentAt # NotYet /\ now < sentAt + RequestTimeout

Elapse ==
    /\ now < MaxTime /\ Waiting
    /\ now' = now + 1
    /\ tick' = IF tick = NotYet THEN now' ELSE tick
    /\ dispatched' = Without(dispatched,
           {i \in DOMAIN dispatched : now' - dispatched[i].at >= GlobalSendWindow})
    /\ UNCHANGED <<worker, stopping, stateVars, sendVars, serviceVars,
                   reports, crashes, waitsFrom, unsure>>

(***************************************************************************)
(* The worker.                                                             *)
(***************************************************************************)

(* The places of the stamps that are age old.                                *)
Sent(at, age) == {i \in DOMAIN recentSends : at - recentSends[i] >= age}

(* Mutants: the window forgets a send too early; whoever comes first by id   *)
(* is served first; the interval is not looked at.                           *)
PruneTooEarly(at) == Without(recentSends, Sent(at, MinSendInterval))
IdOrder(a, b) == a < b
AllChanged(at) == {m \in Monitors : Changed(latest[m], lastSent[m])}

pruneRecent(at) == Without(recentSends, Sent(at, GlobalSendWindow))

WaitedLonger(a, b) ==
    \/ lastSendAt[a] < lastSendAt[b]
    \/ lastSendAt[a] = lastSendAt[b] /\ a < b

Candidates(at) ==
    {m \in Monitors :
        /\ Changed(latest[m], lastSent[m])
        /\ lastSendAt[m] = NotYet \/ at - lastSendAt[m] >= MinSendInterval}

(* chosen is the beginning of candidates sorted by who waited longer. *)
Sorted(chosen, candidates) ==
    \A i \in DOMAIN chosen :
        /\ \A j \in DOMAIN chosen : i < j => WaitedLonger(chosen[i], chosen[j])
        /\ \A m \in candidates :
              (\A j \in DOMAIN chosen : chosen[j] # m) => WaitedLonger(chosen[i], m)

(* due(now), with the tick's time for now, however long the tick has waited: *)
(* stamps the chosen monitors, as many as the budget allows, and fills the   *)
(* batch.                                                                    *)
Due ==
    LET kept       == pruneRecent(tick)
        budget     == GlobalSendLimit - Len(kept)
        candidates == Candidates(tick)
    IN
    /\ worker = "running" /\ batch = <<>> /\ tick # NotYet
    /\ tick' = NotYet
    /\ \E n \in 0 .. budget : \E chosen \in [1 .. n -> candidates] :
          /\ Sorted(chosen, candidates)
          /\ n < budget => \A m \in candidates : \E i \in 1 .. n : chosen[i] = m
          /\ recentSends' = kept \o [i \in 1 .. n |-> tick]
          /\ lastSendAt' = [m \in Monitors |->
                IF \E i \in 1 .. n : chosen[i] = m THEN tick ELSE lastSendAt[m]]
          /\ batch' = [i \in 1 .. n |-> [keg |-> reporter[chosen[i]],
                                         monitor |-> chosen[i],
                                         amount |-> latest[chosen[i]]]]
    /\ UNCHANGED <<now, worker, stopping, reporter, latest, lastSent, sentAt, answer,
                   serviceVars, ghostVars>>

(* send: the requests of a batch go out one after the other.  Once the       *)
(* context is cancelled a request fails before it is sent.                   *)
Dispatch ==
    LET r == Head(batch) IN
    /\ batch # <<>> /\ sentAt = NotYet
    /\ IF stopping
       THEN batch' = Tail(batch) /\ UNCHANGED <<sentAt, dispatched>>
       ELSE /\ sentAt' = now
            /\ dispatched' = Append(dispatched, [at |-> now, monitor |-> r.monitor])
            /\ UNCHANGED batch
    /\ UNCHANGED <<now, tick, worker, stopping, stateVars, answer, 
                   serviceVars, reports, crashes, waitsFrom, unsure>>

(* Mutant: a reading is marked sent with the volume of the moment. *)
RecordSentLatest(m, amount) == lastSent' = [lastSent EXCEPT ![m] = latest[m]]

recordSent(m, amount) == lastSent' = [lastSent EXCEPT ![m] = amount]

(* Mutant: the request that ended is still taken for the one in flight. *)
NextRequestInFlight == batch' = Tail(batch) /\ answer' = "none" /\ UNCHANGED sentAt

NextRequest == batch' = Tail(batch) /\ sentAt' = NotYet /\ answer' = "none"

(* m was attempted: if its latest volume is still to be sent, it waits anew. *)
Rewait(m) == waitsFrom' = [waitsFrom EXCEPT ![m] = now]

(* The service confirmed the reading.  RecordBarHelperSent, which follows,   *)
(* writes a column of the keg's row that nothing in the server reads.        *)
Success ==
    LET r == Head(batch) IN
    /\ sentAt # NotYet /\ answer = "success"
    /\ recordSent(r.monitor, r.amount)
    /\ Rewait(r.monitor)
    /\ NextRequest
    /\ UNCHANGED <<now, tick, worker, stopping, reporter, latest, lastSendAt,
                   recentSends, serviceVars, reports, crashes, dispatched, unsure>>

(* Any other answer is logged; the reading is tried again when it is due.    *)
NoSuccess ==
    /\ sentAt # NotYet /\ answer = "other"
    /\ Rewait(Head(batch).monitor)
    /\ NextRequest
    /\ UNCHANGED <<now, tick, worker, stopping, stateVars, serviceVars,
                   reports, crashes, dispatched, unsure>>

(* The request fails or times out, or the context aborts it: it may have     *)
(* been served, or may be served later.                                      *)
Fail ==
    LET r == Head(batch) IN
    /\ sentAt # NotYet
    /\ \/ "lose" \in Faults \/ stopping
       \/ answer = "none" /\ now = sentAt + RequestTimeout
    /\ unsure' = unsure \cup {r.monitor}
    /\ late' = IF answer = "none" /\ "late" \in Faults THEN late \cup {r} ELSE late
    /\ Rewait(r.monitor)
    /\ NextRequest
    /\ UNCHANGED <<now, tick, worker, stopping, stateVars, shown,
                   reports, crashes, dispatched>>

Cancel ==
    /\ ~stopping
    /\ stopping' = TRUE
    /\ UNCHANGED <<now, tick, worker, stateVars, sendVars, serviceVars,
                   ghostVars>>

WorkerReturns ==
    /\ worker = "running" /\ stopping /\ batch = <<>>
    /\ worker' = "returned"
    /\ UNCHANGED <<now, tick, stopping, stateVars, sendVars, serviceVars,
                   ghostVars>>

(* The process is killed, or has returned, and starts again: the client     *)
(* remembers nothing, the rows and the service do.                           *)
Restart ==
    /\ crashes < MaxCrashes
    /\ crashes' = crashes + 1
    /\ tick' = NotYet /\ worker' = "running" /\ stopping' = FALSE
    /\ reporter' = [m \in Monitors |-> None]
    /\ latest' = [m \in Monitors |-> None]
    /\ lastSent' = [m \in Monitors |-> None]
    /\ lastSendAt' = [m \in Monitors |-> NotYet]
    /\ recentSends' = <<>> /\ dispatched' = <<>>
    /\ batch' = <<>> /\ sentAt' = NotYet /\ answer' = "none"
    /\ unsure' = IF sentAt = NotYet THEN unsure
                 ELSE unsure \cup {Head(batch).monitor}
    /\ late' = IF sentAt # NotYet /\ answer = "none" /\ "late" \in Faults
               THEN late \cup {Head(batch)} ELSE late
    /\ waitsFrom' = [m \in Monitors |-> NotYet]
    /\ UNCHANGED <<now, shown, reports>>

(***************************************************************************)
(* The service.                                                            *)
(***************************************************************************)

(* It shows the volume and confirms, shows it and does not confirm, or       *)
(* refuses it: its rate limit, a wrong key, an error.                        *)
Serve ==
    LET r == Head(batch) IN
    /\ sentAt # NotYet /\ answer = "none"
    /\ \/ /\ shown' = [shown EXCEPT ![r.monitor] = r.amount]
          /\ \/ /\ answer' = "success"
                /\ unsure' = IF \E l \in late : l.monitor = r.monitor
                             THEN unsure ELSE unsure \ {r.monitor}
             \/ /\ "unconfirmed" \in Faults
                /\ answer' = "other"
                /\ unsure' = unsure \cup {r.monitor}
       \/ /\ "refuse" \in Faults
          /\ answer' = "other"
          /\ UNCHANGED <<shown, unsure>>
    /\ UNCHANGED <<now, tick, worker, stopping, stateVars, batch, sentAt, 
                   late, reports, crashes, dispatched, waitsFrom>>

ServeLate(r) ==
    /\ r \in late
    /\ shown' = [shown EXCEPT ![r.monitor] = r.amount]
    /\ late' = late \ {r}
    /\ UNCHANGED <<now, tick, worker, stopping, stateVars, sendVars, 
                   ghostVars>>

(***************************************************************************)
(* The specification.                                                      *)
(***************************************************************************)

Worker == Due \/ Dispatch \/ Success \/ NoSuccess \/ Fail \/ WorkerReturns

Next ==
    \/ \E k \in Kegs, a \in Amounts : KegAmount(k, a)
    \/ Elapse \/ Worker \/ Cancel \/ Restart
    \/ Serve \/ \E r \in Reading : ServeLate(r)

Spec == Init /\ [][Next]_vars

(***************************************************************************)
(* Properties.                                                             *)
(***************************************************************************)

TypeOK ==
    /\ now \in 1 .. MaxTime /\ tick \in 0 .. MaxTime
    /\ worker \in {"running", "returned"} /\ stopping \in BOOLEAN
    /\ reporter \in [Monitors -> Kegs \cup {None}]
    /\ latest \in [Monitors -> Amounts \cup {None}]
    /\ lastSent \in [Monitors -> Amounts \cup {None}]
    /\ lastSendAt \in [Monitors -> 0 .. MaxTime]
    /\ recentSends \in Seq(1 .. MaxTime) /\ Len(recentSends) <= GlobalSendLimit
    /\ batch \in Seq(Reading) /\ Len(batch) <= GlobalSendLimit
    /\ sentAt \in 0 .. MaxTime /\ (sentAt # NotYet => batch # <<>>)
    /\ answer \in {"none", "success", "other"}
    /\ shown \in [Monitors -> Amounts \cup {None}]
    /\ late \subseteq Reading
    /\ unsure \subseteq Monitors

(* How long after its stamp a request may go out: the batches, its own and   *)
(* the one its tick waited behind, hold at most GlobalSendLimit requests     *)
(* together, and each but itself may take the whole timeout.                 *)
MaxDelay == (GlobalSendLimit - 1) * RequestTimeout

(* The shared budget as BarHelper sees it: GlobalSendLimit + 1 requests are  *)
(* never closer than the window less that delay, however slow its answers.   *)
SharedBudget ==
    \A i, j \in DOMAIN dispatched :
        j = i + GlobalSendLimit =>
            dispatched[j].at - dispatched[i].at >= GlobalSendWindow - MaxDelay

(* One monitor is sent to at most once per MinSendInterval, although the     *)
(* interval is counted from the stamp and not from the dispatch: with a      *)
(* limit of two, whoever is sent twice in a window waited behind nobody.     *)
MonitorSpacing ==
    \A i, j \in DOMAIN dispatched :
        i < j /\ dispatched[i].monitor = dispatched[j].monitor =>
            dispatched[j].at - dispatched[i].at >= MinSendInterval

(* No monitor starves: one with a volume to send is attempted within as many *)
(* windows as it takes to serve every monitor once, although every other     *)
(* keg keeps reporting and requests keep failing.  A window is longer by     *)
(* MaxDelay: a slot that expires while requests are out is filled after them.*)
MaxWait ==
    ((Cardinality(Monitors) + GlobalSendLimit - 1) \div GlobalSendLimit)
        * (GlobalSendWindow + MaxDelay)

NoMonitorStarves ==
    \A m \in Monitors :
        /\ worker = "running" /\ ~stopping
        /\ Changed(latest[m], lastSent[m])
        /\ \A i \in DOMAIN batch : batch[i].monitor # m
        => now - waitsFrom[m] <= MaxWait

(* What is marked sent is what BarHelper shows: only a confirmed value is    *)
(* marked, so an unchanged reading is suppressed only when it is on display. *)
(* The exception is a monitor with a request of unknown fate.                *)
MarkedIsShown ==
    \A m \in Monitors \ unsure :
        /\ lastSent[m] # None
        /\ ~ (sentAt # NotYet /\ answer = "success" /\ Head(batch).monitor = m)
        => shown[m] = lastSent[m]

=============================================================================
