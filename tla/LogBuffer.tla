----------------------------- MODULE LogBuffer -----------------------------
(***************************************************************************)
(* The ring that keeps the latest log records for the System page, and the *)
(* page, which polls for what is newer than the last record it holds.  Two *)
(* polls may overlap and their answers arrive in either order.             *)
(***************************************************************************)
EXTENDS Naturals, Sequences, FiniteSets, SequencesExt

CONSTANTS
    Capacity,
    Texts,          \* what records say
    MaxPolls,       \* bound: polls of the page under way
    MaxRecords,     \* bound: records of a process
    MaxRuns         \* bound: processes

ASSUME LogBufferAssumption ==
    /\ Capacity \in Nat \ {0}
    /\ MaxPolls \in Nat /\ MaxRecords \in Nat /\ MaxRuns \in Nat

VARIABLES
    records, next, seq, \* Buffer
    polls,          \* what the page asked and the server has not answered
    replies,        \* answers on their way
    shown,          \* the records that the page holds
    lastSeq,
    dropNote,       \* the page says that records are missing
    (* History, read by properties and bounds only. *)
    run,            \* which process this is
    seen,           \* what the page has shown since it was opened or noticed a
                    \* restart, what it holds no longer included
    outdated        \* an answer was added that the page asked for before it
                    \* noticed a restart

bufferVars == <<records, next, seq>>
pageVars == <<polls, replies, shown, lastSeq, dropNote>>
logVars == <<bufferVars, pageVars, run, seen, outdated>>

(* What a record says, its number, and which process wrote it. *)
Record == [seq : Nat, text : Texts, run : Nat]

LogInit ==
    /\ records = <<>> /\ next = 0 /\ seq = 0 /\ run = 1 /\ seen = <<>> /\ outdated = FALSE
    /\ polls = <<>> /\ replies = <<>>
    /\ shown = <<>> /\ lastSeq = 0 /\ dropNote = FALSE

(* Mutant: the place that is written next does not move on. *)
AddInPlace(text) ==
    LET r == [seq |-> seq + 1, text |-> text, run |-> run]
    IN /\ seq' = seq + 1
       /\ IF Len(records) < Capacity
          THEN records' = Append(records, r) /\ next' = next
          ELSE /\ records' = [records EXCEPT ![next + 1] = r]
               /\ next' = next

add(text) ==
    LET r == [seq |-> seq + 1, text |-> text, run |-> run]
    IN /\ seq' = seq + 1
       /\ IF Len(records) < Capacity
          THEN records' = Append(records, r) /\ next' = next
          ELSE /\ records' = [records EXCEPT ![next + 1] = r]
               /\ next' = (next + 1) % Capacity

(* Any goroutine logs. *)
Log(text) ==
    /\ seq < MaxRecords
    /\ add(text)
    /\ UNCHANGED <<pageVars, run, seen, outdated>>

InOrder == [i \in DOMAIN records |-> records[((next + i - 1) % Len(records)) + 1]]

(* The records of s above number, which are the last of s: a log is in the   *)
(* order of its numbers.                                                     *)
Newer(s, number) ==
    SubSeq(s, Cardinality({i \in DOMAIN s : s[i].seq <= number}) + 1, Len(s))

Since(after) ==
    [records |-> Newer(InOrder, after),
     after |-> after,
     oldest |-> IF records = <<>> THEN 0 ELSE records[next + 1].seq,
     latest |-> seq]

(* The process is gone and another is started; what it was asked fails, what *)
(* it answered may still arrive.                                             *)
LogRestart ==
    /\ run < MaxRuns /\ run' = run + 1
    /\ records' = <<>> /\ next' = 0 /\ seq' = 0
    /\ polls' = <<>>
    /\ UNCHANGED <<replies, shown, lastSeq, dropNote, seen, outdated>>

Ask ==
    /\ Len(polls) + Len(replies) < MaxPolls
    /\ polls' = Append(polls, lastSeq)
    /\ UNCHANGED <<bufferVars, replies, shown, lastSeq, dropNote, run, seen, outdated>>

handleSystemLogs(i) ==
    /\ polls' = RemoveAt(polls, i)
    /\ replies' = Append(replies, Since(polls[i]))
    /\ UNCHANGED <<bufferVars, shown, lastSeq, dropNote, run, seen, outdated>>

Fresh(reply) == Newer(reply.records, lastSeq)

LastN(s, n) == IF Len(s) > n THEN SubSeq(s, Len(s) - n + 1, Len(s)) ELSE s

(* Mutant: one record that was overwritten is not missed. *)
OverranFar(reply) == lastSeq > 0 /\ reply.oldest > lastSeq + 2

(* The ring has overwritten records that the page has not seen. *)
Overran(reply) == lastSeq > 0 /\ reply.oldest > lastSeq + 1

(* An older number than its own tells the page of a restart, and it asks     *)
(* again from the beginning.                                                 *)
fetchLogs(i) ==
    LET reply == replies[i]
    IN /\ replies' = RemoveAt(replies, i)
       /\ IF reply.latest < lastSeq
          THEN /\ shown' = <<>> /\ lastSeq' = 0 /\ dropNote' = FALSE
               /\ polls' = Append(polls, 0)
               /\ seen' = <<>> /\ outdated' = FALSE
          ELSE /\ dropNote' = (dropNote \/ Overran(reply))
               /\ shown' = LastN(shown \o Fresh(reply), Capacity)
               /\ lastSeq' = IF Fresh(reply) = <<>> THEN lastSeq ELSE Last(shown').seq
               /\ seen' = seen \o Fresh(reply)
               /\ outdated' = (outdated \/ (reply.after > lastSeq /\ Fresh(reply) # <<>>))
               /\ UNCHANGED polls
       /\ UNCHANGED <<bufferVars, run>>

(* A request or an answer that is lost: the page says that its poll failed. *)
Lost ==
    \/ /\ \E i \in DOMAIN polls : polls' = RemoveAt(polls, i)
       /\ UNCHANGED <<bufferVars, replies, shown, lastSeq, dropNote, run, seen, outdated>>
    \/ /\ \E i \in DOMAIN replies : replies' = RemoveAt(replies, i)
       /\ UNCHANGED <<bufferVars, polls, shown, lastSeq, dropNote, run, seen, outdated>>

(***************************************************************************)
(* Properties.                                                             *)
(***************************************************************************)

(* The ring holds the latest records of the process: oldest first from next  *)
(* on, and around to the newest just before it.                              *)
RingHoldsLatest ==
    /\ Len(records) = IF seq < Capacity THEN seq ELSE Capacity
    /\ seq < Capacity => next = 0
    /\ next \in 0 .. Capacity - 1
    /\ \A p \in 1 .. Len(records) :
          records[p].seq = IF p <= next THEN seq - next + p
                           ELSE seq - next - Len(records) + p

(* The buffer is the log it stands for. *)
Recent == INSTANCE RecentLog WITH
    kept <- [i \in DOMAIN InOrder |-> [seq |-> InOrder[i].seq, text |-> InOrder[i].text]]
KeepsLatest == Recent!Spec

(* However its polls overlap and their answers are delayed or lost, the page *)
(* holds the last of the records that it has shown, each once and in order;  *)
(* and unless it says that records were dropped, none is missing between     *)
(* those it has shown since it was opened, or since it noticed a restart.    *)
(* Numbers are all it has to tell: a record of a process that has ended      *)
(* takes the place of the one of that number of a process whose start it did *)
(* not notice.  The exception: an answer that it asked for before it noticed *)
(* a restart and that arrives after brings only what is above a number of    *)
(* the process before.                                                       *)
PageKnowsItsGaps ==
    /\ shown = LastN(seen, Capacity)
    /\ \A i \in 1 .. Len(seen) - 1 :
          /\ seen[i].seq < seen[i + 1].seq
          /\ seen[i + 1].seq = seen[i].seq + 1 \/ dropNote \/ outdated
=============================================================================
