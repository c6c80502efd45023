------------------------------ MODULE Process ------------------------------
(***************************************************************************)
(* One process after the other: run() opens the database and then serves.  *)
(* Opening it logs the columns that it added, through the log buffer that  *)
(* lives as long as the process; the System page is answered while the     *)
(* process serves, and its answers may outlive it.                         *)
(***************************************************************************)
EXTENDS LogBuffer, SchemaMigration

vars == <<logVars, schemaVars>>

Init == LogInit /\ OpenInit

(* A column is logged through the buffer. *)
LogColumn ==
    \E column \in added : \E text \in Texts :
        LogAdded(column) /\ add(text) /\ UNCHANGED <<pageVars, run, seen, outdated>>

OpenStore ==
    \/ /\ \/ CommitColumns \/ EndLogging \/ Serve
          \/ \E t \in Tables : \/ Refuse(t) \/ CreateTable(t)
                               \/ \E c \in Wanted(t) : AddColumn(t, c)
          \/ \E x \in Index[version] : CreateIndex(x)
       /\ UNCHANGED logVars
    \/ LogColumn

Serving ==
    /\ at = "serving"
    /\ \/ \E text \in Texts : Log(text)
       \/ \E i \in DOMAIN polls : handleSystemLogs(i)
    /\ UNCHANGED schemaVars

Page ==
    /\ Ask \/ Lost \/ \E i \in DOMAIN replies : fetchLogs(i)
    /\ UNCHANGED schemaVars

(* Ended, refused or killed, and started again. *)
Restart == OpenRestart /\ LogRestart

Next == OpenStore \/ Serving \/ Page \/ Restart

Spec == Init /\ [][Next]_vars
=============================================================================
