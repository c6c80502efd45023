---------------------------- MODULE KegDirectory ----------------------------
(***************************************************************************)
(* What the registry promises to those who look a keg up: one connection   *)
(* serves a keg, the one that announced it last.  It takes the keg with an *)
(* open socket, loses it to a newer one, to the end of its own socket or   *)
(* to a shutdown, and once it has lost the keg it never serves again.      *)
(***************************************************************************)
CONSTANTS Kegs, Conns, NoConn

VARIABLES
    serving,    \* serving[k]: the connection that a command to k goes to
    past,       \* connections that have served a keg and do no longer
    closed,     \* connections whose socket this server has closed
    shut        \* whether a shutdown has dropped the connections there were

directoryVars == <<serving, past, closed, shut>>

Init ==
    /\ serving = [k \in Kegs |-> NoConn]
    /\ past = {} /\ closed = {} /\ shut = FALSE

Loses(ks) == past' = past \cup ({serving[k] : k \in ks} \ {NoConn})

Take(k, c) ==
    /\ c \notin past \cup closed /\ \A j \in Kegs : serving[j] # c
    /\ serving' = [serving EXCEPT ![k] = c]
    /\ Loses({k})
    /\ UNCHANGED <<closed, shut>>

Close(c) ==
    /\ closed' = closed \cup {c}
    /\ UNCHANGED <<serving, past, shut>>

Leave(k) ==
    /\ serving[k] \in closed
    /\ serving' = [serving EXCEPT ![k] = NoConn]
    /\ Loses({k})
    /\ UNCHANGED <<closed, shut>>

LeaveAll ==
    /\ ~shut /\ shut' = TRUE
    /\ serving' = [k \in Kegs |-> NoConn]
    /\ Loses(Kegs)
    /\ UNCHANGED closed

Next ==
    \/ \E k \in Kegs : Leave(k) \/ \E c \in Conns : Take(k, c)
    \/ \E c \in Conns : Close(c)
    \/ LeaveAll

Spec == Init /\ [][Next]_directoryVars
=============================================================================
