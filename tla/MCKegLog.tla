------------------------------ MODULE MCKegLog ------------------------------
(***************************************************************************)
(* A small instance of KegLog: an hour is three seconds and a chunk two of *)
(* them.  What a keg may report at each instant is chosen so that means    *)
(* over an hour are exact and differ with every reading left out.          *)
(***************************************************************************)
EXTENDS KegLog

CONSTANTS k1

(* Two readings of each of two steps, and when they are old. *)
SomeTimes == {4, 5, 6, 7, 13}

SomeReads ==
    [t \in SomeTimes |->
        CASE t = 4 -> [amount |-> 24, pouring |-> FALSE]
          [] t = 5 -> [amount |-> 12, pouring |-> TRUE]
          [] t = 6 -> [amount |-> 0, pouring |-> None]
          [] OTHER -> [amount |-> None, pouring |-> FALSE]]

(* One value cleared, the other left. *)
OneEdit == {[amount |-> None, pouring |-> Keep]}

ChartSteps == {1, 3, 6}

(* On the hour, within one before, on and after a reading, and at the end. *)
SomeEnds == {0, 3, 4, 5, 7, 8, 13}
=============================================================================
