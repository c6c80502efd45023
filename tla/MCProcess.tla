----------------------------- MODULE MCProcess -----------------------------
(***************************************************************************)
(* A small instance of Process: three versions of a schema, of which the   *)
(* second adds a table, two columns and an index, and the third a column   *)
(* that cannot be added; and a ring of two records.                        *)
(***************************************************************************)
EXTENDS Process

Col(name) == [name |-> name, pk |-> FALSE, notNull |-> FALSE, dflt |-> FALSE]
Id == [Col("id") EXCEPT !.pk = TRUE]
Sized == [Col("size") EXCEPT !.notNull = TRUE, !.dflt = TRUE]
Strict == [Col("strict") EXCEPT !.notNull = TRUE]

First == [kegs |-> {Id}, pours |-> None]
Second == [kegs |-> {Id, Col("label"), Sized}, pours |-> {Id, Col("time")}]
Third == [kegs |-> {Id, Col("label"), Sized, Strict}, pours |-> {Id, Col("time")}]

SomeSchema == <<First, Second, Third>>
SomeIndex == <<{}, {[table |-> "kegs", name |-> "size"], [table |-> "pours", name |-> "time"]},
               {[table |-> "kegs", name |-> "size"]}>>
=============================================================================
