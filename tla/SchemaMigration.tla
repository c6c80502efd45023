-------------------------- MODULE SchemaMigration --------------------------
(***************************************************************************)
(* Opening the database: columns that the schema declares and an existing  *)
(* table lacks are added in one transaction, then the statements of the    *)
(* schema run one by one, and the server serves.  The file may come from   *)
(* any version, and the process may be killed at any point and started     *)
(* again in any version.                                                   *)
(***************************************************************************)
EXTENDS Naturals, Sequences, FiniteSets

CONSTANTS
    Tables,
    None,           \* no such table
    Schema,         \* from a version to the columns of each of its tables
    Index           \* from a version to the columns it has indexes on

(* A column of a name may be declared differently by another version. *)
Column == [name : STRING, pk : BOOLEAN, notNull : BOOLEAN, dflt : BOOLEAN]

Versions == DOMAIN Schema
Names(columns) == {c.name : c \in columns}

Declared == {p \in Versions \X Tables : Schema[p[1]][p[2]] # None}
ColumnNames == UNION {Names(Schema[p[1]][p[2]]) : p \in Declared}

ASSUME SchemaAssumption ==
    /\ \A p \in Declared : Schema[p[1]][p[2]] \subseteq Column
    /\ \A names \in SUBSET ColumnNames : names # None
    /\ \A v \in Versions : \A x \in Index[v] :
          <<v, x.table>> \in Declared /\ x.name \in Names(Schema[v][x.table])

VARIABLES
    file,           \* the names of the columns of each table of the file
    indexes,        \* [table, name] of its indexes
    tx,             \* the tables as the transaction of the migration has them
    version,        \* the running version
    at,             \* where Open is
    added,          \* columns to be logged, [table, name]
    (* History, read by properties only. *)
    before,         \* the file when the process started
    logged          \* columns that were logged as added

schemaVars == <<file, indexes, tx, version, at, added, before, logged>>

NoTables == [t \in Tables |-> None]

OpenInit ==
    /\ file = NoTables /\ indexes = {} /\ tx = NoTables
    /\ version \in Versions
    /\ at = "migrating"
    /\ added = {} /\ before = NoTables /\ logged = {}

Wanted(t) == IF Schema[version][t] = None THEN {} ELSE Schema[version][t]

(* A table the file lacks is left to the schema. *)
Missing(t) == IF tx[t] = None THEN {} ELSE {c \in Wanted(t) : c.name \notin tx[t]}

Addable(c) == ~c.pk /\ (c.notNull => c.dflt)

(* Mutant: each column is added to the file at once. *)
AddColumnAtOnce(t, c) ==
    /\ at = "migrating"
    /\ c \in Missing(t) /\ Addable(c)
    /\ tx' = [tx EXCEPT ![t] = @ \cup {c.name}]
    /\ file' = tx'
    /\ added' = added \cup {[table |-> t, name |-> c.name]}
    /\ UNCHANGED <<indexes, version, at, before, logged>>

AddColumn(t, c) ==
    /\ at = "migrating"
    /\ c \in Missing(t) /\ Addable(c)
    /\ tx' = [tx EXCEPT ![t] = @ \cup {c.name}]
    /\ added' = added \cup {[table |-> t, name |-> c.name]}
    /\ UNCHANGED <<file, indexes, version, at, before, logged>>

(* A column that cannot be added rolls the others back; Open fails. *)
Refuse(t) ==
    /\ at = "migrating"
    /\ \E c \in Missing(t) : ~Addable(c)
    /\ at' = "refused"
    /\ tx' = file /\ added' = {}
    /\ UNCHANGED <<file, indexes, version, before, logged>>

CommitColumns ==
    /\ at = "migrating"
    /\ \A t \in Tables : Missing(t) = {}
    /\ file' = tx
    /\ at' = "logging"
    /\ UNCHANGED <<indexes, tx, version, added, before, logged>>

LogAdded(column) ==
    /\ at = "logging"
    /\ column \in added
    /\ added' = added \ {column}
    /\ logged' = logged \cup {column}
    /\ UNCHANGED <<file, indexes, tx, version, at, before>>

EndLogging ==
    /\ at = "logging"
    /\ added = {}
    /\ at' = "schema"
    /\ UNCHANGED <<file, indexes, tx, version, added, before, logged>>

CreateTable(t) ==
    /\ at = "schema"
    /\ Schema[version][t] # None /\ file[t] = None
    /\ file' = [file EXCEPT ![t] = Names(Schema[version][t])]
    /\ UNCHANGED <<indexes, tx, version, at, added, before, logged>>

(* An index comes after its table; on a column that is not there it fails. *)
CreateIndex(x) ==
    /\ at = "schema"
    /\ x \in Index[version] \ indexes
    /\ file[x.table] # None
    /\ IF x.name \in file[x.table]
       THEN indexes' = indexes \cup {x} /\ at' = at
       ELSE at' = "failed" /\ UNCHANGED indexes
    /\ UNCHANGED <<file, tx, version, added, before, logged>>

Whole ==
    /\ \A t \in Tables : Schema[version][t] # None =>
          file[t] # None /\ Names(Schema[version][t]) \subseteq file[t]
    /\ Index[version] \subseteq indexes

(* The statements are done: nothing that they create is missing. *)
Serve ==
    /\ at = "schema"
    /\ \A t \in Tables : Schema[version][t] # None => file[t] # None
    /\ Index[version] \subseteq indexes
    /\ at' = "serving"
    /\ UNCHANGED <<file, indexes, tx, version, added, before, logged>>

(* The process ends, or is killed, and a version is started on the file. *)
OpenRestart ==
    /\ version' \in Versions
    /\ at' = "migrating"
    /\ tx' = file /\ before' = file
    /\ added' = {} /\ logged' = {}
    /\ UNCHANGED <<file, indexes>>

(***************************************************************************)
(* Properties.                                                             *)
(***************************************************************************)

(* The server serves only from a file that has all its version declares; a   *)
(* start is refused only for a column that cannot be added, and leaves the   *)
(* file as it was; no statement fails for want of a column; and a column     *)
(* that the log calls added is in the file, whatever follows.                *)
ServesWholeOrRefuses ==
    /\ at = "serving" => Whole
    /\ at = "refused" =>
          file = before /\ \E t \in Tables : \E c \in Missing(t) : ~Addable(c)
    /\ at # "failed"
    /\ \A x \in logged : file[x.table] # None /\ x.name \in file[x.table]
=============================================================================
