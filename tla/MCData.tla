------------------------------- MODULE MCData -------------------------------
(***************************************************************************)
(* What the program stores, reads and prints, for TLC in one run: the      *)
(* table acme (DatabasePersist), the columns and errors of Util, the table *)
(* of Records and the text of Metrics.  They share no state: in each       *)
(* behaviour one of them goes on, and the others stay as they begin.       *)
(***************************************************************************)
EXTENDS DatabasePersist, Util

CONSTANTS Labels, RecordValues, MaxTokens   \* of Records
CONSTANT MaxLength                          \* of Metrics

\* Some name can be written.
ASSUME SomeLabels == Labels # {}

VARIABLES at, names, name, type, set, table, res, listed   \* of Records
VARIABLES input, data, kept                                \* of Metrics
VARIABLE part   \* the part that goes on

C == INSTANCE Records WITH Values <- RecordValues
M == INSTANCE Metrics WITH res <- kept

recordvars == <<at, names, name, type, set, table, res, listed>>
metricvars == <<input, data, kept>>
datavars   == <<part, vars, utilvars, recordvars, metricvars>>

DataInit ==
    /\ part \in {"acme", "util", "records", "metrics"}
    /\ Init /\ C!Init
    /\ \/ part = "util" /\ UtilInit
       \/ part # "util" /\ written = {} /\ column = {} /\ err = NoError /\ got = NoError
    /\ \/ part = "metrics" /\ M!Init
       \/ part # "metrics" /\ input = <<>> /\ data = <<>> /\ kept = <<>>

DataNext ==
    /\ \/ part = "acme" /\ Next /\ UNCHANGED <<utilvars, recordvars, metricvars>>
       \/ part = "util" /\ UtilNext /\ UNCHANGED <<vars, recordvars, metricvars>>
       \/ part = "records" /\ C!Next /\ UNCHANGED <<vars, utilvars, metricvars>>
       \/ part = "metrics" /\ M!Next /\ UNCHANGED <<vars, utilvars, recordvars>>
    /\ UNCHANGED part

DataSpec == DataInit /\ [][DataNext]_datavars

-----------------------------------------------------------------------------
(* The properties of the parts; those of the modules that this one extends *)
(* have their names there.                                                 *)

\* The table, the columns, the record sets and the text have their types.
TypesOK == TypeOK /\ UtilTypeOK /\ C!TypeOK /\ M!TypeOK

\* Names answer what the configuration lists for them.
ServedAsListed == C!ServedAsListed

\* Exactly the lines with a zero are left out.
OnlyZerosGo == M!OnlyZerosGo
=============================================================================
