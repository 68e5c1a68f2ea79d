------------------------------ MODULE Records ------------------------------
(***************************************************************************)
(* The table [records] of the configuration: how src/config/records.rs     *)
(* reads it, key by key and value by value, and what lookup_pre of         *)
(* src/dns/authority.rs then answers.  A step is one token of the file;    *)
(* the file is whatever the steps make of it.  TOML itself refuses a key   *)
(* that it has seen in the same table.                                     *)
(***************************************************************************)
EXTENDS Naturals, Sequences, SequencesExt, FiniteSets, Functions

CONSTANTS
    Labels,      \* names, up to case and the trailing dot
    Values,      \* bound: data that parses as any type
    MaxTokens    \* bound: the length of the file

VARIABLES
    at,       \* where the reader is
    names,    \* the keys so far, in order
    name,     \* the Name of the table being read
    type,     \* the type of the array being read
    set,      \* its record set
    table,    \* the record sets of the table, by type
    res,      \* the tables, by Name
    listed    \* history: what the file lists, as <<key, type, values>>

vars == <<at, names, name, type, set, table, res, listed>>

\* A key with or without the dot at its end; the text of one may be no name at all.
RecordNames  == [label : Labels, dot : BOOLEAN]
Types == {"A", "TXT", "CNAME"}
Data  == Values \cup {"text"}      \* "text" is neither an address nor a name
Names == [label : Labels, fqdn : BOOLEAN]

TypeOK ==
    /\ at \in {"file", "table", "array", "loaded", "failed"}
    /\ names \in Seq(RecordNames) /\ IsInjective(names)
    /\ name \in Names /\ type \in Types /\ set \in Seq(Data) /\ IsInjective(set)
    /\ \A f \in {table} \cup Range(res) : DOMAIN f \subseteq Types
    /\ DOMAIN res \subseteq Names
    /\ \A n \in DOMAIN res : "CNAME" \in DOMAIN res[n] => Len(res[n]["CNAME"]) <= 1

Empty == <<>>

Init ==
    /\ at = "file" /\ names = <<>> /\ listed = <<>>
    /\ name = (CHOOSE n \in Names : TRUE) /\ type = "A" /\ set = <<>>
    /\ table = Empty /\ res = Empty

Tokens == Len(names) + FoldLeft(LAMBDA n, l : n + 1 + Len(l[3]), 0, listed)

Fail == at' = "failed" /\ UNCHANGED <<names, name, type, set, table, res, listed>>

\* A function with one more value; the last one given counts.
With(f, x, y) == [z \in DOMAIN f \cup {x} |-> IF z = x THEN y ELSE f[z]]

\* A plausible bug: the name stays as it is written.
NameAsWritten(k) == [label |-> k.label, fqdn |-> k.dot]

\* Name::from_str and set_fqdn(true).
NameOf(k) == [label |-> k.label, fqdn |-> TRUE]

NextName ==
    /\ at = "file" /\ Tokens < MaxTokens
    /\ \/ \E k \in RecordNames \ Range(names) :
             /\ at' = "table" /\ names' = Append(names, k)
             /\ name' = NameOf(k) /\ table' = Empty
             /\ UNCHANGED <<type, set, res, listed>>
       \/ Fail   \* no name, or a value that is no table

\* A type and the TTL in front of its values.
NextType ==
    /\ at = "table" /\ Tokens < MaxTokens
    /\ \/ \E t \in Types \ DOMAIN table :
             /\ at' = "array" /\ type' = t /\ set' = <<>>
             /\ listed' = Append(listed, <<Last(names), t, <<>>>>)
             /\ UNCHANGED <<names, name, table, res>>
       \/ Fail   \* another type, or no TTL

\* add_rdata of trust-dns: a CNAME takes the place of the one before, anything else is
\* added unless it is there.
AddRData(s, t, d) == IF t = "CNAME" THEN <<d>> ELSE Append(s, d)

NextData ==
    /\ at = "array" /\ Tokens < MaxTokens
    /\ \E d \in Data :
          \/ /\ d = "text" => type = "TXT"
             /\ type = "CNAME" \/ d \notin Range(set)
             /\ set' = AddRData(set, type, d)
             /\ listed' = [listed EXCEPT ![Len(listed)][3] = Append(@, d)]
             /\ UNCHANGED <<at, names, name, type, table, res>>
          \/ /\ (d = "text" /\ type # "TXT") \/ (type # "CNAME" /\ d \in Range(set))
             /\ Fail

EndArray ==
    /\ at = "array"
    /\ at' = "table" /\ table' = With(table, type, set)
    /\ UNCHANGED <<names, name, type, set, res, listed>>

\* HashMap::insert: Names are compared without case, and the last table counts.
Insert(f, n, t) == With(f, n, t)

EndTable ==
    /\ at = "table"
    /\ at' = "file" /\ res' = Insert(res, name, table)
    /\ UNCHANGED <<names, name, type, set, table, listed>>

EndFile ==
    /\ at = "file" /\ at' = "loaded"
    /\ UNCHANGED <<names, name, type, set, table, res, listed>>

Next == NextName \/ NextType \/ NextData \/ EndArray \/ EndTable \/ EndFile

Spec == Init /\ [][Next]_vars

-----------------------------------------------------------------------------
(* The answers.                                                            *)

\* A name from a query is always fully qualified.
Asked(l) == [label |-> l, fqdn |-> TRUE]

\* lookup_pre: the records answered from the configuration, or what is to be resolved.
LookupPre(l, t) ==
    LET n == Asked(l) IN
    IF n \notin DOMAIN res THEN [from |-> "nowhere", data |-> <<>>]
    ELSE IF t \in DOMAIN res[n] THEN [from |-> "records", data |-> res[n][t]]
    ELSE IF t = "A" /\ "CNAME" \in DOMAIN res[n] /\ res[n]["CNAME"] # <<>>
         THEN [from |-> "cname", data |-> res[n]["CNAME"]]
    ELSE [from |-> "nowhere", data |-> <<>>]

-----------------------------------------------------------------------------
(* Properties.                                                             *)

\* The last table of the file for a name.
LastKey(l) == LET S == {i \in DOMAIN names : names[i].label = l}
              IN  names[CHOOSE i \in S : \A j \in S : j <= i]

\* The values that table lists for a type, as often as it has it (once, or not at all).
Lists(l, t) == {x \in Range(listed) : x[1] = LastKey(l) /\ x[2] = t}

\* A file that loads is served as it is written, with or without the dots: each name
\* answers what its last table lists, all of it, and nothing from an earlier table;
\* of several CNAMEs the last; and an A record that is not listed is looked for behind
\* the CNAME.
ServedAsListed ==
    at = "loaded" =>
        \A l \in {k.label : k \in Range(names)}, t \in Types :
            LET pre == LookupPre(l, t) IN
            /\ (pre.from = "records") <=> (Lists(l, t) # {})
            /\ \A x \in Lists(l, t) :
                  pre.data = IF t = "CNAME" /\ x[3] # <<>> THEN <<Last(x[3])>> ELSE x[3]
            /\ (pre.from = "cname") <=>
                  t = "A" /\ Lists(l, t) = {} /\ \E x \in Lists(l, "CNAME") : x[3] # <<>>
=============================================================================
