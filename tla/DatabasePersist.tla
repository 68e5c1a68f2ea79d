-------------------------- MODULE DatabasePersist --------------------------
(***************************************************************************)
(* DatabasePersist of src/acme.rs: put and get on the table acme, which    *)
(* has no unique index.  put asks whether the key exists and then updates  *)
(* or inserts, in a READ COMMITTED transaction, so writers interleave      *)
(* between the two; what it writes is seen when it commits.  get reads     *)
(* through the pool.                                                       *)
(***************************************************************************)
EXTENDS Naturals

CONSTANTS
    Writers,   \* processes: each has one Directory and calls it once at a time
    Keys,      \* key, to_i64(realm) and persist_kind(kind)
    Values,    \* the bytes of keys and certificates
    RowIds,    \* the rows that may be inserted
    None, Done, Err, Idle    \* as in Persist

VARIABLES
    acme,      \* the table; by is history: who inserted the row
    call,      \* the call of a writer
    exists,    \* what its put found
    result     \* what its last call returned

vars == <<acme, call, exists, result>>

Row   == [n : RowIds, key : Keys, value : Values, by : Writers]
Calls == [op : {"put"}, key : Keys, value : Values] \cup [op : {"get"}, key : Keys]

ASSUME NotACall == Idle \notin Calls

Putting(w) == call[w] # Idle /\ call[w].op = "put"

TypeOK ==
    /\ acme \subseteq Row
    /\ call \in [Writers -> Calls \cup {Idle}]
    /\ exists \in [Writers -> {"unknown", "yes", "no"}]
    /\ result \in [Writers -> Values \cup {None, Done, Err}]
    /\ \A w \in Writers : exists[w] # "unknown" => Putting(w)

Init ==
    /\ acme = {}
    /\ call = [w \in Writers |-> Idle]
    /\ exists = [w \in Writers |-> "unknown"]
    /\ result = [w \in Writers |-> None]

Rows(k) == {r \in acme : r.key = k}

Call(w) ==
    /\ call[w] = Idle
    /\ \E c \in Calls : call' = [call EXCEPT ![w] = c]
    /\ UNCHANGED <<acme, exists, result>>

\* A plausible bug: what was found is kept for the next call.
ReturnKeepsExists(w, r) ==
    /\ call' = [call EXCEPT ![w] = Idle]
    /\ result' = [result EXCEPT ![w] = r]
    /\ UNCHANGED exists

Return(w, r) ==
    /\ call' = [call EXCEPT ![w] = Idle]
    /\ exists' = [exists EXCEPT ![w] = "unknown"]
    /\ result' = [result EXCEPT ![w] = r]

\* A plausible bug: the query asks for the wrong row.
ExistsNever(w) ==
    /\ Putting(w) /\ exists[w] = "unknown"
    /\ exists' = [exists EXCEPT ![w] = "no"]
    /\ UNCHANGED <<acme, call, result>>

\* begin, SELECT EXISTS.
Exists(w) ==
    /\ Putting(w) /\ exists[w] = "unknown"
    /\ exists' = [exists EXCEPT ![w] = IF Rows(call[w].key) = {} THEN "no" ELSE "yes"]
    /\ UNCHANGED <<acme, call, result>>

\* Plausible bugs: the WHERE of the update is missing, or finds one row only.
UpdateAll(w) ==
    acme' = {[r EXCEPT !.value = call[w].value] : r \in acme}
UpdateOne(w) ==
    \E r \in Rows(call[w].key) :
        acme' = (acme \ {r}) \cup {[r EXCEPT !.value = call[w].value]}

\* UPDATE acme SET value: every row of the key.
Update(w) ==
    acme' = {IF r.key = call[w].key THEN [r EXCEPT !.value = call[w].value] ELSE r : r \in acme}

\* Which row of the table it is only tells it from the others.
Insert(w) ==
    LET free == RowIds \ {r.n : r \in acme} IN
    /\ free # {}
    /\ acme' = acme \cup {[n |-> CHOOSE n \in free : TRUE, key |-> call[w].key,
                           value |-> call[w].value, by |-> w]}

\* The statement and its commit, whose answer may get lost.
Put(w) ==
    /\ Putting(w)
    /\ \/ exists[w] = "yes" /\ Update(w)
       \/ exists[w] = "no" /\ Insert(w)
    /\ \E r \in {Done, Err} : Return(w, r)

\* SELECT ... LIMIT 1: any row of the key.
Get(w) ==
    /\ call[w] # Idle /\ call[w].op = "get"
    /\ \/ Rows(call[w].key) = {} /\ Return(w, None)
       \/ \E r \in Rows(call[w].key) : Return(w, r.value)
    /\ UNCHANGED acme

\* A `?`, whose transaction is rolled back, or the end of the process.
Fail(w) == call[w] # Idle /\ Return(w, Err) /\ UNCHANGED acme

Next == \E w \in Writers : Call(w) \/ Exists(w) \/ Put(w) \/ Get(w) \/ Fail(w)

Spec == Init /\ [][Next]_vars

-----------------------------------------------------------------------------
(* Properties.                                                             *)

\* However many writers race between the question and the insertion, and however
\* often they fail and try again, none of them inserts a key twice: a key has at most
\* one row per writer.
OneInsertPerWriter ==
    \A r, s \in acme : r.key = s.key /\ r.by = s.by => r = s

\* Rows that a race has doubled do not stay apart: once puts of the key go on, every
\* get returns the same value, whichever row it reads.
Agree(k) == \A r, s \in Rows(k) : r.value = s.value
Agreement ==
    \A k \in Keys :
        []<><<\E w \in Writers : Put(w) /\ call[w].key = k /\ exists[w] = "yes">>_vars
            => <>[]Agree(k)

\* What is stored under a key, if it has one row.
Stored ==
    [k \in Keys |-> IF Rows(k) = {} THEN None ELSE (CHOOSE r \in Rows(k) : TRUE).value]

Map == INSTANCE Persist WITH stored <- Stored

\* As long as no race has doubled a key, the table is the map that acme_lib expects,
\* step by step, for any number of processes.
Single == \A r, s \in acme : r.key = s.key => r = s
MapWhileSingle == [][Single' => [Map!Next]_(Map!pvars)]_vars

\* With one process it always is.
ImplementsPersist == Map!Spec
=============================================================================
