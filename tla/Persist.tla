------------------------------ MODULE Persist ------------------------------
(***************************************************************************)
(* What acme_lib expects of its trait Persist: a map from keys to values.  *)
(* A put that returned Ok has stored its value, one that returned an error *)
(* may have, and a get returns what is stored.                             *)
(***************************************************************************)
EXTENDS Naturals

CONSTANTS
    Writers,   \* processes with a Directory
    Keys,      \* PersistKeys: key, realm and kind
    Values,    \* the bytes of keys and certificates
    None,      \* Ok(None) of get, and a key that is not stored
    Done,      \* Ok(()) of put
    Err,       \* an error of either
    Idle       \* no call

VARIABLES
    stored,    \* the map
    call,      \* the call of a writer
    result     \* what its last call returned

pvars == <<stored, call, result>>

Calls == [op : {"put"}, key : Keys, value : Values] \cup [op : {"get"}, key : Keys]

Init ==
    /\ stored = [k \in Keys |-> None]
    /\ call = [w \in Writers |-> Idle]
    /\ result = [w \in Writers |-> None]

Call(w) ==
    /\ call[w] = Idle
    /\ \E c \in Calls : call' = [call EXCEPT ![w] = c]
    /\ UNCHANGED <<stored, result>>

Return(w, r) == call' = [call EXCEPT ![w] = Idle] /\ result' = [result EXCEPT ![w] = r]

Put(w) ==
    /\ call[w] # Idle /\ call[w].op = "put"
    /\ stored' = [stored EXCEPT ![call[w].key] = call[w].value]
    /\ \E r \in {Done, Err} : Return(w, r)

Get(w) ==
    /\ call[w] # Idle /\ call[w].op = "get"
    /\ Return(w, stored[call[w].key])
    /\ UNCHANGED stored

Fail(w) == call[w] # Idle /\ Return(w, Err) /\ UNCHANGED stored

Next == \E w \in Writers : Call(w) \/ Put(w) \/ Get(w) \/ Fail(w)

Spec == Init /\ [][Next]_pvars
=============================================================================
