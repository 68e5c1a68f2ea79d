------------------------ MODULE DatabasePersistProofs ------------------------
(***************************************************************************)
(* Theorems about DatabasePersist, for any writers, keys, values and rows. *)
(***************************************************************************)
EXTENDS DatabasePersist, TLAPS

-----------------------------------------------------------------------------
(* Types.                                                                  *)

LEMMA PutTypes ==
    ASSUME TypeOK, NEW w \in Writers, Putting(w)
    PROVE  call[w].key \in Keys /\ call[w].value \in Values
  BY DEF TypeOK, Putting, Calls

LEMMA InsertsRow ==
    ASSUME NEW w \in Writers, Insert(w)
    PROVE  \E n \in RowIds \ {a.n : a \in acme} :
              acme' = acme \cup {[n |-> n, key |-> call[w].key, value |-> call[w].value, by |-> w]}
<1> DEFINE free == RowIds \ {a.n : a \in acme}
<1>1. (CHOOSE n \in free : TRUE) \in free
  BY DEF Insert
<1> QED BY <1>1 DEF Insert

\* The variables of DatabasePersist have their types, and what a put found is
\* forgotten with its call.
THEOREM TypeCorrect == Spec => []TypeOK
<1>1. Init => TypeOK
  BY DEF Init, TypeOK, Putting
<1>2. ASSUME TypeOK, [Next]_vars
      PROVE  TypeOK'
  <2> USE <1>2 DEF TypeOK, Putting
  <2>1. CASE UNCHANGED vars
    BY <2>1 DEF vars
  <2>2. ASSUME NEW w \in Writers, Call(w)
        PROVE  TypeOK'
    BY <2>2, NotACall DEF Call
  <2>3. ASSUME NEW w \in Writers, Exists(w)
        PROVE  TypeOK'
    BY <2>3 DEF Exists
  <2>4. ASSUME NEW w \in Writers, Put(w)
        PROVE  TypeOK'
    <3>1. call[w].key \in Keys /\ call[w].value \in Values
      BY <2>4, PutTypes DEF Put
    <3>2. acme' \subseteq Row
      <4>1. CASE Update(w)
        BY <3>1, <4>1 DEF Update, Row
      <4>2. CASE Insert(w)
        BY <3>1, <4>2, InsertsRow DEF Row
      <4> QED BY <2>4, <4>1, <4>2 DEF Put
    <3>3. PICK r \in {Done, Err} : Return(w, r)
      BY <2>4 DEF Put
    <3> QED BY <3>2, <3>3 DEF Return
  <2>5. ASSUME NEW w \in Writers, Get(w)
        PROVE  TypeOK'
    <3>1. PICK r \in Values \cup {None} : Return(w, r)
      BY <2>5 DEF Get, Rows, Row
    <3> QED BY <2>5, <3>1 DEF Get, Return
  <2>6. ASSUME NEW w \in Writers, Fail(w)
        PROVE  TypeOK'
    BY <2>6 DEF Fail, Return
  <2> QED BY <2>1, <2>2, <2>3, <2>4, <2>5, <2>6 DEF Next
<1> QED BY <1>1, <1>2, PTL DEF Spec

-----------------------------------------------------------------------------
(* One insertion per writer.                                               *)

\* Row ids are unique, and a writer that found no row has none of its own: whoever
\* else inserts meanwhile, only itself could have.
RowsApart == \A r, s \in acme : r.n = s.n => r = s
NothingOfMine ==
    \A w \in Writers : exists[w] = "no" =>
        \A r \in acme : r.key = call[w].key => r.by # w
Inserted == RowsApart /\ NothingOfMine /\ OneInsertPerWriter

LEMMA InsertedInit == Init => Inserted
  BY DEF Init, Inserted, RowsApart, NothingOfMine, OneInsertPerWriter

LEMMA UpdateKeeps ==
    ASSUME TypeOK, Inserted, NEW w \in Writers, Putting(w), Update(w),
           NEW r \in Values \cup {Done, Err}, Return(w, r)
    PROVE  Inserted'
<1>1. \A a \in acme' : \E b \in acme : a.n = b.n /\ a.key = b.key /\ a.by = b.by
                                      /\ a.value = IF b.key = call[w].key THEN call[w].value
                                                   ELSE b.value
  BY DEF Update, TypeOK, Row
<1>2. \A a, b \in acme : a.n = b.n => a = b
  BY DEF Inserted, RowsApart
<1>3. acme' \subseteq Row
  BY PutTypes DEF Update, TypeOK, Row
<1>4. RowsApart'
  BY <1>1, <1>2, <1>3 DEF RowsApart, Row
<1>5. OneInsertPerWriter'
  <2> SUFFICES ASSUME NEW a \in acme', NEW b \in acme', a.key = b.key, a.by = b.by
               PROVE  a = b
    BY DEF OneInsertPerWriter
  <2>1. PICK c \in acme : a.n = c.n /\ a.key = c.key /\ a.by = c.by
    BY <1>1
  <2>2. PICK d \in acme : b.n = d.n /\ b.key = d.key /\ b.by = d.by
    BY <1>1
  <2>3. c = d
    BY <2>1, <2>2 DEF Inserted, OneInsertPerWriter
  <2> QED BY <1>4, <2>1, <2>2, <2>3 DEF RowsApart
<1>6. NothingOfMine'
  BY <1>1 DEF NothingOfMine, Inserted, Return, TypeOK
<1> QED BY <1>4, <1>5, <1>6 DEF Inserted

LEMMA InsertKeeps ==
    ASSUME TypeOK, Inserted, NEW w \in Writers, Putting(w), exists[w] = "no", Insert(w),
           NEW r \in Values \cup {Done, Err}, Return(w, r)
    PROVE  Inserted'
<1>1. PICK n \in RowIds \ {a.n : a \in acme} :
         acme' = acme \cup {[n |-> n, key |-> call[w].key, value |-> call[w].value, by |-> w]}
  BY InsertsRow
<1>2. \A a \in acme : a.n # n
  BY <1>1
<1>3. \A a \in acme : a.key = call[w].key => a.by # w
  BY DEF Inserted, NothingOfMine
<1>4. RowsApart'
  BY <1>1, <1>2 DEF RowsApart, Inserted
<1>5. OneInsertPerWriter'
  BY <1>1, <1>3 DEF OneInsertPerWriter, Inserted
<1>6. NothingOfMine'
  BY <1>1 DEF NothingOfMine, Inserted, Return, TypeOK
<1> QED BY <1>4, <1>5, <1>6 DEF Inserted

\* Steps that leave the table alone.
LEMMA OthersKeep ==
    ASSUME TypeOK, Inserted, UNCHANGED acme,
           \A w \in Writers : exists'[w] = "no" =>
               /\ call'[w] = call[w]
               /\ exists[w] = "no" \/ Rows(call[w].key) = {}
    PROVE  Inserted'
  BY DEF Inserted, RowsApart, NothingOfMine, OneInsertPerWriter, Rows

LEMMA InsertedStep == TypeOK /\ Inserted /\ [Next]_vars => Inserted'
<1> SUFFICES ASSUME TypeOK, Inserted, [Next]_vars
             PROVE  Inserted'
  OBVIOUS
<1>1. CASE UNCHANGED vars
  BY <1>1, OthersKeep DEF vars
<1>2. ASSUME NEW w \in Writers, Call(w)
      PROVE  Inserted'
  BY <1>2, OthersKeep DEF Call, TypeOK, Putting
<1>3. ASSUME NEW w \in Writers, Exists(w)
      PROVE  Inserted'
  BY <1>3, OthersKeep DEF Exists, TypeOK
<1>4. ASSUME NEW w \in Writers, Put(w)
      PROVE  Inserted'
  <2>1. PICK r \in {Done, Err} : Return(w, r)
    BY <1>4 DEF Put
  <2>2. CASE Update(w)
    BY <1>4, <2>1, <2>2, UpdateKeeps DEF Put
  <2>3. CASE exists[w] = "no" /\ Insert(w)
    BY <1>4, <2>1, <2>3, InsertKeeps DEF Put
  <2> QED BY <1>4, <2>2, <2>3 DEF Put
<1>5. ASSUME NEW w \in Writers, NEW r, Return(w, r), UNCHANGED acme
      PROVE  Inserted'
  BY <1>5, OthersKeep DEF Return, TypeOK
<1> QED BY <1>1, <1>2, <1>3, <1>4, <1>5 DEF Next, Get, Fail

\* However writers race, fail and try again, none of them inserts a key twice.
THEOREM InsertsOnce == Spec => []OneInsertPerWriter
<1>1. Spec => []Inserted
  BY TypeCorrect, InsertedInit, InsertedStep, PTL DEF Spec
<1>2. Inserted => OneInsertPerWriter
  BY DEF Inserted
<1> QED BY <1>1, <1>2, PTL

-----------------------------------------------------------------------------
(* What of Agreement is safety.                                            *)

\* An update of k by some put.
Updates(k) == \E w \in Writers : Put(w) /\ call[w].key = k /\ exists[w] = "yes"

\* An insertion under k by a writer that has no row of it yet.
FirstInsert(k) ==
    \E w \in Writers : /\ \A r \in Rows(k) : r.by # w
                       /\ \E r \in acme' : r.key = k /\ r.by = w

\* After an update of a key its rows agree, and they do so until somebody inserts another,
\* which each writer does at most once: so with updates going on they agree for good.
AgreeUntilInsert ==
    [][\A k \in Keys : /\ Updates(k) => Agree(k)'
                       /\ Agree(k) => Agree(k)' \/ FirstInsert(k)]_vars

LEMMA UpdateAgrees ==
    ASSUME TypeOK, NEW w \in Writers, Putting(w), Update(w), NEW k \in Keys
    PROVE  (Agree(k) \/ call[w].key = k) => Agree(k)'
<1>1. \A a \in acme' : \E b \in acme : a.key = b.key
                                      /\ a.value = IF b.key = call[w].key THEN call[w].value
                                                   ELSE b.value
  BY DEF Update, TypeOK, Row
<1> QED BY <1>1 DEF Agree, Rows

\* Agreement is lost by first insertions only, and an update restores it.
THEOREM AgreesUntilInsert == Spec => AgreeUntilInsert
<1> DEFINE Step == \A k \in Keys : /\ Updates(k) => Agree(k)'
                                   /\ Agree(k) => Agree(k)' \/ FirstInsert(k)
<1>1. ASSUME TypeOK, Inserted, [Next]_vars PROVE [Step]_vars
  <2> SUFFICES ASSUME ~UNCHANGED vars, NEW k \in Keys
               PROVE  /\ Updates(k) => Agree(k)'
                      /\ Agree(k) => Agree(k)' \/ FirstInsert(k)
    OBVIOUS
  <2>1. ASSUME Updates(k) PROVE Agree(k)'
    <3>1. PICK w \in Writers : Put(w) /\ call[w].key = k /\ exists[w] = "yes"
      BY <2>1 DEF Updates
    <3> QED BY <1>1, <3>1, UpdateAgrees DEF Put
  <2>2. ASSUME Agree(k), NEW w \in Writers, Put(w) PROVE Agree(k)' \/ FirstInsert(k)
    <3>1. CASE Update(w)
      BY <1>1, <2>2, <3>1, UpdateAgrees DEF Put
    <3>2. CASE exists[w] = "no" /\ Insert(w)
      <4>1. PICK n \in RowIds \ {a.n : a \in acme} :
               acme' = acme \cup {[n |-> n, key |-> call[w].key, value |-> call[w].value, by |-> w]}
        BY <3>2, InsertsRow
      <4>2. CASE call[w].key = k
        <5>1. \A r \in Rows(k) : r.by # w
          BY <1>1, <3>2, <4>2 DEF Inserted, NothingOfMine, Rows
        <5> DEFINE new == [n |-> n, key |-> call[w].key, value |-> call[w].value, by |-> w]
        <5>2. new \in acme' /\ new.key = k /\ new.by = w
          BY <4>1, <4>2
        <5> HIDE DEF new
        <5> QED BY <5>1, <5>2 DEF FirstInsert
      <4>3. CASE call[w].key # k
        BY <2>2, <4>1, <4>3 DEF Agree, Rows
      <4> QED BY <4>2, <4>3
    <3> QED BY <2>2, <3>1, <3>2 DEF Put
  <2>3. UNCHANGED acme /\ Agree(k) => Agree(k)'
    BY DEF Agree, Rows
  <2>4. UNCHANGED acme \/ \E w \in Writers : Put(w)
    BY <1>1 DEF Next, Call, Exists, Get, Fail, vars
  <2> QED BY <2>1, <2>2, <2>3, <2>4
<1>2. Spec => []Inserted
  BY InsertedInit, InsertedStep, TypeCorrect, PTL DEF Spec
<1> QED BY <1>1, <1>2, TypeCorrect, PTL DEF Spec, AgreeUntilInsert

-----------------------------------------------------------------------------
(* Without doubled keys the table is a map.                                *)

LEMMA OneRow ==
    ASSUME Single, TypeOK, NEW r \in acme
    PROVE  Stored[r.key] = r.value
<1>1. r \in Row /\ r.key \in Keys
  BY DEF TypeOK, Row
<1>2. \A s \in Rows(r.key) : s = r
  BY <1>1 DEF Single, Rows
<1>3. r \in Rows(r.key)
  BY DEF Rows
<1>4. (CHOOSE s \in Rows(r.key) : TRUE) = r
  BY <1>2, <1>3
<1> QED BY <1>1, <1>3, <1>4 DEF Stored

LEMMA NoRow ==
    ASSUME NEW k \in Keys, \A r \in acme : r.key # k
    PROVE  Stored[k] = None
  BY DEF Stored, Rows

\* What get sees of the table, as a function of its rows.
Reads ==
    /\ \A r \in acme : Stored[r.key] = r.value
    /\ \A k \in Keys : (\A r \in acme : r.key # k) => Stored[k] = None

LEMMA RowsRead == Single /\ TypeOK => Reads
  BY OneRow, NoRow DEF Reads

LEMMA RowsReadNext == (Single /\ TypeOK)' => Reads'
  BY RowsRead, PTL

\* A key that is doubled stays so: an update keeps apart who inserted the rows.
LEMMA StaysDoubled == TypeOK /\ Inserted /\ [Next]_vars /\ Single' => Single
<1> SUFFICES ASSUME TypeOK, Inserted, [Next]_vars, Single',
                    NEW r \in acme, NEW s \in acme, r.key = s.key
             PROVE  r = s
  BY DEF Single
<1>1. ASSUME acme \subseteq acme'
      PROVE  r = s
  BY <1>1 DEF Single
<1>2. ASSUME NEW w \in Writers, Update(w)
      PROVE  r = s
  <2> DEFINE new(a) == IF a.key = call[w].key THEN [a EXCEPT !.value = call[w].value] ELSE a
  <2>1. \A a \in acme : new(a) \in acme' /\ new(a).key = a.key /\ new(a).by = a.by
    BY <1>2 DEF Update, TypeOK, Row
  <2> HIDE DEF new
  <2>2. new(r) = new(s)
    <3>1. new(r) \in acme' /\ new(s) \in acme' /\ new(r).key = new(s).key
      BY <2>1
    <3> QED BY <3>1 DEF Single
  <2>3. r.by = s.by
    BY <2>1, <2>2
  <2> QED BY <2>3 DEF Inserted, OneInsertPerWriter
<1>3. ASSUME NEW w \in Writers, Insert(w)
      PROVE  r = s
  BY <1>1, <1>3, InsertsRow
<1> QED BY <1>1, <1>2, <1>3 DEF Next, vars, Call, Exists, Put, Get, Fail

\* Rows are never removed: what a put found is there when it updates.
Found == \A w \in Writers : exists[w] = "yes" => Rows(call[w].key) # {}

LEMMA FoundStep == TypeOK /\ Found /\ [Next]_vars => Found'
<1> SUFFICES ASSUME TypeOK, Found, [Next]_vars
             PROVE  Found'
  OBVIOUS
<1>1. ASSUME \A k \in Keys : Rows(k) # {} => Rows(k)' # {},
             \A w \in Writers : exists'[w] = "yes" =>
                 call'[w] = call[w] /\ call[w].key \in Keys /\ Rows(call[w].key) # {}
      PROVE  Found'
  BY <1>1 DEF Found, Rows
<1>2. \A w \in Writers : exists[w] = "yes" => call[w].key \in Keys
  BY DEF TypeOK, Putting, Calls
<1>3. CASE UNCHANGED vars
  BY <1>1, <1>2, <1>3 DEF vars, Found, Rows
<1>4. ASSUME NEW w \in Writers, Call(w)
      PROVE  Found'
  BY <1>1, <1>2, <1>4 DEF Call, TypeOK, Putting, Found, Rows
<1>5. ASSUME NEW w \in Writers, Exists(w)
      PROVE  Found'
  <2>1. call[w].key \in Keys
    BY <1>5, PutTypes DEF Exists
  <2> QED BY <1>1, <1>2, <1>5, <2>1 DEF Exists, TypeOK, Found, Rows
<1>6. ASSUME NEW w \in Writers, NEW r, Return(w, r),
             \A k \in Keys : Rows(k) # {} => Rows(k)' # {}
      PROVE  Found'
  BY <1>1, <1>2, <1>6 DEF Return, TypeOK, Found
<1>7. ASSUME NEW w \in Writers, Put(w)
      PROVE  Found'
  <2>1. CASE Update(w)
    <3>1. ASSUME NEW a \in acme
          PROVE  \E b \in acme' : b.key = a.key
      <4> DEFINE b == IF a.key = call[w].key THEN [a EXCEPT !.value = call[w].value] ELSE a
      <4>1. b \in acme'
        BY <2>1 DEF Update
      <4>2. b.key = a.key
        BY DEF TypeOK, Row
      <4> QED BY <4>1, <4>2
    <3> QED BY <1>6, <1>7, <3>1 DEF Put, Rows
  <2>2. CASE Insert(w)
    BY <1>6, <1>7, <2>2, InsertsRow DEF Put, Rows
  <2> QED BY <1>7, <2>1, <2>2 DEF Put
<1>8. ASSUME NEW w \in Writers, Get(w) \/ Fail(w)
      PROVE  Found'
  BY <1>6, <1>8 DEF Get, Fail, Rows
<1> QED BY <1>3, <1>4, <1>5, <1>7, <1>8 DEF Next

\* A put changes the value of its key, and of no other.
LEMMA PutStores ==
    ASSUME Single, TypeOK, (Single /\ TypeOK)', Found,
           NEW w \in Writers, Put(w)
    PROVE  Stored' = [Stored EXCEPT ![call[w].key] = call[w].value]
<1> DEFINE key == call[w].key
           val == call[w].value
<1>1. key \in Keys
  BY PutTypes DEF Put
<1>2. Reads /\ Reads'
  BY RowsRead, RowsReadNext
<1>3. \E r \in acme' : r.key = key /\ r.value = val
  <2>1. CASE Insert(w)
    <3>1. PICK n \in RowIds : [n |-> n, key |-> key, value |-> val, by |-> w] \in acme'
      BY <2>1, InsertsRow
    <3> QED BY <3>1
  <2>2. CASE exists[w] = "yes" /\ Update(w)
    <3>1. PICK a \in acme : a.key = key
      BY <2>2 DEF Found, Rows
    <3>2. [a EXCEPT !.value = val] \in acme'
      BY <2>2, <3>1 DEF Update
    <3>3. a \in Row
      BY DEF TypeOK
    <3> QED BY <3>1, <3>2, <3>3 DEF Row
  <2> QED BY <2>1, <2>2 DEF Put
<1>4. \A r : r.key # key => (r \in acme <=> r \in acme')
  <2>1. CASE Insert(w)
    BY <2>1, InsertsRow
  <2>2. CASE Update(w)
    <3>1. \A a \in acme : [a EXCEPT !.value = val].key = a.key
      BY DEF TypeOK, Row
    <3> QED BY <2>2, <3>1 DEF Update
  <2> QED BY <2>1, <2>2 DEF Put
<1>5. Stored'[key] = val
  BY <1>2, <1>3 DEF Reads
<1>6. ASSUME NEW k \in Keys, k # key
      PROVE  Stored'[k] = Stored[k]
  <2>1. CASE \E r \in acme : r.key = k
    BY <1>2, <1>4, <1>6, <2>1 DEF Reads
  <2>2. CASE \A r \in acme : r.key # k
    BY <1>2, <1>4, <1>6, <2>2 DEF Reads
  <2> QED BY <2>1, <2>2
<1>7. Stored = [k \in Keys |-> Stored[k]] /\ Stored' = [k \in Keys |-> Stored'[k]]
  BY DEF Stored
<1> QED BY <1>1, <1>5, <1>6, <1>7

LEMMA PersistInit == Init => Map!Init
  BY DEF Init, Map!Init, Stored, Rows

LEMMA PersistStep ==
    ASSUME TypeOK, Inserted, Found, [Next]_vars, (Single /\ TypeOK)'
    PROVE  [Map!Next]_(Map!pvars)
<1> Single
  BY StaysDoubled
<1>1. CASE UNCHANGED vars
  BY <1>1 DEF vars, Map!pvars, Stored, Rows
<1>2. ASSUME NEW w \in Writers, Call(w)
      PROVE  Map!Call(w)
  <2>1. UNCHANGED Stored
    BY <1>2 DEF Call, Stored, Rows
  <2>2. Calls = Map!Calls
    BY DEF Calls, Map!Calls
  <2> QED BY <1>2, <2>1, <2>2 DEF Call, Map!Call
<1>3. ASSUME NEW w \in Writers, Exists(w)
      PROVE  UNCHANGED Map!pvars
  BY <1>3 DEF Exists, Map!pvars, Stored, Rows
<1>4. ASSUME NEW w \in Writers, Put(w)
      PROVE  Map!Put(w)
  BY <1>4, PutStores DEF Put, Putting, Map!Put, Return, Map!Return
<1>5. ASSUME NEW w \in Writers, Get(w)
      PROVE  Map!Get(w)
  <2>1. Reads /\ call[w].key \in Keys
    BY <1>5, RowsRead DEF Get, TypeOK, Calls
  <2>2. Return(w, Stored[call[w].key])
    BY <1>5, <2>1 DEF Get, Reads, Rows
  <2>3. UNCHANGED Stored
    BY <1>5 DEF Get, Stored, Rows
  <2> QED BY <1>5, <2>2, <2>3 DEF Get, Map!Get, Return, Map!Return
<1>6. ASSUME NEW w \in Writers, Fail(w)
      PROVE  Map!Fail(w)
  BY <1>6 DEF Fail, Map!Fail, Return, Map!Return, Stored, Rows
<1> QED BY <1>1, <1>2, <1>3, <1>4, <1>5, <1>6 DEF Next, Map!Next

\* However many processes put and get on a table without a unique index: until a race
\* has doubled a key, every step is one of the map that acme_lib expects.
THEOREM StepsOfMap == Spec => MapWhileSingle
<1>1. Spec => [](TypeOK /\ Inserted /\ Found)
  <2>1. Init => Found
    BY DEF Init, Found
  <2> QED BY TypeCorrect, InsertedInit, InsertedStep, FoundStep, <2>1, PTL DEF Spec
<1>2. TypeOK /\ Inserted /\ Found /\ TypeOK' /\ [Next]_vars
        => [Single' => [Map!Next]_(Map!pvars)]_vars
  BY PersistStep
<1> QED BY <1>1, <1>2, PTL DEF Spec, MapWhileSingle

OneWriter == \A v, w \in Writers : v = w

\* With one process the table is that map for good, whatever calls fail and whatever
\* answers of commits get lost.
THEOREM Refinement == ASSUME OneWriter PROVE Spec => ImplementsPersist
<1>1. Spec => []Single
  <2>1. TypeOK /\ OneInsertPerWriter => Single
    BY DEF OneWriter, TypeOK, Row, OneInsertPerWriter, Single
  <2> QED BY TypeCorrect, InsertsOnce, <2>1, PTL
<1>2. [Single' => [Map!Next]_(Map!pvars)]_vars /\ Single' => [Map!Next]_(Map!pvars)
  <2>1. UNCHANGED vars => UNCHANGED Map!pvars
    BY DEF vars, Map!pvars, Stored, Rows
  <2> QED BY <2>1
<1> QED BY <1>1, <1>2, StepsOfMap, PersistInit, PTL
     DEF Spec, ImplementsPersist, Map!Spec, MapWhileSingle
=============================================================================
