----------------------------- MODULE DataProofs -----------------------------
(***************************************************************************)
(* Theorems about what the program stores, reads and prints: the table     *)
(* [records] of any length and any names, the text of the metrics of any   *)
(* length, the columns and errors of any width, and the run of MCData that *)
(* has them all.  The table acme has its own, in DatabasePersistProofs.    *)
(*                                                                         *)
(* Nothing recursive is needed.  Where a list is scanned, the least or the *)
(* last of a set of positions is found by well-foundedness; what the loop  *)
(* of remove_zero_metrics keeps is told by the rank of a byte in the set   *)
(* of those that stay.                                                     *)
(***************************************************************************)
EXTENDS MCData, DatabasePersistProofs, SequenceTheorems, FiniteSetTheorems, WellFoundedInduction

-----------------------------------------------------------------------------
(* Records: the file as it is served.                                      *)

\* What is kept of the values of one type.
Shown(t, vs) == IF t = "CNAME" /\ vs # <<>> THEN <<vs[Len(vs)]>> ELSE vs

\* f has what the first n entries of L list for key k, and nothing else.
TableIn(L, n, k, f) ==
    /\ \A t \in C!Types : t \in DOMAIN f <=> \E i \in 1..n : L[i][1] = k /\ L[i][2] = t
    /\ \A i \in 1..n : L[i][1] = k => f[L[i][2]] = Shown(L[i][2], L[i][3])

\* The key being read, if any, is the last one.
Reading == at \in {"table", "array"}
Key     == names[Len(names)]
Whole   == IF Reading THEN Len(names) - 1 ELSE Len(names)

\* Keys are read once; every entry is listed under one of them, and the last key for
\* a label is there.
Entry == C!RecordNames \X C!Types \X Seq(C!Data)

Keyed ==
    /\ names \in Seq(C!RecordNames)
    /\ \A i, j \in 1..Len(names) : names[i] = names[j] => i = j
    /\ listed \in Seq(Entry)
    /\ \A i \in 1..Len(listed) : \E j \in 1..Len(names) : listed[i][1] = names[j]
    /\ \A j \in 1..Len(names) : \E i \in 1..Len(names) :
          /\ names[i].label = names[j].label
          /\ \A h \in 1..Len(names) : names[h].label = names[j].label => h <= i

\* The table being read is what the file lists so far, but for the array being read.
Current ==
    /\ Reading => names # <<>> /\ name = C!NameOf(Key)
    /\ at = "table" => TableIn(listed, Len(listed), Key, table)
    /\ at = "array" =>
          /\ listed # <<>> /\ type \in C!Types \ DOMAIN table
          /\ listed[Len(listed)][1] = Key /\ listed[Len(listed)][2] = type
          /\ set = Shown(type, listed[Len(listed)][3])
          /\ TableIn(listed, Len(listed) - 1, Key, table)

\* Each name has the last of the tables read for it.
Finished ==
    \A j \in 1..Whole :
        /\ C!NameOf(names[j]) \in DOMAIN res
        /\ (\A h \in 1..Whole : names[h].label = names[j].label => h <= j) =>
              TableIn(listed, Len(listed), names[j], res[C!NameOf(names[j])])

RecordsInv == at # "failed" => Keyed /\ Current /\ Finished

LEMMA RecordsInit == C!Init => RecordsInv
<1> SUFFICES ASSUME C!Init PROVE Keyed /\ Current /\ Finished
  BY DEF RecordsInv
<1>1. names = <<>> /\ listed = <<>> /\ at = "file"
  BY DEF C!Init
<1> QED BY <1>1 DEF Keyed, Current, Finished, Whole, Reading

\* A key that was not read before: nothing is listed under it yet.
LEMMA NameRead ==
    ASSUME Keyed, Current, Finished, at = "file",
           NEW k \in C!RecordNames, k \notin C!Range(names),
           at' = "table", names' = Append(names, k), name' = C!NameOf(k), table' = C!Empty,
           UNCHANGED <<res, listed>>
    PROVE  (Keyed /\ Current /\ Finished)'
<1>1. /\ names \in Seq(C!RecordNames) /\ names' \in Seq(C!RecordNames)
      /\ Len(names) \in Nat /\ Len(names') = Len(names) + 1 /\ names'[Len(names')] = k
      /\ \A i \in 1..Len(names) : names'[i] = names[i]
  BY AppendProperties, LenProperties DEF Keyed
<1>2. \A i \in 1..Len(names) : names[i] # k
  BY <1>1 DEF C!Range
<1>3. \A i \in 1..Len(listed) : listed[i][1] # k
  BY <1>2 DEF Keyed
<1>4. Keyed'
  <2>1. \A i, j \in 1..Len(names') : names'[i] = names'[j] => i = j
    BY <1>1, <1>2 DEF Keyed
  <2>2. \A i \in 1..Len(listed) : \E j \in 1..Len(names') : listed[i][1] = names'[j]
    BY <1>1 DEF Keyed
  <2>3. ASSUME NEW j \in 1..Len(names')
        PROVE  \E i \in 1..Len(names') :
                  /\ names'[i].label = names'[j].label
                  /\ \A h \in 1..Len(names') : names'[h].label = names'[j].label => h <= i
    <3>1. CASE names'[j].label = k.label
      <4>1. Len(names') \in 1..Len(names') /\ \A h \in 1..Len(names') : h <= Len(names')
        BY <1>1
      <4> QED BY <1>1, <3>1, <4>1
    <3>2. CASE names'[j].label # k.label
      <4>1. j \in 1..Len(names) /\ names'[j] = names[j]
        BY <1>1, <3>2
      <4>2. PICK i \in 1..Len(names) :
               /\ names[i].label = names[j].label
               /\ \A h \in 1..Len(names) : names[h].label = names[j].label => h <= i
        BY <4>1 DEF Keyed
      <4>3. ASSUME NEW h \in 1..Len(names'), names'[h].label = names'[j].label
            PROVE  h <= i
        <5>1. h \in 1..Len(names) \/ h = Len(names')
          BY <1>1
        <5>2. h # Len(names')
          BY <1>1, <3>2, <4>3
        <5>3. names'[h] = names[h] /\ h \in 1..Len(names)
          BY <1>1, <5>1, <5>2
        <5> QED BY <4>1, <4>2, <4>3, <5>3
      <4>4. i \in 1..Len(names') /\ names'[i].label = names'[j].label
        BY <1>1, <4>1, <4>2
      <4> QED BY <4>3, <4>4
    <3> QED BY <3>1, <3>2
  <2> QED BY <1>1, <2>1, <2>2, <2>3 DEF Keyed
<1>5. Current'
  <2>1. TableIn(listed, Len(listed), k, C!Empty)
    BY <1>3 DEF TableIn, C!Empty
  <2>2. names' # <<>> /\ Key' = k
    BY <1>1, EmptySeq DEF Key
  <2> QED BY <2>1, <2>2 DEF Current, Reading
<1>6. Finished'
  <2>1. Whole' = Len(names) /\ Whole = Len(names)
    BY <1>1 DEF Whole, Reading
  <2> QED BY <1>1, <2>1 DEF Finished
<1> QED BY <1>4, <1>5, <1>6

\* The key being read is none of those before it.
LEMMA KeyIsNew ==
    ASSUME Keyed, names # <<>>, NEW j \in 1..(Len(names) - 1)
    PROVE  names[j] # Key
<1> DEFINE n == Len(names)
<1>1. \A h, i \in 1..n : names[h] = names[i] => h = i
  BY DEF Keyed
<1>2. n \in Nat /\ n # 0
  BY LenProperties, EmptySeq DEF Keyed
<1> HIDE DEF n
<1>3. j \in 1..n /\ n \in 1..n /\ j # n
  BY <1>2 DEF n
<1>4. names[j] # names[n]
  BY <1>1, <1>3
<1> QED BY <1>4 DEF Key, n

\* A type of the current table begins.
LEMMA TypeRead ==
    ASSUME Keyed, Current, Finished, at = "table",
           NEW t \in C!Types \ DOMAIN table,
           at' = "array", type' = t, set' = <<>>,
           listed' = Append(listed, <<names[Len(names)], t, <<>>>>),
           UNCHANGED <<names, name, table, res>>
    PROVE  (Keyed /\ Current /\ Finished)'
<1> DEFINE e == <<Key, t, <<>>>>
<1>1. /\ names # <<>> /\ names \in Seq(C!RecordNames) /\ Len(names) \in Nat
      /\ Len(names) \in 1..Len(names) /\ Key \in C!RecordNames
  BY EmptySeq, LenProperties, ElementOfSeq DEF Keyed, Current, Reading, Key
<1>2. e \in Entry
  <2>1. <<>> \in Seq(C!Data)
    BY EmptySeq
  <2> QED BY <1>1, <2>1 DEF Entry
<1>3. /\ listed' \in Seq(Entry) /\ Len(listed) \in Nat /\ Len(listed') = Len(listed) + 1
      /\ listed'[Len(listed')] = e /\ \A i \in 1..Len(listed) : listed'[i] = listed[i]
  BY <1>2, AppendProperties, LenProperties DEF Keyed, Key
<1>4. Keyed'
  <2>1. ASSUME NEW i \in 1..Len(listed')
        PROVE  \E j \in 1..Len(names) : listed'[i][1] = names[j]
    <3>1. CASE i \in 1..Len(listed)
      BY <1>3, <3>1 DEF Keyed
    <3>2. CASE i = Len(listed')
      BY <1>1, <1>3, <3>2 DEF Key
    <3> QED BY <1>3, <3>1, <3>2
  <2> QED BY <1>3, <2>1 DEF Keyed
<1>5. Current'
  <2>1. TableIn(listed, Len(listed), Key, table)
    BY DEF Current
  <2>2. TableIn(listed', Len(listed), Key, table)
    <3>1. \A i \in 1..Len(listed) : listed'[i] = listed[i]
      BY <1>3
    <3> QED BY <2>1, <3>1 DEF TableIn
  <2>3. Len(listed') - 1 = Len(listed) /\ listed' # <<>>
    BY <1>3, EmptySeq
  <2>4. Shown(t, <<>>) = <<>>
    BY DEF Shown
  <2>5. Key' = Key /\ name = C!NameOf(Key)
    BY DEF Key, Current, Reading
  <2> QED BY <1>1, <1>3, <2>2, <2>3, <2>4, <2>5 DEF Current, Reading
<1>6. Finished'
  <2>1. Whole' = Whole /\ Whole = Len(names) - 1
    BY DEF Whole, Reading
  <2>2. ASSUME NEW j \in 1..Whole, NEW f, TableIn(listed, Len(listed), names[j], f)
        PROVE  TableIn(listed', Len(listed'), names[j], f)
    <3>1. names[j] # Key
      BY <1>1, <2>1, KeyIsNew
    <3>2. \A i \in 1..Len(listed) : i \in 1..Len(listed') /\ listed'[i] = listed[i]
      BY <1>3
    <3>3. \A i \in 1..Len(listed') : listed'[i][1] = names[j] => i \in 1..Len(listed)
      BY <1>3, <3>1
    <3>4. Len(listed') \in Nat
      BY <1>3
    <3> QED BY <1>3, <2>2, <3>2, <3>3, <3>4 DEF TableIn
  <2> QED BY <2>1, <2>2 DEF Finished
<1> QED BY <1>4, <1>5, <1>6

\* A value of the current array.
LEMMA DataRead ==
    ASSUME Keyed, Current, Finished, at = "array", NEW d \in C!Data,
           set' = C!AddRData(set, type, d),
           listed' = [listed EXCEPT ![Len(listed)][3] = Append(@, d)],
           UNCHANGED <<at, names, name, type, table, res>>
    PROVE  (Keyed /\ Current /\ Finished)'
<1> DEFINE n == Len(listed)
           x == listed[n]
<1>1. /\ names # <<>> /\ names \in Seq(C!RecordNames) /\ Len(names) \in Nat
      /\ Len(names) \in 1..Len(names) /\ Key \in C!RecordNames
  BY EmptySeq, LenProperties, ElementOfSeq DEF Keyed, Current, Reading, Key
<1>2. /\ listed # <<>> /\ listed \in Seq(Entry) /\ n \in Nat /\ n \in 1..n /\ x \in Entry
      /\ x[1] = Key /\ x[2] = type /\ set = Shown(type, x[3])
  BY EmptySeq, LenProperties, ElementOfSeq DEF Keyed, Current
<1>3. PICK vs \in Seq(C!Data) : x = <<Key, type, vs>>
  BY <1>2 DEF Entry
<1> DEFINE y == <<Key, type, Append(vs, d)>>
<1>4. Append(vs, d) \in Seq(C!Data) /\ Len(Append(vs, d)) = Len(vs) + 1 /\ Append(vs, d) # <<>>
      /\ Append(vs, d)[Len(vs) + 1] = d
  BY <1>3, AppendProperties, EmptySeq
<1>5. y \in Entry
  BY <1>1, <1>2, <1>3, <1>4 DEF Entry, Current
<1>6. [x EXCEPT ![3] = Append(@, d)] = y
  BY <1>3
<1>7. listed' = [listed EXCEPT ![n] = y]
  BY <1>6
<1>8. /\ listed' \in Seq(Entry) /\ Len(listed') = n /\ listed'[n] = y
      /\ \A i \in 1..n : i # n => listed'[i] = listed[i]
  <2>1. /\ [listed EXCEPT ![n] = y] \in Seq(Entry) /\ Len([listed EXCEPT ![n] = y]) = n
        /\ \A i \in 1..n : [listed EXCEPT ![n] = y][i] = IF i = n THEN y ELSE listed[i]
    BY <1>2, <1>5, ExceptSeq
  <2> QED BY <1>2, <1>7, <2>1
<1>9. \A i \in 1..n : listed'[i][1] = listed[i][1] /\ listed'[i][2] = listed[i][2]
  BY <1>3, <1>8
<1>10. Keyed'
  BY <1>8, <1>9 DEF Keyed
<1>11. set' = Shown(type, Append(vs, d))
  BY <1>2, <1>3, <1>4 DEF C!AddRData, Shown
<1>12. Current'
  <2>1. TableIn(listed, n - 1, Key, table)
    BY DEF Current
  <2>2. TableIn(listed', n - 1, Key, table)
    <3>1. \A i \in 1..(n - 1) : i \in 1..n /\ i # n
      BY <1>2
    <3> QED BY <1>8, <2>1, <3>1 DEF TableIn
  <2>3. Key' = Key /\ listed' # <<>>
    BY <1>2, <1>8, EmptySeq DEF Key
  <2>4. listed'[n][1] = Key /\ listed'[n][2] = type /\ listed'[n][3] = Append(vs, d)
    BY <1>8
  <2>5. type \in C!Types \ DOMAIN table /\ name = C!NameOf(Key)
    BY DEF Current, Reading
  <2> QED BY <1>1, <1>8, <1>11, <2>2, <2>3, <2>4, <2>5 DEF Current, Reading
<1>13. Finished'
  <2>1. Whole' = Whole /\ Whole = Len(names) - 1
    BY DEF Whole, Reading
  <2>2. ASSUME NEW j \in 1..Whole, NEW f, TableIn(listed, n, names[j], f)
        PROVE  TableIn(listed', n, names[j], f)
    <3>1. names[j] # Key
      BY <1>1, <2>1, KeyIsNew
    <3>2. \A i \in 1..n : listed[i][1] = names[j] => listed'[i] = listed[i]
      BY <1>2, <1>8, <3>1
    <3> QED BY <1>9, <2>2, <3>2 DEF TableIn
  <2> QED BY <1>8, <2>1, <2>2 DEF Finished
<1> QED BY <1>10, <1>12, <1>13

\* The array is complete: its type is one more of the table.
LEMMA ArrayEnds ==
    ASSUME Keyed, Current, Finished, C!EndArray
    PROVE  (Keyed /\ Current /\ Finished)'
<1>1. /\ at = "array" /\ at' = "table" /\ table' = C!With(table, type, set)
      /\ UNCHANGED <<names, name, type, set, res, listed>>
  BY DEF C!EndArray
<1> DEFINE n == Len(listed)
<1>2. /\ listed # <<>> /\ n \in Nat /\ n \in 1..n /\ type \in C!Types \ DOMAIN table
      /\ listed[n][1] = Key /\ listed[n][2] = type /\ set = Shown(type, listed[n][3])
      /\ TableIn(listed, n - 1, Key, table)
  BY <1>1, EmptySeq, LenProperties DEF Keyed, Current
<1>3. /\ DOMAIN table' = DOMAIN table \cup {type} /\ table'[type] = set
      /\ \A z \in DOMAIN table : table'[z] = table[z]
  BY <1>1, <1>2 DEF C!With
<1>4. TableIn(listed, n, Key, table')
  <2>1. ASSUME NEW t \in C!Types
        PROVE  t \in DOMAIN table' <=> \E i \in 1..n : listed[i][1] = Key /\ listed[i][2] = t
    BY <1>2, <1>3 DEF TableIn
  <2>2. ASSUME NEW i \in 1..n, listed[i][1] = Key
        PROVE  table'[listed[i][2]] = Shown(listed[i][2], listed[i][3])
    <3>1. CASE i = n
      BY <1>2, <1>3, <3>1
    <3>2. CASE i # n
      <4>1. i \in 1..(n - 1)
        BY <1>2, <3>2
      <4>2. listed[i][2] \in C!Types
        BY ElementOfSeq DEF Keyed, Entry
      <4>3. listed[i][2] \in DOMAIN table /\ table[listed[i][2]] = Shown(listed[i][2], listed[i][3])
        BY <1>2, <2>2, <4>1, <4>2 DEF TableIn
      <4> QED BY <1>3, <4>3
    <3> QED BY <3>1, <3>2
  <2> QED BY <2>1, <2>2 DEF TableIn
<1>5. Keyed'
  BY <1>1 DEF Keyed
<1>6. Current'
  BY <1>1, <1>4 DEF Current, Reading, Key
<1>7. Finished'
  BY <1>1 DEF Finished, Whole, Reading
<1> QED BY <1>5, <1>6, <1>7

\* The table is complete: it takes the place of an earlier one with its name.
LEMMA TableEnds ==
    ASSUME Keyed, Current, Finished, C!EndTable
    PROVE  (Keyed /\ Current /\ Finished)'
<1>1. /\ at = "table" /\ at' = "file" /\ res' = C!With(res, name, table)
      /\ UNCHANGED <<names, name, type, set, table, listed>>
  BY DEF C!EndTable, C!Insert
<1>2. /\ names # <<>> /\ Len(names) \in Nat /\ Len(names) \in 1..Len(names)
      /\ name = C!NameOf(Key) /\ TableIn(listed, Len(listed), Key, table)
  BY <1>1, EmptySeq, LenProperties DEF Keyed, Current, Reading
<1>3. /\ DOMAIN res' = DOMAIN res \cup {name} /\ res'[name] = table
      /\ \A z \in DOMAIN res : z # name => res'[z] = res[z]
  BY <1>1 DEF C!With
<1>4. Whole = Len(names) - 1 /\ Whole' = Len(names)
  BY <1>1 DEF Whole, Reading
<1>5. ASSUME NEW j \in 1..Len(names)
      PROVE  /\ C!NameOf(names[j]) \in DOMAIN res'
             /\ (\A h \in 1..Len(names) : names[h].label = names[j].label => h <= j) =>
                   TableIn(listed, Len(listed), names[j], res'[C!NameOf(names[j])])
  <2>1. CASE j = Len(names)
    BY <1>2, <1>3, <2>1 DEF Key
  <2>2. CASE j # Len(names)
    <3>1. j \in 1..Whole /\ \A h \in 1..Whole : h \in 1..Len(names)
      BY <1>2, <1>4, <2>2
    <3>2. ASSUME \A h \in 1..Len(names) : names[h].label = names[j].label => h <= j
          PROVE  C!NameOf(names[j]) # name
      <4>1. names[Len(names)].label # names[j].label
        BY <1>2, <2>2, <3>2
      <4> QED BY <1>2, <4>1 DEF C!NameOf, Key
    <3> QED BY <1>3, <3>1, <3>2 DEF Finished
  <2> QED BY <2>1, <2>2
<1>6. Keyed'
  BY <1>1 DEF Keyed
<1>7. Current'
  BY <1>1 DEF Current, Reading
<1>8. Finished'
  BY <1>1, <1>4, <1>5 DEF Finished
<1> QED BY <1>6, <1>7, <1>8

LEMMA RecordsStep == RecordsInv /\ [C!Next]_(C!vars) => RecordsInv'
<1> SUFFICES ASSUME RecordsInv, [C!Next]_(C!vars), at' # "failed"
             PROVE  (Keyed /\ Current /\ Finished)'
  BY DEF RecordsInv
<1>1. at # "failed"
  BY DEF C!Next, C!NextName, C!NextType, C!NextData, C!EndArray, C!EndTable, C!EndFile, C!vars
<1>2. Keyed /\ Current /\ Finished
  BY <1>1 DEF RecordsInv
<1>3. CASE C!NextName
  BY <1>2, <1>3, NameRead DEF C!NextName, C!Fail
<1>4. CASE C!NextType
  <2>1. PICK t \in C!Types \ DOMAIN table :
           /\ at = "table" /\ at' = "array" /\ type' = t /\ set' = <<>>
           /\ listed' = Append(listed, <<C!Last(names), t, <<>>>>)
           /\ UNCHANGED <<names, name, table, res>>
    BY <1>4 DEF C!NextType, C!Fail
  <2>2. C!Last(names) = names[Len(names)]
    BY DEF C!Last
  <2> QED BY <1>2, <2>1, <2>2, TypeRead
<1>5. CASE C!NextData
  BY <1>2, <1>5, DataRead DEF C!NextData, C!Fail
<1>6. CASE C!EndArray
  BY <1>2, <1>6, ArrayEnds
<1>7. CASE C!EndTable
  BY <1>2, <1>7, TableEnds
<1>8. CASE C!EndFile
  BY <1>2, <1>8 DEF C!EndFile, Keyed, Current, Finished, Whole, Reading
<1>9. CASE UNCHANGED C!vars
  BY <1>2, <1>9 DEF C!vars, Keyed, Current, Finished, Whole, Reading, Key
<1> QED BY <1>3, <1>4, <1>5, <1>6, <1>7, <1>8, <1>9 DEF C!Next

LEMMA LastKeyFound ==
    ASSUME Keyed, Finished, at = "loaded", NEW l, NEW j \in 1..Len(names), names[j].label = l
    PROVE  /\ C!Asked(l) \in DOMAIN res
           /\ TableIn(listed, Len(listed), C!LastKey(l), res[C!Asked(l)])
<1> DEFINE P == {i \in DOMAIN names : names[i].label = l}
<1>1. DOMAIN names = 1..Len(names) /\ Len(names) \in Nat
  BY LenProperties DEF Keyed
<1>2. PICK i \in P : \A h \in P : h <= i
  BY <1>1 DEF Keyed
<1>3. (CHOOSE h \in P : \A g \in P : g <= h) = i
  <2>1. \A h \in P : (\A g \in P : g <= h) => h = i
    BY <1>1, <1>2
  <2> QED BY <1>2, <2>1
<1>4. C!LastKey(l) = names[i]
  BY <1>3 DEF C!LastKey
<1>5. C!NameOf(names[i]) = C!Asked(l)
  BY <1>2 DEF C!NameOf, C!Asked
<1>6. Whole = Len(names)
  BY DEF Whole, Reading
<1>7. \A h \in 1..Whole : names[h].label = names[i].label => h <= i
  BY <1>1, <1>2, <1>6
<1> QED BY <1>1, <1>2, <1>4, <1>5, <1>6, <1>7 DEF Finished

\* A name answers what its table has.
LEMMA Serves ==
    ASSUME Keyed, NEW l, NEW t \in C!Types, C!Asked(l) \in DOMAIN res,
           TableIn(listed, Len(listed), C!LastKey(l), res[C!Asked(l)])
    PROVE  LET pre == C!LookupPre(l, t) IN
           /\ (pre.from = "records") <=> (C!Lists(l, t) # {})
           /\ \A x \in C!Lists(l, t) :
                 pre.data = IF t = "CNAME" /\ x[3] # <<>> THEN <<C!Last(x[3])>> ELSE x[3]
           /\ (pre.from = "cname") <=>
                 t = "A" /\ C!Lists(l, t) = {} /\ \E x \in C!Lists(l, "CNAME") : x[3] # <<>>
<1> DEFINE k == C!LastKey(l)
           f == res[C!Asked(l)]
           pre == C!LookupPre(l, t)
<1>1. DOMAIN listed = 1..Len(listed)
  BY LenProperties DEF Keyed
<1>2. ASSUME NEW u \in C!Types
      PROVE  /\ C!Lists(l, u) # {} <=> u \in DOMAIN f
             /\ \A x \in C!Lists(l, u) : f[u] = Shown(u, x[3])
  <2>1. C!Lists(l, u) = {x \in {listed[i] : i \in 1..Len(listed)} : x[1] = k /\ x[2] = u}
    BY <1>1 DEF C!Lists, C!Range
  <2> QED BY <2>1 DEF TableIn
<1>3. "A" \in C!Types /\ "CNAME" \in C!Types
  BY DEF C!Types
<1>4. \A x : Shown("CNAME", x[3]) # <<>> <=> x[3] # <<>>
  BY DEF Shown
<1>5. (\E x \in C!Lists(l, "CNAME") : x[3] # <<>>) <=> "CNAME" \in DOMAIN f /\ f["CNAME"] # <<>>
  BY <1>2, <1>3, <1>4
<1>6. CASE t \in DOMAIN f
  <2>1. pre = [from |-> "records", data |-> f[t]]
    BY <1>6 DEF C!LookupPre
  <2>2. \A x \in C!Lists(l, t) : Shown(t, x[3]) = IF t = "CNAME" /\ x[3] # <<>> THEN <<C!Last(x[3])>> ELSE x[3]
    BY DEF Shown, C!Last
  <2>3. pre.from = "records" /\ pre.data = f[t]
    BY <2>1
  <2>4. ~(t = "A" /\ C!Lists(l, t) = {}) /\ C!Lists(l, t) # {}
    BY <1>2, <1>6
  <2>5. \A x \in C!Lists(l, t) :
           pre.data = IF t = "CNAME" /\ x[3] # <<>> THEN <<C!Last(x[3])>> ELSE x[3]
    BY <1>2, <2>2, <2>3
  <2> HIDE DEF pre
  <2>6. /\ (pre.from = "records") <=> (C!Lists(l, t) # {})
        /\ (pre.from = "cname") <=>
              t = "A" /\ C!Lists(l, t) = {} /\ \E x \in C!Lists(l, "CNAME") : x[3] # <<>>
    BY <2>3, <2>4
  <2> QED BY <2>5, <2>6 DEF pre
<1>7. CASE t \notin DOMAIN f
  <2>1. C!Lists(l, t) = {}
    BY <1>2, <1>7
  <2>2. CASE t = "A" /\ "CNAME" \in DOMAIN f /\ f["CNAME"] # <<>>
    <3>1. pre.from = "cname"
      BY <1>7, <2>2 DEF C!LookupPre
    <3> QED BY <1>5, <2>1, <2>2, <3>1
  <2>3. CASE ~(t = "A" /\ "CNAME" \in DOMAIN f /\ f["CNAME"] # <<>>)
    <3>1. pre.from = "nowhere"
      BY <1>7, <2>3 DEF C!LookupPre
    <3> QED BY <1>5, <2>1, <2>3, <3>1
  <2> QED BY <2>2, <2>3
<1> QED BY <1>6, <1>7

\* A file of any length that loads is served as it is written: the last table of a name,
\* all of it, and of several CNAMEs the last.
THEOREM FileIsServed == C!Spec => []C!ServedAsListed
<1>1. RecordsInv => C!ServedAsListed
  <2> SUFFICES ASSUME RecordsInv, at = "loaded",
                      NEW l \in {k.label : k \in C!Range(names)}, NEW t \in C!Types
               PROVE  LET pre == C!LookupPre(l, t) IN
                      /\ (pre.from = "records") <=> (C!Lists(l, t) # {})
                      /\ \A x \in C!Lists(l, t) :
                            pre.data = IF t = "CNAME" /\ x[3] # <<>> THEN <<C!Last(x[3])>> ELSE x[3]
                      /\ (pre.from = "cname") <=>
                            t = "A" /\ C!Lists(l, t) = {} /\ \E x \in C!Lists(l, "CNAME") : x[3] # <<>>
    BY DEF C!ServedAsListed
  <2>1. Keyed /\ Finished
    BY DEF RecordsInv
  <2>2. PICK j \in 1..Len(names) : names[j].label = l
    BY <2>1, LenProperties DEF C!Range, Keyed
  <2> QED BY <2>1, <2>2, LastKeyFound, Serves
<1> QED BY <1>1, RecordsInit, RecordsStep, PTL DEF C!Spec

-----------------------------------------------------------------------------
(* Metrics: the lines.                                                     *)

\* A set of numbers has a least one.
Less == {ss \in Nat \X Nat : ss[1] < ss[2]}

LEMMA Smallest ==
    ASSUME NEW P \in SUBSET Nat, P # {}
    PROVE  \E x \in P : \A y \in P : x <= y
<1>1. IsWellFoundedOn(Less, Nat)
  BY NatLessThanWellFounded DEF OpToRel, Less
<1>2. PICK x \in P : \A y \in P : ~(<<y, x>> \in Less)
  BY <1>1, WFMin
<1>3. ASSUME NEW y \in P, ~(x <= y) PROVE FALSE
  <2>1. x \in Nat /\ y \in Nat /\ y < x
    BY <1>3
  <2>2. <<y, x>> \in Less
    BY <2>1 DEF Less
  <2> QED BY <1>2, <2>2
<1> QED BY <1>3

\* The first line of s ends at a line break, which is its only one, or where s ends.
Line(s, len) ==
    /\ len \in 1..Len(s) /\ \A j \in 1..(len - 1) : s[j] # "\n"
    /\ s[len] = "\n" \/ len = Len(s)

LEMMA LineFound ==
    ASSUME NEW s \in Seq(M!Byte), s # <<>>
    PROVE  Line(s, M!LineLength(s))
<1> DEFINE P == {i \in 1..Len(s) : s[i] = "\n"}
<1>1. DOMAIN s = 1..Len(s) /\ Len(s) \in Nat /\ Len(s) # 0
  BY LenProperties, EmptySeq
<1>2. CASE P = {}
  <2>1. M!LineLength(s) = Len(s)
    BY <1>1, <1>2 DEF M!LineLength
  <2> QED BY <1>1, <1>2, <2>1 DEF Line
<1>3. CASE P # {}
  <2>1. P \in SUBSET Nat
    BY <1>1
  <2>2. PICK x \in P : \A y \in P : x <= y
    BY <1>3, <2>1, Smallest
  <2>3. x \in DOMAIN s /\ s[x] = "\n" /\ \A j \in 1..(x - 1) : s[j] # "\n"
    BY <1>1, <2>2
  <2>4. M!LineLength(s) =
           CHOOSE i \in DOMAIN s : s[i] = "\n" /\ \A j \in 1..(i - 1) : s[j] # "\n"
    BY <2>3 DEF M!LineLength
  <2>5. M!LineLength(s) \in DOMAIN s /\ s[M!LineLength(s)] = "\n"
        /\ \A j \in 1..(M!LineLength(s) - 1) : s[j] # "\n"
    BY <2>3, <2>4
  <2> QED BY <1>1, <2>5 DEF Line
<1> QED BY <1>2, <1>3

\* IsSuffix, from the end.
LEMMA SuffixAt ==
    ASSUME NEW s \in Seq(M!Byte), NEW t \in Seq(M!Byte)
    PROVE  M!IsSuffix(s, t) <=>
              Len(s) <= Len(t) /\ \A i \in 1..Len(s) : s[Len(s) + 1 - i] = t[Len(t) + 1 - i]
<1>1. Len(s) \in Nat /\ Len(t) \in Nat
  BY LenProperties
<1>2. /\ M!Reverse(s) \in Seq(M!Byte) /\ Len(M!Reverse(s)) = Len(s)
      /\ \A i \in 1..Len(s) : M!Reverse(s)[i] = s[Len(s) + 1 - i]
  BY <1>1, ElementOfSeq, IsASeq, LenProperties DEF M!Reverse
<1>3. /\ M!Reverse(t) \in Seq(M!Byte) /\ Len(M!Reverse(t)) = Len(t)
      /\ \A i \in 1..Len(t) : M!Reverse(t)[i] = t[Len(t) + 1 - i]
  BY <1>1, ElementOfSeq, IsASeq, LenProperties DEF M!Reverse
<1>4. CASE Len(s) <= Len(t)
  <2> DEFINE u == SubSeq(M!Reverse(s), 1, Len(s))
             v == SubSeq(M!Reverse(t), 1, Len(s))
  <2>1. u \in Seq(M!Byte) /\ Len(u) = Len(s) /\ \A i \in 1..Len(s) : u[i] = s[Len(s) + 1 - i]
    BY <1>1, <1>2, SubSeqProperties
  <2>2. v \in Seq(M!Byte) /\ Len(v) = Len(s) /\ \A i \in 1..Len(s) : v[i] = t[Len(t) + 1 - i]
    BY <1>1, <1>3, <1>4, SubSeqProperties
  <2>3. u = v <=> \A i \in 1..Len(s) : u[i] = v[i]
    BY <2>1, <2>2, SeqEqual
  <2>4. M!IsSuffix(s, t) <=> u = v
    BY <1>2, <1>3, <1>4 DEF M!IsSuffix, M!IsPrefix
  <2> QED BY <1>4, <2>1, <2>2, <2>3, <2>4
<1>5. CASE ~(Len(s) <= Len(t))
  BY <1>2, <1>3, <1>5 DEF M!IsSuffix, M!IsPrefix
<1> QED BY <1>4, <1>5

LEMMA SuffixTwo ==
    ASSUME NEW t \in Seq(M!Byte)
    PROVE  M!IsSuffix(<<"space", "0">>, t) <=>
              Len(t) >= 2 /\ t[Len(t)] = "0" /\ t[Len(t) - 1] = "space"
<1> DEFINE z == <<"space", "0">>
<1>1. z \in Seq(M!Byte) /\ Len(z) = 2 /\ z[1] = "space" /\ z[2] = "0"
  BY DEF M!Byte
<1>2. Len(t) \in Nat
  BY LenProperties
<1> HIDE DEF z
<1>3. M!IsSuffix(z, t) <=>
         2 <= Len(t) /\ \A i \in 1..2 : z[2 + 1 - i] = t[Len(t) + 1 - i]
  BY <1>1, SuffixAt
<1>4. (\A i \in 1..2 : z[2 + 1 - i] = t[Len(t) + 1 - i]) <=>
         z[2] = t[Len(t)] /\ z[1] = t[Len(t) - 1]
  <2>1. \A i \in 1..2 : i = 1 \/ i = 2
    OBVIOUS
  <2>2. 2 + 1 - 1 = 2 /\ 2 + 1 - 2 = 1 /\ Len(t) + 1 - 1 = Len(t) /\ Len(t) + 1 - 2 = Len(t) - 1
    BY <1>2
  <2> QED BY <2>1, <2>2
<1>5. M!IsSuffix(z, t) <=> Len(t) >= 2 /\ t[Len(t)] = "0" /\ t[Len(t) - 1] = "space"
  BY <1>1, <1>2, <1>3, <1>4
<1> QED BY <1>5 DEF z

LEMMA SuffixThree ==
    ASSUME NEW t \in Seq(M!Byte)
    PROVE  M!IsSuffix(<<"space", "0", "\n">>, t) <=>
              Len(t) >= 3 /\ t[Len(t)] = "\n" /\ t[Len(t) - 1] = "0" /\ t[Len(t) - 2] = "space"
<1> DEFINE z == <<"space", "0", "\n">>
<1>1. z \in Seq(M!Byte) /\ Len(z) = 3 /\ z[1] = "space" /\ z[2] = "0" /\ z[3] = "\n"
  BY DEF M!Byte
<1>2. Len(t) \in Nat
  BY LenProperties
<1> HIDE DEF z
<1>3. M!IsSuffix(z, t) <=>
         3 <= Len(t) /\ \A i \in 1..3 : z[3 + 1 - i] = t[Len(t) + 1 - i]
  BY <1>1, SuffixAt
<1>4. (\A i \in 1..3 : z[3 + 1 - i] = t[Len(t) + 1 - i]) <=>
         z[3] = t[Len(t)] /\ z[2] = t[Len(t) - 1] /\ z[1] = t[Len(t) - 2]
  <2>1. \A i \in 1..3 : i = 1 \/ i = 2 \/ i = 3
    OBVIOUS
  <2>2. /\ 3 + 1 - 1 = 3 /\ 3 + 1 - 2 = 2 /\ 3 + 1 - 3 = 1 /\ Len(t) + 1 - 1 = Len(t)
        /\ Len(t) + 1 - 2 = Len(t) - 1 /\ Len(t) + 1 - 3 = Len(t) - 2
    BY <1>2
  <2> QED BY <2>1, <2>2
<1>5. M!IsSuffix(z, t) <=>
         Len(t) >= 3 /\ t[Len(t)] = "\n" /\ t[Len(t) - 1] = "0" /\ t[Len(t) - 2] = "space"
  BY <1>1, <1>2, <1>3, <1>4
<1> QED BY <1>5 DEF z

\* The loop looks at the end of the result, which is the end of the line: what stands
\* before it ends in a line break, if it is there.
LEMMA ZeroOfLine ==
    ASSUME NEW front \in Seq(M!Byte), front = <<>> \/ front[Len(front)] = "\n",
           NEW line \in Seq(M!Byte), line # <<>>, Line(line, Len(line)),
           NEW text \in Seq(M!Byte),
           Len(text) = IF line[Len(line)] = "\n" THEN Len(line) - 1 ELSE Len(line),
           \A i \in 1..Len(text) : text[i] = line[i]
    PROVE  M!EndsInZero(front \o line) <=> M!IsSuffix(<<"space", "0">>, text)
<1> DEFINE n == Len(line)
           m == Len(front)
           all == front \o line
<1>1. n \in Nat /\ n # 0 /\ m \in Nat /\ Len(text) \in Nat
  BY LenProperties, EmptySeq
<1>2. /\ all \in Seq(M!Byte) /\ Len(all) = m + n
      /\ \A i \in 1..m : all[i] = front[i]
      /\ \A i \in 1..n : all[m + i] = line[i]
  <2>1. /\ all \in Seq(M!Byte) /\ Len(all) = m + n
        /\ \A i \in 1..(m + n) : all[i] = IF i <= m THEN front[i] ELSE line[i - m]
    BY ConcatProperties
  <2>2. \A i \in 1..n : m + i \in 1..(m + n) /\ ~(m + i <= m) /\ (m + i) - m = i
    BY <1>1
  <2> QED BY <1>1, <2>1, <2>2
<1>3. m = 0 \/ (m > 0 /\ all[m] = "\n")
  BY <1>1, <1>2, EmptySeq
<1>4. \A i \in 1..(n - 1) : line[i] # "\n"
  BY DEF Line
<1>10. /\ line[n] = "\n" => Len(text) = n - 1
       /\ line[n] # "\n" => Len(text) = n
       /\ \A i \in 1..Len(text) : text[i] = line[i]
  OBVIOUS
<1>12. M!EndsInZero(front \o line) <=>
          M!IsSuffix(<<"space", "0", "\n">>, all) \/ M!IsSuffix(<<"space", "0">>, all)
  BY DEF M!EndsInZero
<1> HIDE DEF n, m, all
<1>11. n >= 3 \/ n = 2 \/ n = 1
  BY <1>1
<1>5. M!IsSuffix(<<"space", "0">>, text) <=>
         Len(text) >= 2 /\ text[Len(text)] = "0" /\ text[Len(text) - 1] = "space"
  BY <1>1, SuffixTwo
<1>6. M!IsSuffix(<<"space", "0">>, all) <=>
         m + n >= 2 /\ all[m + n] = "0" /\ all[m + n - 1] = "space"
  <2>1. M!IsSuffix(<<"space", "0">>, all) <=>
           Len(all) >= 2 /\ all[Len(all)] = "0" /\ all[Len(all) - 1] = "space"
    BY <1>2, SuffixTwo
  <2> QED BY <1>1, <1>2, <2>1
<1>7. M!IsSuffix(<<"space", "0", "\n">>, all) <=>
         m + n >= 3 /\ all[m + n] = "\n" /\ all[m + n - 1] = "0" /\ all[m + n - 2] = "space"
  <2>1. M!IsSuffix(<<"space", "0", "\n">>, all) <=>
           Len(all) >= 3 /\ all[Len(all)] = "\n" /\ all[Len(all) - 1] = "0" /\ all[Len(all) - 2] = "space"
    BY <1>2, SuffixThree
  <2> QED BY <1>1, <1>2, <2>1
<1>8. CASE line[n] = "\n"
  <2>1. all[m + n] = "\n"
    BY <1>1, <1>2, <1>8
  <2>2. ~M!IsSuffix(<<"space", "0">>, all)
    BY <1>6, <2>1
  <2>3. CASE n >= 3
    <3>1. all[m + n - 1] = line[n - 1] /\ all[m + n - 2] = line[n - 2]
      <4>1. /\ n - 1 \in 1..n /\ n - 2 \in 1..n
            /\ m + (n - 1) = m + n - 1 /\ m + (n - 2) = m + n - 2
        BY <1>1, <2>3
      <4> QED BY <1>2, <4>1
    <3>2. text[Len(text)] = line[n - 1] /\ text[Len(text) - 1] = line[n - 2] /\ Len(text) >= 2
      BY <1>1, <1>8, <1>10, <2>3
    <3> QED BY <1>1, <1>5, <1>7, <2>1, <2>2, <2>3, <3>1, <3>2, <1>12
  <2>4. CASE n = 2
    <3>1. m = 0 \/ all[m + n - 2] = "\n"
      BY <1>3, <2>4, <1>1
    <3> QED BY <1>1, <1>5, <1>7, <1>8, <1>10, <2>2, <2>4, <3>1, <1>12
  <2>5. CASE n = 1
    <3>1. m = 0 \/ all[m + n - 1] = "\n"
      BY <1>3, <2>5, <1>1
    <3> QED BY <1>1, <1>5, <1>7, <1>8, <1>10, <2>2, <2>5, <3>1, <1>12
  <2> QED BY <1>11, <2>3, <2>4, <2>5
<1>9. CASE line[n] # "\n"
  <2>1. all[m + n] = line[n] /\ text[n] = line[n] /\ Len(text) = n
    BY <1>1, <1>2, <1>9, <1>10
  <2>2. ~M!IsSuffix(<<"space", "0", "\n">>, all)
    BY <1>7, <1>9, <2>1
  <2>3. CASE n >= 2
    <3>1. all[m + n - 1] = line[n - 1] /\ text[n - 1] = line[n - 1]
      BY <1>1, <1>2, <1>10, <2>1, <2>3
    <3> QED BY <1>1, <1>5, <1>6, <2>1, <2>2, <2>3, <3>1, <1>12
  <2>4. CASE n = 1
    <3>1. m = 0 \/ all[m + n - 1] = "\n"
      BY <1>3, <2>4, <1>1
    <3>2. ~(m + n >= 2 /\ all[m + n - 1] = "space")
      BY <1>1, <2>4, <3>1
    <3>3. ~(n >= 2)
      BY <2>4
    <3>4. Len(text) = n
      BY <2>1
    <3> QED BY <1>5, <1>6, <1>12, <2>2, <3>2, <3>3, <3>4
  <2>5. n >= 2 \/ n = 1
    BY <1>1, <1>11
  <2> QED BY <2>3, <2>4, <2>5
<1> QED BY <1>8, <1>9

\* How far the input is read.
Past == Len(input) - Len(data)

\* What is left is the rest of the input, from the beginning of a line, and what is kept
\* ends with one.
Lined ==
    /\ input \in Seq(M!Byte) /\ data \in Seq(M!Byte) /\ kept \in Seq(M!Byte)
    /\ Len(data) <= Len(input) /\ Len(kept) <= Past
    /\ \A i \in 1..Len(data) : data[i] = input[Past + i]
    /\ data # <<>> => /\ Past = 0 \/ input[Past] = "\n"
                      /\ kept = <<>> \/ kept[Len(kept)] = "\n"

\* The text of the line that is next.
NextText == SubSeq(input, Past + 1, IF input[Past + M!LineLength(data)] = "\n"
                                    THEN Past + M!LineLength(data) - 1
                                    ELSE Past + M!LineLength(data))

LEMMA LineAt ==
    ASSUME Lined, data # <<>>, NEW i \in (Past + 1)..(Past + M!LineLength(data))
    PROVE  M!Text(i) = NextText
<1> DEFINE p == Past
           len == M!LineLength(data)
           rest == SubSeq(input, p + 1, Len(input))
<1>1. /\ Len(input) \in Nat /\ Len(data) \in Nat /\ p \in Nat /\ len \in Nat
      /\ len \in 1..Len(data) /\ \A j \in 1..(len - 1) : data[j] # "\n"
      /\ p + Len(data) = Len(input)
  <2>1. /\ Len(input) \in Nat /\ Len(data) \in Nat /\ p \in Nat
        /\ p + Len(data) = Len(input)
    BY LenProperties DEF Lined, Past
  <2>2. Line(data, len)
    BY LineFound DEF Lined
  <2>3. len \in 1..Len(data) /\ \A j \in 1..(len - 1) : data[j] # "\n"
    BY <2>2 DEF Line
  <2>4. len \in Nat
    BY <2>1, <2>3
  <2> QED BY <2>1, <2>3, <2>4
<1>2. \A j \in (p + 1)..(p + len - 1) : input[j] # "\n"
  <2> TAKE j \in (p + 1)..(p + len - 1)
  <2>1. j - p \in 1..(len - 1) /\ j - p \in 1..Len(data) /\ p + (j - p) = j
    BY <1>1
  <2>2. data[j - p] = input[p + (j - p)]
    BY <2>1 DEF Lined
  <2> QED BY <1>1, <2>1, <2>2
<1>3. M!First(i) = p + 1
  <2> DEFINE Is(f) == /\ \A j \in f..(i - 1) : input[j] # "\n"
                      /\ f = 1 \/ input[f - 1] = "\n"
  <2>1. p + 1 \in 1..i /\ Is(p + 1)
    <3>1. \A j \in (p + 1)..(i - 1) : j \in (p + 1)..(p + len - 1)
      BY <1>1
    <3>2. p + 1 = 1 \/ input[(p + 1) - 1] = "\n"
      BY <1>1 DEF Lined
    <3> QED BY <1>1, <1>2, <3>1, <3>2
  <2>2. ASSUME NEW f \in 1..i, Is(f) PROVE f = p + 1
    <3>1. CASE f < p + 1
      <4>1. p \in f..(i - 1) /\ p # 0
        BY <1>1, <3>1
      <4> QED BY <2>2, <4>1 DEF Lined
    <3>2. CASE f > p + 1
      <4>1. f - 1 \in (p + 1)..(p + len - 1) /\ f # 1
        BY <1>1, <3>2
      <4> QED BY <1>2, <2>2, <4>1
    <3> QED BY <1>1, <3>1, <3>2
  <2>3. M!First(i) = CHOOSE f \in 1..i : Is(f)
    BY DEF M!First
  <2> HIDE DEF Is
  <2> QED BY <2>1, <2>2, <2>3
<1>4. rest = data
  <2>1. \A j \in (p + 1)..Len(input) : input[j] \in M!Byte
    BY <1>1, ElementOfSeq DEF Lined
  <2>2. /\ rest \in Seq(M!Byte) /\ Len(rest) = Len(data)
        /\ \A j \in 1..Len(data) : rest[j] = input[(p + 1) + j - 1]
    BY <1>1, <2>1, SubSeqProperties
  <2>3. \A j \in 1..Len(data) : rest[j] = data[j]
    <3> TAKE j \in 1..Len(data)
    <3>1. (p + 1) + j - 1 = p + j
      BY <1>1
    <3> QED BY <2>2, <3>1 DEF Lined
  <2> QED BY <2>2, <2>3, SeqEqual DEF Lined
<1>5. M!Final(i) = p + len
  <2>1. M!Final(i) = (p + 1) + M!LineLength(data) - 1
    BY <1>3, <1>4 DEF M!Final
  <2> QED BY <1>1, <2>1
<1> HIDE DEF p, len
<1>6. M!Text(i) = SubSeq(input, p + 1, IF input[p + len] = "\n" THEN p + len - 1 ELSE p + len)
  BY <1>1, <1>3, <1>5 DEF M!Text
<1> QED BY <1>6 DEF p, len, NextText

\* A line that is kept: what stayed before keeps its rank, what is new follows in order.
Ranked(p, n, P, Q) ==
    /\ Cardinality(P) \in Nat /\ Cardinality(Q) = Cardinality(P) + n
    /\ \A i \in P : /\ {j \in Q : j <= i} = {j \in P : j <= i}
                    /\ Cardinality({j \in P : j <= i}) \in 1..Cardinality(P)
    /\ \A m \in 1..n : Cardinality({j \in Q : j <= p + m}) = Cardinality(P) + m

LEMMA Ranks ==
    ASSUME NEW p \in Nat, NEW n \in Nat, NEW P \in SUBSET (1..p), NEW Q,
           Q = P \cup ((p + 1)..(p + n))
    PROVE  Ranked(p, n, P, Q)
<1>1. IsFiniteSet(P) /\ Cardinality(P) \in Nat
  <2>1. IsFiniteSet(1..p)
    BY FS_Interval
  <2> QED BY <2>1, FS_Subset, FS_CardinalityType
<1>2. ASSUME NEW m \in 0..n
      PROVE  Cardinality(P \cup ((p + 1)..(p + m))) = Cardinality(P) + m
  <2> DEFINE R == (p + 1)..(p + m)
  <2>1. IsFiniteSet(R) /\ Cardinality(R) = m
    <3>1. p + 1 \in Int /\ p + m \in Int
      OBVIOUS
    <3>2. /\ IsFiniteSet(R)
          /\ Cardinality(R) = IF p + 1 > p + m THEN 0 ELSE (p + m) - (p + 1) + 1
      BY <3>1, FS_Interval
    <3> QED BY <3>2
  <2>2. P \cap R = {}
    OBVIOUS
  <2>3. Cardinality(P \cup R) = Cardinality(P) + Cardinality(R) - Cardinality(P \cap R)
    BY <1>1, <2>1, FS_Union
  <2> HIDE DEF R
  <2>4. Cardinality(P \cap R) = 0
    BY <2>2, FS_EmptySet
  <2>5. Cardinality(P \cup R) = Cardinality(P) + m
    BY <1>1, <2>1, <2>3, <2>4
  <2> QED BY <2>5 DEF R
<1>3. Cardinality(Q) = Cardinality(P) + n
  BY <1>2
<1>4. ASSUME NEW i \in P
      PROVE  /\ {j \in Q : j <= i} = {j \in P : j <= i}
             /\ Cardinality({j \in P : j <= i}) \in 1..Cardinality(P)
  <2> DEFINE R == {j \in P : j <= i}
  <2>1. {j \in Q : j <= i} = R
    OBVIOUS
  <2>2. R \subseteq P /\ i \in R
    OBVIOUS
  <2> HIDE DEF R
  <2>3. IsFiniteSet(R) /\ Cardinality(R) <= Cardinality(P)
    BY <1>1, <2>2, FS_Subset
  <2>4. Cardinality(R) \in Nat /\ Cardinality(R) # 0
    BY <2>2, <2>3, FS_CardinalityType, FS_EmptySet
  <2>5. Cardinality(R) \in 1..Cardinality(P)
    BY <1>1, <2>3, <2>4
  <2> QED BY <2>1, <2>5 DEF R
<1>5. ASSUME NEW m \in 1..n
      PROVE  Cardinality({j \in Q : j <= p + m}) = Cardinality(P) + m
  <2>1. \A j \in P : j \in Int /\ j <= p + m
    OBVIOUS
  <2>2. \A j \in (p + 1)..(p + n) : j <= p + m <=> j \in (p + 1)..(p + m)
    OBVIOUS
  <2>3. \A j \in (p + 1)..(p + m) : j \in (p + 1)..(p + n)
    OBVIOUS
  <2>4. {j \in Q : j <= p + m} = P \cup ((p + 1)..(p + m))
    BY <2>1, <2>2, <2>3
  <2> QED BY <1>2, <2>4
<1> QED BY <1>1, <1>3, <1>4, <1>5 DEF Ranked

\* OnlyZerosGo, in the terms of this module.
Kept ==
    /\ Len(kept) = Cardinality(M!Stay(Past))
    /\ \A i \in M!Stay(Past) :
          kept[Cardinality({j \in M!Stay(Past) : j <= i})] = input[i]

LEMMA SameOrder == Kept <=> M!OnlyZerosGo
<1>1. \A P : M!Cardinality(P) = Cardinality(P)
  BY DEF M!Cardinality, Cardinality
<1> QED BY <1>1 DEF Kept, Past, M!OnlyZerosGo

LEMMA StayAfter ==
    ASSUME Lined, data # <<>>
    PROVE  M!Stay(Past + M!LineLength(data)) =
              IF M!IsSuffix(<<"space", "0">>, NextText) THEN M!Stay(Past)
              ELSE M!Stay(Past) \cup ((Past + 1)..(Past + M!LineLength(data)))
<1> DEFINE p == Past
           len == M!LineLength(data)
           Zero(i) == M!IsSuffix(<<"space", "0">>, M!Text(i))
           zero == M!IsSuffix(<<"space", "0">>, NextText)
<1>1. p \in Nat /\ len \in Nat
  BY LenProperties, LineFound DEF Lined, Line, Past
<1>2. \A i \in (p + 1)..(p + len) : Zero(i) <=> zero
  BY LineAt
<1>3. \A n \in Nat : M!Stay(n) = {i \in 1..n : ~Zero(i)}
  BY DEF M!Stay
<1> HIDE DEF p, len, Zero, zero
<1>4. /\ p + len \in Nat
      /\ \A i : i \in 1..(p + len) <=> i \in 1..p \/ i \in (p + 1)..(p + len)
  BY <1>1
<1>5. zero => M!Stay(p + len) = M!Stay(p)
  BY <1>1, <1>2, <1>3, <1>4
<1>6. ~zero => M!Stay(p + len) = M!Stay(p) \cup ((p + 1)..(p + len))
  BY <1>1, <1>2, <1>3, <1>4
<1> QED BY <1>5, <1>6 DEF p, len, zero

\* The positions do not move: the lines are those of the input.
LEMMA StayFixed == ASSUME input' = input PROVE \A n : M!Stay(n)' = M!Stay(n)
BY DEF M!Stay, M!Text, M!Final, M!First

\* One turn of the loop: a line less to read, and if it is kept, a line more.
LEMMA TurnTaken ==
    ASSUME Lined, M!ReadLine
    PROVE  LET len == M!LineLength(data) IN
           /\ Line(data, len) /\ Past' = Past + len /\ input' = input
           /\ data' \in Seq(M!Byte) /\ Len(data') = Len(data) - len
           /\ \A i \in 1..Len(data') : data'[i] = data[len + i]
           /\ kept' \in Seq(M!Byte)
           /\ IF M!IsSuffix(<<"space", "0">>, NextText)
              THEN kept' = kept
              ELSE /\ Len(kept') = Len(kept) + len
                   /\ \A i \in 1..Len(kept) : kept'[i] = kept[i]
                   /\ \A i \in 1..len : kept'[Len(kept) + i] = data[i]
<1> DEFINE len == M!LineLength(data)
           line == SubSeq(data, 1, len)
           read == kept \o line
           n == Len(data)
           k == Len(kept)
<1>1. /\ data # <<>> /\ input' = input /\ data' = SubSeq(data, len + 1, n)
      /\ kept' = IF M!EndsInZero(read) THEN M!Truncate(read, len) ELSE read
  BY DEF M!ReadLine
<1>2. /\ input \in Seq(M!Byte) /\ data \in Seq(M!Byte) /\ kept \in Seq(M!Byte)
      /\ kept = <<>> \/ kept[k] = "\n"
      /\ Past \in Nat /\ Past + n = Len(input) /\ Len(input) \in Nat
      /\ \A i \in 1..n : data[i] = input[Past + i] /\ data[i] \in M!Byte
  BY <1>1, LenProperties, ElementOfSeq DEF Lined, Past
<1>3. n \in Nat /\ k \in Nat
  BY <1>2, LenProperties
<1>4. Line(data, len)
  BY <1>1, <1>2, LineFound
<1> HIDE DEF len, n, k
<1>5. len \in Nat /\ len \in 1..n /\ (data[len] = "\n" \/ len = n)
      /\ \A j \in 1..(len - 1) : data[j] # "\n"
  BY <1>3, <1>4 DEF Line, n
<1>6. line \in Seq(M!Byte) /\ Len(line) = len /\ \A i \in 1..len : line[i] = data[i]
  <2>1. \A i \in 1..len : data[i] \in M!Byte
    BY <1>2, <1>3, <1>5
  <2>2. /\ line \in Seq(M!Byte) /\ Len(line) = IF 1 <= len THEN len - 1 + 1 ELSE 0
        /\ \A i \in 1..(len - 1 + 1) : line[i] = data[1 + i - 1]
    BY <1>5, <2>1, SubSeqProperties
  <2> QED BY <1>5, <2>2
<1>7. data' \in Seq(M!Byte) /\ Len(data') = n - len /\ \A i \in 1..(n - len) : data'[i] = data[len + i]
  <2>1. \A i \in (len + 1)..n : data[i] \in M!Byte
    BY <1>2, <1>3, <1>5
  <2>2. len + 1 \in Int /\ n \in Int
    BY <1>3, <1>5
  <2>3. /\ SubSeq(data, len + 1, n) \in Seq(M!Byte)
        /\ Len(SubSeq(data, len + 1, n)) = IF len + 1 <= n THEN n - (len + 1) + 1 ELSE 0
        /\ \A i \in 1..(n - (len + 1) + 1) : SubSeq(data, len + 1, n)[i] = data[(len + 1) + i - 1]
    BY <2>1, <2>2, SubSeqProperties
  <2>4. n - (len + 1) + 1 = n - len /\ (IF len + 1 <= n THEN n - (len + 1) + 1 ELSE 0) = n - len
    BY <1>3, <1>5
  <2>5. \A i \in 1..(n - len) : (len + 1) + i - 1 = len + i
    BY <1>5
  <2> QED BY <1>1, <2>3, <2>4, <2>5
<1>8. Past' = Past + len
  <2>1. Past' = Len(input) - (n - len)
    BY <1>1, <1>7 DEF Past
  <2>2. Past' = (Past + n) - (n - len)
    BY <1>2, <2>1
  <2>3. Past \in Nat /\ n \in Nat /\ len \in Nat
    BY <1>2, <1>3, <1>5
  <2> HIDE DEF Past
  <2>4. (Past + n) - (n - len) = Past + len
    BY <2>3
  <2> QED BY <2>2, <2>4
<1>9. M!EndsInZero(read) <=> M!IsSuffix(<<"space", "0">>, NextText)
  <2> DEFINE e == IF input[Past + len] = "\n" THEN Past + len - 1 ELSE Past + len
  <2>1. input[Past + len] = data[len] /\ data[len] = line[len] /\ e \in Int
    BY <1>2, <1>5, <1>6
  <2>2. NextText = SubSeq(input, Past + 1, e)
    BY DEF NextText, len
  <2>3. e <= Past + len /\ e - Past \in 0..len /\ e - Past = IF line[len] = "\n" THEN len - 1 ELSE len
    BY <1>2, <1>5, <2>1
  <2> HIDE DEF e
  <2>4. \A i \in (Past + 1)..e : input[i] \in M!Byte
    <3>1. \A i \in (Past + 1)..e : i \in 1..Len(input)
      BY <1>2, <1>3, <1>5, <2>1, <2>3
    <3> QED BY <1>2, <3>1, ElementOfSeq
  <2>5. /\ NextText \in Seq(M!Byte)
        /\ Len(NextText) = IF Past + 1 <= e THEN e - (Past + 1) + 1 ELSE 0
        /\ \A i \in 1..(e - (Past + 1) + 1) : NextText[i] = input[(Past + 1) + i - 1]
    <3>1. Past + 1 \in Int
      BY <1>2
    <3> QED BY <2>1, <2>2, <2>4, <3>1, SubSeqProperties
  <2>6. Len(NextText) = e - Past /\ e - (Past + 1) + 1 = e - Past
    BY <1>2, <2>1, <2>3, <2>5
  <2>7. \A i \in 1..(e - Past) : NextText[i] = line[i]
    <3> TAKE i \in 1..(e - Past)
    <3>1. (Past + 1) + i - 1 = Past + i /\ i \in 1..n /\ i \in 1..len
      BY <1>2, <1>3, <1>5, <2>1, <2>3
    <3> QED BY <1>2, <1>6, <2>5, <2>6, <3>1
  <2>8. Line(line, len)
    BY <1>5, <1>6 DEF Line
  <2> HIDE DEF line
  <2>9. Len(line) = len /\ line # <<>>
    BY <1>5, <1>6
  <2>10. Len(NextText) = IF line[Len(line)] = "\n" THEN Len(line) - 1 ELSE Len(line)
    BY <2>3, <2>6, <2>9
  <2>11. \A i \in 1..Len(NextText) : NextText[i] = line[i]
    BY <2>6, <2>7
  <2>12. Line(line, Len(line))
    BY <2>8, <2>9
  <2>13. kept = <<>> \/ kept[Len(kept)] = "\n"
    BY <1>2 DEF k
  <2>14. kept \in Seq(M!Byte) /\ line \in Seq(M!Byte) /\ NextText \in Seq(M!Byte)
    BY <1>2, <1>6, <2>5
  <2> QED BY <2>9, <2>10, <2>11, <2>12, <2>13, <2>14, ZeroOfLine
<1>10. /\ read \in Seq(M!Byte) /\ Len(read) = k + len
       /\ \A i \in 1..k : read[i] = kept[i]
       /\ \A i \in 1..len : read[k + i] = data[i]
  <2> HIDE DEF line
  <2>1. /\ read \in Seq(M!Byte) /\ Len(read) = Len(kept) + Len(line)
        /\ \A i \in 1..(Len(kept) + Len(line)) :
              read[i] = IF i <= Len(kept) THEN kept[i] ELSE line[i - Len(kept)]
    <3>1. kept \in Seq(M!Byte) /\ line \in Seq(M!Byte)
      BY <1>2, <1>6
    <3> QED BY <3>1, ConcatProperties
  <2>2. /\ Len(read) = k + len
        /\ \A i \in 1..(k + len) : read[i] = IF i <= k THEN kept[i] ELSE line[i - k]
    BY <1>6, <2>1 DEF k
  <2>3. \A i \in 1..k : i \in 1..(k + len) /\ i <= k
    BY <1>3, <1>5
  <2>4. \A i \in 1..len : k + i \in 1..(k + len) /\ ~(k + i <= k) /\ (k + i) - k = i
    BY <1>3, <1>5
  <2> QED BY <1>6, <2>1, <2>2, <2>3, <2>4
<1>11. M!Truncate(read, len) = kept
  <2> HIDE DEF read
  <2>1. M!Truncate(read, len) = SubSeq(read, 1, k)
    <3>1. Len(read) - len = k
      BY <1>3, <1>5, <1>10
    <3> QED BY <3>1 DEF M!Truncate
  <2>2. \A i \in 1..k : read[i] \in M!Byte
    BY <1>2, <1>10, ElementOfSeq DEF k
  <2>3. /\ SubSeq(read, 1, k) \in Seq(M!Byte)
        /\ Len(SubSeq(read, 1, k)) = IF 1 <= k THEN k - 1 + 1 ELSE 0
        /\ \A i \in 1..(k - 1 + 1) : SubSeq(read, 1, k)[i] = read[1 + i - 1]
    BY <1>3, <2>2, SubSeqProperties
  <2>4. Len(SubSeq(read, 1, k)) = k /\ \A i \in 1..k : SubSeq(read, 1, k)[i] = kept[i]
    BY <1>3, <1>10, <2>3
  <2> QED BY <1>2, <2>1, <2>3, <2>4, SeqEqual DEF k
<1> HIDE DEF read, line
<1>12. /\ kept' \in Seq(M!Byte)
       /\ IF M!IsSuffix(<<"space", "0">>, NextText)
          THEN kept' = kept
          ELSE /\ Len(kept') = k + len
               /\ \A i \in 1..k : kept'[i] = kept[i]
               /\ \A i \in 1..len : kept'[k + i] = data[i]
  BY <1>1, <1>2, <1>9, <1>10, <1>11
<1> QED BY <1>1, <1>4, <1>7, <1>8, <1>12 DEF len, n, k

LEMMA LinedTurn == Lined /\ M!ReadLine => Lined'
<1> SUFFICES ASSUME Lined, M!ReadLine PROVE Lined'
  OBVIOUS
<1> DEFINE len == M!LineLength(data)
           n == Len(data)
           n1 == Len(data')
           k == Len(kept)
           k1 == Len(kept')
           p == Past
           p1 == Past'
           zero == M!IsSuffix(<<"space", "0">>, NextText)
<1>1. /\ Line(data, len) /\ p1 = p + len /\ input' = input
      /\ data' \in Seq(M!Byte) /\ n1 = n - len
      /\ \A i \in 1..n1 : data'[i] = data[len + i]
      /\ kept' \in Seq(M!Byte)
      /\ zero => kept' = kept /\ k1 = k
      /\ ~zero => /\ k1 = k + len
                  /\ \A i \in 1..k : kept'[i] = kept[i]
                  /\ \A i \in 1..len : kept'[k + i] = data[i]
  BY TurnTaken
<1>2. /\ input \in Seq(M!Byte) /\ data \in Seq(M!Byte) /\ kept \in Seq(M!Byte)
      /\ n <= Len(input) /\ k <= p /\ p + n = Len(input) /\ n # 0
      /\ n \in Nat /\ k \in Nat /\ p \in Nat /\ Len(input) \in Nat
      /\ \A i \in 1..n : data[i] = input[p + i]
      /\ kept = <<>> \/ kept[k] = "\n"
  <2>1. data # <<>>
    BY DEF M!ReadLine
  <2> QED BY <2>1, LenProperties, EmptySeq DEF Lined, Past
<1>3. len \in 1..n /\ (data[len] = "\n" \/ len = n)
  BY <1>1 DEF Line
<1>4. Lined' <=>
         /\ input' \in Seq(M!Byte) /\ data' \in Seq(M!Byte) /\ kept' \in Seq(M!Byte)
         /\ n1 <= Len(input') /\ k1 <= p1
         /\ \A i \in 1..n1 : data'[i] = input'[p1 + i]
         /\ data' # <<>> => /\ p1 = 0 \/ input'[p1] = "\n"
                            /\ kept' = <<>> \/ kept'[k1] = "\n"
  BY DEF Lined
<1>5. data' = <<>> \/ n1 # 0
  BY <1>1, EmptySeq
<1> HIDE DEF len, n, n1, k, k1, p, p1, zero
<1>6. n1 <= Len(input') /\ k1 <= p1
  BY <1>1, <1>2, <1>3
<1>7. \A i \in 1..n1 : data'[i] = input'[p1 + i]
  <2> TAKE i \in 1..n1
  <2>1. len + i \in 1..n /\ p + (len + i) = p1 + i
    BY <1>1, <1>2, <1>3
  <2> QED BY <1>1, <1>2, <2>1
<1>8. ASSUME n1 # 0
      PROVE  input'[p1] = "\n" /\ (kept' = <<>> \/ kept'[k1] = "\n")
  <2>1. data[len] = "\n"
    BY <1>1, <1>2, <1>3, <1>8
  <2>2. input'[p1] = "\n"
    BY <1>1, <1>2, <1>3, <2>1
  <2>3. zero => kept' = <<>> \/ kept'[k1] = "\n"
    BY <1>1, <1>2
  <2>4. ~zero => kept'[k1] = "\n"
    <3>1. len \in 1..len
      BY <1>2, <1>3
    <3> QED BY <1>1, <2>1, <3>1
  <2> QED BY <2>2, <2>3, <2>4
<1> QED BY <1>1, <1>2, <1>4, <1>5, <1>6, <1>7, <1>8

LEMMA KeptTurn == Lined /\ Kept /\ M!ReadLine => Kept'
<1> SUFFICES ASSUME Lined, Kept, M!ReadLine PROVE Kept'
  OBVIOUS
<1> DEFINE len == M!LineLength(data)
           k == Len(kept)
           k1 == Len(kept')
           p == Past
           zero == M!IsSuffix(<<"space", "0">>, NextText)
           P == M!Stay(p)
           Q == M!Stay(p + len)
           Rank(R, i) == Cardinality({j \in R : j <= i})
<1>1. /\ Past' = p + len /\ input' = input
      /\ zero => kept' = kept
      /\ ~zero => /\ k1 = k + len
                  /\ \A i \in 1..k : kept'[i] = kept[i]
                  /\ \A i \in 1..len : kept'[k + i] = data[i]
  BY TurnTaken
<1>2. /\ len \in Nat /\ p \in Nat /\ len \in 1..Len(data) /\ Len(data) \in Nat
      /\ \A i \in 1..Len(data) : data[i] = input[p + i]
  <2>1. data # <<>> /\ data \in Seq(M!Byte)
    BY DEF M!ReadLine, Lined
  <2> QED BY <2>1, LenProperties, LineFound DEF Lined, Line, Past
<1>3. k = Cardinality(P) /\ \A i \in P : kept[Rank(P, i)] = input[i]
  BY DEF Kept
<1>4. Q = IF zero THEN P ELSE P \cup ((p + 1)..(p + len))
  <2>1. data # <<>>
    BY DEF M!ReadLine
  <2> QED BY <2>1, StayAfter
<1>5. M!Stay(Past)' = Q
  <2>1. \A m : M!Stay(m)' = M!Stay(m)
    BY <1>1, StayFixed
  <2>2. M!Stay(Past)' = M!Stay(Past')
    BY <1>1 DEF M!Stay, M!Text, M!Final, M!First
  <2> QED BY <1>1, <2>2
<1>6. P \in SUBSET (1..p)
  BY DEF M!Stay
<1>7. Kept' <=> k1 = Cardinality(Q) /\ \A i \in Q : kept'[Rank(Q, i)] = input[i]
  BY <1>1, <1>5 DEF Kept
<1> HIDE DEF P, Q, p, len, zero
<1>8. CASE zero
  BY <1>1, <1>3, <1>4, <1>7, <1>8
<1>9. CASE ~zero
  <2>1. Q = P \cup ((p + 1)..(p + len))
    BY <1>4, <1>9
  <2>2. /\ Cardinality(P) \in Nat /\ Cardinality(Q) = Cardinality(P) + len
        /\ \A i \in P : {j \in Q : j <= i} = {j \in P : j <= i} /\ Rank(P, i) \in 1..Cardinality(P)
        /\ \A m \in 1..len : Rank(Q, p + m) = Cardinality(P) + m
    <3>1. p \in Nat /\ len \in Nat
      BY <1>2
    <3>2. Ranked(p, len, P, Q)
      BY <1>6, <2>1, <3>1, Ranks
    <3> QED BY <3>2 DEF Ranked
  <2>3. ASSUME NEW i \in P PROVE kept'[Rank(Q, i)] = input[i]
    <3>1. Rank(Q, i) = Rank(P, i) /\ Rank(P, i) \in 1..k
      BY <1>3, <2>2
    <3> HIDE DEF Rank
    <3> QED BY <1>1, <1>3, <1>9, <3>1
  <2>4. ASSUME NEW i \in (p + 1)..(p + len) PROVE kept'[Rank(Q, i)] = input[i]
    <3>1. i - p \in 1..len /\ i - p \in 1..Len(data) /\ p + (i - p) = i
      BY <1>2
    <3>2. Rank(Q, i) = k + (i - p)
      BY <1>3, <2>2, <3>1
    <3>3. kept'[k + (i - p)] = data[i - p] /\ data[i - p] = input[i]
      BY <1>1, <1>2, <1>9, <3>1
    <3> HIDE DEF Rank
    <3> QED BY <3>2, <3>3
  <2>5. k1 = Cardinality(Q)
    BY <1>1, <1>3, <1>9, <2>2
  <2> HIDE DEF Rank
  <2> QED BY <1>7, <2>1, <2>3, <2>4, <2>5
<1> QED BY <1>8, <1>9

MetricsInv == Lined /\ Kept

\* Before the first line nothing is read and nothing is kept.
LEMMA MetricsInit ==
    ASSUME input \in Seq(M!Byte), data = input, kept = <<>> PROVE MetricsInv
<1>1. Len(input) \in Nat /\ Past = 0 /\ Len(kept) = 0
  BY LenProperties, EmptySeq DEF Past
<1>2. kept \in Seq(M!Byte)
  BY EmptySeq
<1>3. Lined
  BY <1>1, <1>2 DEF Lined
<1>4. M!Stay(Past) = {}
  BY <1>1 DEF M!Stay
<1>5. Cardinality({}) = 0
  BY FS_EmptySet
<1>6. Kept
  BY <1>1, <1>4, <1>5 DEF Kept
<1> QED BY <1>3, <1>6 DEF MetricsInv

LEMMA MetricsNext == MetricsInv /\ [M!Next]_(M!vars) => MetricsInv'
<1>1. MetricsInv /\ M!Next => MetricsInv'
  BY LinedTurn, KeptTurn DEF MetricsInv, M!Next
<1>2. ASSUME MetricsInv, UNCHANGED M!vars PROVE MetricsInv'
  <2>1. input' = input /\ data' = data /\ kept' = kept
    BY <1>2 DEF M!vars
  <2>2. Past' = Past
    BY <2>1 DEF Past
  <2>3. Lined'
    BY <1>2, <2>1, <2>2 DEF MetricsInv, Lined
  <2>4. M!Stay(Past)' = M!Stay(Past)
    BY <2>1, <2>2 DEF M!Stay, M!Text, M!Final, M!First
  <2>5. Kept'
    BY <1>2, <2>1, <2>4 DEF MetricsInv, Kept
  <2> QED BY <2>3, <2>5 DEF MetricsInv
<1> QED BY <1>1, <1>2

LEMMA MetricsTypes == Lined => M!TypeOK
<1> SUFFICES ASSUME Lined PROVE M!TypeOK
  OBVIOUS
<1> DEFINE n == Len(input)
           d == Len(data)
           k == Len(kept)
<1>1. /\ input \in Seq(M!Byte) /\ data \in Seq(M!Byte) /\ kept \in Seq(M!Byte)
      /\ n \in Nat /\ d \in Nat /\ k \in Nat /\ d <= n /\ k <= n - d
      /\ \A i \in 1..d : data[i] = input[(n - d) + i]
  BY LenProperties DEF Lined, Past
<1>2. kept # <<>> /\ data # <<>> => M!Last(kept) = "\n"
  BY DEF Lined, M!Last
<1>3. M!IsSuffix(data, input) <=> d <= n /\ \A i \in 1..d : data[d + 1 - i] = input[n + 1 - i]
  BY <1>1, SuffixAt
<1>4. M!TypeOK <=>
         /\ input \in Seq(M!Byte) /\ data \in Seq(M!Byte) /\ kept \in Seq(M!Byte)
         /\ M!IsSuffix(data, input) /\ k + d <= n
         /\ kept # <<>> /\ data # <<>> => M!Last(kept) = "\n"
  BY DEF M!TypeOK
<1> HIDE DEF n, d, k
<1>5. ASSUME NEW i \in 1..d PROVE data[d + 1 - i] = input[n + 1 - i]
  <2>1. d + 1 - i \in 1..d /\ (n - d) + (d + 1 - i) = n + 1 - i
    BY <1>1
  <2> QED BY <1>1, <2>1
<1>6. k + d <= n
  BY <1>1
<1> QED BY <1>1, <1>2, <1>3, <1>4, <1>5, <1>6

\* Of text of any length exactly the lines with a zero go, and the rest keeps its order.
THEOREM ExactlyZerosGo == M!Spec => [](M!TypeOK /\ M!OnlyZerosGo)
<1>1. M!Init => MetricsInv
  <2> SUFFICES ASSUME M!Init PROVE input \in Seq(M!Byte) /\ data = input /\ kept = <<>>
    BY MetricsInit
  <2>1. PICK n \in 0..MaxLength : input \in [1..n -> M!Byte]
    BY DEF M!Init
  <2>2. n \in Nat
    BY <2>1
  <2>3. input \in Seq(M!Byte)
    BY <2>1, <2>2, SeqDef
  <2> QED BY <2>3 DEF M!Init
<1>2. MetricsInv => M!TypeOK /\ M!OnlyZerosGo
  BY MetricsTypes, SameOrder DEF MetricsInv
<1> QED BY <1>1, <1>2, MetricsNext, PTL DEF M!Spec

-----------------------------------------------------------------------------
(* Records: the types.                                                     *)

\* What add_rdata leaves of CNAMEs in a record set.
OneCName(f) == "CNAME" \in DOMAIN f => Len(f["CNAME"]) <= 1

Injective(f) == \A i, j \in DOMAIN f : f[i] = f[j] => i = j

RecordTypes ==
    /\ at \in {"file", "table", "array", "loaded", "failed"}
    /\ names \in Seq(C!RecordNames) /\ Injective(names)
    /\ name \in C!Names /\ type \in C!Types /\ set \in Seq(C!Data) /\ Injective(set)
    /\ DOMAIN table \subseteq C!Types /\ OneCName(table)
    /\ DOMAIN res \subseteq C!Names
    /\ \A n \in DOMAIN res : DOMAIN res[n] \subseteq C!Types /\ OneCName(res[n])
    /\ type = "CNAME" => Len(set) <= 1

LEMMA AppendNew ==
    ASSUME NEW S, NEW s \in Seq(S), NEW e \in S, Injective(s), e \notin C!Range(s),
           NEW t, t = Append(s, e)
    PROVE  t \in Seq(S) /\ Injective(t)
<1> DEFINE n == Len(s)
<1>1. /\ t \in Seq(S) /\ Len(t) = n + 1 /\ n \in Nat
      /\ \A i \in 1..n : t[i] = s[i]
      /\ t[n + 1] = e
  BY AppendProperties, LenProperties
<1>2. DOMAIN s = 1..n /\ DOMAIN t = 1..(n + 1)
  BY <1>1, LenProperties
<1>3. \A i \in 1..n : s[i] # e
  BY <1>2 DEF C!Range
<1>4. \A i, j \in 1..n : s[i] = s[j] => i = j
  BY <1>2 DEF Injective
<1> HIDE DEF n
<1>5. \A i, j \in 1..(n + 1) : t[i] = t[j] => i = j
  <2> TAKE i, j \in 1..(n + 1)
  <2>1. /\ i \in 1..n \/ i = n + 1
        /\ j \in 1..n \/ j = n + 1
    BY <1>1
  <2> QED BY <1>1, <1>3, <1>4, <2>1
<1>6. Injective(t)
  BY <1>2, <1>5 DEF Injective
<1>7. t \in Seq(S)
  BY <1>1
<1> QED BY <1>6, <1>7

LEMMA RecordTypesInit == C!Init => RecordTypes
<1> SUFFICES ASSUME C!Init PROVE RecordTypes
  OBVIOUS
<1>1. /\ at = "file" /\ names = <<>> /\ type = "A" /\ set = <<>>
      /\ table = <<>> /\ res = <<>> /\ name = CHOOSE n \in C!Names : TRUE
  BY DEF C!Init, C!Empty
<1>2. C!Names # {}
  <2>1. PICK l \in Labels : TRUE
    BY SomeLabels
  <2>2. [label |-> l, fqdn |-> TRUE] \in C!Names
    BY <2>1 DEF C!Names
  <2> QED BY <2>2
<1>3. name \in C!Names
  BY <1>1, <1>2
<1>4. \A S : <<>> \in Seq(S) /\ DOMAIN <<>> = {} /\ Injective(<<>>) /\ Len(<<>>) = 0
  BY EmptySeq DEF Injective
<1> QED BY <1>1, <1>3, <1>4 DEF RecordTypes, C!Types, OneCName

LEMMA RecordTypesStep == RecordTypes /\ [C!Next]_(C!vars) => RecordTypes'
<1> SUFFICES ASSUME RecordTypes, [C!Next]_(C!vars) PROVE RecordTypes'
  OBVIOUS
<1>0. \A S : <<>> \in Seq(S) /\ DOMAIN <<>> = {} /\ Injective(<<>>) /\ Len(<<>>) = 0
  BY EmptySeq DEF Injective
<1>1. ASSUME C!Fail PROVE RecordTypes'
  BY <1>1 DEF C!Fail, RecordTypes
<1>2. CASE C!NextName
  <2>1. ASSUME NEW k \in C!RecordNames \ C!Range(names),
               at' = "table", names' = Append(names, k),
               name' = C!NameOf(k), table' = C!Empty, UNCHANGED <<type, set, res, listed>>
        PROVE  RecordTypes'
    <3>1. names' \in Seq(C!RecordNames) /\ Injective(names)'
      <4>1. names \in Seq(C!RecordNames) /\ Injective(names)
        BY DEF RecordTypes
      <4>2. k \in C!RecordNames /\ k \notin C!Range(names) /\ names' = Append(names, k)
        BY <2>1
      <4>3. names' \in Seq(C!RecordNames) /\ Injective(names')
        BY <4>1, <4>2, AppendNew
      <4> QED BY <4>3 DEF Injective
    <3>2. name' \in C!Names
      BY <2>1 DEF C!NameOf, C!Names, C!RecordNames
    <3>3. DOMAIN table' = {}
      BY <1>0, <2>1 DEF C!Empty
    <3> QED BY <2>1, <3>1, <3>2, <3>3 DEF RecordTypes, OneCName, Injective
  <2> QED BY <1>1, <1>2, <2>1 DEF C!NextName
<1>3. CASE C!NextType
  <2>1. ASSUME NEW t \in C!Types \ DOMAIN table,
               at' = "array", type' = t, set' = <<>>, UNCHANGED <<names, name, table, res>>
        PROVE  RecordTypes'
    <3>1. set' \in Seq(C!Data) /\ Injective(set)' /\ Len(set') = 0
      BY <1>0, <2>1 DEF Injective
    <3> QED BY <2>1, <3>1 DEF RecordTypes, OneCName, Injective
  <2> QED BY <1>1, <1>3, <2>1 DEF C!NextType
<1>4. CASE C!NextData
  <2>1. ASSUME NEW d \in C!Data, type = "CNAME" \/ d \notin C!Range(set),
               set' = C!AddRData(set, type, d), UNCHANGED <<at, names, name, type, table, res>>
        PROVE  RecordTypes'
    <3>1. set \in Seq(C!Data) /\ Injective(set)
      BY DEF RecordTypes
    <3>2. CASE type = "CNAME"
      <4>1. set' = <<d>>
        BY <2>1, <3>2 DEF C!AddRData
      <4>2. <<d>> \in Seq(C!Data) /\ Len(<<d>>) = 1 /\ DOMAIN <<d>> = {1}
        OBVIOUS
      <4>3. Injective(<<d>>)
        BY <4>2 DEF Injective
      <4>4. set' \in Seq(C!Data) /\ Injective(set)' /\ Len(set') <= 1
        BY <4>1, <4>2, <4>3 DEF Injective
      <4> QED BY <2>1, <4>4 DEF RecordTypes, OneCName, Injective
    <3>3. CASE type # "CNAME"
      <4>1. set' = Append(set, d)
        BY <2>1, <3>3 DEF C!AddRData
      <4>2. set' \in Seq(C!Data) /\ Injective(set)'
        <5>1. d \in C!Data /\ d \notin C!Range(set)
          BY <2>1, <3>3
        <5>2. set' \in Seq(C!Data) /\ Injective(set')
          BY <3>1, <4>1, <5>1, AppendNew
        <5> QED BY <5>2 DEF Injective
      <4> QED BY <2>1, <3>3, <4>2 DEF RecordTypes, OneCName, Injective
    <3> QED BY <3>2, <3>3
  <2> QED BY <1>1, <1>4, <2>1 DEF C!NextData
<1>5. CASE C!EndArray
  <2>1. DOMAIN table' = DOMAIN table \cup {type}
        /\ \A t \in DOMAIN table' : table'[t] = IF t = type THEN set ELSE table[t]
    BY <1>5 DEF C!EndArray, C!With
  <2>2. DOMAIN table' \subseteq C!Types /\ OneCName(table)'
    BY <2>1 DEF RecordTypes, OneCName
  <2> QED BY <1>5, <2>2 DEF C!EndArray, RecordTypes, OneCName, Injective
<1>6. CASE C!EndTable
  <2>1. DOMAIN res' = DOMAIN res \cup {name}
        /\ \A n \in DOMAIN res' : res'[n] = IF n = name THEN table ELSE res[n]
    BY <1>6 DEF C!EndTable, C!Insert, C!With
  <2>2. DOMAIN res' \subseteq C!Names
        /\ \A n \in DOMAIN res' : DOMAIN res'[n] \subseteq C!Types /\ OneCName(res'[n])
    BY <2>1 DEF RecordTypes
  <2> QED BY <1>6, <2>2 DEF C!EndTable, RecordTypes, OneCName, Injective
<1>7. CASE C!EndFile
  BY <1>7 DEF C!EndFile, RecordTypes, OneCName, Injective
<1>8. CASE UNCHANGED C!vars
  BY <1>8 DEF C!vars, RecordTypes, OneCName, Injective
<1> QED BY <1>2, <1>3, <1>4, <1>5, <1>6, <1>7, <1>8 DEF C!Next

\* The record sets have their types, and at most one CNAME each.
THEOREM RecordTypesCorrect == C!Spec => []C!TypeOK
<1>1. RecordTypes => C!TypeOK
  BY DEF RecordTypes, OneCName, Injective, C!TypeOK, C!Range, C!IsInjective
<1> QED BY <1>1, RecordTypesInit, RecordTypesStep, PTL DEF C!Spec

-----------------------------------------------------------------------------
(* Util, for any width: 2^63 is one of the values of Half.                 *)

\* to_u64 inverts to_i64, and the other way round: nothing is lost either way.
THEOREM RoundTrip ==
    /\ \A v \in U64 : to_i64(v) \in I64 /\ to_u64(to_i64(v)) = v
    /\ \A c \in I64 : to_u64(c) \in U64 /\ to_i64(to_u64(c)) = c
BY HalfIsPositive DEF U64, I64, to_i64, to_u64

\* Distinct realms have distinct columns.
THEOREM RealmsApart == \A v, w \in U64 : to_i64(v) = to_i64(w) => v = w
BY RoundTrip

\* The column has what was written, and an error is converted or not.
UtilInv ==
    /\ written \subseteq U64 /\ column = {to_i64(v) : v \in written}
    /\ got # NoError => err \in Errors /\ got = error(err, got.target)

LEMMA UtilStep == UtilInv /\ err \in Errors /\ [UtilNext]_utilvars => UtilInv' /\ err' \in Errors
<1> SUFFICES ASSUME UtilInv, err \in Errors, [UtilNext]_utilvars
             PROVE  UtilInv' /\ err' \in Errors
  OBVIOUS
<1>1. CASE UNCHANGED utilvars
  BY <1>1 DEF UtilInv, utilvars
<1>2. ASSUME NEW v \in U64, Store(v)
      PROVE  UtilInv' /\ err' \in Errors
  BY <1>2 DEF UtilInv, Store
<1>3. ASSUME NEW E \in Targets, Convert(E)
      PROVE  UtilInv' /\ err' \in Errors
  BY <1>3 DEF UtilInv, Convert, error, AsIs, Wrapped
<1> QED BY <1>1, <1>2, <1>3 DEF UtilNext

LEMMA UtilHolds == UtilInv => UtilTypeOK /\ ReadBack /\ OrderKept /\ KindKept
<1> SUFFICES ASSUME UtilInv PROVE UtilTypeOK /\ ReadBack /\ OrderKept /\ KindKept
  OBVIOUS
<1>1. UtilTypeOK /\ ReadBack
  BY RoundTrip DEF UtilInv, UtilTypeOK, ReadBack
<1>2. OrderKept
  BY DEF OrderKept, to_i64
<1>3. KindKept
  BY DEF UtilInv, KindKept, error, AsIs, Wrapped, Errors
<1> QED BY <1>1, <1>2, <1>3

\* Every u64 comes back out of a bigint, start_cert compares times in the order of the
\* clock, and error unwraps what it can, whatever carried it.
THEOREM ValuesAndErrorsKept == UtilSpec => [](UtilTypeOK /\ ReadBack /\ OrderKept /\ KindKept)
<1> DEFINE Inv == UtilInv /\ err \in Errors
<1>1. UtilInit => Inv
  BY DEF UtilInit, UtilInv
<1>2. Inv /\ [UtilNext]_utilvars => Inv'
  BY UtilStep
<1>3. Inv => UtilTypeOK /\ ReadBack /\ OrderKept /\ KindKept
  BY UtilHolds
<1> QED BY <1>1, <1>2, <1>3, PTL DEF UtilSpec

-----------------------------------------------------------------------------
(* All of it.                                                              *)

LEMMA PartsBehave == DataSpec => Spec /\ C!Spec
<1>1. DataInit => Init /\ C!Init
  BY DEF DataInit
<1>2. [DataNext]_datavars => [Next]_vars /\ [C!Next]_(C!vars)
  BY DEF DataNext, datavars, recordvars, C!vars
<1> QED BY <1>1, <1>2, PTL DEF DataSpec, Spec, C!Spec

OthersInv == MetricsInv /\ UtilInv /\ (part = "util" => err \in Errors)

LEMMA OthersHold == DataSpec => []OthersInv
<1>1. DataInit => OthersInv
  <2> SUFFICES ASSUME DataInit PROVE OthersInv
    OBVIOUS
  <2>1. input \in Seq(M!Byte) /\ data = input /\ kept = <<>>
    <3>1. CASE M!Init
      <4>1. PICK n \in 0..MaxLength : input \in [1..n -> M!Byte]
        BY <3>1 DEF M!Init
      <4>2. input \in Seq(M!Byte)
        BY <4>1, SeqDef
      <4> QED BY <3>1, <4>2 DEF M!Init
    <3>2. CASE input = <<>> /\ data = <<>> /\ kept = <<>>
      BY <3>2, EmptySeq
    <3> QED BY <3>1, <3>2 DEF DataInit
  <2>2. UtilInv /\ (part = "util" => err \in Errors)
    BY DEF DataInit, UtilInit, UtilInv
  <2> QED BY <2>1, <2>2, MetricsInit DEF OthersInv
<1>2. OthersInv /\ [DataNext]_datavars => OthersInv'
  <2> SUFFICES ASSUME OthersInv, [DataNext]_datavars PROVE OthersInv'
    OBVIOUS
  <2>1. [M!Next]_(M!vars) /\ part' = part
    BY DEF DataNext, datavars, metricvars, M!vars
  <2>2. UNCHANGED utilvars \/ (part = "util" /\ UtilNext)
    BY DEF DataNext, datavars
  <2>3. MetricsInv'
    BY <2>1, MetricsNext DEF OthersInv
  <2>4. CASE UNCHANGED utilvars
    <3>1. UtilInv' /\ err' = err
      BY <2>4 DEF OthersInv, UtilInv, utilvars
    <3> QED BY <2>1, <2>3, <3>1 DEF OthersInv
  <2>5. CASE part = "util" /\ UtilNext
    BY <2>3, <2>5, UtilStep DEF OthersInv
  <2> QED BY <2>2, <2>4, <2>5
<1> QED BY <1>1, <1>2, PTL DEF DataSpec

\* The table acme, the columns, the record sets and the text have their types.
THEOREM DataTypesCorrect == DataSpec => []TypesOK
<1>1. TypeOK /\ C!TypeOK /\ OthersInv => TypesOK
  BY UtilHolds, MetricsTypes DEF OthersInv, MetricsInv, TypesOK
<1> QED BY <1>1, PartsBehave, TypeCorrect, RecordTypesCorrect, OthersHold, PTL

\* Of the table [records], ServedAsListed of the run.
THEOREM NamesServedAsListed == DataSpec => []ServedAsListed
<1>1. C!ServedAsListed => ServedAsListed
  BY DEF ServedAsListed
<1> QED BY <1>1, PartsBehave, FileIsServed, PTL

\* Of the text of the metrics, OnlyZerosGo of the run.
THEOREM LinesWithZeroGo == DataSpec => []OnlyZerosGo
<1>1. OthersInv => OnlyZerosGo
  BY SameOrder DEF OthersInv, MetricsInv, OnlyZerosGo
<1> QED BY <1>1, OthersHold, PTL

\* Of the columns and the errors, ReadBack and KindKept of the run.
THEOREM ColumnsAndErrorsHold == DataSpec => []ReadBack /\ []KindKept
<1>1. OthersInv => ReadBack /\ KindKept
  BY UtilHolds DEF OthersInv
<1> QED BY <1>1, OthersHold, PTL
=============================================================================
