------------------------------ MODULE Metrics ------------------------------
(***************************************************************************)
(* remove_zero_metrics of src/api/metrics.rs, over bytes: the loop reads a *)
(* line onto the end of its result and cuts it off again when the result   *)
(* then ends in a zero.  A byte is one of the four that the loop tells     *)
(* apart.                                                                  *)
(***************************************************************************)
EXTENDS Integers, Sequences, FiniteSets, SequencesExt

CONSTANT MaxLength   \* bound: the length of the data

VARIABLES
    input,   \* what the encoder wrote
    data,    \* what is left to read
    res      \* what metrics_handler answers

vars == <<input, data, res>>

Byte == {"space", "0", "\n", "x"}

\* A plausible bug: a value that ends in a zero counts as one.
EndsInZeroDigit(s) == IsSuffix(<<"0", "\n">>, s) \/ IsSuffix(<<"0">>, s)

EndsInZero(s) == IsSuffix(<<"space", "0", "\n">>, s) \/ IsSuffix(<<"space", "0">>, s)

\* res.truncate(res.len() - len)
Truncate(s, len) == SubSeq(s, 1, Len(s) - len)

\* What read_until takes: all up to the first line break, or to the end.
LineLength(s) ==
    IF \E i \in DOMAIN s : s[i] = "\n"
    THEN CHOOSE i \in DOMAIN s : s[i] = "\n" /\ \A j \in 1..(i - 1) : s[j] # "\n"
    ELSE Len(s)

TypeOK == /\ input \in Seq(Byte) /\ data \in Seq(Byte) /\ res \in Seq(Byte)
          /\ IsSuffix(data, input) /\ Len(res) + Len(data) <= Len(input)
          /\ res # <<>> /\ data # <<>> => Last(res) = "\n"

Init == /\ input \in UNION {[1..n -> Byte] : n \in 0..MaxLength}
        /\ data = input /\ res = <<>>

ReadLine ==
    /\ data # <<>>
    /\ LET len  == LineLength(data)
           read == res \o SubSeq(data, 1, len)
       IN  /\ res' = IF EndsInZero(read) THEN Truncate(read, len) ELSE read
           /\ data' = SubSeq(data, len + 1, Len(data))
    /\ UNCHANGED input

Next == ReadLine

Spec == Init /\ [][Next]_vars

-----------------------------------------------------------------------------
(* Properties.                                                             *)

\* The line around position i, and its text without the line break.
First(i) == CHOOSE f \in 1..i : /\ \A j \in f..(i - 1) : input[j] # "\n"
                                /\ f = 1 \/ input[f - 1] = "\n"
Final(i) == First(i) + LineLength(SubSeq(input, First(i), Len(input))) - 1
Text(i)  == SubSeq(input, First(i), IF input[Final(i)] = "\n" THEN Final(i) - 1 ELSE Final(i))

\* What the first n bytes leave: those of lines whose value is not a zero.
Stay(n) == {i \in 1..n : ~IsSuffix(<<"space", "0">>, Text(i))}

\* Every line with a zero goes, break and all, and no other: not the one before it, on
\* whose end the loop looks as well, and not a 10 or the last line without a break.  What
\* stays keeps its order.
OnlyZerosGo ==
    LET stay == Stay(Len(input) - Len(data)) IN
    /\ Len(res) = Cardinality(stay)
    /\ \A i \in stay : res[Cardinality({j \in stay : j <= i})] = input[i]
=============================================================================
