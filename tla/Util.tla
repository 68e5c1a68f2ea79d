-------------------------------- MODULE Util --------------------------------
(***************************************************************************)
(* src/util.rs: a u64 in a bigint column, and what error makes of errors   *)
(* on their way through signatures that others wrote.                      *)
(*                                                                         *)
(* The column is update of cert, which start_cert compares with the clock, *)
(* or realm of acme, which keeps apart what different directories store.   *)
(***************************************************************************)
EXTENDS Integers

CONSTANT Half   \* 2^63

ASSUME HalfIsPositive == Half \in Nat \ {0}

VARIABLES
    written,   \* history: the values written
    column,    \* what the column holds of them
    err,       \* an error
    got        \* what error made of it

utilvars == <<written, column, err, got>>

U64 == 0..(2 * Half - 1)
I64 == (-Half)..(Half - 1)

\* A plausible bug: i64::try_from(val).unwrap_or(i64::MAX).
to_i64_saturating(v) == IF v < Half THEN v ELSE Half - 1

\* The same bytes, read as the other type: two's complement.
to_i64(v) == IF v < Half THEN v ELSE v - 2 * Half
to_u64(c) == IF c >= 0 THEN c ELSE c + 2 * Half

-----------------------------------------------------------------------------
(* Errors: a type, the kind of an IoError, and what an anyhow error holds. *)

Kinds   == {"NotFound", "Other", "Interrupted"}
Targets == {"acme_lib", "lookup", "io"}             \* E, with From<IoError>
Plain   == [type : Targets \ {"io"}, kind : {"-"}] \cup [type : {"io"}, kind : Kinds]
             \cup [type : {"sqlx"}, kind : {"-"}]
Errors  == [holds : Plain, anyhow : BOOLEAN]

NoError == [target |-> "none", e |-> [type |-> "none", kind |-> "-"]]

\* IoError::new(ErrorKind::Other, e), and From<IoError> of E.
Wrapped(E, e) == [target |-> E, e |-> [type |-> "io", kind |-> "Other"]]
AsIs(E, e)    == [target |-> E, e |-> e]

\* A plausible bug: there is no case for anyhow errors.
error_no_anyhow(x, E) ==
    IF ~x.anyhow /\ x.holds.type \in {E, "io"} THEN AsIs(E, x.holds) ELSE Wrapped(E, x)

\* E itself; an IoError; what an anyhow error holds, if that is one of these; or all of
\* it in an IoError.
error(x, E) ==
    IF ~x.anyhow
    THEN IF x.holds.type \in {E, "io"} THEN AsIs(E, x.holds) ELSE Wrapped(E, x)
    ELSE IF x.holds.type = E THEN AsIs(E, x.holds)
    ELSE IF x.holds.type = "io" THEN AsIs(E, x.holds)
    ELSE Wrapped(E, x)

-----------------------------------------------------------------------------

UtilInit == /\ written = {} /\ column = {}
        /\ err \in Errors /\ got = NoError

Store(v) ==
    /\ written' = written \cup {v} /\ column' = column \cup {to_i64(v)}
    /\ UNCHANGED <<err, got>>

Convert(E) ==
    /\ got' = error(err, E)
    /\ UNCHANGED <<written, column, err>>

UtilNext == (\E v \in U64 : Store(v)) \/ (\E E \in Targets : Convert(E))

UtilSpec == UtilInit /\ [][UtilNext]_utilvars

-----------------------------------------------------------------------------
(* Properties.                                                             *)

UtilTypeOK == written \subseteq U64 /\ column \subseteq I64

\* What comes out of the column is what was written, for every u64: no two realms, and no
\* two times, become one in there.
ReadBack == {to_u64(c) : c \in column} = written

\* Times are compared in the column: their order is that of the clock, until 2^63.
OrderKept == \A v, w \in written : v < Half /\ w < Half => (v < w <=> to_i64(v) < to_i64(w))

\* The error the caller can act on comes out, however it was carried: E itself, or the
\* kind of an IoError (the NotFound of the DNS); only what is neither is put into one.
KindKept ==
    got # NoError =>
        IF err.holds.type \in {got.target, "io"} THEN got.e = err.holds
        ELSE got.e = [type |-> "io", kind |-> "Other"]
=============================================================================
