-------------------------------- MODULE Pool --------------------------------
(***************************************************************************)
(* The connection pool of src/lib.rs as the facades use it.  A statement   *)
(* needs one connection; start_cert and put hold one for their             *)
(* transaction; stop_cert holds one for its transaction and asks for       *)
(* another, because its update_cert goes through the pool.  sqlx hands     *)
(* connections out in the order they were asked for, and gives up on one   *)
(* that was not to be had in time.                                         *)
(***************************************************************************)
EXTENDS Naturals, Sequences, FiniteSets

CONSTANTS
    Size,       \* max_connections
    Callers,    \* tasks and blocking threads that use the pool
    Stoppers    \* those that may call stop_cert: the renewal job

ASSUME PoolSize == Size \in Nat \ {0}
ASSUME FewCallers == IsFiniteSet(Callers) /\ Stoppers \subseteq Callers

VARIABLES
    op,      \* the call of a caller
    pc,      \* how far it got
    queue    \* who waits for a connection, the first to be served first

vars == <<op, pc, queue>>

Ops(c) == {"statement", "transaction"} \cup (IF c \in Stoppers THEN {"stop_cert"} ELSE {})

At(S) == {c \in Callers : pc[c] \in S}

\* Connections in use: one for each caller that holds any, another for the second.
InUse == Cardinality(At({"one", "second", "two", "last"})) + Cardinality(At({"two"}))

TypeOK ==
    /\ op \in [Callers -> {"none", "statement", "transaction", "stop_cert"}]
    /\ pc \in [Callers -> {"idle", "first", "one", "second", "two", "last"}]
    /\ queue \in Seq(Callers)
    /\ InUse <= Size

Init ==
    /\ op = [c \in Callers |-> "none"]
    /\ pc = [c \in Callers |-> "idle"]
    /\ queue = <<>>

Goto(c, l) == pc' = [pc EXCEPT ![c] = l]

Call(c) ==
    /\ pc[c] = "idle"
    /\ \E o \in Ops(c) : op' = [op EXCEPT ![c] = o]
    /\ Goto(c, "first")
    /\ queue' = Append(queue, c)

\* A plausible bug: start_cert updates through the pool, too.
AskAgainInTransactions(c) ==
    /\ pc[c] = "one" /\ op[c] \in {"transaction", "stop_cert"}
    /\ Goto(c, "second")
    /\ queue' = Append(queue, c)
    /\ UNCHANGED op

\* stop_cert with the job still its own: update_cert(&self.pool).
AskAgain(c) ==
    /\ pc[c] = "one" /\ op[c] = "stop_cert"
    /\ Goto(c, "second")
    /\ queue' = Append(queue, c)
    /\ UNCHANGED op

\* A plausible bug: a connection in use is not counted.
AcquireOneMore(c) ==
    /\ queue # <<>> /\ c = Head(queue) /\ InUse <= Size
    /\ Goto(c, IF pc[c] = "first" THEN "one" ELSE "two")
    /\ queue' = Tail(queue)
    /\ UNCHANGED op

Acquire(c) ==
    /\ queue # <<>> /\ c = Head(queue) /\ InUse < Size
    /\ Goto(c, IF pc[c] = "first" THEN "one" ELSE "two")
    /\ queue' = Tail(queue)
    /\ UNCHANGED op

\* The update is done, its connection back in the pool; the transaction is still open.
Release(c) ==
    /\ pc[c] = "two"
    /\ Goto(c, "last")
    /\ UNCHANGED <<op, queue>>

\* Done, committed or rolled back.
Return(c) ==
    /\ pc[c] \in {"one", "last"}
    /\ op' = [op EXCEPT ![c] = "none"]
    /\ Goto(c, "idle")
    /\ UNCHANGED queue

\* PoolTimedOut: the call fails, its transaction is rolled back.
TimeOut(c) ==
    /\ \E i \in 1..Len(queue) :
          /\ queue[i] = c
          /\ queue' = [j \in 1..(Len(queue) - 1) |-> queue[IF j < i THEN j ELSE j + 1]]
    /\ op' = [op EXCEPT ![c] = "none"]
    /\ Goto(c, "idle")

Next == \E c \in Callers : Call(c) \/ AskAgain(c) \/ Acquire(c) \/ Release(c) \/ Return(c) \/ TimeOut(c)

Spec == Init /\ [][Next]_vars

\* Statements return and free connections are handed out; nobody has to time out.
FairSpec ==
    /\ Spec
    /\ \A c \in Callers : WF_vars(Acquire(c)) /\ WF_vars(Release(c)) /\ WF_vars(Return(c))

-----------------------------------------------------------------------------
(* Properties.                                                             *)

\* While fewer callers than connections may call stop_cert (this program has one renewal
\* job and five connections), those that wait never wait for each other only: a
\* connection is free, or somebody has all that it needs.
NeverStuck ==
    Cardinality(Stoppers) < Size /\ At({"first", "second"}) # {} =>
        InUse < Size \/ At({"one", "two", "last"}) # {}

\* Then every call ends, without any help of the time-out: stop_cert is not overtaken
\* for ever by the statements of the DNS and the API.
EveryCallEnds == \A c \in Callers : (pc[c] # "idle") ~> (pc[c] = "idle")
=============================================================================
