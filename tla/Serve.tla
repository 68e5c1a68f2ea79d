------------------------------- MODULE Serve -------------------------------
(***************************************************************************)
(* One listener: serve of src/api/mod.rs over the streams of proxy::wrap   *)
(* and tls::wrap.  An item of the stream is a future; everything that is   *)
(* slow about a connection happens in there, on a task of its own.         *)
(*                                                                         *)
(* accept fails for the connection itself, or because no descriptor is     *)
(* free.  The loop then asks again at once, which changes nothing until a  *)
(* connection ends: Accept has to wait for a descriptor.                   *)
(***************************************************************************)
EXTENDS Integers, Sequences, FiniteSets

CONSTANTS
    Conns,      \* bound: the connections
    Hanging,    \* those whose peer never finishes anything
    MaxFds      \* the descriptors there are for connections

VARIABLES
    backlog,    \* who waits for accept, in the order of the kernel
    conn,       \* the state of each connection
    total,      \* TCP_TOTAL_CONNECTION_COUNTER
    open        \* TCP_OPEN_CONNECTION_COUNTER

vars == <<backlog, conn, total, open>>

In(S) == {c \in Conns : conn[c] \in S}

Running == In({"handshake", "serving"})

TypeOK ==
    /\ backlog \in Seq(Conns) /\ \A i \in 1..Len(backlog) : conn[backlog[i]] = "waiting"
    /\ conn \in [Conns -> {"new", "waiting", "aborted", "handshake", "serving", "closed", "panicked"}]
    /\ total \in Nat /\ open \in Nat

Init ==
    /\ backlog = <<>> /\ conn = [c \in Conns |-> "new"]
    /\ total = 0 /\ open = 0

Becomes(c, s) == conn' = [conn EXCEPT ![c] = s]

Connect(c) ==
    /\ conn[c] = "new"
    /\ Becomes(c, "waiting") /\ backlog' = Append(backlog, c)
    /\ UNCHANGED <<total, open>>

\* A plausible bug: the loop prepares a connection before it goes on.
AcceptInTurn(c) ==
    /\ backlog # <<>> /\ c = Head(backlog) /\ Cardinality(Running) < MaxFds
    /\ In({"handshake"}) = {}
    /\ Becomes(c, "handshake") /\ backlog' = Tail(backlog)
    /\ total' = total + 1 /\ open' = open + 1

\* Some(Ok(conn)): both counters, then a task.
Accept(c) ==
    /\ backlog # <<>> /\ c = Head(backlog) /\ Cardinality(Running) < MaxFds
    /\ Becomes(c, "handshake") /\ backlog' = Tail(backlog)
    /\ total' = total + 1 /\ open' = open + 1

\* Some(Err(err)): the peer is gone already; log and continue.
AcceptFails(c) ==
    /\ backlog # <<>> /\ c = Head(backlog)
    /\ Becomes(c, "aborted") /\ backlog' = Tail(backlog)
    /\ UNCHANGED <<total, open>>

\* conn.await: the real address and the TLS handshake.
Prepared(c) ==
    /\ conn[c] = "handshake" /\ Becomes(c, "serving")
    /\ UNCHANGED <<backlog, total, open>>

\* A plausible bug: the gauge goes down behind the `?`s of the task.
FailsUncounted(c) ==
    /\ conn[c] \in {"handshake", "serving"}
    /\ Becomes(c, "closed")
    /\ UNCHANGED <<backlog, total, open>>

\* Err of conn.await or of serve_connection: inspect_err, then inspect.
Fails(c) ==
    /\ conn[c] \in {"handshake", "serving"}
    /\ Becomes(c, "closed") /\ open' = open - 1
    /\ UNCHANGED <<backlog, total>>

\* serve_connection is done.
Served(c) ==
    /\ conn[c] = "serving"
    /\ Becomes(c, "closed") /\ open' = open - 1
    /\ UNCHANGED <<backlog, total>>

\* The task unwinds: its future is dropped and never ends, and inspect never runs.
Panics(c) ==
    /\ conn[c] \in {"handshake", "serving"}
    /\ Becomes(c, "panicked")
    /\ UNCHANGED <<backlog, total, open>>

Next ==
    \E c \in Conns :
        \/ Connect(c) \/ Accept(c) \/ AcceptFails(c)
        \/ Prepared(c) \/ Fails(c) \/ Served(c) \/ Panics(c)

Spec == Init /\ [][Next]_vars

\* The loop and the tasks are polled.  A connection ends when its peer lets it, for
\* nothing in the code times out: all but those that hang do.
FairSpec ==
    /\ Spec
    /\ \A c \in Conns : WF_vars(Accept(c))
    /\ \A c \in Conns \ Hanging : WF_vars(Prepared(c)) /\ WF_vars(Served(c))

-----------------------------------------------------------------------------
(* Properties.                                                             *)

\* The description of the gauge: "Amount of currently open TCP Connections".
GaugeIsOpen == open = Cardinality(Running)

\* What the gauge and the counter really say.  A connection whose task panicked stays in
\* the gauge for ever, and nothing else is ever miscounted.
GaugeKeepsPanicked ==
    /\ open = Cardinality(Running) + Cardinality(In({"panicked"}))
    /\ total = Cardinality(In({"handshake", "serving", "closed", "panicked"}))

\* Peers that never finish a header, a handshake or a request keep nobody waiting, as
\* long as they do not hold every descriptor.
NobodyWaits ==
    Cardinality(Hanging) < MaxFds =>
        \A c \in Conns : (conn[c] = "waiting") ~> (conn[c] # "waiting")
=============================================================================
