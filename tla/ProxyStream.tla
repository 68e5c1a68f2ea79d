---------------------------- MODULE ProxyStream ----------------------------
(***************************************************************************)
(* One accepted connection of src/api/proxy.rs: the future of real_addr,   *)
(* which reads the PROXY protocol header, and the AsyncRead that serves    *)
(* what it read ahead and then the socket.  The task is polled when it is  *)
(* woken: a poll that returns Pending without leaving its waker with the   *)
(* socket is not repeated when bytes arrive.                               *)
(*                                                                         *)
(* The stream is the positions 1..Length, the header the first headerLen.  *)
(* ppp, the socket and the reader of the stream are external: ppp says     *)
(* Incomplete of a part of a header and Failure of anything else, a read   *)
(* returns what has arrived as far as the buffer has room, and a reader    *)
(* that gets Pending drops its buffer, as hyper and rustls do.             *)
(***************************************************************************)
EXTENDS Integers, Sequences

CONSTANTS
    HeaderLens,  \* the lengths of headers: one of version 2 takes extensions of any length
    BufferSize,  \* what source reserves for data: 256 bytes
    Length,      \* bound: the length of the stream
    MaxRewakes   \* bound: polls for the other future of try_join!, in tls::wrap

NoData == -1     \* data is None

VARIABLES
    head,        \* what the peer sends first: never changes
    headerLen,   \* how long its header is: never changes
    sent,        \* how much has arrived
    ended,       \* how the peer's side stands
    taken,       \* how much was read from the socket
    data,        \* how much of it is in data, or NoData
    capacity,    \* of the Vec that data is
    start,       \* start_of_data
    phase,       \* the future of real_addr, then the reads, or neither
    addr,        \* what real_addr returned
    woken,       \* the executor will poll the task
    waker,       \* the socket has the task's waker
    rewakes,     \* polls on behalf of the other future
    delivered,   \* the positions the reader got
    ahead        \* history: how much had been read when real_addr returned

vars == <<head, headerLen, sent, ended, taken, data, capacity, start, phase, addr, woken,
          waker, rewakes, delivered, ahead>>
peer   == <<head, headerLen>>
socket == <<peer, sent, ended>>

TypeOK ==
    /\ head \in {"valid", "unsupported", "garbage"}
    /\ headerLen \in HeaderLens /\ capacity \in Nat
    /\ sent \in 0..Length /\ taken \in 0..sent
    /\ ended \in {"open", "eof", "reset"}
    /\ data \in {NoData} \cup 0..taken /\ start \in 0..taken
    /\ phase \in {"addr", "read", "closed"}
    /\ addr \in {"pending", "none", "some", "failed"}
    /\ woken \in BOOLEAN /\ waker \in BOOLEAN /\ rewakes \in 0..MaxRewakes
    /\ delivered \in Seq(1..Length) /\ ahead \in 0..Length

\* source: data is Some when the listener's PROXY protocol is enabled.
Init ==
    /\ head \in {"valid", "unsupported", "garbage"}
    /\ headerLen \in HeaderLens
    /\ data \in {NoData, 0} /\ capacity = BufferSize
    /\ sent = 0 /\ ended = "open" /\ taken = 0 /\ start = 0
    /\ phase = "addr" /\ addr = "pending"
    /\ woken = TRUE /\ waker = FALSE /\ rewakes = 0
    /\ delivered = <<>> /\ ahead = 0

Positions(a, b) == [i \in 1..(b - a) |-> a + i]

-----------------------------------------------------------------------------
(* The peer and the executor.                                              *)

Notify == woken' = (woken \/ waker) /\ waker' = FALSE

Arrive ==
    /\ ended = "open"
    /\ sent' \in (sent + 1)..Length
    /\ Notify
    /\ UNCHANGED <<peer, ended, taken, data, capacity, start, phase, addr, rewakes, delivered, ahead>>

End ==
    /\ ended = "open"
    /\ ended' \in {"eof", "reset"}
    /\ Notify
    /\ UNCHANGED <<peer, sent, taken, data, capacity, start, phase, addr, rewakes, delivered, ahead>>

\* tls::wrap awaits real_addr and the acceptor in one task: progress of the latter
\* polls both.
Rewake ==
    /\ phase = "addr" /\ ~woken /\ rewakes < MaxRewakes
    /\ woken' = TRUE /\ rewakes' = rewakes + 1
    /\ UNCHANGED <<socket, taken, data, capacity, start, phase, addr, waker, delivered, ahead>>

\* What a read of the socket finds.
Bytes  == ended # "reset" /\ taken < sent
Empty  == ended = "open" /\ taken = sent
Eof    == ended = "eof" /\ taken = sent
Broken == ended = "reset"

Sleep == woken' = FALSE /\ waker' = TRUE

-----------------------------------------------------------------------------
(* RealAddrFuture::poll.  An error is logged by wrap, and the connection   *)
(* goes on.                                                                *)

Return(result, n) == phase' = "read" /\ addr' = result /\ ahead' = n

\* poll_read_buf reserves before it reads: a Vec that is full doubles.
Reserve == capacity' = IF data = capacity THEN 2 * capacity ELSE capacity

\* What it then appends to data has arrived, and fits.
Fill ==
    /\ Reserve
    /\ taken' = IF sent - taken <= capacity' - data THEN sent ELSE taken + (capacity' - data)
    /\ data' = data + (taken' - taken)

AddrDisabled ==
    /\ phase = "addr" /\ woken /\ data = NoData
    /\ Return("none", taken)
    /\ UNCHANGED <<socket, taken, data, capacity, start, woken, waker, rewakes, delivered>>

\* A plausible bug: Pending without a waker here, too.
AddrEmptyUnregistered ==
    /\ phase = "addr" /\ woken /\ data # NoData /\ Empty
    /\ Reserve /\ woken' = FALSE
    /\ UNCHANGED <<socket, taken, data, start, phase, addr, waker, rewakes, delivered, ahead>>

AddrEmpty ==
    /\ phase = "addr" /\ woken /\ data # NoData /\ Empty
    /\ Reserve /\ Sleep
    /\ UNCHANGED <<socket, taken, data, start, phase, addr, rewakes, delivered, ahead>>

AddrEnd ==
    /\ phase = "addr" /\ woken /\ data # NoData /\ (Eof \/ Broken)
    /\ Reserve /\ Return("failed", taken)
    /\ UNCHANGED <<socket, taken, data, start, woken, waker, rewakes, delivered>>

\* ppp::parse_header of the first n positions, and format_header.
Parsed(n) == IF head = "garbage" THEN "failure"
             ELSE IF n < headerLen THEN "incomplete" ELSE head

\* A plausible bug: the header stays in front of the data.
AddrBytesUnskipped ==
    /\ phase = "addr" /\ woken /\ data # NoData /\ Bytes
    /\ Fill
    /\ \/ /\ Parsed(data') = "incomplete"
          /\ woken' = FALSE
          /\ UNCHANGED <<start, phase, addr, ahead>>
       \/ /\ Parsed(data') # "incomplete"
          /\ Return(IF Parsed(data') = "valid" THEN "some" ELSE "failed", data')
          /\ UNCHANGED <<start, woken>>
    /\ UNCHANGED <<socket, waker, rewakes, delivered>>

\* poll_read_buf appended bytes; get_header parses all that is in data.  Incomplete
\* returns Pending, and the socket has no waker: its read was Ready, even if it has more.
AddrBytes ==
    /\ phase = "addr" /\ woken /\ data # NoData /\ Bytes
    /\ Fill
    /\ \/ /\ Parsed(data') = "incomplete"
          /\ woken' = FALSE
          /\ UNCHANGED <<start, phase, addr, ahead>>
       \/ /\ Parsed(data') = "failure"
          /\ Return("failed", data')
          /\ UNCHANGED <<start, woken>>
       \/ /\ Parsed(data') \in {"valid", "unsupported"}
          /\ start' = headerLen
          /\ Return(IF head = "valid" THEN "some" ELSE "failed", data')
          /\ UNCHANGED woken
    /\ UNCHANGED <<socket, waker, rewakes, delivered>>

-----------------------------------------------------------------------------
(* poll_read of ProxyStream: data is taken and put into the buffer, then   *)
(* the socket is asked for more.                                           *)

Ahead == IF data = NoData THEN <<>> ELSE Positions(start, data)

\* The reader's buffer has room for some of what has arrived, or for all.
ReadBytes ==
    /\ phase = "read" /\ woken /\ Bytes
    /\ taken' \in (taken + 1)..sent
    /\ delivered' = delivered \o Ahead \o Positions(taken, taken')
    /\ data' = NoData
    /\ UNCHANGED <<socket, capacity, start, phase, addr, woken, waker, rewakes, ahead>>

\* Pending: the buffer, with Ahead in it, is dropped.
ReadEmpty ==
    /\ phase = "read" /\ woken /\ Empty
    /\ data' = NoData
    /\ Sleep
    /\ UNCHANGED <<socket, taken, capacity, start, phase, addr, rewakes, delivered, ahead>>

ReadEnd ==
    /\ phase = "read" /\ woken /\ (Eof \/ Broken)
    /\ delivered' = IF Eof THEN delivered \o Ahead ELSE delivered
    /\ data' = NoData
    /\ phase' = IF Eof /\ Ahead # <<>> THEN "read" ELSE "closed"
    /\ UNCHANGED <<socket, taken, capacity, start, addr, woken, waker, rewakes, ahead>>

Poll == AddrDisabled \/ AddrEmpty \/ AddrEnd \/ AddrBytes \/ ReadBytes \/ ReadEmpty \/ ReadEnd

Next == Arrive \/ End \/ Rewake \/ Poll

Spec == Init /\ [][Next]_vars

\* The executor polls a task that is woken.  Nothing is assumed of the peer.
FairSpec == Spec /\ WF_vars(Poll)

-----------------------------------------------------------------------------
(* Properties.                                                             *)

\* What the reader got is the stream after the header, in order and without holes, up
\* to the last byte taken from the socket; if anything is missing, it is all of what
\* was read ahead with the header and nothing else.
ReadsStreamAfterHeader ==
    phase # "addr" /\ data = NoData =>
        \/ delivered = Positions(IF addr = "some" THEN headerLen ELSE start, taken)
        \/ delivered = Positions(ahead, taken)

\* A header that fits the buffer and has arrived in one piece is answered, and so is a
\* peer that left before its first byte: the first poll finds them or has left its waker.
\* (Of a header that does not fit, the first poll reads a part, and nobody asks for the rest.)
WholeHeaderAnswered ==
    /\ (phase = "addr" /\ taken = 0 /\ sent >= headerLen /\ headerLen <= BufferSize)
          ~> (phase # "addr")
    /\ (phase = "addr" /\ sent = 0 /\ ended # "open") ~> (phase # "addr")

\* test_header_parsing: what follows the header in the same read can be read.
NothingLost ==
    phase = "read" /\ data = NoData => delivered = Positions(start, taken)

\* test_incomplete: a stream that ends within the header is answered by an error.
TruncatedHeaderReported ==
    (phase = "addr" /\ ended = "eof" /\ sent < headerLen) ~> (phase # "addr")
=============================================================================
