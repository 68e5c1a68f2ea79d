--------------------------- MODULE TlsWrapProofs ---------------------------
(***************************************************************************)
(* Theorems about TlsWrap.  A connection implements the two components it  *)
(* is made of: all that is proved of TlsAcceptor holds beside a stream,    *)
(* and of every stream, whatever its length and the way it arrives, only   *)
(* what was read ahead can be missing.                                     *)
(***************************************************************************)
EXTENDS TlsWrap, TlsAcceptorProofs, SequenceTheorems

-----------------------------------------------------------------------------
(* The two components.                                                     *)

\* For the acceptor a step of the stream is no step.
LEMMA AcceptorStep == [WrapNext]_wrapvars => [Next]_vars
  BY OwnConnection
  DEF WrapNext, wrapvars, Peer, Poll, OwnBegin, OwnQuery, OwnLoad, Stores, Other, Next, LoadCert

\* A connection that also reads its stream does to the cache what TlsAcceptor allows.
THEOREM WrapImplementsAcceptor == WrapSpec => Spec
<1>1. WrapInit => Init
  BY DEF WrapInit
<1> QED BY <1>1, AcceptorStep, PTL DEF WrapSpec, Spec

\* What load_cert serves beside a stream is fresh enough.
THEOREM WrapServesFreshEnough == WrapSpec => []FreshEnough
  BY WrapImplementsAcceptor, ServesFreshEnough, PTL

\* The cache is not emptied by polls of the stream either.
THEOREM WrapEmptyOnlyAtFirst == WrapSpec => NeverEmptyAgain
  BY WrapImplementsAcceptor, EmptyOnlyAtFirst, PTL

\* For the stream a step of the acceptor is a poll, or no step.
LEMMA StreamStep == [WrapNext]_wrapvars => [stream!Next]_streamvars
  BY DEF WrapNext, wrapvars, Peer, Poll, OwnBegin, OwnQuery, PollStream, OwnLoad, Stores, Other,
         stream!Next

\* TLS reads its stream as ProxyStream says.
THEOREM WrapImplementsStream == WrapSpec => stream!Spec
<1>1. WrapInit => stream!Init
  BY DEF WrapInit
<1>2. [stream!Next]_streamvars <=> [stream!Next]_stream!vars
  BY DEF streamvars, stream!vars
<1> QED BY <1>1, <1>2, StreamStep, PTL DEF WrapSpec, stream!Spec

-----------------------------------------------------------------------------
(* Positions of a stream.                                                  *)

LEMMA PositionsType ==
    ASSUME NEW a \in Nat, NEW b \in Nat, a <= b, b <= Length
    PROVE  /\ stream!Positions(a, b) \in Seq(1..Length)
           /\ Len(stream!Positions(a, b)) = b - a
           /\ \A i \in 1..(b - a) : stream!Positions(a, b)[i] = a + i
<1>1. \A i \in 1..(b - a) : a + i \in 1..Length
  BY OwnConnection
<1> QED BY <1>1 DEF stream!Positions

\* Two pieces of the stream, one after the other.
LEMMA PositionsJoin ==
    ASSUME NEW a \in Nat, NEW b \in Nat, NEW c \in Nat, a <= b, b <= c, c <= Length
    PROVE  stream!Positions(a, b) \o stream!Positions(b, c) = stream!Positions(a, c)
<1> DEFINE front == stream!Positions(a, b)
           back == stream!Positions(b, c)
<1>0. b <= Length /\ a <= c
  BY OwnConnection
<1>1. front \in Seq(1..Length) /\ Len(front) = b - a /\ \A i \in 1..(b - a) : front[i] = a + i
  BY <1>0, PositionsType
<1>2. back \in Seq(1..Length) /\ Len(back) = c - b /\ \A i \in 1..(c - b) : back[i] = b + i
  BY <1>0, PositionsType
<1>3. /\ stream!Positions(a, c) \in Seq(1..Length) /\ Len(stream!Positions(a, c)) = c - a
      /\ \A i \in 1..(c - a) : stream!Positions(a, c)[i] = a + i
  BY <1>0, PositionsType
<1> HIDE DEF front, back
<1>4. /\ front \o back \in Seq(1..Length) /\ Len(front \o back) = c - a
      /\ \A i \in 1..(c - a) : (front \o back)[i] = a + i
  <2>1. /\ front \o back \in Seq(1..Length) /\ Len(front \o back) = Len(front) + Len(back)
        /\ \A i \in 1..(Len(front) + Len(back)) :
              (front \o back)[i] = IF i <= Len(front) THEN front[i] ELSE back[i - Len(front)]
    BY <1>1, <1>2, ConcatProperties
  <2>2. Len(front) + Len(back) = c - a
    BY <1>1, <1>2
  <2>3. ASSUME NEW i \in 1..(c - a) PROVE (front \o back)[i] = a + i
    <3>1. CASE i <= b - a
      BY <1>1, <2>1, <2>2, <3>1
    <3>2. CASE ~(i <= b - a)
      <4>1. i - (b - a) \in 1..(c - b)
        BY <3>2
      <4>2. (front \o back)[i] = back[i - (b - a)]
        BY <1>1, <2>1, <2>2, <3>2
      <4> QED BY <1>2, <4>1, <4>2
    <3> QED BY <3>1, <3>2
  <2> QED BY <2>1, <2>2, <2>3
<1>5. front \o back = stream!Positions(a, c)
  BY <1>3, <1>4, SeqEqual
<1> QED BY <1>5 DEF front, back

LEMMA PositionsNone == ASSUME NEW a \in Nat PROVE stream!Positions(a, a) = <<>>
  BY DEF stream!Positions

-----------------------------------------------------------------------------
(* What a reader gets.                                                     *)

\* What is delivered is a piece of the stream up to the last byte taken, from behind the
\* header or from behind all that was read ahead.
Delivered ==
    delivered = stream!Positions(start, taken) \/ delivered = stream!Positions(ahead, taken)

\* How far the stream is, in each phase: until data is taken, nothing is delivered, and it
\* is all that was taken from the socket.
Read ==
    /\ stream!TypeOK /\ ahead <= taken
    /\ data # stream!NoData => delivered = <<>> /\ data = taken /\ data <= capacity
    /\ BufferSize <= capacity
    /\ phase = "addr" =>
          /\ start = 0 /\ ahead = 0 /\ addr = "pending" /\ delivered = <<>>
          /\ data = stream!NoData => taken = 0
    /\ phase # "addr" =>
          /\ data # stream!NoData => ahead = taken
          /\ data = stream!NoData => Delivered
    /\ addr = "some" => start = headerLen

\* poll_read_buf makes room if there is none, reads as much as has arrived and fits, and
\* never less than one byte: the whole of a header that fits the buffer is within reach.
LEMMA Filled ==
    ASSUME Read, data # stream!NoData, stream!Bytes, stream!Fill
    PROVE  /\ capacity' \in Nat /\ BufferSize <= capacity'
           /\ taken' \in Nat /\ taken < taken' /\ taken' <= sent
           /\ data' = taken' /\ data' <= capacity'
           /\ headerLen <= sent /\ headerLen <= BufferSize => headerLen <= data'
<1>1. /\ data = taken /\ taken \in Nat /\ sent \in Nat /\ taken < sent
      /\ capacity \in Nat /\ data <= capacity /\ BufferSize <= capacity
      /\ BufferSize \in Nat \ {0} /\ headerLen \in Nat
  BY OwnConnection DEF Read, stream!TypeOK, stream!Bytes
<1>2. /\ capacity' = IF data = capacity THEN 2 * capacity ELSE capacity
      /\ taken' = IF sent - taken <= capacity' - data THEN sent ELSE taken + (capacity' - data)
      /\ data' = data + (taken' - taken)
  BY DEF stream!Fill, stream!Reserve
<1>3. capacity' \in Nat /\ BufferSize <= capacity' /\ data < capacity'
  <2>1. CASE data = capacity
    BY <1>1, <1>2, <2>1
  <2>2. CASE data # capacity
    BY <1>1, <1>2, <2>2
  <2> QED BY <2>1, <2>2
<1>4. CASE sent - taken <= capacity' - data
  BY <1>1, <1>2, <1>3, <1>4
<1>5. CASE ~(sent - taken <= capacity' - data)
  BY <1>1, <1>2, <1>3, <1>5
<1> QED BY <1>4, <1>5

\* A poll that finds nothing may have made room all the same.
LEMMA Reserved ==
    ASSUME Read, stream!Reserve
    PROVE  /\ capacity' \in Nat /\ BufferSize <= capacity'
           /\ data # stream!NoData => data <= capacity'
<1>1. /\ capacity \in Nat /\ BufferSize \in Nat \ {0} /\ BufferSize <= capacity
      /\ data # stream!NoData => data \in Nat /\ data <= capacity
  BY OwnConnection DEF Read, stream!TypeOK, stream!NoData
<1>2. capacity' = IF data = capacity THEN 2 * capacity ELSE capacity
  BY DEF stream!Reserve
<1>3. CASE data = capacity
  BY <1>1, <1>2, <1>3
<1>4. CASE data # capacity
  BY <1>1, <1>2, <1>4
<1> QED BY <1>3, <1>4

LEMMA ReadInit == stream!Init => Read
<1> SUFFICES ASSUME stream!Init PROVE Read
  OBVIOUS
<1>1. stream!TypeOK
  <2>1. /\ <<>> \in Seq(1..Length) /\ 0 \in 0..Length /\ 0 \in 0..MaxRewakes /\ 0 \in 0..0
        /\ BufferSize \in Nat
    BY OwnConnection
  <2> QED BY <2>1 DEF stream!Init, stream!TypeOK, stream!NoData
<1>2. BufferSize <= BufferSize /\ 0 <= BufferSize /\ 0 <= 0 /\ 0 # stream!NoData
  BY OwnConnection DEF stream!NoData
<1>3. addr # "some" /\ phase = "addr" /\ taken = 0 /\ start = 0 /\ ahead = 0 /\ capacity = BufferSize
      /\ addr = "pending" /\ delivered = <<>> /\ data \in {stream!NoData, 0}
  BY DEF stream!Init
<1> QED BY <1>1, <1>2, <1>3 DEF Read

\* What is in front of the socket, and all that is read from the socket with it.
LEMMA AheadRead ==
    ASSUME Read, phase = "read", NEW n \in Nat, taken <= n, n <= Length
    PROVE  /\ (delivered \o stream!Ahead) \o stream!Positions(taken, n) \in Seq(1..Length)
           /\ \/ (delivered \o stream!Ahead) \o stream!Positions(taken, n) = stream!Positions(start, n)
              \/ (delivered \o stream!Ahead) \o stream!Positions(taken, n) = stream!Positions(ahead, n)
<1>1. /\ taken \in Nat /\ start \in Nat /\ ahead \in Nat /\ start <= taken /\ ahead <= taken
      /\ delivered \in Seq(1..Length) /\ taken <= Length /\ start <= n /\ ahead <= n
  BY OwnConnection DEF Read, stream!TypeOK
<1>2. delivered \o stream!Ahead \in {stream!Positions(start, taken), stream!Positions(ahead, taken)}
  <2>1. CASE data = stream!NoData
    <3>1. delivered \o stream!Ahead = delivered
      BY <1>1, <2>1, ConcatEmptySeq DEF stream!Ahead
    <3> QED BY <2>1, <3>1 DEF Read, Delivered
  <2>2. CASE data # stream!NoData
    <3>1. delivered = <<>> /\ stream!Ahead = stream!Positions(start, taken)
      BY <2>2 DEF Read, stream!Ahead
    <3> QED BY <1>1, <3>1, PositionsType, ConcatEmptySeq
  <2> QED BY <2>1, <2>2
<1>3. /\ stream!Positions(start, taken) \o stream!Positions(taken, n) = stream!Positions(start, n)
      /\ stream!Positions(ahead, taken) \o stream!Positions(taken, n) = stream!Positions(ahead, n)
  BY <1>1, PositionsJoin
<1>4. stream!Positions(start, n) \in Seq(1..Length) /\ stream!Positions(ahead, n) \in Seq(1..Length)
  BY <1>1, PositionsType
<1> QED BY <1>2, <1>3, <1>4

LEMMA ReadStep == Read /\ [stream!Next]_streamvars => Read'
<1> SUFFICES ASSUME Read, [stream!Next]_streamvars PROVE Read'
  OBVIOUS
<1> USE OwnConnection DEF stream!NoData
<1>0. /\ taken \in Nat /\ sent \in Nat /\ start \in Nat /\ ahead \in Nat /\ start <= taken
      /\ ahead <= taken /\ taken <= sent /\ sent <= Length /\ delivered \in Seq(1..Length)
  BY DEF Read, stream!TypeOK
<1>1. CASE UNCHANGED streamvars
  BY <1>1 DEF streamvars, Read, stream!TypeOK, Delivered
<1>2. CASE stream!Arrive
  <2>1. woken' \in BOOLEAN /\ waker' \in BOOLEAN
    BY <1>2 DEF stream!Arrive, stream!Notify
  <2>2. /\ sent' \in 0..Length /\ sent <= sent'
        /\ UNCHANGED <<head, headerLen, ended, taken, data, capacity, start, phase, addr, rewakes,
                      delivered, ahead>>
    BY <1>0, <1>2 DEF stream!Arrive, stream!peer
  <2> QED BY <1>0, <2>1, <2>2 DEF Read, stream!TypeOK, Delivered
<1>3. CASE stream!End
  BY <1>3 DEF stream!End, stream!Notify, stream!peer, Read, stream!TypeOK, Delivered
<1>4. CASE stream!Rewake
  BY <1>4 DEF stream!Rewake, stream!socket, stream!peer, Read, stream!TypeOK, Delivered
<1>5. CASE stream!AddrDisabled
  <2>1. taken = 0 /\ delivered = <<>> /\ start = 0
    BY <1>5 DEF stream!AddrDisabled, Read
  <2>2. delivered = stream!Positions(start, taken)
    BY <2>1, PositionsNone
  <2> QED BY <1>5, <2>1, <2>2 DEF stream!AddrDisabled, stream!Return, stream!socket, stream!peer, Read,
                                  stream!TypeOK, Delivered
<1>6. CASE stream!AddrEmpty
  BY <1>6, Reserved
  DEF stream!AddrEmpty, stream!Sleep, stream!socket, stream!peer, Read, stream!TypeOK, Delivered
<1>7. CASE stream!AddrEnd
  BY <1>7, Reserved
  DEF stream!AddrEnd, stream!Return, stream!socket, stream!peer, Read, stream!TypeOK, Delivered
<1>8. CASE stream!AddrBytes
  <2>0. /\ phase = "addr" /\ data # stream!NoData /\ stream!Bytes /\ stream!Fill
        /\ UNCHANGED <<head, headerLen, sent, ended, delivered, waker, rewakes>>
    BY <1>8 DEF stream!AddrBytes, stream!socket, stream!peer
  <2>1. /\ phase = "addr" /\ data # stream!NoData /\ taken' \in Nat /\ taken <= taken'
        /\ taken' <= sent /\ data' = taken' /\ data' <= capacity' /\ capacity' \in Nat
        /\ BufferSize <= capacity'
        /\ UNCHANGED <<head, headerLen, sent, ended, delivered, waker, rewakes>>
    BY <1>0, <2>0, Filled
  <2>2. CASE woken' = FALSE /\ UNCHANGED <<start, phase, addr, ahead>>
    <3>1. stream!TypeOK'
      <4>1. taken' \in 0..sent' /\ data' \in 0..taken' /\ start' \in 0..taken'
        BY <1>0, <2>1, <2>2
      <4>2. woken' \in BOOLEAN /\ waker' \in BOOLEAN
        BY <2>1, <2>2 DEF Read, stream!TypeOK
      <4> QED BY <2>1, <2>2, <4>1, <4>2 DEF Read, stream!TypeOK
    <3>2. data' # stream!NoData
      BY <1>0, <2>1
    <3> QED BY <1>0, <2>1, <2>2, <3>1, <3>2 DEF Read
  <2>3. CASE stream!Return("failed", data') /\ UNCHANGED <<start, woken>>
    BY <1>0, <2>1, <2>3 DEF stream!Return, Read, stream!TypeOK
  <2>4. CASE /\ stream!Parsed(data') \in {"valid", "unsupported"} /\ start' = headerLen
             /\ stream!Return(IF head = "valid" THEN "some" ELSE "failed", data')
             /\ UNCHANGED woken
    <3>1. headerLen <= taken' /\ headerLen \in Nat
      <4>1. data' \in Nat /\ headerLen \in Nat /\ ~(data' < headerLen)
        BY <2>1, <2>4 DEF stream!Parsed, Read, stream!TypeOK
      <4> QED BY <2>1, <4>1
    <3>2. addr' \in {"some", "failed"} /\ phase' = "read" /\ ahead' = taken' /\ start' = headerLen
      BY <2>1, <2>4 DEF stream!Return
    <3> QED BY <1>0, <2>1, <2>4, <3>1, <3>2 DEF Read, stream!TypeOK
  <2> QED BY <1>8, <2>2, <2>3, <2>4 DEF stream!AddrBytes
<1>9. CASE stream!ReadBytes
  <2>1. /\ phase = "read" /\ data' = stream!NoData /\ phase' = "read"
        /\ taken' \in (taken + 1)..sent
        /\ delivered' = (delivered \o stream!Ahead) \o stream!Positions(taken, taken')
        /\ UNCHANGED <<head, headerLen, sent, ended, capacity, start, addr, woken, waker,
                      rewakes, ahead>>
    BY <1>9 DEF stream!ReadBytes, stream!socket, stream!peer
  <2>2. Delivered' /\ delivered' \in Seq(1..Length)
    <3>1. taken' \in Nat /\ taken <= taken' /\ taken' <= Length
      BY <1>0, <2>1
    <3> QED BY <2>1, <3>1, AheadRead DEF Delivered
  <2> QED BY <1>0, <2>1, <2>2 DEF Read, stream!TypeOK
<1>10. CASE stream!ReadEmpty
  <2>1. /\ phase = "read" /\ data' = stream!NoData
        /\ woken' = FALSE /\ waker' = TRUE
        /\ UNCHANGED <<head, headerLen, sent, ended, taken, capacity, start, phase, addr, rewakes, delivered, ahead>>
    BY <1>10 DEF stream!ReadEmpty, stream!Sleep, stream!socket, stream!peer
  <2>2. Delivered
    BY <1>0, <2>1, PositionsNone DEF Read, Delivered
  <2> QED BY <1>0, <2>1, <2>2 DEF Read, stream!TypeOK, Delivered
<1>11. CASE stream!ReadEnd
  <2>1. /\ phase = "read" /\ data' = stream!NoData /\ phase' \in {"read", "closed"}
        /\ UNCHANGED <<head, headerLen, sent, ended, taken, capacity, start, addr, woken, waker, rewakes, ahead>>
        /\ delivered' = IF stream!Eof THEN delivered \o stream!Ahead ELSE delivered
    BY <1>11 DEF stream!ReadEnd, stream!socket, stream!peer
  <2>2. Delivered' /\ delivered' \in Seq(1..Length)
    <3>1. CASE stream!Eof
      <4>1. delivered' \in Seq(1..Length) /\ delivered' = delivered' \o stream!Positions(taken, taken)
        <5>1. stream!Ahead \in Seq(1..Length)
          <6>1. stream!Positions(start, taken) \in Seq(1..Length) /\ <<>> \in Seq(1..Length)
            BY <1>0, PositionsType, EmptySeq
          <6>2. data # stream!NoData => stream!Ahead = stream!Positions(start, taken)
            BY DEF Read, stream!Ahead
          <6>3. data = stream!NoData => stream!Ahead = <<>>
            BY DEF stream!Ahead
          <6> QED BY <6>1, <6>2, <6>3
        <5>2. delivered' \in Seq(1..Length)
          BY <1>0, <2>1, <3>1, <5>1, ConcatProperties
        <5> QED BY <1>0, <5>2, PositionsNone, ConcatEmptySeq
      <4>2. \/ (delivered \o stream!Ahead) \o stream!Positions(taken, taken) = stream!Positions(start, taken)
            \/ (delivered \o stream!Ahead) \o stream!Positions(taken, taken) = stream!Positions(ahead, taken)
        <5>1. phase = "read" /\ taken \in Nat /\ taken <= taken /\ taken <= Length
          BY <1>0, <2>1
        <5> QED BY <5>1, AheadRead
      <4> QED BY <2>1, <3>1, <4>1, <4>2 DEF Delivered
    <3>2. CASE ~stream!Eof
      <4>1. Delivered
        BY <1>0, <2>1, PositionsNone DEF Read, Delivered
      <4> QED BY <1>0, <2>1, <3>2, <4>1 DEF Delivered
    <3> QED BY <3>1, <3>2
  <2> QED BY <1>0, <2>1, <2>2 DEF Read, stream!TypeOK
<1> QED
  BY <1>1, <1>2, <1>3, <1>4, <1>5, <1>6, <1>7, <1>8, <1>9, <1>10, <1>11
  DEF stream!Next, stream!Poll

LEMMA ReadInvariance == WrapSpec => []Read
<1>1. WrapInit => Read
  BY ReadInit DEF WrapInit
<1> QED BY <1>1, ReadStep, StreamStep, PTL DEF WrapSpec

\* However the stream arrives, and wherever it ends, only what was read ahead with the
\* header can be missing from what the reader gets, and it is missing as a whole.
THEOREM ReaderGetsStream == WrapSpec => []ReadsStreamAfterHeader
<1>1. Read => ReadsStreamAfterHeader
  BY DEF Read, Delivered, ReadsStreamAfterHeader, stream!ReadsStreamAfterHeader
<1> QED BY <1>1, ReadInvariance, PTL

-----------------------------------------------------------------------------
(* What WholeHeaderAnswered and HandshakeStarts rest on: who wakes the     *)
(* task.                                                                   *)

\* A part of a header was read, and Pending returned for it without a waker.
HalfRead == phase = "addr" /\ data = taken /\ 0 < taken /\ taken < headerLen /\ head # "garbage"

\* A task that is not woken has left its waker with a socket that has nothing for it, unless
\* its header is half read.
Asleep ==
    /\ waker => stream!Empty
    /\ phase # "closed" /\ ~woken => waker \/ HalfRead

LEMMA AsleepStep == Read /\ Asleep /\ [stream!Next]_streamvars => Asleep'
<1> SUFFICES ASSUME Read, Asleep, [stream!Next]_streamvars PROVE Asleep'
  OBVIOUS
<1>0. /\ taken \in Nat /\ sent \in Nat /\ taken <= sent
      /\ headerLen \in Nat /\ stream!NoData \notin Nat
  BY OwnConnection DEF Read, stream!TypeOK, stream!NoData
<1>1. CASE UNCHANGED streamvars
  BY <1>1 DEF streamvars, Asleep, HalfRead, stream!Empty
<1>2. CASE stream!Arrive \/ stream!End
  <2>1. waker' = FALSE /\ (woken' <=> woken \/ waker)
    BY <1>2 DEF stream!Arrive, stream!End, stream!Notify
  <2>2. UNCHANGED <<head, headerLen, taken, data, phase>>
    BY <1>2 DEF stream!Arrive, stream!End, stream!peer
  <2>3. phase # "closed" /\ ~woken' => HalfRead
    BY <2>1 DEF Asleep
  <2> QED BY <2>1, <2>2, <2>3 DEF Asleep, HalfRead
<1>3. CASE stream!Rewake
  <2>1. woken' = TRUE /\ UNCHANGED <<waker, sent, ended, taken>>
    BY <1>3 DEF stream!Rewake, stream!socket, stream!peer
  <2> QED BY <2>1 DEF Asleep, stream!Empty
<1>4. CASE stream!AddrEmpty \/ stream!ReadEmpty
  <2>1. waker' = TRUE /\ UNCHANGED <<sent, ended, taken>> /\ stream!Empty
    BY <1>4 DEF stream!AddrEmpty, stream!ReadEmpty, stream!Sleep, stream!socket, stream!peer
  <2> QED BY <2>1 DEF Asleep, stream!Empty
<1>5. CASE stream!AddrDisabled \/ stream!AddrEnd \/ stream!ReadEnd
  <2>1. woken = TRUE /\ UNCHANGED <<woken, waker, sent, ended, taken>>
    BY <1>5 DEF stream!AddrDisabled, stream!AddrEnd, stream!ReadEnd, stream!socket, stream!peer, Read,
                stream!TypeOK
  <2> QED BY <2>1 DEF Asleep, stream!Empty
<1>6. CASE stream!ReadBytes
  <2>1. woken = TRUE /\ UNCHANGED <<woken, waker>> /\ stream!Bytes
    BY <1>6 DEF stream!ReadBytes, Read, stream!TypeOK
  <2>2. ~waker
    BY <1>0, <2>1 DEF Asleep, stream!Empty, stream!Bytes
  <2> QED BY <2>1, <2>2 DEF Asleep
<1>7. CASE stream!AddrBytes
  <2>1. /\ phase = "addr" /\ data # stream!NoData /\ woken = TRUE /\ stream!Bytes
        /\ stream!Fill /\ UNCHANGED <<head, headerLen, waker>>
    BY <1>7 DEF stream!AddrBytes, stream!socket, stream!peer, Read, stream!TypeOK
  <2>2. ~waker /\ ~waker'
    BY <1>0, <2>1 DEF Asleep, stream!Empty, stream!Bytes
  <2>3. CASE UNCHANGED woken
    BY <2>1, <2>2, <2>3 DEF Asleep
  <2>4. CASE stream!Parsed(data') = "incomplete" /\ UNCHANGED phase
    <3>1. data' = taken' /\ 0 < taken'
      BY <1>0, <2>1, Filled
    <3>2. head # "garbage" /\ data' < headerLen
      BY <1>0, <2>1, <2>4, <3>1 DEF stream!Parsed, Read, stream!TypeOK
    <3>3. HalfRead'
      BY <2>1, <2>4, <3>1, <3>2 DEF HalfRead
    <3> QED BY <2>2, <3>3 DEF Asleep
  <2> QED BY <1>7, <2>3, <2>4 DEF stream!AddrBytes
<1> QED BY <1>1, <1>2, <1>3, <1>4, <1>5, <1>6, <1>7 DEF stream!Next, stream!Poll

LEMMA AsleepInvariance == WrapSpec => []Asleep
<1>1. WrapInit => Asleep
  BY DEF WrapInit, stream!Init, Asleep
<1> QED BY <1>1, AsleepStep, StreamStep, ReadInvariance, PTL DEF WrapSpec

\* No wakeup is lost but one: as long as the connection is open, its task is woken, or the
\* socket has its waker and nothing to read, or get_header returned Pending for a part of a
\* header (what TruncatedHeaderReported is violated by).
THEOREM OnlyHalfReadIsForgotten ==
    WrapSpec => [](phase # "closed" => woken \/ (waker /\ stream!Empty) \/ HalfRead)
<1>1. Asleep => (phase # "closed" => woken \/ (waker /\ stream!Empty) \/ HalfRead)
  BY DEF Asleep
<1> QED BY <1>1, AsleepInvariance, PTL

\* A header is half read only if it had not arrived, or does not fit: however much of a
\* header that fits the buffer of source was read before, a poll that finds the rest there
\* returns the address, or an error.
THEOREM FittingHeaderIsRead ==
    WrapSpec => [][stream!AddrBytes /\ headerLen <= sent /\ headerLen <= BufferSize
                       => phase' = "read"]_wrapvars
<1> DEFINE Whole == stream!AddrBytes /\ headerLen <= sent /\ headerLen <= BufferSize
                       => phase' = "read"
<1>1. ASSUME Read, stream!AddrBytes, headerLen <= sent, headerLen <= BufferSize
      PROVE  phase' = "read"
  <2>1. headerLen <= data' /\ data' \in Nat /\ headerLen \in Nat
    BY <1>1, Filled, OwnConnection DEF stream!AddrBytes, Read, stream!TypeOK
  <2>2. stream!Parsed(data') # "incomplete"
    BY <1>1, <2>1 DEF stream!Parsed, Read, stream!TypeOK
  <2> QED BY <1>1, <2>2 DEF stream!AddrBytes, stream!Return
<1>2. Read => [Whole]_wrapvars
  BY <1>1
<1> QED BY <1>2, ReadInvariance, PTL

\* tls::wrap polls the stream again when the database answers, also one whose header is half
\* read: the bound on such polls (MaxRewakes) is never in the way, and no answer leaves a
\* stream asleep that has not given its address.
THEOREM AnswerPollsStream ==
    WrapSpec => /\ [](pc[Own] \in {"idle", "query"} => rewakes = 0)
                /\ [][OwnQuery => phase # "addr" \/ woken']_wrapvars
<1> DEFINE Unpolled == pc[Own] \in {"idle", "query"} => rewakes = 0
<1>1. WrapInit => Unpolled
  BY DEF WrapInit, stream!Init
<1>2. TypeOK /\ Unpolled /\ [WrapNext]_wrapvars => Unpolled'
  <2> SUFFICES ASSUME TypeOK, Unpolled, [WrapNext]_wrapvars PROVE Unpolled'
    OBVIOUS
  <2> USE DEF TypeOK
  <2>1. CASE UNCHANGED <<pc, rewakes>>
    BY <2>1
  <2>2. CASE Peer \/ Poll
    <3>1. UNCHANGED <<pc, rewakes>>
      BY <2>2 DEF Peer, Poll, vars, conn, stream!Arrive, stream!End, stream!Poll,
                  stream!AddrDisabled, stream!AddrEmpty, stream!AddrEnd, stream!AddrBytes,
                  stream!ReadBytes, stream!ReadEmpty, stream!ReadEnd
    <3> QED BY <2>1, <3>1
  <2>3. CASE OwnBegin
    BY <2>3 DEF OwnBegin, streamvars
  <2>4. CASE OwnQuery
    <3>1. pc'[Own] = "compare"
      BY <2>4, OwnConnection DEF OwnQuery, QueryOk, QueryErr, Goto
    <3> QED BY <3>1
  <2>5. CASE OwnLoad
    <3>1. pc'[Own] \notin {"idle", "query"}
      BY <2>5, OwnConnection
      DEF OwnLoad, LoadCert, QueryOk, QueryErr, Reuse, Differs, Build, Keep, Install, Serve, Goto
    <3> QED BY <3>1
  <2>6. CASE Stores
    BY <2>1, <2>6 DEF Stores, Store, conn, streamvars
  <2>7. ASSUME NEW c \in Conns \ {Own}, Other(Begin(c)) \/ Other(LoadCert(c)) PROVE Unpolled'
    <3>1. UNCHANGED rewakes
      BY <2>7 DEF Other, streamvars
    <3>2. \E l : pc' = [pc EXCEPT ![c] = l]
      BY <2>7
      DEF Other, Begin, LoadCert, QueryOk, QueryErr, Reuse, Differs, Build, Keep, Install,
          Serve, Goto
    <3>3. pc'[Own] = pc[Own]
      BY <2>7, <3>2, OwnConnection
    <3> QED BY <3>1, <3>3
  <2>8. CASE UNCHANGED wrapvars
    BY <2>1, <2>8 DEF wrapvars, vars, conn, streamvars
  <2> QED BY <2>2, <2>3, <2>4, <2>5, <2>6, <2>7, <2>8 DEF WrapNext
<1>3. [WrapNext]_wrapvars => [OwnQuery => phase # "addr" \/ woken']_wrapvars
  BY DEF OwnQuery, PollStream, stream!Rewake, streamvars
<1>4. WrapSpec => []TypeOK
  BY WrapImplementsAcceptor, TypeCorrect, PTL
<1> QED BY <1>1, <1>2, <1>3, <1>4, PTL DEF WrapSpec

\* The acceptor and the stream have their types, whatever they do to each other.
THEOREM WrapTypeCorrect == WrapSpec => []WrapTypeOK
<1> DEFINE Fixed == secure \in BOOLEAN /\ alone \in BOOLEAN
<1>1. WrapInit => Fixed
  BY DEF WrapInit
<1>2. Fixed /\ [WrapNext]_wrapvars => Fixed'
  <2>1. [WrapNext]_wrapvars => UNCHANGED fixed
    BY DEF WrapNext, wrapvars, Peer, Poll, OwnBegin, OwnQuery, OwnLoad, Stores, Other
  <2> QED BY <2>1 DEF fixed
<1>3. Read /\ TypeOK /\ Fixed => WrapTypeOK
  BY DEF Read, WrapTypeOK
<1> HIDE DEF Fixed
<1> QED
  BY <1>1, <1>2, <1>3, ReadInvariance, WrapImplementsAcceptor, TypeCorrect, PTL DEF WrapSpec
=============================================================================
