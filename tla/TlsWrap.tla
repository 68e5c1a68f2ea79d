------------------------------ MODULE TlsWrap ------------------------------
(***************************************************************************)
(* wrap_higher of src/api/tls.rs around wrap of src/api/proxy.rs: the      *)
(* connection Own, plain or secure, with everything it reads, beside the   *)
(* other connections of the acceptor.  A secure one joins real_addr with   *)
(* load_cert in one task, so that the answer of the database polls the     *)
(* stream as well; the handshake starts when both are done.                *)
(***************************************************************************)
EXTENDS TlsAcceptor

CONSTANTS
    Own,                                         \* one of Conns
    HeaderLens, BufferSize, Length, MaxRewakes   \* of ProxyStream

ASSUME OwnConnection ==
    /\ Own \in Conns /\ Length \in Nat /\ MaxRewakes \in Nat \ {0}
    /\ HeaderLens \subseteq Nat \ {0} /\ BufferSize \in Nat \ {0}

VARIABLES
    head, headerLen, sent, ended, taken, data, capacity, start, phase, addr, woken, waker,
    rewakes, delivered, ahead,   \* of ProxyStream, for Own
    secure,             \* Own came through tls::wrap: never changes
    alone               \* bound: Own is alone, or else its peer says nothing

stream == INSTANCE ProxyStream

streamvars == <<head, headerLen, sent, ended, taken, data, capacity, start, phase, addr,
                woken, waker, rewakes, delivered, ahead>>
fixed    == <<secure, alone>>
wrapvars == <<vars, streamvars, fixed>>

\* What a peer that says nothing would have sent does not matter.
WrapInit ==
    /\ Init /\ stream!Init /\ secure \in BOOLEAN /\ alone \in BOOLEAN
    /\ alone \/ head = "valid"

\* try_join! has both results, or there was nothing to join.
Joined == secure => pc[Own] = "done"

Peer == alone /\ (stream!Arrive \/ stream!End) /\ UNCHANGED <<vars, fixed>>

\* Before the join real_addr is polled, behind it the handshake and hyper read.
Poll == (phase = "read" => Joined) /\ stream!Poll /\ UNCHANGED <<vars, fixed>>

\* A plausible bug: load_cert runs in a task of its own.
LeaveStream == UNCHANGED streamvars

\* What wakes load_cert wakes the task, and with it the stream.
PollStream == stream!Rewake \/ ((phase # "addr" \/ woken) /\ UNCHANGED streamvars)

\* acceptor(), once, with the first poll.
OwnBegin ==
    /\ secure /\ pc[Own] = "idle" /\ Begin(Own)
    /\ UNCHANGED <<streamvars, fixed>>

OwnQuery == (QueryOk(Own) \/ QueryErr(Own)) /\ PollStream /\ UNCHANGED fixed

\* The rest of load_cert, in the same poll.
OwnLoad ==
    /\ pc[Own] # "query" /\ LoadCert(Own)
    /\ UNCHANGED <<streamvars, fixed>>

Stores == Store /\ UNCHANGED <<streamvars, fixed>>

Other(A) == ~alone /\ A /\ UNCHANGED <<streamvars, fixed>>

WrapNext ==
    \/ Peer \/ Poll \/ OwnBegin \/ OwnQuery \/ OwnLoad \/ Stores
    \/ \E c \in Conns \ {Own} : Other(Begin(c)) \/ Other(LoadCert(c))

\* FairSpec of both; the database answers Own as well, if only with an error.
WrapSpec ==
    /\ WrapInit /\ [][WrapNext]_wrapvars
    /\ WF_wrapvars(Poll) /\ WF_wrapvars(OwnBegin)
    /\ WF_wrapvars(OwnQuery) /\ WF_wrapvars(OwnLoad)
    /\ \A c \in Conns \ {Own} :
          /\ WF_wrapvars(Other(Begin(c))) /\ WF_wrapvars(Other(LoadCert(c)))
          /\ SF_wrapvars(Other(QueryOk(c)))

-----------------------------------------------------------------------------
(* Properties; FreshEnough and NeverEmptyAgain of TlsAcceptor are among    *)
(* them.                                                                   *)

\* The acceptor and the stream have their types.
WrapTypeOK == TypeOK /\ stream!TypeOK /\ secure \in BOOLEAN /\ alone \in BOOLEAN

\* Behind the header, or behind all that was read ahead with it, nothing is lost.
ReadsStreamAfterHeader == stream!ReadsStreamAfterHeader

\* As long as connections come, the cache follows the table.
CacheFollows == ~alone => CacheConverges

\* A header that fits and arrives in one piece is answered, also when tls::wrap polls its stream
\* more often than the socket would.
WholeHeaderAnswered == stream!WholeHeaderAnswered

\* A secure connection's header may arrive in any pieces, as long as it fits the buffer and
\* is complete when the database answers: that polls the stream again, and the handshake
\* starts.
HandshakeStarts ==
    (/\ secure /\ phase = "addr" /\ pc[Own] \in {"idle", "query"}
     /\ sent >= headerLen /\ headerLen <= BufferSize)
        ~> (phase # "addr" /\ Joined)
=============================================================================
