---------------------------- MODULE TlsAcceptor ----------------------------
(***************************************************************************)
(* load_cert of src/api/tls.rs: every TLS connection asks the facade for   *)
(* the certificate, compares it with the cached one under the read lock,   *)
(* builds a ServerConfig for a new one outside of any lock, and writes     *)
(* both to the cache under the write lock.  Connections interleave between *)
(* these steps, and with whoever stores certificates.                      *)
(*                                                                         *)
(* A certificate with its key is the number of the version stored (0: no   *)
(* row).  The cache holds a certificate and the config made from it, one   *)
(* number; 0 is the empty config that acceptor starts with.                *)
(***************************************************************************)
EXTENDS Integers

CONSTANTS
    Conns,      \* TLS connections; one that is over stands for a later one, too
    Versions,   \* bound: how many certificates are stored
    Loadable    \* those create_server_config accepts

ASSUME VersionBounds == Versions \in Nat /\ Loadable \subseteq 1..Versions

Failed == -1    \* first_cert returned Err

VARIABLES
    row,      \* the certificate stored
    cached,   \* the cached certificate and its config
    pc,       \* where a connection is in load_cert
    seen,     \* what its first_cert returned
    served,   \* the config its TlsAcceptor has
    since     \* history: the certificate stored when it called load_cert

vars == <<row, cached, pc, seen, served, since>>
conn == <<pc, seen, served, since>>

TypeOK ==
    /\ row \in 0..Versions /\ cached \in {0} \cup Loadable
    /\ pc \in [Conns -> {"idle", "query", "compare", "build", "keep", "install", "done"}]
    /\ seen \in [Conns -> 0..Versions \cup {Failed}]
    /\ served \in [Conns -> {0} \cup Loadable]
    /\ since \in [Conns -> 0..Versions]

Init ==
    /\ row = 0 /\ cached = 0
    /\ pc = [c \in Conns |-> "idle"]
    /\ seen = [c \in Conns |-> 0]
    /\ served = [c \in Conns |-> 0]
    /\ since = [c \in Conns |-> 0]

\* stop_cert stores a certificate (or an operator does).
Store ==
    /\ row < Versions /\ row' = row + 1
    /\ UNCHANGED <<cached, conn>>

Goto(c, l) == pc' = [pc EXCEPT ![c] = l]

Serve(c, v) == Goto(c, "done") /\ served' = [served EXCEPT ![c] = v]

Begin(c) ==
    /\ pc[c] \in {"idle", "done"}
    /\ Goto(c, "query")
    /\ since' = [since EXCEPT ![c] = row]
    /\ UNCHANGED <<row, cached, seen, served>>

\* facade.first_cert().await
QueryOk(c) ==
    /\ pc[c] = "query"
    /\ seen' = [seen EXCEPT ![c] = row]
    /\ Goto(c, "compare")
    /\ UNCHANGED <<row, cached, served, since>>

QueryErr(c) ==
    /\ pc[c] = "query"
    /\ seen' = [seen EXCEPT ![c] = Failed]
    /\ Goto(c, "compare")
    /\ UNCHANGED <<row, cached, served, since>>

\* Plausible bugs: anything cached is reused; the empty config is served when the
\* query fails.
ReuseAnything(c) ==
    /\ pc[c] = "compare" /\ (cached # 0 \/ seen[c] \in {0, Failed})
    /\ Serve(c, cached)
    /\ UNCHANGED <<row, cached, seen, since>>
ReuseEmpty(c) ==
    /\ pc[c] = "compare" /\ seen[c] \in {0, Failed, cached}
    /\ Serve(c, IF seen[c] = Failed THEN 0 ELSE cached)
    /\ UNCHANGED <<row, cached, seen, since>>

\* Under the read lock: no certificate, an error, or the cached certificate.
Reuse(c) ==
    /\ pc[c] = "compare" /\ seen[c] \in {0, Failed, cached}
    /\ Serve(c, cached)
    /\ UNCHANGED <<row, cached, seen, since>>

Differs(c) ==
    /\ pc[c] = "compare" /\ seen[c] \notin {0, Failed, cached}
    /\ Goto(c, "build")
    /\ UNCHANGED <<row, cached, seen, served, since>>

\* A plausible bug: a certificate without a config is cached, too.
BuildAnything(c) ==
    /\ pc[c] = "build"
    /\ Goto(c, "install")
    /\ UNCHANGED <<row, cached, seen, served, since>>

\* create_server_config, without a lock.
Build(c) ==
    /\ pc[c] = "build"
    /\ Goto(c, IF seen[c] \in Loadable THEN "install" ELSE "keep")
    /\ UNCHANGED <<row, cached, seen, served, since>>

\* It failed: the config cached by now, under the read lock.
Keep(c) ==
    /\ pc[c] = "keep"
    /\ Serve(c, cached)
    /\ UNCHANGED <<row, cached, seen, since>>

\* A plausible bug: the cache is only filled once.
InstallFirst(c) ==
    /\ pc[c] = "install"
    /\ cached' = IF cached = 0 THEN seen[c] ELSE cached
    /\ Serve(c, seen[c])
    /\ UNCHANGED <<row, seen, since>>

\* Under the write lock, whatever was cached in the meantime.
Install(c) ==
    /\ pc[c] = "install"
    /\ cached' = seen[c]
    /\ Serve(c, seen[c])
    /\ UNCHANGED <<row, seen, since>>

LoadCert(c) ==
    QueryOk(c) \/ QueryErr(c) \/ Reuse(c) \/ Differs(c) \/ Build(c) \/ Keep(c) \/ Install(c)

Next == Store \/ \E c \in Conns : Begin(c) \/ LoadCert(c)

Spec == Init /\ [][Next]_vars

\* Tasks are polled, connections keep coming, and the database does not fail for ever.
FairSpec ==
    /\ Spec
    /\ \A c \in Conns : WF_vars(Begin(c)) /\ WF_vars(LoadCert(c)) /\ SF_vars(QueryOk(c))

-----------------------------------------------------------------------------
(* Properties.                                                             *)

\* A connection whose query succeeded is served with a certificate at least as new as
\* the one stored when it called load_cert, whatever connections beside it do to the
\* cache, unless no config can be made from the one it was given.
FreshEnough ==
    \A c \in Conns :
        pc[c] = "done" /\ seen[c] \in Loadable => served[c] = seen[c] /\ seen[c] >= since[c]

\* From the first config with a certificate on, no connection gets the empty one,
\* whatever fails: the cache is never emptied.
NeverEmptyAgain ==
    [][\A c \in Conns : cached # 0 /\ pc[c] # "done" /\ pc'[c] = "done" => served'[c] # 0]_vars

\* A connection that is slow to install may put an older certificate back into the
\* cache; it does not stay there.
CacheConverges == Versions \in Loadable /\ <>[](row = Versions) => <>[](cached = Versions)
=============================================================================
