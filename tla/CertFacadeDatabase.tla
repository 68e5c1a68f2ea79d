------------------------- MODULE CertFacadeDatabase -------------------------
(***************************************************************************)
(* CertFacade for DatabaseFacade<Postgres>: every manager is a process of  *)
(* its own that may die and be started again, the rows outlive them, and a *)
(* call is a query and a later statement, in a READ COMMITTED transaction  *)
(* that locks nothing when it reads.  What a transaction writes is seen    *)
(* when it commits; UPDATE waits for the row lock and then applies to the  *)
(* row by its id.                                                          *)
(***************************************************************************)
EXTENDS CertManager, FiniteSets

CONSTANT CrashAt   \* bound: the places where a process may die

ASSUME CrashAtPlaces == CrashAt \subseteq PC
ASSUME FiniteManagers == IsFiniteSet(Managers)

\* first_cert in start_cert's transaction: what it saw stays in mem.
SelectStart(m) ==
    /\ pc[m] = "start"
    /\ \E seen \in FirstCert : mem' = [mem EXCEPT ![m] = seen]
    /\ pc' = [pc EXCEPT ![m] = "selected"]
    /\ UNCHANGED <<now, rows, orders, order, began, due>>

CommitStart(m) ==
    /\ pc[m] = "selected"
    /\ StartFrom(m, mem[m])
    /\ UNCHANGED <<now, orders, due>>

\* first_cert in stop_cert's transaction.
SelectStop(m) ==
    /\ pc[m] = "issued"
    /\ \/ /\ \E seen \in FirstCert : StillMine(seen, mem[m])
          /\ pc' = [pc EXCEPT ![m] = "stopping"]
          /\ UNCHANGED <<mem, order, began>>
       \/ /\ \E seen \in FirstCert : ~StillMine(seen, mem[m])
          /\ Leave(m)
    /\ UNCHANGED <<now, rows, orders, due>>

\* update_cert goes through the pool: it commits on its own, whatever the
\* transaction read.
UpdateStop(m) ==
    /\ pc[m] = "stopping"
    /\ UpdateCert(Finished(mem[m]))
    /\ Leave(m)
    /\ UNCHANGED <<now, domains, orders, due>>

\* The process dies and comes back: its interval ticks at once.
Crash(m) ==
    /\ pc[m] \in CrashAt
    /\ Leave(m)
    /\ due' = [due EXCEPT ![m] = now]
    /\ UNCHANGED <<now, rows, orders>>

Step(m) == SelectStart(m) \/ CommitStart(m) \/ Manage(m) \/ SelectStop(m) \/ UpdateStop(m)

Next ==
    \/ Clock
    \/ \E m \in Managers : Tick(m) \/ Step(m) \/ Fail(m) \/ Crash(m)

Spec == Init /\ [][Next]_vars

\* The clock goes on, the runtime polls every task that is ready, and every call
\* returns.
FairSpec ==
    /\ Spec
    /\ WF_vars(Clock)
    /\ \A m \in Managers : WF_vars(Tick(m)) /\ WF_vars(Step(m))

-----------------------------------------------------------------------------
(* Properties.                                                             *)

\* m still has the job: stop_cert stores its certificate.
Holds(m) ==
    /\ Work(m) \/ pc[m] = "stopping"
    /\ \E c \in certs : c.state = "Updating" /\ c.update = mem[m].update

Holders == {m \in Managers : Holds(m)}

Stored == IF certs = {} THEN 0 ELSE (CHOOSE c \in certs : TRUE).pem

\* Only a process that found the table empty inserts: however often attempts fail,
\* die and are repeated, there are never more rows than processes.
RowsPerManager == Cardinality(certs) <= Cardinality(Managers)

\* find_domain_by_id never fails with "Could not find domain": a certificate is
\* visible only together with a domain of its own, which nothing takes away.
DomainFound ==
    /\ \A m \in Managers : Work(m) => \E d \in domains : d.id = mem[m].domain
    /\ \A c, e \in certs : c.domain = e.domain => c.id = e.id

\* While the CA validates, the DNS answers the proof of this order and nothing left
\* over from an attempt that failed or died.
AnswerIsProof == \A m \in Managers : pc[m] = "validate" => Answers = {order[m]}

\* The certificate stored is never replaced by an older one, nor lost, wherever the
\* process dies and is started again.
NeverOlder ==
    [][\A c \in certs, d \in certs' : c.id = d.id => c.pem <= d.pem]_vars

\* With one process, whatever it fails at, the rows keep the promise of CertLease.
Lease == INSTANCE CertLease WITH holders <- Holders, issued <- Stored
ImplementsLease == Lease!Spec

\* A row left Updating by a process that died or failed is worked on again: the
\* interval ticks again, and once more after its hour is over (bound: the clock
\* still gets that far).
Abandoned(c) ==
    /\ c.state = "Updating"
    /\ now + HOUR <= MaxTime /\ c.update + 2 * HOUR < MaxTime
    /\ \A m \in Managers : ~Work(m) /\ pc[m] # "stopping"
JobResumed == (\E c \in certs : Abandoned(c)) ~> (\E m \in Managers : Work(m))

\* The comment in stop_cert: "only stop cert if the update times match and no other
\* interval picked up the job".
StopOnlyIfHolder == [][\A m \in Managers : UpdateStop(m) => Holds(m)]_vars
=============================================================================
