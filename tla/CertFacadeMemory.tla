-------------------------- MODULE CertFacadeMemory --------------------------
(***************************************************************************)
(* CertFacade for InMemoryFacade: tasks of one process share the maps, and *)
(* every call runs under the Mutex, so start_cert and stop_cert are one    *)
(* step each.  (The maps do not outlive the process: nothing restarts.)    *)
(***************************************************************************)
EXTENDS CertManager

StartCert(m) ==
    /\ pc[m] = "start"
    /\ \E seen \in FirstCert : StartFrom(m, seen)
    /\ UNCHANGED <<now, orders, due>>

StopCert(m) ==
    /\ pc[m] = "issued"
    /\ \E seen \in FirstCert :
          IF StillMine(seen, mem[m]) THEN UpdateCert(Finished(mem[m]))
                                     ELSE UNCHANGED certs
    /\ Leave(m)
    /\ UNCHANGED <<now, domains, orders, due>>

Next ==
    \/ Clock
    \/ \E m \in Managers :
          Tick(m) \/ StartCert(m) \/ Manage(m) \/ StopCert(m) \/ Fail(m)

Spec == Init /\ [][Next]_vars

-----------------------------------------------------------------------------
(* Properties.                                                             *)

\* m still has the job: its stop_cert would store the certificate.
Holds(m) == Work(m) /\ \E c \in certs : c.state = "Updating" /\ c.update = mem[m].update

Holders == {m \in Managers : Holds(m)}

Stored == IF certs = {} THEN 0 ELSE (CHOOSE c \in certs : TRUE).pem

\* Why the stamp works.  A manager at work with certificate row c:
JobOn(m, c) ==
    /\ mem[m] \in Cert /\ mem[m].id = c.id /\ mem[m].state = "Updating"
    /\ began[m] <= now
    \* the row has its stamp or one that is more than an hour later;
    /\ mem[m].update = c.update \/ c.update - mem[m].update > HOUR
    \* with its stamp, the row is its job, and its order is newer than the row;
    /\ mem[m].update = c.update => c.state = "Updating"
    /\ mem[m].update = c.update /\ pc[m] # "claimed" => order[m] > c.pem
    /\ pc[m] = "issued" => mem[m].pem = order[m]

\* There is one row from the first start_cert on, it is never stamped ahead of the
\* clock, and no two managers at work have the same stamp.
HandOver ==
    /\ \A c, d \in certs : c = d
    /\ \A c \in certs : c.update <= now /\ c.pem <= orders
    /\ \A m \in Managers : order[m] <= orders
    /\ \A m \in Managers : Work(m) => certs # {} /\ \A c \in certs : JobOn(m, c)
    /\ \A m, q \in Managers :
          Work(m) /\ Work(q) /\ mem[m].update = mem[q].update => m = q

\* Never two managers whose stop_cert would both store: the stamp that start_cert
\* leaves in the row tells the last taker apart from every earlier one.
UniqueHolder == \A m, q \in Holders : m = q

\* The certificate stored is never replaced by an older one, nor lost, however late
\* a manager that was taken over finishes.
NeverOlder ==
    [][\A c \in certs, d \in certs' : c.id = d.id => c.pem <= d.pem]_vars

\* A job whose start_cert stamped the row is left alone for an hour: whoever works
\* beside it began more than an hour after it.
FreshJobLeftAlone ==
    \A m, q \in Managers :
        Work(m) /\ Work(q) /\ mem[q].update = began[q] /\ began[q] < began[m]
            => began[m] - began[q] > HOUR

\* The comment in start_cert: a job is taken over when it was started "longer ago
\* than 1 hour so probably timed out".
OnlyTimedOutTakenOver ==
    \A m, q \in Managers :
        m # q /\ Work(m) /\ Work(q) =>
            began[m] - began[q] > HOUR \/ began[q] - began[m] > HOUR

\* start_cert and stop_cert under the Mutex keep the promise of CertLease.
Lease == INSTANCE CertLease WITH holders <- Holders, issued <- Stored
ImplementsLease == Lease!Spec
=============================================================================
