---------------------------- MODULE CertManager ----------------------------
(***************************************************************************)
(* The renewal job of src/cert.rs and the rows it works on: the tables     *)
(* cert and domain, the interval loop of CertManager::spawn, and the steps *)
(* of manage and validate between start_cert and stop_cert.  How those two *)
(* calls are carried out differs between the facades: CertFacadeMemory and *)
(* CertFacadeDatabase extend this module with them.                        *)
(*                                                                         *)
(* A certificate and its private key are always written together, so both  *)
(* are one number here, the order that issued them (0: None); an           *)
(* authorization's TXT proof is the number of its order too.  A Failure    *)
(* stands for every `?` on the way: the call returns Err and manage ends.  *)
(***************************************************************************)
EXTENDS Integers

CONSTANTS
    Managers,    \* processes (or tasks) that run the interval loop
    Ids,         \* uuids
    None,        \* Option::None
    HOUR,        \* HOUR_IN_SECONDS, in ticks of the clock
    MaxTime,     \* bound: the last clock value
    MaxOrders,   \* bound: the number of orders the CA accepts
    Skipping,    \* the literal of `if true` in the loop: TRUE in this commit
    FailAt       \* bound: the places where a call may return Err

VARIABLES
    now,       \* util::now, the wall clock
    certs,     \* table cert
    domains,   \* table domain
    orders,    \* orders created at the CA so far
    pc,        \* where a manager is in manage
    mem,       \* its memory_cert
    order,     \* its current order, 0 before new_order
    began,     \* history: when its start_cert returned the job
    due        \* the next deadline of its Interval

vars == <<now, certs, domains, orders, pc, mem, order, began, due>>
rows == <<certs, domains>>
job  == <<pc, mem, order, began>>

State  == {"Ok", "Updating"}
Cert   == [id : Ids, update : Nat, state : State, pem : Nat, domain : Ids]
Domain == [id : Ids, txt : Nat]

\* manage holds a memory_cert in these places and no call on the cert table is open.
InJob  == {"claimed", "pending", "validate", "ready", "issued"}
\* The calls of the facade that take more than one statement on a database.
InCall == {"start", "selected", "stopping"}
PC     == {"idle"} \cup InCall \cup InJob

ASSUME Bounds == /\ HOUR \in Nat \ {0}
                 /\ MaxTime \in Nat /\ MaxOrders \in Nat
                 /\ Skipping \in BOOLEAN /\ FailAt \subseteq PC \ {"idle"}
ASSUME NoneIsNoRow == None \notin Cert

TypeOK ==
    /\ now \in Nat /\ orders \in Nat
    /\ certs \subseteq Cert /\ domains \subseteq Domain
    /\ pc \in [Managers -> PC]
    /\ mem \in [Managers -> Cert \cup {None}]
    /\ order \in [Managers -> Nat]
    /\ began \in [Managers -> Nat] /\ due \in [Managers -> Nat]

Init ==
    /\ now = 0 /\ orders = 0 /\ certs = {} /\ domains = {}
    /\ pc = [m \in Managers |-> "idle"]
    /\ mem = [m \in Managers |-> None]
    /\ order = [m \in Managers |-> 0]
    /\ began = [m \in Managers |-> 0]
    /\ due = [m \in Managers |-> 0]

-----------------------------------------------------------------------------
(* The rows.                                                               *)

\* SELECT * FROM cert LIMIT 1: any row, for the query names no order.
FirstCert == IF certs = {} THEN {None} ELSE certs

\* UPDATE cert SET ... WHERE id: the whole row, from the caller's copy.
UpdateCert(c) == certs' = {IF r.id = c.id THEN c ELSE r : r \in certs}

\* A plausible bug: the update names no domain.
UpdateAnyDomain(d, proof) == domains' = {[x EXCEPT !.txt = proof] : x \in domains}

\* UPDATE domain SET ... WHERE id: only txt ever changes.
UpdateDomain(d, proof) ==
    domains' = {IF x.id = d THEN [x EXCEPT !.txt = proof] ELSE x : x \in domains}

\* A plausible bug: the row is born an hour old.
NewCertTimedOut(i, d) == [id |-> i, update |-> now - HOUR, state |-> "Updating",
                          pem |-> 0, domain |-> d]

NewCert(i, d) ==
    [id |-> i, update |-> now, state |-> "Updating", pem |-> 0, domain |-> d]

Work(m) == pc[m] \in InJob

Leave(m) ==
    /\ pc' = [pc EXCEPT ![m] = "idle"]
    /\ mem' = [mem EXCEPT ![m] = None]
    /\ order' = [order EXCEPT ![m] = 0]
    /\ began' = [began EXCEPT ![m] = 0]

TakeJob(m, c) ==
    /\ pc' = [pc EXCEPT ![m] = "claimed"]
    /\ mem' = [mem EXCEPT ![m] = c]
    /\ began' = [began EXCEPT ![m] = now]
    /\ UNCHANGED order

-----------------------------------------------------------------------------
(* start_cert, from the row its query returned, and the test of stop_cert. *)

\* Plausible bugs: the hour is not subtracted; a timed-out job is never retried.
ClaimableAnyAge(c) == c.state = "Ok" \/ c.update <= now
ClaimableOnlyOk(c) == c.state = "Ok"

Claimable(c) == c.state = "Ok" \/ c.update < now - HOUR

\* A plausible bug: the takeover does not stamp the row.
ClaimedUnstamped(c) == [c EXCEPT !.state = "Updating"]

\* A plausible bug: the takeover starts over with an empty certificate.
ClaimedAnew(c) == [c EXCEPT !.state = "Updating", !.update = now, !.pem = 0]

\* Only the takeover of an Updating row stamps it with the time.
Claimed(c) ==
    IF c.state = "Ok" THEN [c EXCEPT !.state = "Updating"]
                      ELSE [c EXCEPT !.state = "Updating", !.update = now]

\* A plausible bug: the new domain is created again on every attempt.
StartFromAlwaysNew(m, seen) ==
    \E i \in Ids \ {c.id : c \in certs}, d \in Ids \ {x.id : x \in domains} :
        /\ domains' = domains \cup {[id |-> d, txt |-> 0]}
        /\ certs' = certs \cup {NewCert(i, d)}
        /\ TakeJob(m, NewCert(i, d))

\* A plausible bug: the new domain is not inserted with its certificate.
StartFromNoDomain(m, seen) ==
    \/ /\ seen = None
       /\ \E i, d \in Ids :
             certs' = certs \cup {NewCert(i, d)} /\ TakeJob(m, NewCert(i, d))
       /\ UNCHANGED domains
    \/ seen # None /\ Leave(m) /\ UNCHANGED rows

StartFrom(m, seen) ==
    \/ /\ seen = None
       /\ \E i \in Ids \ {c.id : c \in certs}, d \in Ids \ {x.id : x \in domains} :
             /\ domains' = domains \cup {[id |-> d, txt |-> 0]}
             /\ certs' = certs \cup {NewCert(i, d)}
             /\ TakeJob(m, NewCert(i, d))
    \/ /\ seen # None /\ Claimable(seen)
       /\ UpdateCert(Claimed(seen))
       /\ TakeJob(m, Claimed(seen))
       /\ UNCHANGED domains
    \/ /\ seen # None /\ ~Claimable(seen)   \* "job still in progress"
       /\ Leave(m)
       /\ UNCHANGED rows

\* A plausible bug: the update times are not compared.
StillMineIfUpdating(seen, c) == seen # None /\ seen.state = "Updating"

StillMine(seen, c) ==
    seen # None /\ seen.state = "Updating" /\ seen.update = c.update

Finished(c) == [c EXCEPT !.state = "Ok"]

-----------------------------------------------------------------------------
(* The interval loop, and manage between start_cert and stop_cert.         *)

\* Interval: missed deadlines fire at once, one period apart.
Tick(m) ==
    /\ pc[m] = "idle" /\ due[m] <= now
    /\ due' = [due EXCEPT ![m] = @ + HOUR]
    /\ pc' = [pc EXCEPT ![m] = IF Skipping THEN "idle" ELSE "start"]
    /\ UNCHANGED <<now, rows, orders, mem, order, began>>

\* find_domain_by_id, then account and new_order: the CA may hand out an order
\* whose authorization is already valid.
NewOrder(m) ==
    /\ pc[m] = "claimed" /\ orders < MaxOrders
    /\ \E d \in domains : d.id = mem[m].domain
    /\ orders' = orders + 1
    /\ order' = [order EXCEPT ![m] = orders + 1]
    /\ \E s \in {"pending", "ready"} : pc' = [pc EXCEPT ![m] = s]
    /\ UNCHANGED <<now, rows, mem, began, due>>

\* A plausible bug: the proof of the new order is not published.
ProveNothing(m) ==
    /\ pc[m] = "pending"
    /\ pc' = [pc EXCEPT ![m] = "validate"]
    /\ UNCHANGED <<now, rows, orders, mem, order, began, due>>

\* confirm_validations is None: domain.txt = dns_proof, update_domain.
Prove(m) ==
    /\ pc[m] = "pending"
    /\ UpdateDomain(mem[m].domain, order[m])
    /\ pc' = [pc EXCEPT ![m] = "validate"]
    /\ UNCHANGED <<now, certs, orders, mem, order, began, due>>

\* What the DNS authority can answer for _acme-challenge: the txt of the domain
\* of the first cert.
Answers == {d.txt : d \in {x \in domains : \E c \in certs : c.domain = x.id}}

\* chall.validate, order.refresh: the CA accepts its proof only, and the refreshed
\* order may still be pending.
Validate(m) ==
    /\ pc[m] = "validate" /\ order[m] \in Answers
    /\ \E s \in {"pending", "ready"} : pc' = [pc EXCEPT ![m] = s]
    /\ UNCHANGED <<now, rows, orders, mem, order, began, due>>

\* finalize_pkey, download_and_save_cert.
Finalize(m) ==
    /\ pc[m] = "ready"
    /\ mem' = [mem EXCEPT ![m].pem = order[m]]
    /\ pc' = [pc EXCEPT ![m] = "issued"]
    /\ UNCHANGED <<now, rows, orders, order, began, due>>

\* An Err: an open transaction is rolled back, the loop logs it and goes on.
Fail(m) ==
    /\ pc[m] \in FailAt
    /\ Leave(m)
    /\ UNCHANGED <<now, rows, orders, due>>

Clock == now < MaxTime /\ now' = now + 1
         /\ UNCHANGED <<rows, orders, job, due>>

Manage(m) == NewOrder(m) \/ Prove(m) \/ Validate(m) \/ Finalize(m)
=============================================================================
