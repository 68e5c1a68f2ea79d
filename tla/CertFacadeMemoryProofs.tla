----------------------- MODULE CertFacadeMemoryProofs -----------------------
(***************************************************************************)
(* Theorems about CertFacadeMemory, for any set of managers and ids, any   *)
(* HOUR and any bounds: HandOver is inductive, and the uniqueness of the   *)
(* holder, the safety of the stored certificate and the refinement of      *)
(* CertLease follow from it.                                               *)
(***************************************************************************)
EXTENDS CertFacadeMemory, TLAPS

-----------------------------------------------------------------------------
(* The rows.                                                               *)

\* UPDATE ... WHERE id on the only row replaces it.
LEMMA UpdateOnlyRow ==
    ASSUME NEW c, certs = {c}, NEW d, d.id = c.id, UpdateCert(d)
    PROVE  certs' = {d}
  BY DEF UpdateCert

\* What UPDATE writes are certificates.
LEMMA UpdateType ==
    ASSUME certs \subseteq Cert, NEW d \in Cert, UpdateCert(d)
    PROVE  certs' \subseteq Cert
  BY DEF UpdateCert

\* start_cert's copy of a row is a certificate for the same domain and id.
LEMMA ClaimedType ==
    ASSUME NEW c \in Cert, now \in Nat
    PROVE  /\ Claimed(c) \in Cert /\ Claimed(c).id = c.id /\ Claimed(c).pem = c.pem
           /\ Claimed(c).state = "Updating"
           /\ Claimed(c).update = IF c.state = "Ok" THEN c.update ELSE now
  BY DEF Claimed, Cert, State

LEMMA NewCertType ==
    ASSUME NEW i \in Ids, NEW d \in Ids, now \in Nat
    PROVE  /\ NewCert(i, d) \in Cert /\ NewCert(i, d).state = "Updating"
           /\ NewCert(i, d).update = now /\ NewCert(i, d).pem = 0
  BY DEF NewCert, Cert, State

LEMMA FinishedType ==
    ASSUME NEW c \in Cert
    PROVE  /\ Finished(c) \in Cert /\ Finished(c).id = c.id /\ Finished(c).pem = c.pem
           /\ Finished(c).state = "Ok" /\ Finished(c).update = c.update
  BY DEF Finished, Cert, State

-----------------------------------------------------------------------------
(* Type correctness.                                                       *)

\* A manager at work has a certificate in memory: needed with TypeOK.
HasCert == \A m \in Managers : Work(m) => mem[m] \in Cert

LEMMA TypeInit == Init => TypeOK /\ HasCert
  BY DEF Init, TypeOK, HasCert, Work, InJob, PC

LEMMA LeaveType ==
    ASSUME TypeOK, HasCert, NEW m \in Managers, Leave(m)
    PROVE  /\ pc' \in [Managers -> PC] /\ mem' \in [Managers -> Cert \cup {None}]
           /\ order' \in [Managers -> Nat] /\ began' \in [Managers -> Nat]
           /\ HasCert'
  BY DEF TypeOK, HasCert, Leave, PC, Work, InJob

LEMMA TakeJobType ==
    ASSUME TypeOK, HasCert, NEW m \in Managers, NEW c \in Cert, TakeJob(m, c)
    PROVE  /\ pc' \in [Managers -> PC] /\ mem' \in [Managers -> Cert \cup {None}]
           /\ order' \in [Managers -> Nat] /\ began' \in [Managers -> Nat]
           /\ HasCert'
  BY DEF TypeOK, HasCert, TakeJob, PC, Work, InJob

LEMMA TypeStep == TypeOK /\ HasCert /\ [Next]_vars => TypeOK' /\ HasCert'
<1> SUFFICES ASSUME TypeOK, HasCert, [Next]_vars
             PROVE  TypeOK' /\ HasCert'
  OBVIOUS
<1>1. CASE Clock
  BY <1>1, Bounds DEF Clock, TypeOK, HasCert, Work, rows, job
<1>2. ASSUME NEW m \in Managers, Tick(m) PROVE TypeOK' /\ HasCert'
  BY <1>2, Bounds DEF Tick, TypeOK, HasCert, Work, InJob, InCall, PC, rows
<1>3. ASSUME NEW m \in Managers, StartCert(m) PROVE TypeOK' /\ HasCert'
  <2>1. PICK seen \in FirstCert : StartFrom(m, seen)
    BY <1>3 DEF StartCert
  <2>2. UNCHANGED <<now, orders, due>>
    BY <1>3 DEF StartCert
  <2>3. CASE seen = None
    <3>1. PICK i \in Ids, d \in Ids :
             /\ domains' = domains \cup {[id |-> d, txt |-> 0]}
             /\ certs' = certs \cup {NewCert(i, d)}
             /\ TakeJob(m, NewCert(i, d))
      BY <2>1, <2>3 DEF StartFrom
    <3>2. NewCert(i, d) \in Cert
      BY NewCertType DEF TypeOK
    <3>3. certs' \subseteq Cert /\ domains' \subseteq Domain
      BY <3>1, <3>2 DEF TypeOK, Domain
    <3> QED BY <3>1, <3>2, <3>3, <2>2, TakeJobType DEF TypeOK
  <2>4. CASE seen # None /\ Claimable(seen)
    <3>1. seen \in Cert
      BY <2>1, <2>4 DEF FirstCert, TypeOK
    <3>2. /\ UpdateCert(Claimed(seen)) /\ TakeJob(m, Claimed(seen)) /\ UNCHANGED domains
      BY <2>1, <2>4 DEF StartFrom
    <3>3. Claimed(seen) \in Cert
      BY <3>1, ClaimedType DEF TypeOK
    <3>4. certs' \subseteq Cert
      BY <3>2, <3>3, UpdateType DEF TypeOK
    <3> QED BY <3>2, <3>3, <3>4, <2>2, TakeJobType DEF TypeOK
  <2>5. CASE seen # None /\ ~Claimable(seen)
    <3>1. Leave(m) /\ UNCHANGED rows
      BY <2>1, <2>5 DEF StartFrom
    <3> QED BY <3>1, <2>2, LeaveType DEF TypeOK, rows
  <2> QED BY <2>3, <2>4, <2>5
<1>4. ASSUME NEW m \in Managers, NewOrder(m) PROVE TypeOK' /\ HasCert'
  BY <1>4 DEF NewOrder, TypeOK, HasCert, Work, InJob, PC, rows
<1>5. ASSUME NEW m \in Managers, Prove(m) PROVE TypeOK' /\ HasCert'
  <2>1. domains' \subseteq Domain
    BY <1>5 DEF Prove, UpdateDomain, TypeOK, Domain
  <2> QED BY <1>5, <2>1 DEF Prove, TypeOK, HasCert, Work, InJob, PC
<1>6. ASSUME NEW m \in Managers, Validate(m) PROVE TypeOK' /\ HasCert'
  BY <1>6 DEF Validate, TypeOK, HasCert, Work, InJob, PC, rows
<1>7. ASSUME NEW m \in Managers, Finalize(m) PROVE TypeOK' /\ HasCert'
  <2>1. mem[m] \in Cert
    BY <1>7 DEF Finalize, HasCert, Work, InJob
  <2>2. [mem[m] EXCEPT !.pem = order[m]] \in Cert
    BY <2>1 DEF Cert, TypeOK
  <2> QED BY <1>7, <2>2 DEF Finalize, TypeOK, HasCert, Work, InJob, PC, rows
<1>8. ASSUME NEW m \in Managers, StopCert(m) PROVE TypeOK' /\ HasCert'
  <2>1. mem[m] \in Cert
    BY <1>8 DEF StopCert, HasCert, Work, InJob
  <2>2. certs' \subseteq Cert
    BY <1>8, <2>1, FinishedType, UpdateType DEF StopCert, TypeOK
  <2>3. Leave(m) /\ UNCHANGED <<now, domains, orders, due>>
    BY <1>8 DEF StopCert
  <2> QED BY <2>2, <2>3, LeaveType DEF TypeOK
<1>9. ASSUME NEW m \in Managers, Fail(m) PROVE TypeOK' /\ HasCert'
  <2>1. Leave(m) /\ UNCHANGED <<now, rows, orders, due>>
    BY <1>9 DEF Fail
  <2> QED BY <2>1, LeaveType DEF TypeOK, rows
<1>10. CASE UNCHANGED vars
  BY <1>10 DEF vars, TypeOK, HasCert, Work
<1> QED
  BY <1>1, <1>2, <1>3, <1>4, <1>5, <1>6, <1>7, <1>8, <1>9, <1>10 DEF Next, Manage

\* Every variable keeps its type, and a manager at work has a certificate.
THEOREM Types == Spec => [](TypeOK /\ HasCert)
  BY TypeInit, TypeStep, PTL DEF Spec

-----------------------------------------------------------------------------
(* HandOver is inductive.                                                  *)

Inv == TypeOK /\ HasCert /\ HandOver

LEMMA HandOverInit == Init => HandOver
  BY DEF Init, HandOver, Work, InJob

\* Leaving the job keeps every promise about the others.
LEMMA LeaveKeeps ==
    ASSUME Inv, NEW m \in Managers, Leave(m), UNCHANGED <<now, certs, orders>>
    PROVE  HandOver'
  BY DEF Inv, TypeOK, HandOver, JobOn, Leave, Work, InJob

\* A step of m that keeps its certificate in memory and its order keeps HandOver.
LEMMA MoveKeeps ==
    ASSUME Inv, NEW m \in Managers, Work(m), pc[m] # "claimed", NEW p, p # "issued",
           pc' = [pc EXCEPT ![m] = p], UNCHANGED <<now, certs, orders, mem, order, began>>
    PROVE  HandOver'
  BY DEF Inv, TypeOK, HandOver, JobOn, Work, InJob

LEMMA StartKeeps ==
    ASSUME Inv, NEW m \in Managers, StartCert(m)
    PROVE  HandOver'
<1>1. PICK seen \in FirstCert : StartFrom(m, seen)
  BY DEF StartCert
<1>2. UNCHANGED <<now, orders, due>> /\ ~Work(m)
  BY DEF StartCert, Work, InJob
<1>3. CASE seen = None
  <2>1. certs = {}
    BY <1>3, NoneIsNoRow DEF FirstCert, Inv, TypeOK
  <2>2. PICK new \in Cert :
           /\ certs' = certs \cup {new} /\ TakeJob(m, new)
           /\ new.state = "Updating" /\ new.update = now /\ new.pem = 0
    BY <1>1, <1>3, NewCertType DEF StartFrom, Inv, TypeOK
  <2>3. \A q \in Managers : ~Work(q)
    BY <2>1 DEF Inv, HandOver
  <2>4. certs' = {new}
    BY <2>1, <2>2
  <2>5. /\ pc' = [pc EXCEPT ![m] = "claimed"] /\ mem' = [mem EXCEPT ![m] = new]
        /\ began' = [began EXCEPT ![m] = now] /\ order' = order
    BY <2>2 DEF TakeJob
  <2>6. \A q \in Managers \ {m} : ~Work(q)'
    BY <2>3, <2>5 DEF Work, Inv, TypeOK
  <2>7. JobOn(m, new)'
    BY <1>2, <2>2, <2>5 DEF JobOn, Inv, TypeOK
  <2>8. \A c \in certs' : c.update <= now' /\ c.pem <= orders'
    BY <1>2, <2>2, <2>4 DEF Inv, TypeOK
  <2> QED
    BY <1>2, <2>4, <2>5, <2>6, <2>7, <2>8 DEF HandOver, Inv
<1>4. CASE seen # None /\ Claimable(seen)
  <2>1. seen \in Cert /\ certs = {seen}
    BY <1>4 DEF FirstCert, Inv, TypeOK, HandOver
  <2>2. PICK new : new = Claimed(seen) /\ UpdateCert(new) /\ TakeJob(m, new)
    BY <1>1, <1>4 DEF StartFrom
  <2>3. /\ new \in Cert /\ new.id = seen.id /\ new.pem = seen.pem /\ new.state = "Updating"
        /\ new.update = IF seen.state = "Ok" THEN seen.update ELSE now
    BY <2>1, <2>2, ClaimedType DEF Inv, TypeOK
  <2>4. certs' = {new}
    BY <2>1, <2>2, <2>3, UpdateOnlyRow
  <2>5. /\ pc' = [pc EXCEPT ![m] = "claimed"] /\ mem' = [mem EXCEPT ![m] = new]
        /\ began' = [began EXCEPT ![m] = now] /\ order' = order
    BY <2>2 DEF TakeJob
  <2>6. seen.update \in Nat /\ seen.pem \in Nat /\ new.update \in Nat
        /\ seen.update <= now /\ seen.pem <= orders /\ now \in Nat
    BY <2>1, <2>3 DEF Inv, TypeOK, HandOver, Cert
  <2>7. JobOn(m, new)'
    BY <2>3, <2>5, <2>6, <1>2 DEF JobOn, Inv, TypeOK
  \* No earlier worker has the stamp of the new one.
  <2>8. ASSUME NEW q \in Managers, q # m, Work(q)
        PROVE  /\ JobOn(q, seen) /\ mem[q].update \in Nat
               /\ new.update - mem[q].update > HOUR
    <3>1. JobOn(q, seen) /\ mem[q].update \in Nat
      BY <2>1, <2>8 DEF Inv, HandOver, JobOn, Cert
    <3>2. CASE seen.state = "Ok"
      BY <3>1, <3>2, <2>3 DEF JobOn
    <3>3. CASE seen.state # "Ok"
      BY <3>1, <3>3, <1>4, <2>3, <2>6, Bounds DEF JobOn, Claimable
    <3> QED BY <3>1, <3>2, <3>3
  <2>9. ASSUME NEW q \in Managers, q # m, Work(q)'
        PROVE  JobOn(q, new)' /\ mem'[q].update # new.update
    <3>1. Work(q) /\ pc'[q] = pc[q] /\ mem'[q] = mem[q] /\ began'[q] = began[q]
      BY <2>5, <2>9 DEF Work, Inv, TypeOK
    <3> QED BY <3>1, <2>3, <2>5, <2>6, <2>8, <1>2, Bounds DEF JobOn
  <2>10. \A c \in certs' : c.update <= now' /\ c.pem <= orders'
    BY <1>2, <2>3, <2>4, <2>6
  <2>11. \A q, r \in Managers :
            Work(q)' /\ Work(r)' /\ mem'[q].update = mem'[r].update => q = r
    <3>1. mem'[m] = new
      BY <2>5 DEF Inv, TypeOK
    <3>2. \A q \in Managers \ {m} : Work(q)' => Work(q) /\ mem'[q] = mem[q]
      BY <2>5 DEF Work, Inv, TypeOK
    <3> QED BY <3>1, <3>2, <2>9 DEF Inv, HandOver
  <2> QED BY <1>2, <2>4, <2>5, <2>7, <2>9, <2>10, <2>11 DEF HandOver, Inv, TypeOK
<1>5. CASE seen # None /\ ~Claimable(seen)
  <2>1. Leave(m) /\ UNCHANGED rows
    BY <1>1, <1>5 DEF StartFrom
  <2> QED BY <2>1, <1>2, LeaveKeeps DEF rows
<1> QED BY <1>3, <1>4, <1>5

\* What start_cert returns: nothing, or the only row, as a claim of the row before.
LEMMA StartCases ==
    ASSUME Inv, NEW m \in Managers, StartCert(m)
    PROVE  \/ Leave(m) /\ UNCHANGED certs
           \/ \E new \in Cert :
                 /\ certs' = {new} /\ new.state = "Updating" /\ TakeJob(m, new)
                 /\ \/ certs = {} /\ new.pem = 0
                    \/ \E c \in Cert : certs = {c} /\ new.id = c.id /\ new.pem = c.pem
<1>1. PICK seen \in FirstCert : StartFrom(m, seen)
  BY DEF StartCert
<1>2. CASE seen = None
  <2>1. certs = {}
    BY <1>2, NoneIsNoRow DEF FirstCert, Inv, TypeOK
  <2> QED BY <1>1, <1>2, <2>1, NewCertType DEF StartFrom, Inv, TypeOK
<1>3. CASE seen # None /\ Claimable(seen)
  <2>1. seen \in Cert /\ certs = {seen}
    BY <1>3 DEF FirstCert, Inv, TypeOK, HandOver
  <2>2. PICK new : new = Claimed(seen) /\ UpdateCert(new) /\ TakeJob(m, new)
    BY <1>1, <1>3 DEF StartFrom
  <2>3. new \in Cert /\ new.id = seen.id /\ new.pem = seen.pem /\ new.state = "Updating"
    BY <2>1, <2>2, ClaimedType DEF Inv, TypeOK
  <2> QED BY <2>1, <2>2, <2>3, UpdateOnlyRow
<1>4. CASE seen # None /\ ~Claimable(seen)
  BY <1>1, <1>4 DEF StartFrom, rows
<1> QED BY <1>2, <1>3, <1>4

\* What stop_cert finds: either the job is still m's and the row becomes its copy, or
\* nothing is stored.
LEMMA StopCases ==
    ASSUME Inv, NEW m \in Managers, StopCert(m)
    PROVE  \/ UNCHANGED certs
           \/ \E c, d \in Cert :
                 /\ certs = {c} /\ certs' = {d} /\ Holds(m)
                 /\ c.state = "Updating" /\ c.update = mem[m].update
                 /\ d.state = "Ok" /\ d.id = c.id /\ d.update = c.update
                 /\ d.pem = order[m] /\ c.pem < order[m]
<1>1. PICK seen \in FirstCert :
         IF StillMine(seen, mem[m]) THEN UpdateCert(Finished(mem[m])) ELSE UNCHANGED certs
  BY DEF StopCert
<1>2. CASE ~StillMine(seen, mem[m])
  BY <1>1, <1>2
<1>3. CASE StillMine(seen, mem[m])
  <2>1. Work(m) /\ pc[m] = "issued"
    BY DEF StopCert, Work, InJob
  <2>2. seen \in Cert /\ certs = {seen}
    BY <2>1, <1>3 DEF FirstCert, StillMine, Inv, TypeOK, HandOver
  <2>3. JobOn(m, seen) /\ seen.state = "Updating" /\ seen.update = mem[m].update
    BY <2>1, <2>2, <1>3 DEF StillMine, Inv, HandOver
  <2>4. PICK d : d = Finished(mem[m]) /\ UpdateCert(d)
    BY <1>1, <1>3
  <2>5. /\ d \in Cert /\ d.id = seen.id /\ d.update = seen.update /\ d.state = "Ok"
        /\ d.pem = order[m] /\ seen.pem < order[m]
    BY <2>1, <2>2, <2>3, <2>4, FinishedType DEF JobOn, Inv, TypeOK, Cert
  <2>6. certs' = {d}
    BY <2>2, <2>4, <2>5, UpdateOnlyRow
  <2>7. Holds(m)
    BY <2>1, <2>2, <2>3 DEF Holds
  <2> QED BY <2>2, <2>3, <2>5, <2>6, <2>7
<1> QED BY <1>2, <1>3

LEMMA StopKeeps ==
    ASSUME Inv, NEW m \in Managers, StopCert(m)
    PROVE  HandOver'
<1>1. Leave(m) /\ UNCHANGED <<now, orders>>
  BY DEF StopCert
<1>2. CASE UNCHANGED certs
  BY <1>1, <1>2, LeaveKeeps
<1>3. CASE ~UNCHANGED certs
  <2>1. PICK c \in Cert, d \in Cert :
           /\ certs = {c} /\ certs' = {d} /\ Holds(m)
           /\ c.state = "Updating" /\ c.update = mem[m].update
           /\ d.state = "Ok" /\ d.id = c.id /\ d.update = c.update
           /\ d.pem = order[m] /\ c.pem < order[m]
    BY <1>3, StopCases
  <2>2. \A q \in Managers : Work(q)' =>
           /\ q # m /\ Work(q) /\ pc'[q] = pc[q] /\ mem'[q] = mem[q]
           /\ began'[q] = began[q] /\ order'[q] = order[q]
    BY <1>1 DEF Leave, Work, InJob, Inv, TypeOK
  \* The stamp of the row was m's alone, so nobody has it now.
  <2>3. \A q \in Managers : Work(q)' => JobOn(q, c) /\ mem[q].update # c.update
    BY <2>1, <2>2 DEF Holds, Inv, HandOver
  <2>4. \A q \in Managers : Work(q)' => JobOn(q, d)'
    BY <2>1, <2>2, <2>3, <1>1 DEF JobOn
  <2>5. d.update <= now' /\ d.pem <= orders'
    BY <2>1, <1>1 DEF Inv, HandOver
  <2>6. \A q \in Managers : order'[q] <= orders'
    BY <1>1 DEF Leave, Inv, HandOver, TypeOK
  <2> QED BY <2>1, <2>2, <2>4, <2>5, <2>6 DEF HandOver, Inv
<1> QED BY <1>2, <1>3

LEMMA HandOverStep == Inv /\ [Next]_vars => HandOver'
<1> SUFFICES ASSUME Inv, [Next]_vars
             PROVE  HandOver'
  OBVIOUS
<1>1. CASE Clock
  <2>1. now' = now + 1 /\ UNCHANGED <<certs, orders, pc, mem, order, began>>
    BY <1>1 DEF Clock, rows, job
  <2>2. \A c \in certs : c.update <= now'
    BY <2>1 DEF Inv, TypeOK, HandOver, Cert
  <2>3. \A m \in Managers, c \in certs : JobOn(m, c) => JobOn(m, c)'
    BY <2>1 DEF Inv, TypeOK, JobOn
  <2> QED BY <2>1, <2>2, <2>3 DEF Inv, HandOver, Work
<1>2. ASSUME NEW m \in Managers, Tick(m) PROVE HandOver'
  BY <1>2 DEF Tick, Inv, TypeOK, HandOver, JobOn, Work, InJob, rows
<1>3. ASSUME NEW m \in Managers, StartCert(m) PROVE HandOver'
  BY <1>3, StartKeeps
<1>4. ASSUME NEW m \in Managers, NewOrder(m) PROVE HandOver'
  <2>1. \A c \in certs : c.pem \in Nat
    BY DEF Inv, TypeOK, Cert
  <2> QED
    BY <1>4, <2>1 DEF NewOrder, Inv, TypeOK, HandOver, JobOn, Work, InJob, rows
<1>5. ASSUME NEW m \in Managers, Prove(m) PROVE HandOver'
  BY <1>5, MoveKeeps DEF Prove, Work, InJob
<1>6. ASSUME NEW m \in Managers, Validate(m) PROVE HandOver'
  <2>1. PICK p \in {"pending", "ready"} : pc' = [pc EXCEPT ![m] = p]
    BY <1>6 DEF Validate
  <2> QED BY <1>6, <2>1, MoveKeeps DEF Validate, Work, InJob, rows
<1>7. ASSUME NEW m \in Managers, Finalize(m) PROVE HandOver'
  <2>1. mem[m] \in Cert /\ Work(m)
    BY <1>7 DEF Finalize, Inv, HasCert, Work, InJob
  <2>2. PICK d : d = [mem[m] EXCEPT !.pem = order[m]] /\ mem' = [mem EXCEPT ![m] = d]
    BY <1>7 DEF Finalize
  <2>3. /\ d \in Cert /\ d.id = mem[m].id /\ d.state = mem[m].state
        /\ d.update = mem[m].update /\ d.pem = order[m]
    BY <2>1, <2>2 DEF Cert, Inv, TypeOK
  <2> QED
    BY <1>7, <2>1, <2>2, <2>3
    DEF Finalize, Inv, TypeOK, HandOver, JobOn, Work, InJob, rows
<1>8. ASSUME NEW m \in Managers, StopCert(m) PROVE HandOver'
  BY <1>8, StopKeeps
<1>9. ASSUME NEW m \in Managers, Fail(m) PROVE HandOver'
  BY <1>9, LeaveKeeps DEF Fail, rows
<1>10. CASE UNCHANGED vars
  BY <1>10 DEF vars, Inv, TypeOK, HandOver, JobOn, Work
<1> QED
  BY <1>1, <1>2, <1>3, <1>4, <1>5, <1>6, <1>7, <1>8, <1>9, <1>10 DEF Next, Manage, Inv

\* The inductive invariant of the in-memory facade.
LEMMA Invariance == Spec => []Inv
<1>1. Init => Inv
  BY TypeInit, HandOverInit DEF Inv
<1>2. Inv /\ [Next]_vars => Inv'
  BY TypeStep, HandOverStep DEF Inv
<1> QED BY <1>1, <1>2, PTL DEF Spec

-----------------------------------------------------------------------------
(* What follows.                                                           *)

\* Every variable keeps its type.
THEOREM TypeCorrect == Spec => []TypeOK
  BY Types, PTL

\* The stamp tells the last taker apart from every earlier one.
THEOREM HandedOver == Spec => []HandOver
<1>1. Inv => HandOver
  BY DEF Inv
<1> QED BY <1>1, Invariance, PTL

\* Never two managers whose stop_cert would both store a certificate.
THEOREM AtMostOneHolder == Spec => []UniqueHolder
<1>1. Inv => UniqueHolder
  BY DEF Inv, HandOver, UniqueHolder, Holders, Holds
<1> QED BY <1>1, Invariance, PTL

\* No step replaces the stored certificate by an older one or removes it.
THEOREM CertificateNeverOlder == Spec => NeverOlder
<1> DEFINE Grows == \A c \in certs, d \in certs' : c.id = d.id => c.pem <= d.pem
<1>1. Inv /\ [Next]_vars => [Grows]_vars
  <2> SUFFICES ASSUME Inv, Next
               PROVE  Grows
    OBVIOUS
  <2>1. ASSUME UNCHANGED certs PROVE Grows
    BY <2>1 DEF Inv, TypeOK, HandOver, Cert
  <2>2. ASSUME NEW m \in Managers, StartCert(m) PROVE Grows
    BY <2>1, <2>2, StartCases DEF Inv, TypeOK, Cert
  <2>3. ASSUME NEW m \in Managers, StopCert(m) PROVE Grows
    BY <2>3, <2>1, StopCases DEF Inv, TypeOK, Cert
  <2>4. ASSUME NEW m \in Managers, Tick(m) \/ Manage(m) \/ Fail(m) PROVE UNCHANGED certs
    BY <2>4 DEF Tick, Manage, NewOrder, Prove, Validate, Finalize, Fail, rows
  <2> QED BY <2>1, <2>2, <2>3, <2>4 DEF Next, Clock, rows
<1> QED BY <1>1, Invariance, PTL DEF Spec, NeverOlder

\* A job stamped by its start_cert is left alone for an hour.
THEOREM FreshJobIsLeftAlone == Spec => []FreshJobLeftAlone
<1>1. Init => FreshJobLeftAlone
  BY DEF Init, FreshJobLeftAlone, Work, InJob
<1>2. Inv /\ Inv' /\ FreshJobLeftAlone /\ [Next]_vars => FreshJobLeftAlone'
  <2> SUFFICES ASSUME Inv, Inv', FreshJobLeftAlone, [Next]_vars
               PROVE  FreshJobLeftAlone'
    OBVIOUS
  <2>1. ASSUME NEW m \in Managers, Leave(m) PROVE FreshJobLeftAlone'
    BY <2>1 DEF Leave, FreshJobLeftAlone, Work, InJob, Inv, TypeOK
  <2>2. ASSUME NEW m \in Managers, NEW new \in Cert, TakeJob(m, new), certs' = {new},
               now' = now
        PROVE  FreshJobLeftAlone'
    <3>1. pc'[m] = "claimed" /\ mem'[m] = new /\ began'[m] = now /\ Work(m)'
      BY <2>2 DEF TakeJob, Work, InJob, Inv, TypeOK
    <3>2. \A q \in Managers \ {m} : Work(q)' =>
             Work(q) /\ mem'[q] = mem[q] /\ began'[q] = began[q] /\ began[q] <= now
      <4>1. \A q \in Managers \ {m} : Work(q)' =>
               Work(q) /\ mem'[q] = mem[q] /\ began'[q] = began[q]
        BY <2>2 DEF TakeJob, Work, Inv, TypeOK
      <4>2. \A q \in Managers : Work(q)' => JobOn(q, new)'
        BY <2>2 DEF Inv, HandOver
      <4> QED BY <2>2, <4>1, <4>2 DEF JobOn
    <3>3. ASSUME NEW q \in Managers \ {m}, Work(q)'
          PROVE  new.update - mem'[q].update > HOUR /\ new.update <= now
      <4>1. JobOn(q, new)' /\ mem'[q].update # new.update /\ new.update <= now'
        BY <2>2, <3>1, <3>3 DEF Inv, HandOver
      <4> QED BY <2>2, <4>1 DEF JobOn
    <3>4. now \in Nat /\ new.update \in Nat /\ began \in [Managers -> Nat]
      BY DEF Inv, TypeOK, Cert
    <3>5. ASSUME NEW q \in Managers \ {m}, Work(q)', mem'[q].update = began'[q]
          PROVE  began'[m] - began'[q] > HOUR
      BY <3>1, <3>2, <3>3, <3>4, <3>5, Bounds
    <3>6. ASSUME NEW p \in Managers, NEW q \in Managers, Work(p)', Work(q)',
                 mem'[q].update = began'[q], began'[q] < began'[p]
          PROVE  began'[p] - began'[q] > HOUR
      <4>1. CASE p = m
        BY <3>5, <3>6, <4>1, <3>1, <3>4
      <4>2. CASE p # m /\ q = m
        BY <3>6, <4>2, <3>1, <3>2, <3>4
      <4>3. CASE p # m /\ q # m
        BY <3>6, <4>3, <3>2 DEF FreshJobLeftAlone
      <4> QED BY <4>1, <4>2, <4>3
    <3> QED BY <3>6 DEF FreshJobLeftAlone
  <2>3. ASSUME NEW m \in Managers, StartCert(m) PROVE FreshJobLeftAlone'
    BY <2>1, <2>2, <2>3, StartCases DEF StartCert
  <2>4. ASSUME NEW m \in Managers, Tick(m) PROVE FreshJobLeftAlone'
    BY <2>4 DEF Tick, FreshJobLeftAlone, Work, InJob, Inv, TypeOK
  <2>5. ASSUME NEW m \in Managers, NewOrder(m) \/ Prove(m) \/ Validate(m)
        PROVE  FreshJobLeftAlone'
    BY <2>5
    DEF NewOrder, Prove, Validate, FreshJobLeftAlone, Work, InJob, Inv, TypeOK
  <2>6. ASSUME NEW m \in Managers, Finalize(m) PROVE FreshJobLeftAlone'
    <3>1. Work(m) /\ mem[m] \in Cert
      BY <2>6 DEF Finalize, Work, InJob, Inv, HasCert
    <3>2. \A q \in Managers : Work(q)' =>
             Work(q) /\ mem'[q].update = mem[q].update /\ began'[q] = began[q]
      BY <2>6, <3>1 DEF Finalize, Work, InJob, Inv, TypeOK, Cert
    <3> QED BY <3>2 DEF FreshJobLeftAlone
  <2>7. ASSUME NEW m \in Managers, StopCert(m) \/ Fail(m) PROVE FreshJobLeftAlone'
    BY <2>1, <2>7 DEF StopCert, Fail
  <2>8. CASE UNCHANGED <<pc, mem, began>>
    BY <2>8 DEF FreshJobLeftAlone, Work
  <2> QED
    BY <2>3, <2>4, <2>5, <2>6, <2>7, <2>8 DEF Next, Manage, Clock, job, vars
<1> QED BY <1>1, <1>2, Invariance, PTL DEF Spec

-----------------------------------------------------------------------------
(* CertFacadeMemory implements CertLease.                                  *)

\* The only row's certificate is the one the abstract specification has.
LEMMA StoredIs == ASSUME NEW c, certs = {c} PROVE Stored = c.pem
  BY DEF Stored

LEMMA StoredNextIs == ASSUME NEW c, certs' = {c} PROVE Stored' = c.pem
  BY DEF Stored

LEMMA LeaseInit == Init => Lease!Init
  BY DEF Init, Lease!Init, Holders, Holds, Work, InJob, Stored

\* Leaving gives the job up, if m had it.
LEMMA LeaseGiveUp ==
    ASSUME Inv, NEW m \in Managers, Leave(m), UNCHANGED certs
    PROVE  Lease!GiveUp(m)
<1>1. Holders' = Holders \ {m}
  BY DEF Holders, Holds, Leave, Work, InJob, Inv, TypeOK
<1> QED BY <1>1 DEF Lease!GiveUp, Stored

\* Steps that touch neither the rows nor the stamp in a memory_cert are not seen.
LEMMA LeaseStutter ==
    ASSUME UNCHANGED certs,
           \A m \in Managers : Work(m)' <=> Work(m),
           \A m \in Managers : Work(m) => mem'[m].update = mem[m].update
    PROVE  UNCHANGED <<Holders, Stored>>
<1>1. \A m \in Managers : Holds(m)' <=> Holds(m)
  BY DEF Holds
<1> QED BY <1>1 DEF Holders, Stored

LEMMA LeaseStep ==
    ASSUME Inv, Inv', [Next]_vars
    PROVE  [Lease!Next]_<<Holders, Stored>>
<1>1. ASSUME NEW m \in Managers, StartCert(m) PROVE [Lease!Next]_<<Holders, Stored>>
  <2>1. CASE Leave(m) /\ UNCHANGED certs
    BY <2>1, LeaseGiveUp DEF Lease!Next
  <2>2. ASSUME NEW new \in Cert, certs' = {new}, new.state = "Updating", TakeJob(m, new),
               \/ certs = {} /\ new.pem = 0
               \/ \E c \in Cert : certs = {c} /\ new.id = c.id /\ new.pem = c.pem
        PROVE  Lease!Acquire(m)
    <3>1. Work(m)' /\ mem'[m] = new
      BY <2>2 DEF TakeJob, Work, InJob, Inv, TypeOK
    <3>2. \A q \in Managers : Holds(q)' <=> q = m
      BY <2>2, <3>1 DEF Holds, Inv, HandOver
    <3>3. Stored' = Stored
      <4>1. CASE certs = {} /\ new.pem = 0
        BY <2>2, <4>1, StoredNextIs DEF Stored
      <4>2. CASE \E c \in Cert : certs = {c} /\ new.id = c.id /\ new.pem = c.pem
        BY <2>2, <4>2, StoredNextIs, StoredIs
      <4> QED BY <2>2, <4>1, <4>2
    <3> QED BY <3>2, <3>3 DEF Holders, Lease!Acquire
  <2> QED BY <1>1, <2>1, <2>2, StartCases DEF Lease!Next
<1>2. ASSUME NEW m \in Managers, StopCert(m) PROVE [Lease!Next]_<<Holders, Stored>>
  <2>1. Leave(m)
    BY <1>2 DEF StopCert
  <2>2. CASE UNCHANGED certs
    BY <2>1, <2>2, LeaseGiveUp DEF Lease!Next
  <2>3. ASSUME NEW c \in Cert, NEW d \in Cert, certs = {c}, certs' = {d}, Holds(m),
               d.state = "Ok", d.pem = order[m], c.pem < order[m]
        PROVE  Lease!Store(m)
    <3>1. Holders' = {} /\ m \in Holders
      BY <2>3 DEF Holders, Holds
    <3>2. Stored' = order[m] /\ Stored = c.pem
      BY <2>3, StoredIs, StoredNextIs
    <3> QED BY <2>3, <3>1, <3>2 DEF Lease!Store, Inv, TypeOK
  <2> QED BY <1>2, <2>2, <2>3, StopCases DEF Lease!Next
<1>3. ASSUME NEW m \in Managers, Fail(m) PROVE [Lease!Next]_<<Holders, Stored>>
  BY <1>3, LeaseGiveUp DEF Fail, rows, Lease!Next
<1>4. ASSUME NEW m \in Managers, Finalize(m) PROVE UNCHANGED <<Holders, Stored>>
  <2>1. Work(m) /\ mem[m] \in Cert
    BY <1>4 DEF Finalize, Work, InJob, Inv, HasCert
  <2>2. \A q \in Managers : (Work(q)' <=> Work(q)) /\ mem'[q].update = mem[q].update
    BY <1>4, <2>1 DEF Finalize, Work, InJob, Inv, TypeOK, Cert
  <2>3. UNCHANGED certs
    BY <1>4 DEF Finalize, rows
  <2> QED BY <2>2, <2>3, LeaseStutter
<1>5. ASSUME NEW m \in Managers, Tick(m) \/ NewOrder(m) \/ Prove(m) \/ Validate(m)
      PROVE  UNCHANGED <<Holders, Stored>>
  <2>1. UNCHANGED <<certs, mem>>
    BY <1>5 DEF Tick, NewOrder, Prove, Validate, rows
  <2>2. \A q \in Managers : Work(q)' <=> Work(q)
    BY <1>5 DEF Tick, NewOrder, Prove, Validate, Work, InJob, Inv, TypeOK
  <2> QED BY <2>1, <2>2, LeaseStutter
<1>6. CASE UNCHANGED <<certs, pc, mem>>
  BY <1>6, LeaseStutter DEF Work
<1> QED
  BY <1>1, <1>2, <1>3, <1>4, <1>5, <1>6 DEF Next, Manage, Clock, rows, job, vars

\* start_cert and stop_cert under the Mutex keep the promise of CertLease.
THEOREM Refinement == Spec => ImplementsLease
<1>1. Inv /\ Inv' /\ [Next]_vars => [Lease!Next]_<<Holders, Stored>>
  BY LeaseStep
<1>2. [Lease!Next]_<<Holders, Stored>> <=> [Lease!Next]_Lease!lvars
  BY DEF Lease!lvars
<1> QED BY <1>1, <1>2, LeaseInit, Invariance, PTL DEF Spec, ImplementsLease, Lease!Spec
=============================================================================
