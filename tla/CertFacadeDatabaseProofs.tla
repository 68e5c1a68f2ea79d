---------------------- MODULE CertFacadeDatabaseProofs ----------------------
(***************************************************************************)
(* Theorems about CertFacadeDatabase.  For any number of processes, which  *)
(* die and fail wherever they like: a certificate never loses its domain,  *)
(* there are never more rows than processes, and a job left behind         *)
(* waits until it is taken over.  For one process: the DNS answers its     *)
(* proof, it stores nothing older, and start_cert and stop_cert keep the   *)
(* promise of CertLease.                                                   *)
(***************************************************************************)
EXTENDS CertFacadeDatabase, FiniteSetTheorems, TLAPS

-----------------------------------------------------------------------------
(* The rows.                                                               *)

\* start_cert's copy of a row is a certificate for the same domain and id.
LEMMA ClaimedType ==
    ASSUME NEW c \in Cert, now \in Nat
    PROVE  /\ Claimed(c) \in Cert /\ Claimed(c).id = c.id /\ Claimed(c).pem = c.pem
           /\ Claimed(c).domain = c.domain /\ Claimed(c).state = "Updating"
  BY DEF Claimed, Cert, State

LEMMA NewCertType ==
    ASSUME NEW i \in Ids, NEW d \in Ids, now \in Nat
    PROVE  /\ NewCert(i, d) \in Cert /\ NewCert(i, d).id = i /\ NewCert(i, d).domain = d
           /\ NewCert(i, d).state = "Updating" /\ NewCert(i, d).pem = 0
  BY DEF NewCert, Cert, State

LEMMA FinishedType ==
    ASSUME NEW c \in Cert
    PROVE  /\ Finished(c) \in Cert /\ Finished(c).id = c.id /\ Finished(c).pem = c.pem
           /\ Finished(c).domain = c.domain /\ Finished(c).state = "Ok"
  BY DEF Finished, Cert, State

\* What UPDATE writes are certificates.
LEMMA UpdateType ==
    ASSUME certs \subseteq Cert, NEW d \in Cert, UpdateCert(d)
    PROVE  certs' \subseteq Cert
  BY DEF UpdateCert

\* Where ids are unique, UPDATE ... WHERE id replaces one row.
LEMMA UpdateRow ==
    ASSUME \A c, e \in certs : c.id = e.id => c = e,
           NEW old \in certs, NEW new, new.id = old.id, UpdateCert(new)
    PROVE  certs' = (certs \ {old}) \cup {new}
  BY DEF UpdateCert

-----------------------------------------------------------------------------
(* Type correctness.                                                       *)

\* The job is m's until its future ends: it will still work on it or store.
Busy(m) == Work(m) \/ pc[m] = "stopping"

\* A manager with the job has a certificate in memory: needed with TypeOK.
HasCert == \A m \in Managers : Busy(m) => mem[m] \in Cert

LEMMA TypeInit == Init => TypeOK /\ HasCert
  BY DEF Init, TypeOK, HasCert, Busy, Work, InJob, InCall, PC

LEMMA LeaveType ==
    ASSUME TypeOK, HasCert, NEW m \in Managers, Leave(m)
    PROVE  /\ pc' \in [Managers -> PC] /\ mem' \in [Managers -> Cert \cup {None}]
           /\ order' \in [Managers -> Nat] /\ began' \in [Managers -> Nat]
           /\ HasCert'
  BY DEF TypeOK, HasCert, Leave, PC, Busy, Work, InJob

LEMMA TakeJobType ==
    ASSUME TypeOK, HasCert, NEW m \in Managers, NEW c \in Cert, TakeJob(m, c)
    PROVE  /\ pc' \in [Managers -> PC] /\ mem' \in [Managers -> Cert \cup {None}]
           /\ order' \in [Managers -> Nat] /\ began' \in [Managers -> Nat]
           /\ HasCert'
  BY DEF TypeOK, HasCert, TakeJob, PC, Busy, Work, InJob

LEMMA CommitType ==
    ASSUME TypeOK, HasCert, NEW m \in Managers, CommitStart(m)
    PROVE  TypeOK' /\ HasCert'
<1> DEFINE seen == mem[m]
<1>1. StartFrom(m, seen) /\ UNCHANGED <<now, orders, due>>
  BY DEF CommitStart
<1>2. CASE seen = None
  <2>1. PICK i \in Ids, d \in Ids :
           /\ domains' = domains \cup {[id |-> d, txt |-> 0]}
           /\ certs' = certs \cup {NewCert(i, d)}
           /\ TakeJob(m, NewCert(i, d))
    BY <1>1, <1>2 DEF StartFrom
  <2>2. NewCert(i, d) \in Cert
    BY NewCertType DEF TypeOK
  <2>3. certs' \subseteq Cert /\ domains' \subseteq Domain
    BY <2>1, <2>2 DEF TypeOK, Domain
  <2> QED BY <1>1, <2>1, <2>2, <2>3, TakeJobType DEF TypeOK
<1>3. CASE seen # None /\ Claimable(seen)
  <2>1. seen \in Cert
    BY <1>3 DEF TypeOK
  <2>2. UpdateCert(Claimed(seen)) /\ TakeJob(m, Claimed(seen)) /\ UNCHANGED domains
    BY <1>1, <1>3 DEF StartFrom
  <2>3. Claimed(seen) \in Cert
    BY <2>1, ClaimedType DEF TypeOK
  <2>4. certs' \subseteq Cert
    BY <2>2, <2>3, UpdateType DEF TypeOK
  <2> QED BY <1>1, <2>2, <2>3, <2>4, TakeJobType DEF TypeOK
<1>4. CASE seen # None /\ ~Claimable(seen)
  <2>1. Leave(m) /\ UNCHANGED rows
    BY <1>1, <1>4 DEF StartFrom
  <2> QED BY <1>1, <2>1, LeaveType DEF TypeOK, rows
<1> QED BY <1>2, <1>3, <1>4

LEMMA TypeStep == TypeOK /\ HasCert /\ [Next]_vars => TypeOK' /\ HasCert'
<1> SUFFICES ASSUME TypeOK, HasCert, [Next]_vars
             PROVE  TypeOK' /\ HasCert'
  OBVIOUS
<1>1. CASE Clock
  BY <1>1, Bounds DEF Clock, TypeOK, HasCert, Busy, Work, rows, job
<1>2. ASSUME NEW m \in Managers, Tick(m) PROVE TypeOK' /\ HasCert'
  BY <1>2, Bounds DEF Tick, TypeOK, HasCert, Busy, Work, InJob, InCall, PC, rows
<1>3. ASSUME NEW m \in Managers, SelectStart(m) PROVE TypeOK' /\ HasCert'
  BY <1>3 DEF SelectStart, FirstCert, TypeOK, HasCert, Busy, Work, InJob, InCall, PC, rows
<1>4. ASSUME NEW m \in Managers, CommitStart(m) PROVE TypeOK' /\ HasCert'
  BY <1>4, CommitType
<1>5. ASSUME NEW m \in Managers, NewOrder(m) PROVE TypeOK' /\ HasCert'
  BY <1>5 DEF NewOrder, TypeOK, HasCert, Busy, Work, InJob, PC, rows
<1>6. ASSUME NEW m \in Managers, Prove(m) PROVE TypeOK' /\ HasCert'
  <2>1. domains' \subseteq Domain
    BY <1>6 DEF Prove, UpdateDomain, TypeOK, Domain
  <2> QED BY <1>6, <2>1 DEF Prove, TypeOK, HasCert, Busy, Work, InJob, PC
<1>7. ASSUME NEW m \in Managers, Validate(m) PROVE TypeOK' /\ HasCert'
  BY <1>7 DEF Validate, TypeOK, HasCert, Busy, Work, InJob, PC, rows
<1>8. ASSUME NEW m \in Managers, Finalize(m) PROVE TypeOK' /\ HasCert'
  <2>1. mem[m] \in Cert
    BY <1>8 DEF Finalize, HasCert, Busy, Work, InJob
  <2>2. [mem[m] EXCEPT !.pem = order[m]] \in Cert
    BY <2>1 DEF Cert, TypeOK
  <2> QED BY <1>8, <2>2 DEF Finalize, TypeOK, HasCert, Busy, Work, InJob, PC, rows
<1>9. ASSUME NEW m \in Managers, SelectStop(m) PROVE TypeOK' /\ HasCert'
  <2>1. CASE Leave(m)
    BY <1>9, <2>1, LeaveType DEF SelectStop, TypeOK, rows
  <2>2. CASE pc' = [pc EXCEPT ![m] = "stopping"] /\ UNCHANGED <<mem, order, began>>
    BY <1>9, <2>2 DEF SelectStop, TypeOK, HasCert, Busy, Work, InJob, InCall, PC, rows
  <2> QED BY <1>9, <2>1, <2>2 DEF SelectStop
<1>10. ASSUME NEW m \in Managers, UpdateStop(m) PROVE TypeOK' /\ HasCert'
  <2>1. mem[m] \in Cert
    BY <1>10 DEF UpdateStop, HasCert, Busy
  <2>2. certs' \subseteq Cert
    BY <1>10, <2>1, FinishedType, UpdateType DEF UpdateStop, TypeOK
  <2> QED BY <1>10, <2>2, LeaveType DEF UpdateStop, TypeOK
<1>11. ASSUME NEW m \in Managers, Fail(m) PROVE TypeOK' /\ HasCert'
  BY <1>11, LeaveType DEF Fail, TypeOK, rows
<1>12. ASSUME NEW m \in Managers, Crash(m) PROVE TypeOK' /\ HasCert'
  BY <1>12, LeaveType DEF Crash, TypeOK, rows
<1>13. CASE UNCHANGED vars
  BY <1>13 DEF vars, TypeOK, HasCert, Busy, Work
<1> QED
  BY <1>1, <1>2, <1>3, <1>4, <1>5, <1>6, <1>7, <1>8, <1>9, <1>10, <1>11, <1>12, <1>13
  DEF Next, Step, Manage

\* Every variable keeps its type.
THEOREM TypeCorrect == Spec => []TypeOK
  BY TypeInit, TypeStep, PTL DEF Spec

-----------------------------------------------------------------------------
(* A certificate has a row and a domain of its own, however many processes *)
(* write back the copies that they read.                                   *)

\* Copies of one row, whatever was changed in them.
Akin(x, y) == x.id = y.id /\ x.domain = y.domain

\* Ids are unique, two certificates have two domains, which are there, and every copy in
\* memory is one of a row that is still there.
Kin ==
    /\ \A c, e \in certs : c.id = e.id => c = e
    /\ \A c, e \in certs : c.domain = e.domain => c.id = e.id
    /\ \A c \in certs : \E d \in domains : d.id = c.domain
    /\ \A m \in Managers : mem[m] # None => \E c \in certs : Akin(mem[m], c)

Base == TypeOK /\ HasCert /\ Kin

\* m inserts a certificate and its domain, both with a new id.
Inserts(m, new) ==
    /\ pc[m] = "selected" /\ mem[m] = None
    /\ \A c \in certs : c.id # new.id
    /\ \A d \in domains : d.id # new.domain
    /\ domains' = domains \cup {[id |-> new.domain, txt |-> 0]}
    /\ certs' = certs \cup {new}
    /\ new.state = "Updating" /\ new.pem = 0
    /\ TakeJob(m, new)

\* m writes back its copy of a row.
WritesBack(m, old, new) ==
    /\ mem[m] # None /\ Akin(new, mem[m]) /\ Akin(new, old)
    /\ certs' = (certs \ {old}) \cup {new}
    /\ UNCHANGED domains

\* An update of m's own copy replaces the row it was read from.
LEMMA UpdateWritesBack ==
    ASSUME Base, NEW m \in Managers, mem[m] # None, NEW new, Akin(new, mem[m]),
           UpdateCert(new), UNCHANGED domains
    PROVE  \E old \in certs : WritesBack(m, old, new)
<1>1. PICK old \in certs : Akin(mem[m], old)
  BY DEF Base, Kin
<1>2. certs' = (certs \ {old}) \cup {new}
  BY <1>1, UpdateRow DEF Base, Kin, Akin
<1> QED BY <1>1, <1>2 DEF WritesBack, Akin

\* What start_cert does to the rows in its last step.
LEMMA CommitCases ==
    ASSUME Base, NEW m \in Managers, CommitStart(m)
    PROVE  \/ \E new \in Cert : Inserts(m, new)
           \/ \E old \in certs : /\ mem[m] \in Cert /\ Claimable(mem[m])
                                 /\ WritesBack(m, old, Claimed(mem[m]))
                                 /\ TakeJob(m, Claimed(mem[m]))
           \/ Leave(m) /\ UNCHANGED rows
<1>1. StartFrom(m, mem[m]) /\ pc[m] = "selected"
  BY DEF CommitStart
<1>2. CASE mem[m] = None
  <2>1. PICK i \in Ids \ {c.id : c \in certs}, d \in Ids \ {x.id : x \in domains} :
           /\ domains' = domains \cup {[id |-> d, txt |-> 0]}
           /\ certs' = certs \cup {NewCert(i, d)}
           /\ TakeJob(m, NewCert(i, d))
    BY <1>1, <1>2 DEF StartFrom
  <2>2. PICK new \in Cert : new = NewCert(i, d) /\ new.id = i /\ new.domain = d
                            /\ new.state = "Updating" /\ new.pem = 0
    BY NewCertType DEF Base, TypeOK
  <2>3. Inserts(m, new)
    BY <1>1, <1>2, <2>1, <2>2 DEF Inserts
  <2> QED BY <2>3
<1>3. CASE mem[m] # None /\ Claimable(mem[m])
  <2>1. mem[m] \in Cert
    BY <1>3 DEF Base, TypeOK
  <2>2. UpdateCert(Claimed(mem[m])) /\ TakeJob(m, Claimed(mem[m])) /\ UNCHANGED domains
    BY <1>1, <1>3 DEF StartFrom
  <2>3. Akin(Claimed(mem[m]), mem[m])
    BY <2>1, ClaimedType DEF Akin, Base, TypeOK
  <2> QED BY <1>3, <2>1, <2>2, <2>3, UpdateWritesBack
<1>4. CASE mem[m] # None /\ ~Claimable(mem[m])
  BY <1>1, <1>4 DEF StartFrom
<1> QED BY <1>2, <1>3, <1>4

\* What stop_cert does to them.
LEMMA StopWritesBack ==
    ASSUME Base, NEW m \in Managers, UpdateStop(m)
    PROVE  mem[m] \in Cert /\ \E old \in certs : WritesBack(m, old, Finished(mem[m]))
<1>1. mem[m] \in Cert
  BY DEF UpdateStop, Base, HasCert, Busy
<1>2. Akin(Finished(mem[m]), mem[m]) /\ mem[m] # None
  BY <1>1, FinishedType, NoneIsNoRow DEF Akin
<1> QED BY <1>1, <1>2, UpdateWritesBack DEF UpdateStop

\* Other steps leave the certificates alone.
LEMMA OtherSteps ==
    ASSUME NEW m \in Managers,
           Tick(m) \/ SelectStart(m) \/ Manage(m) \/ SelectStop(m) \/ Fail(m) \/ Crash(m)
    PROVE  UNCHANGED certs
  BY DEF Tick, SelectStart, Manage, NewOrder, Prove, Validate, Finalize, SelectStop, Fail,
         Crash, rows

\* Rows that stay: copies may be dropped, changed, or read.
LEMMA KinKept ==
    ASSUME Kin, UNCHANGED certs,
           \A d \in domains : \E e \in domains' : e.id = d.id,
           \A q \in Managers : \/ mem'[q] = None
                               \/ mem[q] # None /\ Akin(mem'[q], mem[q])
                               \/ mem'[q] \in certs
    PROVE  Kin'
<1>1. \A c \in certs' : \E d \in domains' : d.id = c.domain
  BY DEF Kin
<1>2. \A q \in Managers : mem'[q] # None => \E c \in certs' : Akin(mem'[q], c)
  BY DEF Kin, Akin
<1> QED BY <1>1, <1>2 DEF Kin

LEMMA LeaveMem ==
    ASSUME TypeOK, NEW m \in Managers, Leave(m)
    PROVE  \A q \in Managers : mem'[q] = None \/ (q # m /\ mem'[q] = mem[q])
  BY DEF Leave, TypeOK

LEMMA TakeMem ==
    ASSUME TypeOK, NEW m \in Managers, NEW c, TakeJob(m, c)
    PROVE  mem'[m] = c /\ \A q \in Managers \ {m} : mem'[q] = mem[q]
  BY DEF TakeJob, TypeOK

LEMMA KinWritten ==
    ASSUME Base, NEW m \in Managers, NEW old \in certs, NEW new, WritesBack(m, old, new),
           \A q \in Managers : \/ mem'[q] = None
                               \/ mem[q] # None /\ Akin(mem'[q], mem[q])
    PROVE  Kin'
<1>1. \A c \in certs' : \E e \in certs : Akin(c, e) /\ (c = e \/ (c = new /\ e = old))
  BY DEF WritesBack, Akin
<1>2. \A c \in certs : \E e \in certs' : Akin(e, c)
  BY DEF WritesBack, Akin
<1>3. \A c, e \in certs' : c.id = e.id => c = e
  <2> SUFFICES ASSUME NEW c \in certs', NEW e \in certs', c.id = e.id
               PROVE  c = e
    OBVIOUS
  <2>1. c \in (certs \ {old}) \cup {new} /\ e \in (certs \ {old}) \cup {new}
    BY DEF WritesBack
  <2> QED BY <2>1 DEF WritesBack, Akin, Base, Kin
<1>4. \A c, e \in certs' : c.domain = e.domain => c.id = e.id
  BY <1>1 DEF Akin, Base, Kin
<1>5. \A c \in certs' : \E d \in domains' : d.id = c.domain
  BY <1>1 DEF WritesBack, Akin, Base, Kin
<1>6. \A q \in Managers : mem'[q] # None => \E c \in certs' : Akin(mem'[q], c)
  <2> SUFFICES ASSUME NEW q \in Managers, mem'[q] # None
               PROVE  \E c \in certs' : Akin(mem'[q], c)
    OBVIOUS
  <2>1. PICK c \in certs : Akin(mem'[q], c)
    BY DEF Base, Kin, Akin
  <2> QED BY <2>1, <1>2 DEF Akin
<1> QED BY <1>3, <1>4, <1>5, <1>6 DEF Kin

LEMMA KinInserted ==
    ASSUME Base, NEW m \in Managers, NEW new \in Cert, Inserts(m, new)
    PROVE  Kin'
<1>1. \A c \in certs : c.domain # new.domain /\ c.id # new.id
  BY DEF Inserts, Base, Kin
<1>2. \A c, e \in certs' : c.id = e.id => c = e
  BY <1>1 DEF Inserts, Base, Kin
<1>3. \A c, e \in certs' : c.domain = e.domain => c.id = e.id
  BY <1>1 DEF Inserts, Base, Kin
<1>4. \A c \in certs' : \E d \in domains' : d.id = c.domain
  <2>1. \A c \in certs : \E d \in domains' : d.id = c.domain
    BY DEF Inserts, Base, Kin
  <2>2. [id |-> new.domain, txt |-> 0] \in domains'
    BY DEF Inserts
  <2>3. \E d \in domains' : d.id = new.domain
    BY <2>2
  <2> QED BY <2>1, <2>3 DEF Inserts
<1>5. \A q \in Managers : mem'[q] # None => \E c \in certs' : Akin(mem'[q], c)
  BY TakeMem DEF Inserts, Base, Kin, Akin
<1> QED BY <1>2, <1>3, <1>4, <1>5 DEF Kin

LEMMA KinInit == Init => Kin
  BY DEF Init, Kin

LEMMA KinStep == Base /\ [Next]_vars => Kin'
<1> SUFFICES ASSUME Base, [Next]_vars
             PROVE  Kin'
  OBVIOUS
<1> USE DEF Base
<1>1. CASE UNCHANGED <<certs, domains, mem>>
  BY <1>1 DEF Kin
<1>2. ASSUME NEW m \in Managers, SelectStart(m) PROVE Kin'
  <2>1. \A q \in Managers : mem'[q] = mem[q] \/ mem'[q] = None \/ mem'[q] \in certs
    BY <1>2 DEF SelectStart, FirstCert, TypeOK
  <2>2. UNCHANGED <<certs, domains>>
    BY <1>2 DEF SelectStart, rows
  <2> QED BY <2>1, <2>2, KinKept DEF Akin
<1>3. ASSUME NEW m \in Managers, CommitStart(m) PROVE Kin'
  <2>1. ASSUME NEW new \in Cert, Inserts(m, new) PROVE Kin'
    BY <2>1, KinInserted
  <2>2. ASSUME NEW old \in certs, NEW new, WritesBack(m, old, new), TakeJob(m, new) PROVE Kin'
    <3>1. \A q \in Managers :
             mem'[q] = None \/ (mem[q] # None /\ Akin(mem'[q], mem[q]))
      BY <2>2, TakeMem DEF WritesBack, Akin
    <3> QED BY <2>2, <3>1, KinWritten
  <2>3. ASSUME Leave(m), UNCHANGED rows PROVE Kin'
    BY <2>3, LeaveMem, KinKept DEF rows, Akin
  <2> QED BY <1>3, <2>1, <2>2, <2>3, CommitCases
<1>4. ASSUME NEW m \in Managers, Prove(m) PROVE Kin'
  <2>1. \A d \in domains : \E e \in domains' : e.id = d.id
    <3> SUFFICES ASSUME NEW d \in domains
                 PROVE  \E e \in domains' : e.id = d.id
      OBVIOUS
    <3> DEFINE e == IF d.id = mem[m].domain THEN [d EXCEPT !.txt = order[m]] ELSE d
    <3>1. e \in domains'
      BY <1>4 DEF Prove, UpdateDomain
    <3>2. e.id = d.id
      BY DEF TypeOK, Domain
    <3> QED BY <3>1, <3>2
  <2> QED BY <1>4, <2>1, KinKept DEF Prove, Akin
<1>5. ASSUME NEW m \in Managers, Finalize(m) PROVE Kin'
  <2>1. mem[m] \in Cert /\ mem[m] # None
    BY <1>5, NoneIsNoRow DEF Finalize, HasCert, Busy, Work, InJob
  <2>2. PICK new : new = [mem[m] EXCEPT !.pem = order[m]] /\ mem' = [mem EXCEPT ![m] = new]
    BY <1>5 DEF Finalize
  <2>3. Akin(new, mem[m])
    BY <2>1, <2>2 DEF Akin, Cert
  <2>4. \A q \in Managers : mem'[q] = None \/ (mem[q] # None /\ Akin(mem'[q], mem[q]))
    BY <2>1, <2>2, <2>3 DEF TypeOK, Akin
  <2> QED BY <1>5, <2>4, KinKept DEF Finalize, rows
<1>6. ASSUME NEW m \in Managers, Leave(m), UNCHANGED rows PROVE Kin'
  BY <1>6, LeaveMem, KinKept DEF rows, Akin
<1>7. ASSUME NEW m \in Managers, UpdateStop(m) PROVE Kin'
  <2>1. Leave(m)
    BY <1>7 DEF UpdateStop
  <2> QED BY <1>7, <2>1, StopWritesBack, LeaveMem, KinWritten DEF Akin
<1>8. ASSUME NEW m \in Managers, Tick(m) \/ NewOrder(m) \/ Validate(m) \/ SelectStop(m)
      PROVE  Kin'
  BY <1>1, <1>6, <1>8 DEF Tick, NewOrder, Validate, SelectStop, rows
<1> QED
  BY <1>1, <1>2, <1>3, <1>4, <1>5, <1>6, <1>7, <1>8
  DEF Next, Step, Manage, Clock, Fail, Crash, vars, rows, job

\* The invariant that the theorems below rest on.
LEMMA BaseInvariance == Spec => []Base
<1>1. Init => Base
  BY TypeInit, KinInit DEF Base
<1>2. Base /\ [Next]_vars => Base'
  BY TypeStep, KinStep DEF Base
<1> QED BY <1>1, <1>2, PTL DEF Spec

LEMMA BaseFindsDomain == Base => DomainFound
<1> SUFFICES ASSUME Base PROVE DomainFound
  OBVIOUS
<1>1. \A m \in Managers : Work(m) => \E c \in certs : Akin(mem[m], c)
  BY NoneIsNoRow DEF Base, HasCert, Busy, Kin
<1> QED BY <1>1 DEF Base, Kin, Akin, DomainFound

\* find_domain_by_id always finds the domain of a certificate, which no other has.
THEOREM EveryDomainFound == Spec => []DomainFound
  BY BaseFindsDomain, BaseInvariance, PTL

-----------------------------------------------------------------------------
(* Rows do not multiply.                                                   *)

\* Who found the table empty and has not inserted yet: no row is anybody else's.
Blind == {m \in Managers : pc[m] = "selected" /\ mem[m] = None}

\* A row takes the place of a process that could have inserted one more.
Counted ==
    IsFiniteSet(certs) /\ Cardinality(certs) + Cardinality(Blind) <= Cardinality(Managers)

LEMMA BlindFinite == IsFiniteSet(Blind) /\ Cardinality(Blind) \in Nat
                     /\ Cardinality(Managers) \in Nat
  BY FiniteManagers, FS_Subset, FS_CardinalityType DEF Blind

LEMMA CountedInit == Init => Counted
<1> SUFFICES ASSUME Init PROVE Counted
  OBVIOUS
<1>1. certs = {} /\ Blind = {}
  BY DEF Init, Blind
<1> QED BY <1>1, FS_EmptySet, FiniteManagers, FS_CardinalityType DEF Counted

\* As long as there are no more rows, it suffices that nobody else gets blind.
LEMMA CountedKept ==
    ASSUME Counted, UNCHANGED certs, certs # {} => Blind' \subseteq Blind
    PROVE  Counted'
<1>1. CASE certs = {}
  <2>1. Blind' \subseteq Managers
    BY DEF Blind
  <2>2. Cardinality(Blind') <= Cardinality(Managers) /\ Cardinality(Blind') \in Nat
    BY <2>1, FiniteManagers, FS_Subset, FS_CardinalityType
  <2>3. Cardinality(certs') = 0
    BY <1>1, FS_EmptySet
  <2> QED BY <2>2, <2>3, BlindFinite DEF Counted
<1>2. CASE certs # {}
  <2>1. Cardinality(Blind') <= Cardinality(Blind) /\ Cardinality(Blind') \in Nat
    BY <1>2, BlindFinite, FS_Subset, FS_CardinalityType
  <2>2. Cardinality(certs) \in Nat
    BY FS_CardinalityType DEF Counted
  <2> QED BY <2>1, <2>2, BlindFinite DEF Counted
<1> QED BY <1>1, <1>2

\* A row that is replaced leaves as many.
LEMMA CountedWritten ==
    ASSUME Counted, NEW m \in Managers, NEW old \in certs, NEW new, WritesBack(m, old, new),
           Blind' \subseteq Blind
    PROVE  Counted'
<1>1. /\ IsFiniteSet(certs \ {old})
      /\ Cardinality(certs \ {old}) = Cardinality(certs) - 1
  BY FS_RemoveElement DEF Counted
<1>2. Cardinality(certs) \in Nat
  BY FS_CardinalityType DEF Counted
<1>3. IsFiniteSet(certs') /\ Cardinality(certs') <= Cardinality(certs)
      /\ Cardinality(certs') \in Nat
  <2>1. certs' = (certs \ {old}) \cup {new}
    BY DEF WritesBack
  <2>2. IsFiniteSet(certs') /\ Cardinality(certs') \in Nat
    BY <1>1, <2>1, FS_AddElement, FS_CardinalityType
  <2>3. \/ Cardinality(certs') = Cardinality(certs \ {old})
        \/ Cardinality(certs') = Cardinality(certs \ {old}) + 1
    BY <1>1, <2>1, FS_AddElement
  <2> QED BY <1>1, <1>2, <2>2, <2>3
<1>4. Cardinality(Blind') <= Cardinality(Blind) /\ Cardinality(Blind') \in Nat
  BY BlindFinite, FS_Subset, FS_CardinalityType
<1> QED BY <1>2, <1>3, <1>4, BlindFinite DEF Counted

\* Whoever inserts is not blind any more.
LEMMA CountedInserted ==
    ASSUME Counted, TypeOK, NEW m \in Managers, NEW new \in Cert, Inserts(m, new)
    PROVE  Counted'
<1>1. m \in Blind /\ Blind' = Blind \ {m}
  BY NoneIsNoRow DEF Inserts, Blind, TakeJob, TypeOK
<1>2. Cardinality(Blind') = Cardinality(Blind) - 1
  BY <1>1, BlindFinite, FS_RemoveElement
<1>3. new \notin certs /\ certs' = certs \cup {new}
  BY DEF Inserts
<1>4. IsFiniteSet(certs') /\ Cardinality(certs') = Cardinality(certs) + 1
  BY <1>3, FS_AddElement DEF Counted
<1>5. Cardinality(certs) \in Nat
  BY FS_CardinalityType DEF Counted
<1> QED BY <1>2, <1>4, <1>5, BlindFinite DEF Counted

LEMMA CountedStep == Base /\ Counted /\ [Next]_vars => Counted'
<1> SUFFICES ASSUME Base, Counted, [Next]_vars
             PROVE  Counted'
  OBVIOUS
<1> USE DEF Base
<1>1. ASSUME NEW m \in Managers, Leave(m) PROVE Blind' \subseteq Blind
  BY <1>1 DEF Leave, Blind, TypeOK
<1>2. ASSUME NEW m \in Managers, SelectStart(m) PROVE Counted'
  <2>1. certs # {} => Blind' \subseteq Blind
    BY <1>2, NoneIsNoRow DEF SelectStart, FirstCert, Blind, TypeOK
  <2> QED BY <1>2, <2>1, CountedKept DEF SelectStart, rows
<1>3. ASSUME NEW m \in Managers, CommitStart(m) PROVE Counted'
  <2>1. ASSUME NEW new \in Cert, Inserts(m, new) PROVE Counted'
    BY <2>1, CountedInserted
  <2>2. ASSUME NEW old \in certs, NEW new, WritesBack(m, old, new), TakeJob(m, new)
        PROVE  Counted'
    <3>1. Blind' \subseteq Blind
      BY <2>2 DEF TakeJob, Blind, TypeOK
    <3> QED BY <2>2, <3>1, CountedWritten
  <2>3. ASSUME Leave(m), UNCHANGED rows PROVE Counted'
    BY <2>3, <1>1, CountedKept DEF rows
  <2> QED BY <1>3, <2>1, <2>2, <2>3, CommitCases
<1>4. ASSUME NEW m \in Managers, UpdateStop(m) PROVE Counted'
  <2>1. Blind' \subseteq Blind
    BY <1>4, <1>1 DEF UpdateStop
  <2> QED BY <1>4, <2>1, StopWritesBack, CountedWritten
<1>5. ASSUME NEW m \in Managers, Manage(m) PROVE Counted'
  <2>1. Blind' \subseteq Blind
    BY <1>5 DEF Manage, NewOrder, Prove, Validate, Finalize, Blind, TypeOK
  <2> QED BY <1>5, <2>1, OtherSteps, CountedKept
<1>6. ASSUME NEW m \in Managers, Tick(m) \/ SelectStop(m) \/ Fail(m) \/ Crash(m)
      PROVE  Counted'
  <2>1. Blind' \subseteq Blind
    BY <1>6, <1>1 DEF Tick, SelectStop, Fail, Crash, Blind, TypeOK
  <2> QED BY <1>6, <2>1, OtherSteps, CountedKept
<1>7. CASE UNCHANGED <<certs, pc, mem>>
  BY <1>7, CountedKept DEF Blind
<1> QED
  BY <1>2, <1>3, <1>4, <1>5, <1>6, <1>7 DEF Next, Step, Clock, vars, rows, job

\* However many processes fail, die and try again, each inserts at most one row.
THEOREM AtMostOneRowEach == Spec => []RowsPerManager
<1>1. Counted => RowsPerManager
  BY BlindFinite, FS_CardinalityType DEF Counted, RowsPerManager
<1> QED BY <1>1, CountedInit, CountedStep, BaseInvariance, PTL DEF Spec

-----------------------------------------------------------------------------
(* What JobResumed rests on, whatever fails: a row that nobody works on    *)
(* waits, every interval comes back within the hour, and a row that was    *)
(* read as claimable is taken.                                             *)

\* Nobody has a job: what is Updating was left so.
Nobody == \A m \in Managers : ~Work(m) /\ pc[m] # "stopping"

\* A row left behind by a process that died or failed is not lost and not changed, until
\* start_cert hands a job out again.
THEOREM RowWaits ==
    Spec => [][Nobody => \A c \in certs : c \in certs' \/ \E m \in Managers : Work(m)']_vars
<1> DEFINE Waits == Nobody => \A c \in certs : c \in certs' \/ \E m \in Managers : Work(m)'
<1>1. Base /\ [Next]_vars => [Waits]_vars
  <2> SUFFICES ASSUME Base, Nobody, Next
               PROVE  certs \subseteq certs' \/ \E m \in Managers : Work(m)'
    OBVIOUS
  <2>1. ASSUME NEW m \in Managers, CommitStart(m)
        PROVE  certs \subseteq certs' \/ Work(m)'
    <3>1. ASSUME NEW c, TakeJob(m, c) PROVE Work(m)'
      BY <3>1 DEF TakeJob, Work, InJob, Base, TypeOK
    <3> QED BY <2>1, <3>1, CommitCases DEF Inserts, rows
  <2>2. ASSUME NEW m \in Managers PROVE ~UpdateStop(m)
    BY DEF UpdateStop, Nobody
  <2> QED BY <2>1, <2>2, OtherSteps DEF Next, Step, Clock, rows
<1> QED BY <1>1, BaseInvariance, PTL DEF Spec

\* However often a process dies and comes back, and whatever its attempts end with, its
\* interval ticks again within the hour.
THEOREM TicksWithinHour == Spec => [](\A m \in Managers : due[m] <= now + HOUR)
<1> DEFINE Soon == \A m \in Managers : due[m] <= now + HOUR
<1>1. Init => Soon
  <2>1. 0 <= 0 + HOUR
    BY Bounds
  <2> QED BY <2>1 DEF Init
<1>2. TypeOK /\ Soon /\ [Next]_vars => Soon'
  <2> SUFFICES ASSUME TypeOK, Soon, [Next]_vars PROVE Soon'
    OBVIOUS
  <2> USE Bounds DEF TypeOK
  <2>1. CASE Clock
    BY <2>1 DEF Clock
  <2>2. ASSUME NEW m \in Managers, Tick(m) PROVE Soon'
    BY <2>2 DEF Tick
  <2>3. ASSUME NEW m \in Managers, Crash(m) PROVE Soon'
    BY <2>3 DEF Crash
  <2>4. ASSUME NEW m \in Managers, Step(m) \/ Fail(m) PROVE Soon'
    BY <2>4 DEF Step, SelectStart, CommitStart, Manage, NewOrder, Prove, Validate, Finalize,
                SelectStop, UpdateStop, Fail
  <2> QED BY <2>1, <2>2, <2>3, <2>4 DEF Next, vars
<1> QED BY <1>1, <1>2, TypeCorrect, PTL DEF Spec

\* Another process's commit leaves this one where it is.
LEMMA CommitElsewhere ==
    ASSUME TypeOK, NEW m \in Managers, NEW q \in Managers, q # m, CommitStart(q)
    PROVE  pc'[m] = pc[m] /\ mem'[m] = mem[m] /\ now' = now
<1>1. ASSUME NEW c, TakeJob(q, c) PROVE pc'[m] = pc[m] /\ mem'[m] = mem[m]
  BY <1>1 DEF TakeJob, TypeOK
<1>2. ASSUME Leave(q) PROVE pc'[m] = pc[m] /\ mem'[m] = mem[m]
  BY <1>2 DEF Leave, TypeOK
<1>3. Leave(q) \/ \E c : TakeJob(q, c)
  BY DEF CommitStart, StartFrom
<1> QED BY <1>1, <1>2, <1>3 DEF CommitStart

\* Between the query of start_cert and its commit the clock goes on and others write to the
\* row: what was claimable when it was read still is, and the commit takes the job.
THEOREM ClaimableIsTaken ==
    Spec => [][\A m \in Managers :
                   pc[m] = "selected" /\ mem[m] # None /\ Claimable(mem[m]) =>
                       \/ pc'[m] = "selected" /\ mem'[m] = mem[m] /\ Claimable(mem[m])'
                       \/ CommitStart(m) /\ Work(m)'
                       \/ Fail(m) \/ Crash(m)]_vars
<1> DEFINE Taken(m) ==
               pc[m] = "selected" /\ mem[m] # None /\ Claimable(mem[m]) =>
                   \/ pc'[m] = "selected" /\ mem'[m] = mem[m] /\ Claimable(mem[m])'
                   \/ CommitStart(m) /\ Work(m)'
                   \/ Fail(m) \/ Crash(m)
<1>1. ASSUME TypeOK, Next, NEW m \in Managers PROVE Taken(m)
  <2> SUFFICES ASSUME pc[m] = "selected", mem[m] # None, Claimable(mem[m]) PROVE Taken(m)
    OBVIOUS
  <2> USE <1>1 DEF TypeOK
  <2>1. CASE Clock
    <3>1. pc' = pc /\ mem' = mem /\ now' = now + 1 /\ now \in Nat
      BY <2>1 DEF Clock, job
    <3>2. mem[m].update \in Nat
      BY DEF Cert
    <3>3. Claimable(mem[m])'
      BY <3>1, <3>2, Bounds DEF Claimable
    <3> QED BY <3>1, <3>3
  <2>2. ASSUME NEW q \in Managers, q # m, Tick(q) \/ Step(q) \/ Fail(q) \/ Crash(q)
        PROVE  Taken(m)
    <3>1. pc'[m] = pc[m] /\ mem'[m] = mem[m] /\ now' = now
      BY <2>2, CommitElsewhere
      DEF Tick, Step, SelectStart, Manage, NewOrder, Prove, Validate, Finalize,
          SelectStop, UpdateStop, Fail, Crash, Leave
    <3>2. Claimable(mem[m])'
      BY <3>1 DEF Claimable
    <3> QED BY <3>1, <3>2
  <2>3. CASE CommitStart(m)
    <3>1. TakeJob(m, Claimed(mem[m]))
      BY <2>3 DEF CommitStart, StartFrom
    <3>2. Work(m)'
      BY <3>1 DEF TakeJob, Work, InJob
    <3> QED BY <2>3, <3>2
  <2>4. ~Tick(m) /\ (Step(m) => CommitStart(m))
    BY DEF Tick, Step, SelectStart, Manage, NewOrder, Prove, Validate, Finalize, SelectStop,
           UpdateStop
  <2> QED BY <2>1, <2>2, <2>3, <2>4 DEF Next
<1>2. TypeOK /\ [Next]_vars => [\A m \in Managers : Taken(m)]_vars
  BY <1>1
<1> QED BY <1>2, TypeCorrect, PTL DEF Spec

-----------------------------------------------------------------------------
(* One process.                                                            *)

OneManager == \A m, q \in Managers : m = q

\* The job of m is that of row c: nobody stamped it since, and m's order is newer than
\* the certificate in it.
JobOn(m, c) ==
    /\ Akin(mem[m], c) /\ mem[m].update = c.update
    /\ c.state = "Updating"
    /\ pc[m] # "claimed" => order[m] > c.pem
    /\ pc[m] \in {"issued", "stopping"} => mem[m].pem = order[m]

\* There is at most one row, of an order that was made; what start_cert read is that row,
\* and who has the job has it on that row.
Sole ==
    /\ \A c, d \in certs : c = d
    /\ \A c \in certs : c.pem <= orders
    /\ \A m \in Managers : order[m] <= orders
    /\ \A m \in Managers : pc[m] = "selected" =>
          IF mem[m] = None THEN certs = {} ELSE certs = {mem[m]}
    /\ \A m \in Managers : Busy(m) => certs # {} /\ \A c \in certs : JobOn(m, c)

\* The proof of the order being validated is published.
Published ==
    \A m \in Managers : pc[m] = "validate" =>
        \A d \in domains : d.id = mem[m].domain => d.txt = order[m]

Alone == Base /\ Sole /\ Published

LEMMA AloneInit == Init => Sole /\ Published
  BY DEF Init, Sole, Published, Busy, Work, InJob

\* Whoever leaves has no job any more.
LEMMA LeaveAlone ==
    ASSUME OneManager, Alone, NEW m \in Managers, Leave(m), UNCHANGED <<certs, orders>>
    PROVE  Sole' /\ Published'
<1>1. /\ pc'[m] = "idle" /\ order'[m] = 0 /\ \A q \in Managers : q = m
  BY DEF Leave, Alone, Base, TypeOK, OneManager
<1> QED BY <1>1 DEF Alone, Base, TypeOK, Sole, Published, Busy, Work, InJob

\* start_cert gets the job: the row is the certificate in memory.
LEMMA TakeAlone ==
    ASSUME OneManager, Alone, NEW m \in Managers, NEW new \in Cert, TakeJob(m, new),
           certs' = {new}, new.state = "Updating", new.pem <= orders, UNCHANGED orders
    PROVE  Sole' /\ Published'
<1>1. /\ pc'[m] = "claimed" /\ mem'[m] = new /\ order' = order
      /\ \A q \in Managers : q = m
  BY DEF TakeJob, Alone, Base, TypeOK, OneManager
<1>2. JobOn(m, new)'
  BY <1>1 DEF JobOn, Akin
<1> QED BY <1>1, <1>2 DEF Alone, Sole, Published, Busy, Work, InJob

\* Steps inside the job that change neither rows nor order.
LEMMA MoveAlone ==
    ASSUME OneManager, Alone, NEW m \in Managers, Busy(m), pc[m] # "claimed",
           NEW p \in {"pending", "validate", "ready"}, pc' = [pc EXCEPT ![m] = p],
           UNCHANGED <<certs, orders, mem, order>>
    PROVE  Sole'
<1>1. pc'[m] = p /\ \A q \in Managers : q = m
  BY DEF Alone, Base, TypeOK, OneManager
<1>2. \A c \in certs : JobOn(m, c) => JobOn(m, c)'
  BY <1>1 DEF JobOn, Akin
<1> QED BY <1>1, <1>2 DEF Alone, Sole, Busy, Work, InJob

\* The first row of the table, or the claim of the only one.
LEMMA CommitAlone ==
    ASSUME OneManager, Alone, NEW m \in Managers, CommitStart(m)
    PROVE  \/ Leave(m) /\ UNCHANGED certs
           \/ \E new \in Cert :
                 /\ certs' = {new} /\ new.state = "Updating" /\ TakeJob(m, new)
                 /\ \/ certs = {} /\ new.pem = 0
                    \/ \E c \in Cert : certs = {c} /\ Akin(new, c) /\ new.pem = c.pem
<1>1. pc[m] = "selected"
  BY DEF CommitStart
<1>2. ASSUME NEW new \in Cert, Inserts(m, new)
      PROVE  certs = {} /\ new.pem = 0 /\ certs' = {new} /\ new.state = "Updating"
             /\ TakeJob(m, new)
  BY <1>1, <1>2 DEF Inserts, Alone, Sole
<1>3. ASSUME NEW old \in certs, mem[m] \in Cert, WritesBack(m, old, Claimed(mem[m])),
             TakeJob(m, Claimed(mem[m]))
      PROVE  \E new \in Cert :
                 /\ certs' = {new} /\ new.state = "Updating" /\ TakeJob(m, new)
                 /\ \E c \in Cert : certs = {c} /\ Akin(new, c) /\ new.pem = c.pem
  <2>1. certs = {mem[m]} /\ old = mem[m]
    BY <1>1, <1>3, NoneIsNoRow DEF Alone, Sole
  <2>2. PICK new \in Cert : new = Claimed(mem[m]) /\ Akin(new, mem[m])
                            /\ new.state = "Updating" /\ new.pem = mem[m].pem
    BY <1>3, ClaimedType DEF Alone, Base, TypeOK, Akin
  <2>3. certs' = {new}
    BY <1>3, <2>1, <2>2 DEF WritesBack
  <2> QED BY <1>3, <2>1, <2>2, <2>3
<1> QED BY <1>2, <1>3, CommitCases DEF Alone, rows

\* The only row gets the new certificate.
LEMMA StopAlone ==
    ASSUME OneManager, Alone, NEW m \in Managers, UpdateStop(m)
    PROVE  /\ Leave(m) /\ Holds(m)
           /\ \E c, d \in Cert : /\ certs = {c} /\ certs' = {d} /\ Akin(d, c)
                                 /\ d.state = "Ok" /\ d.pem = order[m] /\ c.pem < order[m]
<1>1. Busy(m) /\ pc[m] = "stopping" /\ Leave(m)
  BY DEF UpdateStop, Busy
<1>2. PICK c \in Cert : certs = {c} /\ JobOn(m, c)
  BY <1>1 DEF Alone, Sole, Base, TypeOK
<1>3. PICK old \in certs : mem[m] \in Cert /\ WritesBack(m, old, Finished(mem[m]))
  BY StopWritesBack DEF Alone
<1>4. PICK d \in Cert : d = Finished(mem[m]) /\ Akin(d, mem[m]) /\ d.state = "Ok"
                        /\ d.pem = mem[m].pem
  BY <1>3, FinishedType DEF Akin
<1>5. certs' = {d} /\ Akin(d, c)
  BY <1>2, <1>3, <1>4 DEF WritesBack, Akin, JobOn
<1>6. d.pem = order[m] /\ c.pem < order[m]
  BY <1>1, <1>2, <1>4 DEF JobOn, Alone, Base, TypeOK, Cert
<1>7. Holds(m)
  BY <1>1, <1>2 DEF Holds, JobOn
<1> QED BY <1>1, <1>2, <1>4, <1>5, <1>6, <1>7

LEMMA AloneStep == OneManager /\ Alone /\ [Next]_vars => Sole' /\ Published'
<1> SUFFICES ASSUME OneManager, Alone, [Next]_vars
             PROVE  Sole' /\ Published'
  OBVIOUS
<1> USE DEF Alone, Base
<1>1. CASE UNCHANGED <<certs, domains, orders, pc, mem, order>>
  BY <1>1 DEF Sole, Published, Busy, Work, JobOn, Akin
<1>2. ASSUME NEW m \in Managers, Tick(m) PROVE Sole' /\ Published'
  <2>1. pc'[m] \in {"idle", "start"} /\ \A q \in Managers : q = m
    BY <1>2 DEF Tick, TypeOK, OneManager
  <2>2. UNCHANGED <<certs, orders, order>>
    BY <1>2 DEF Tick, rows
  <2> QED BY <2>1, <2>2 DEF Sole, Published, Busy, Work, InJob
<1>3. ASSUME NEW m \in Managers, SelectStart(m) PROVE Sole' /\ Published'
  <2>1. pc'[m] = "selected" /\ mem'[m] \in FirstCert /\ \A q \in Managers : q = m
    BY <1>3 DEF SelectStart, TypeOK, OneManager
  <2>2. IF mem'[m] = None THEN certs = {} ELSE certs = {mem'[m]}
    BY <2>1, NoneIsNoRow DEF FirstCert, Sole, TypeOK
  <2>3. UNCHANGED <<certs, orders, order>>
    BY <1>3 DEF SelectStart, rows
  <2> QED BY <2>1, <2>2, <2>3 DEF Sole, Published, Busy, Work, InJob
<1>4. ASSUME NEW m \in Managers, CommitStart(m) PROVE Sole' /\ Published'
  <2>1. UNCHANGED orders
    BY <1>4 DEF CommitStart
  <2>2. CASE Leave(m) /\ UNCHANGED certs
    BY <2>1, <2>2, LeaveAlone
  <2>3. ASSUME NEW new \in Cert, certs' = {new}, new.state = "Updating", TakeJob(m, new),
               \/ certs = {} /\ new.pem = 0
               \/ \E c \in Cert : certs = {c} /\ Akin(new, c) /\ new.pem = c.pem
        PROVE  Sole' /\ Published'
    <3>1. new.pem <= orders
      BY <2>3 DEF Sole, TypeOK
    <3> QED BY <2>1, <2>3, <3>1, TakeAlone
  <2> QED BY <1>4, <2>2, <2>3, CommitAlone
<1>5. ASSUME NEW m \in Managers, NewOrder(m) PROVE Sole' /\ Published'
  <2>1. /\ pc'[m] \in {"pending", "ready"} /\ order'[m] = orders + 1 /\ orders' = orders + 1
        /\ UNCHANGED <<certs, mem>> /\ \A q \in Managers : q = m
    BY <1>5 DEF NewOrder, TypeOK, OneManager, rows
  <2>2. Busy(m) /\ orders \in Nat
    BY <1>5 DEF NewOrder, Busy, Work, InJob, TypeOK
  <2>3. \A c \in certs : c.pem \in Nat
    BY DEF TypeOK, Cert
  <2>4. \A c \in certs : JobOn(m, c)'
    BY <2>1, <2>2, <2>3 DEF Sole, JobOn, Akin
  <2> QED BY <2>1, <2>2, <2>3, <2>4 DEF Sole, Published, Busy, Work, InJob
<1>6. ASSUME NEW m \in Managers, Prove(m) PROVE Sole' /\ Published'
  <2>1. Sole'
    BY <1>6, MoveAlone DEF Prove, Busy, Work, InJob
  <2>2. \A d \in domains' : d.id = mem[m].domain => d.txt = order[m]
    BY <1>6 DEF Prove, UpdateDomain, TypeOK, Domain
  <2>3. \A q \in Managers : q = m
    BY DEF OneManager
  <2> QED BY <1>6, <2>1, <2>2, <2>3 DEF Prove, Published
<1>7. ASSUME NEW m \in Managers, Validate(m) PROVE Sole' /\ Published'
  <2>1. PICK p \in {"pending", "ready"} : pc' = [pc EXCEPT ![m] = p]
    BY <1>7 DEF Validate
  <2>2. Sole'
    BY <1>7, <2>1, MoveAlone DEF Validate, Busy, Work, InJob, rows
  <2>3. \A q \in Managers : pc'[q] # "validate"
    BY <2>1 DEF TypeOK, OneManager
  <2> QED BY <2>2, <2>3 DEF Published
<1>8. ASSUME NEW m \in Managers, Finalize(m) PROVE Sole' /\ Published'
  <2>1. mem[m] \in Cert /\ Busy(m) /\ pc[m] = "ready"
    BY <1>8 DEF Finalize, HasCert, Busy, Work, InJob
  <2>2. PICK new : new = [mem[m] EXCEPT !.pem = order[m]] /\ mem' = [mem EXCEPT ![m] = new]
    BY <1>8 DEF Finalize
  <2>3. Akin(new, mem[m]) /\ new.update = mem[m].update /\ new.pem = order[m]
    BY <2>1, <2>2 DEF Akin, Cert
  <2>4. /\ mem'[m] = new /\ pc'[m] = "issued" /\ UNCHANGED <<certs, orders, order>>
        /\ \A q \in Managers : q = m
    BY <1>8, <2>2 DEF Finalize, TypeOK, OneManager, rows
  <2>5. \A c \in certs : JobOn(m, c)'
    BY <2>1, <2>3, <2>4 DEF Sole, JobOn, Akin
  <2> QED BY <2>1, <2>4, <2>5 DEF Sole, Published
<1>9. ASSUME NEW m \in Managers, SelectStop(m) PROVE Sole' /\ Published'
  <2>1. UNCHANGED <<certs, orders>>
    BY <1>9 DEF SelectStop, rows
  <2>2. CASE Leave(m)
    BY <2>1, <2>2, LeaveAlone
  <2>3. CASE pc' = [pc EXCEPT ![m] = "stopping"] /\ UNCHANGED <<mem, order>>
    <3>1. pc[m] = "issued" /\ pc'[m] = "stopping" /\ Busy(m) /\ \A q \in Managers : q = m
      BY <1>9, <2>3 DEF SelectStop, Busy, Work, InJob, TypeOK, OneManager
    <3>2. \A c \in certs : JobOn(m, c)'
      BY <2>1, <2>3, <3>1 DEF Sole, JobOn, Akin
    <3> QED BY <2>1, <2>3, <3>1, <3>2 DEF Sole, Published
  <2> QED BY <1>9, <2>2, <2>3 DEF SelectStop
<1>10. ASSUME NEW m \in Managers, UpdateStop(m) PROVE Sole' /\ Published'
  <2>1. PICK c \in Cert, d \in Cert :
           certs = {c} /\ certs' = {d} /\ d.pem = order[m] /\ Leave(m)
    BY <1>10, StopAlone
  <2>2. pc'[m] = "idle" /\ order'[m] = 0 /\ \A q \in Managers : q = m
    BY <2>1 DEF Leave, TypeOK, OneManager
  <2>3. UNCHANGED orders
    BY <1>10 DEF UpdateStop
  <2> QED BY <2>1, <2>2, <2>3 DEF Sole, Published, Busy, Work, InJob, TypeOK
<1>11. ASSUME NEW m \in Managers, Fail(m) \/ Crash(m) PROVE Sole' /\ Published'
  BY <1>11, LeaveAlone DEF Fail, Crash, rows
<1> QED
  BY <1>1, <1>2, <1>3, <1>4, <1>5, <1>6, <1>7, <1>8, <1>9, <1>10, <1>11
  DEF Next, Step, Manage, Clock, vars, rows, job

\* The inductive invariant of a single process.
LEMMA AloneInvariance == ASSUME OneManager PROVE Spec => []Alone
<1>1. Init => Alone
  BY TypeInit, KinInit, AloneInit DEF Alone, Base
<1>2. Alone /\ [Next]_vars => Alone'
  BY TypeStep, KinStep, AloneStep DEF Alone, Base
<1> QED BY <1>1, <1>2, PTL DEF Spec

\* The invariant says which domain is the one the DNS answers for.
LEMMA AloneAnswers == OneManager /\ Alone => AnswerIsProof
<1> SUFFICES ASSUME OneManager, Alone, NEW m \in Managers, pc[m] = "validate"
             PROVE  Answers = {order[m]}
  BY DEF AnswerIsProof
<1>1. Busy(m)
  BY DEF Busy, Work, InJob
<1>2. PICK c : certs = {c} /\ mem[m].domain = c.domain
  BY <1>1 DEF Alone, Sole, JobOn, Akin
<1>3. PICK d \in domains : d.id = c.domain
  BY <1>2 DEF Alone, Base, Kin
<1>4. \A x \in domains : x.id = c.domain => x.txt = order[m]
  BY <1>2 DEF Alone, Published
<1> QED BY <1>2, <1>3, <1>4 DEF Answers

\* While the CA validates, the DNS answers the proof of that order, and only that.
THEOREM ProofIsAnswered == ASSUME OneManager PROVE Spec => []AnswerIsProof
  BY AloneAnswers, AloneInvariance, PTL

\* Neither start_cert nor stop_cert stores something older than the row has.
Grows == \A c \in certs, d \in certs' : c.id = d.id => c.pem <= d.pem

LEMMA GrowsStep == ASSUME OneManager, Alone, [Next]_vars PROVE Grows
<1>1. ASSUME UNCHANGED certs PROVE Grows
  BY <1>1 DEF Alone, Base, TypeOK, Sole, Cert, Grows
<1>2. ASSUME NEW m \in Managers, CommitStart(m) PROVE Grows
  <2>1. ASSUME NEW new \in Cert, certs' = {new},
               \/ certs = {} /\ new.pem = 0
               \/ \E c \in Cert : certs = {c} /\ Akin(new, c) /\ new.pem = c.pem
        PROVE  Grows
    BY <2>1 DEF Grows, Cert
  <2> QED BY <1>1, <1>2, <2>1, CommitAlone
<1>3. ASSUME NEW m \in Managers, UpdateStop(m) PROVE Grows
  BY <1>3, StopAlone DEF Alone, Base, TypeOK, Cert, Grows
<1> QED BY <1>1, <1>2, <1>3, OtherSteps DEF Next, Step, Clock, rows, vars

\* The certificate stored is never replaced by an older one (NeverOlder).
THEOREM CertificateNeverOlder == ASSUME OneManager PROVE Spec => NeverOlder
<1>1. Alone /\ [Next]_vars => [Grows]_vars
  BY GrowsStep
<1> QED BY <1>1, AloneInvariance, PTL DEF Spec, NeverOlder, Grows

\* With one process the comment in stop_cert is right (StopOnlyIfHolder): between the query
\* and the update nobody picks the job up.
THEOREM StopsOwnJobOnly == ASSUME OneManager PROVE Spec => StopOnlyIfHolder
<1>1. Alone => [\A m \in Managers : UpdateStop(m) => Holds(m)]_vars
  BY StopAlone
<1> QED BY <1>1, AloneInvariance, PTL DEF StopOnlyIfHolder

-----------------------------------------------------------------------------
(* One process implements CertLease, with every statement a step.          *)

LEMMA StoredIs == ASSUME NEW c, certs = {c} PROVE Stored = c.pem
  BY DEF Stored

LEMMA StoredNextIs == ASSUME NEW c, certs' = {c} PROVE Stored' = c.pem
  BY DEF Stored

LEMMA LeaseInit == Init => Lease!Init
  BY DEF Init, Lease!Init, Holders, Holds, Work, InJob, Stored

\* Leaving gives the job up, if m had it.
LEMMA LeaseGiveUp ==
    ASSUME TypeOK, NEW m \in Managers, Leave(m), UNCHANGED certs
    PROVE  Lease!GiveUp(m)
<1>1. Holders' = Holders \ {m}
  BY DEF Holders, Holds, Leave, Work, InJob, TypeOK
<1> QED BY <1>1 DEF Lease!GiveUp, Stored

\* Steps that touch neither the rows nor the stamp in a memory_cert are not seen.
LEMMA LeaseStutter ==
    ASSUME UNCHANGED certs,
           \A m \in Managers : Busy(m)' <=> Busy(m),
           \A m \in Managers : Busy(m) => mem'[m].update = mem[m].update
    PROVE  UNCHANGED <<Holders, Stored>>
<1>1. \A m \in Managers : Holds(m)' <=> Holds(m)
  BY DEF Holds, Busy
<1> QED BY <1>1 DEF Holders, Stored

LEMMA LeaseStep ==
    ASSUME OneManager, Alone, [Next]_vars
    PROVE  [Lease!Next]_<<Holders, Stored>>
<1> USE DEF Alone, Base
<1>1. ASSUME NEW m \in Managers, Leave(m), UNCHANGED certs
      PROVE  [Lease!Next]_<<Holders, Stored>>
  BY <1>1, LeaseGiveUp DEF Lease!Next
<1>2. ASSUME NEW m \in Managers, CommitStart(m) PROVE [Lease!Next]_<<Holders, Stored>>
  <2>1. ASSUME NEW new \in Cert, certs' = {new}, new.state = "Updating", TakeJob(m, new),
               \/ certs = {} /\ new.pem = 0
               \/ \E c \in Cert : certs = {c} /\ Akin(new, c) /\ new.pem = c.pem
        PROVE  Lease!Acquire(m)
    <3>1. Work(m)' /\ mem'[m] = new /\ \A q \in Managers : q = m
      BY <2>1 DEF TakeJob, Work, InJob, TypeOK, OneManager
    <3>2. \A q \in Managers : Holds(q)'
      BY <2>1, <3>1 DEF Holds
    <3>3. Holders' = {m}
      BY <3>1, <3>2 DEF Holders
    <3>4. Stored' = Stored
      <4>1. CASE certs = {} /\ new.pem = 0
        BY <2>1, <4>1, StoredNextIs DEF Stored
      <4>2. CASE \E c \in Cert : certs = {c} /\ Akin(new, c) /\ new.pem = c.pem
        BY <2>1, <4>2, StoredNextIs, StoredIs
      <4> QED BY <2>1, <4>1, <4>2
    <3> QED BY <3>3, <3>4 DEF Lease!Acquire
  <2> QED BY <1>1, <1>2, <2>1, CommitAlone DEF Lease!Next
<1>3. ASSUME NEW m \in Managers, UpdateStop(m) PROVE Lease!Store(m)
  <2>1. PICK c \in Cert, d \in Cert : /\ certs = {c} /\ certs' = {d} /\ d.state = "Ok"
                                      /\ d.pem = order[m] /\ c.pem < order[m] /\ Holds(m)
    BY <1>3, StopAlone
  <2>2. Holders' = {} /\ m \in Holders
    BY <2>1 DEF Holders, Holds
  <2>3. Stored' = order[m] /\ Stored = c.pem
    BY <2>1, StoredIs, StoredNextIs
  <2> QED BY <2>1, <2>2, <2>3 DEF Lease!Store, TypeOK
<1>4. ASSUME NEW m \in Managers, Fail(m) \/ Crash(m) PROVE [Lease!Next]_<<Holders, Stored>>
  BY <1>1, <1>4 DEF Fail, Crash, rows
<1>5. ASSUME NEW m \in Managers, SelectStop(m) PROVE [Lease!Next]_<<Holders, Stored>>
  <2>1. UNCHANGED certs
    BY <1>5 DEF SelectStop, rows
  <2>2. CASE pc' = [pc EXCEPT ![m] = "stopping"] /\ UNCHANGED <<mem, order, began>>
    <3>1. \A q \in Managers : Busy(q)' <=> Busy(q)
      BY <1>5, <2>2 DEF SelectStop, Busy, Work, InJob, TypeOK
    <3> QED BY <2>1, <2>2, <3>1, LeaseStutter
  <2> QED BY <1>1, <1>5, <2>1, <2>2 DEF SelectStop
<1>6. ASSUME NEW m \in Managers, Finalize(m) PROVE UNCHANGED <<Holders, Stored>>
  <2>1. Busy(m) /\ mem[m] \in Cert
    BY <1>6 DEF Finalize, Busy, Work, InJob, HasCert
  <2>2. \A q \in Managers : (Busy(q)' <=> Busy(q)) /\ mem'[q].update = mem[q].update
    BY <1>6, <2>1 DEF Finalize, Busy, Work, InJob, TypeOK, Cert
  <2> QED BY <1>6, <2>2, LeaseStutter DEF Finalize, rows
<1>7. ASSUME NEW m \in Managers,
             Tick(m) \/ SelectStart(m) \/ NewOrder(m) \/ Prove(m) \/ Validate(m)
      PROVE  UNCHANGED <<Holders, Stored>>
  <2>1. UNCHANGED certs
    BY <1>7, OtherSteps DEF Manage
  <2>2. \A q \in Managers : Busy(q)' <=> Busy(q)
    BY <1>7
    DEF Tick, SelectStart, NewOrder, Prove, Validate, Busy, Work, InJob, TypeOK
  <2>3. \A q \in Managers : Busy(q) => mem'[q] = mem[q]
    BY <1>7 DEF Tick, SelectStart, NewOrder, Prove, Validate, Busy, Work, InJob, TypeOK
  <2> QED BY <2>1, <2>2, <2>3, LeaseStutter
<1>8. CASE UNCHANGED <<certs, pc, mem>>
  BY <1>8, LeaseStutter DEF Busy, Work
<1> QED
  BY <1>2, <1>3, <1>4, <1>5, <1>6, <1>7, <1>8
  DEF Next, Step, Manage, Clock, vars, rows, job, Lease!Next

\* Whatever one process fails at, and wherever it dies, it keeps the promise of CertLease.
THEOREM Refinement == ASSUME OneManager PROVE Spec => ImplementsLease
<1>1. Alone /\ [Next]_vars => [Lease!Next]_<<Holders, Stored>>
  BY LeaseStep
<1>2. [Lease!Next]_<<Holders, Stored>> <=> [Lease!Next]_Lease!lvars
  BY DEF Lease!lvars
<1> QED BY <1>1, <1>2, LeaseInit, AloneInvariance, PTL DEF Spec, ImplementsLease, Lease!Spec
=============================================================================
