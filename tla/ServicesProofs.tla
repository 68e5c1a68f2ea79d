--------------------------- MODULE ServicesProofs ---------------------------
(***************************************************************************)
(* Theorems about Services: what the jobs, the routes and the authority    *)
(* do to each other on their two tables.  For any number of processes and  *)
(* requests: registrations and certificates keep apart, and every answer   *)
(* is counted once.  For one process: what the DNS answers.                *)
(***************************************************************************)
EXTENDS CertFacadeDatabaseProofs, Services

-----------------------------------------------------------------------------
(* The rows, with a route that inserts into one of the tables.             *)

\* create_domain of a route: a domain more, with a new id.
AddsDomain(i) ==
    /\ \A d \in domains : d.id # i
    /\ domains' = domains \cup {[id |-> i, txt |-> 0]}
    /\ UNCHANGED <<now, certs, orders, job, due>>

LEMMA RegisterBase ==
    ASSUME Base, NEW i \in Ids, AddsDomain(i)
    PROVE  Base'
<1>1. UNCHANGED <<now, certs, orders, pc, mem, order, began, due>>
  BY DEF AddsDomain, job
<1>2. domains' \subseteq Domain
  BY DEF AddsDomain, Domain, Base, TypeOK
<1>3. TypeOK'
  BY <1>1, <1>2 DEF Base, TypeOK
<1>4. HasCert'
  BY <1>1 DEF Base, HasCert, Busy, Work
<1>5. Kin'
  BY <1>1 DEF AddsDomain, Base, Kin, Akin
<1> QED BY <1>3, <1>4, <1>5 DEF Base

\* What a step of Services is to the rows.
LEMMA RowSteps ==
    ASSUME Base, [ServicesNext]_servicevars
    PROVE  [Next]_vars \/ \E i \in Ids : AddsDomain(i)
<1>1. ASSUME NEW r \in Requests, CreateDomain(r) PROVE \E i \in Ids : AddsDomain(i)
  BY <1>1 DEF CreateDomain, AddsDomain
<1>2. ASSUME NEW r \in Requests, Handle(r), ~CreateDomain(r) PROVE UNCHANGED vars
  BY <1>2 DEF Handle, Post, PostOther, CreateDomainFails, Created, Disconnect
<1>3. ASSUME Search PROVE UNCHANGED vars
  BY <1>3 DEF Search, Ask, Pre, Failure, ReadCert, ReadDomain, FindDomain
<1> QED BY <1>1, <1>2, <1>3 DEF ServicesNext, servicevars

LEMMA BaseStep == Base /\ [ServicesNext]_servicevars => Base'
  BY RowSteps, RegisterBase, TypeStep, KinStep DEF Base

LEMMA CountedRows == Base /\ Counted /\ [ServicesNext]_servicevars => Counted'
<1>1. ASSUME Counted, NEW i \in Ids, AddsDomain(i) PROVE Counted'
  BY <1>1, CountedKept DEF AddsDomain, Blind, job
<1> QED BY <1>1, RowSteps, CountedStep

LEMMA RowsInvariance == ServicesSpec => [](Base /\ Counted)
<1>1. ServicesInit => Base /\ Counted
  BY TypeInit, KinInit, CountedInit DEF ServicesInit, RegistrationInit, Base
<1> QED BY <1>1, BaseStep, CountedRows, PTL DEF ServicesSpec

\* Rows of certificates do not multiply, whatever else is inserted into domain.
THEOREM AtMostOneRowEachBesideRoutes == ServicesSpec => []RowsPerManager
<1>1. Counted => RowsPerManager
  BY BlindFinite, FS_CardinalityType DEF Counted, RowsPerManager
<1> QED BY <1>1, RowsInvariance, PTL

\* A certificate has its domain, which no other has, whatever else is inserted.
THEOREM DomainFoundBesideRoutes == ServicesSpec => []DomainFound
  BY BaseFindsDomain, RowsInvariance, PTL

-----------------------------------------------------------------------------
(* What was registered.                                                    *)

\* A domain that no certificate uses and that was never proved.
Free(i) == [id |-> i, txt |-> 0] \in domains /\ \A c \in certs : c.domain # i

\* No job takes it or writes into it.
LEMMA FreeKept ==
    ASSUME Base, [Next]_vars, NEW i, Free(i)
    PROVE  Free(i)'
<1>1. CASE UNCHANGED <<certs, domains>>
  BY <1>1 DEF Free
<1>2. ASSUME NEW m \in Managers, NEW old \in certs, NEW new, WritesBack(m, old, new)
      PROVE  Free(i)'
  BY <1>2 DEF WritesBack, Akin, Free
<1>3. ASSUME NEW m \in Managers, CommitStart(m) PROVE Free(i)'
  <2>1. ASSUME NEW new \in Cert, Inserts(m, new) PROVE Free(i)'
    BY <2>1 DEF Inserts, Free
  <2> QED BY <1>1, <1>2, <1>3, <2>1, CommitCases DEF rows
<1>4. ASSUME NEW m \in Managers, UpdateStop(m) PROVE Free(i)'
  BY <1>2, <1>4, StopWritesBack
<1>5. ASSUME NEW m \in Managers, Prove(m) PROVE Free(i)'
  <2>1. mem[m] # None
    BY <1>5, NoneIsNoRow DEF Prove, Base, HasCert, Busy, Work, InJob
  <2>2. mem[m].domain # i
    BY <2>1 DEF Base, Kin, Akin, Free
  <2>3. [id |-> i, txt |-> 0] \in domains'
    BY <1>5, <2>2 DEF Prove, UpdateDomain, Free
  <2> QED BY <1>5, <2>3 DEF Prove, Free
<1>6. ASSUME NEW m \in Managers,
             Tick(m) \/ SelectStart(m) \/ NewOrder(m) \/ Validate(m) \/ Finalize(m)
                \/ SelectStop(m) \/ Fail(m) \/ Crash(m)
      PROVE  UNCHANGED <<certs, domains>>
  BY <1>6 DEF Tick, SelectStart, NewOrder, Validate, Finalize, SelectStop, Fail, Crash, rows
<1> QED
  BY <1>1, <1>3, <1>4, <1>5, <1>6 DEF Next, Step, Manage, Clock, vars, rows

LEMMA FreeBesideRoutes ==
    ASSUME Base, [ServicesNext]_servicevars, NEW i, Free(i)
    PROVE  Free(i)'
<1>1. ASSUME NEW j \in Ids, AddsDomain(j) PROVE Free(i)'
  BY <1>1 DEF AddsDomain, Free
<1> QED BY <1>1, RowSteps, FreeKept

\* What a request has at each step of its handler.
Progress(r) ==
    /\ ask[r] \in Kinds \cup {"none"} /\ (step[r] # "new" => ask[r] \in Kinds)
    /\ step[r] \in {"new", "inserting", "inserted", "answered", "gone"}
    /\ given[r] \in Ids \cup {None}
    /\ step[r] \in {"new", "inserting"} => given[r] = None
    /\ step[r] = "inserted" \/ status[r] = "201" => given[r] # None
    /\ status[r] \in Statuses /\ (status[r] # "none" <=> step[r] = "answered")

\* What is registered is free, and is nobody else's.
Handled ==
    /\ ask \in [Requests -> Kinds \cup {"none"}]
    /\ step \in [Requests -> {"new", "inserting", "inserted", "answered", "gone"}]
    /\ given \in [Requests -> Ids \cup {None}]
    /\ status \in [Requests -> Statuses]
    /\ \A r \in Requests : Progress(r)
    /\ \A r \in Requests : given[r] # None => Free(given[r])
    /\ \A r, s \in Requests : given[r] # None /\ given[r] = given[s] => r = s

LEMMA HandledInit == RegistrationInit => Handled
  BY DEF RegistrationInit, Handled, Progress, Kinds, Statuses

\* A step of request r leaves the others alone.
OthersKept(r) ==
    \A q \in Requests \ {r} : /\ ask'[q] = ask[q] /\ step'[q] = step[q]
                              /\ given'[q] = given[q] /\ status'[q] = status[q]

\* An answer of r: everything but the counter, which the next section is about.
LEMMA RespondKept ==
    ASSUME Handled, NEW r \in Requests, NEW k \in Kinds, NEW s \in Statuses \ {"none"},
           Respond(r, k, s), ask' = [ask EXCEPT ![r] = k], UNCHANGED given,
           s = "201" => given[r] # None
    PROVE  /\ OthersKept(r) /\ Progress(r)'
           /\ ask' \in [Requests -> Kinds \cup {"none"}]
           /\ step' \in [Requests -> {"new", "inserting", "inserted", "answered", "gone"}]
           /\ status' \in [Requests -> Statuses]
  BY DEF Handled, Respond, OthersKept, Progress

LEMMA HandledRequest ==
    ASSUME Base, Handled, NEW r \in Requests, Handle(r),
           \A i : Free(i) => Free(i)'
    PROVE  Handled'
<1>1. ASSUME OthersKept(r), Progress(r)', UNCHANGED given,
             ask' \in [Requests -> Kinds \cup {"none"}],
             step' \in [Requests -> {"new", "inserting", "inserted", "answered", "gone"}],
             status' \in [Requests -> Statuses]
      PROVE  Handled'
  BY <1>1 DEF Handled, OthersKept, Progress
<1>2. CASE Post(r)
  <2>1. PICK k \in Asks \cap Registers :
           /\ ask' = [ask EXCEPT ![r] = k]
           /\ \/ step' = [step EXCEPT ![r] = "inserting"] /\ UNCHANGED <<status, counter>>
              \/ Respond(r, k, "500")
    BY <1>2 DEF Post
  <2>2. k \in Kinds /\ UNCHANGED given /\ step[r] = "new"
    BY <1>2, AsksAreKinds DEF Post
  <2>3. CASE step' = [step EXCEPT ![r] = "inserting"] /\ UNCHANGED status
    BY <1>1, <2>1, <2>2, <2>3 DEF Handled, OthersKept, Progress
  <2>4. CASE Respond(r, k, "500")
    <3>1. "500" \in Statuses \ {"none"}
      BY DEF Statuses
    <3> QED BY <1>1, <2>1, <2>2, <2>4, <3>1, RespondKept
  <2> QED BY <2>1, <2>3, <2>4
<1>3. CASE PostOther(r)
  <2>1. PICK k \in Asks \ Registers :
           /\ ask' = [ask EXCEPT ![r] = k]
           /\ Respond(r, k, IF k = "update" THEN "200" ELSE "404")
    BY <1>3 DEF PostOther
  <2>2. k \in Kinds /\ UNCHANGED given
    BY <1>3, AsksAreKinds DEF PostOther
  <2>3. {"200", "404"} \subseteq Statuses \ {"none"}
    BY DEF Statuses
  <2> QED BY <1>1, <2>1, <2>2, <2>3, RespondKept
<1>4. CASE CreateDomain(r)
  <2>1. PICK i \in Ids \ {x.id : x \in domains} :
           /\ given' = [given EXCEPT ![r] = i]
           /\ domains' = domains \cup {[id |-> i, txt |-> 0]}
    BY <1>4 DEF CreateDomain
  <2>2. /\ step[r] = "inserting" /\ step' = [step EXCEPT ![r] = "inserted"]
        /\ UNCHANGED <<certs, ask, status>> /\ i # None
    BY <1>4, NoneIsNoId DEF CreateDomain
  <2>3. OthersKept(r) /\ Progress(r)' /\ given'[r] = i
    BY <2>1, <2>2 DEF Handled, OthersKept, Progress
  <2>4. Free(i)'
    <3>1. \A c \in certs : c.domain # i
      BY <2>1 DEF Base, Kin
    <3> QED BY <2>1, <2>2, <3>1 DEF Free
  <2>5. \A q \in Requests : given[q] # None => given[q] # i
    <3>1. \A j : Free(j) => j \in {x.id : x \in domains}
      <4> SUFFICES ASSUME NEW j, Free(j)
                   PROVE  \E x \in domains : j = x.id
        OBVIOUS
      <4>1. [id |-> j, txt |-> 0].id = j
        OBVIOUS
      <4> QED BY <4>1 DEF Free
    <3> QED BY <2>1, <3>1 DEF Handled
  <2>6. \A q, s \in Requests : given'[q] # None /\ given'[q] = given'[s] => q = s
    BY <2>3, <2>5 DEF Handled, OthersKept
  <2>7. ASSUME NEW q \in Requests PROVE Progress(q)' /\ (given[q] # None => Free(given[q]))'
    <3>1. CASE q = r
      BY <2>3, <2>4, <3>1
    <3>2. CASE q # r
      <4>1. given'[q] = given[q] /\ Progress(q)'
        BY <2>3, <3>2 DEF Handled, OthersKept, Progress
      <4>2. given[q] # None => /\ [id |-> given[q], txt |-> 0] \in domains'
                              /\ \A c \in certs' : c.domain # given[q]
        BY DEF Handled, Free
      <4> QED BY <4>1, <4>2 DEF Free
    <3> QED BY <3>1, <3>2
  <2>8. /\ ask' \in [Requests -> Kinds \cup {"none"}]
        /\ step' \in [Requests -> {"new", "inserting", "inserted", "answered", "gone"}]
        /\ given' \in [Requests -> Ids \cup {None}]
        /\ status' \in [Requests -> Statuses]
    BY <2>1, <2>2 DEF Handled
  <2> QED BY <2>6, <2>7, <2>8 DEF Handled
<1>5. CASE CreateDomainFails(r)
  <2>1. /\ Respond(r, ask[r], "500") /\ ask' = [ask EXCEPT ![r] = ask[r]]
        /\ ask[r] \in Kinds /\ UNCHANGED given
    BY <1>5 DEF CreateDomainFails, Handled, Progress
  <2>2. "500" \in Statuses \ {"none"}
    BY DEF Statuses
  <2> QED BY <1>1, <2>1, <2>2, RespondKept
<1>6. CASE Created(r)
  <2>1. /\ Respond(r, ask[r], "201") /\ ask' = [ask EXCEPT ![r] = ask[r]]
        /\ ask[r] \in Kinds /\ UNCHANGED given /\ given[r] # None
    BY <1>6 DEF Created, Handled, Progress
  <2>2. "201" \in Statuses \ {"none"}
    BY DEF Statuses
  <2> QED BY <1>1, <2>1, <2>2, RespondKept
<1>7. CASE Disconnect(r)
  BY <1>1, <1>7 DEF Disconnect, Handled, OthersKept, Progress
<1> QED BY <1>2, <1>3, <1>4, <1>5, <1>6, <1>7 DEF Handle

LEMMA HandledStep == Base /\ Handled /\ [ServicesNext]_servicevars => Handled'
<1> SUFFICES ASSUME Base, Handled, [ServicesNext]_servicevars
             PROVE  Handled'
  OBVIOUS
<1>1. \A i : Free(i) => Free(i)'
  BY FreeBesideRoutes
<1>2. CASE UNCHANGED reqvars
  BY <1>1, <1>2 DEF reqvars, Handled, Progress
<1> QED BY <1>1, <1>2, HandledRequest DEF ServicesNext, servicevars

\* Who was told 201 has a row of his own, which no job takes or writes into.
THEOREM RegisteredIsKept == ServicesSpec => []RegisteredKept
<1>1. Handled => RegisteredKept
  BY DEF Handled, Progress, Free, RegisteredKept
<1>2. ServicesInit => Handled
  BY HandledInit DEF ServicesInit
<1> QED BY <1>1, <1>2, HandledStep, RowsInvariance, PTL DEF ServicesSpec

-----------------------------------------------------------------------------
(* The counter of the routes.                                              *)

\* What CountedOnce counts, and that nothing else is counted.
Tallied ==
    /\ counter \in [Labels \X Statuses -> Nat]
    /\ CountedOnce
    /\ \A l \in Labels : counter[<<l, "none">>] = 0

\* The requests answered with s for which the path was l.
Answered(l, s) == {q \in Requests : status[q] = s /\ ask[q] = l}

LEMMA AnsweredFinite ==
    ASSUME NEW S \in SUBSET Requests
    PROVE  IsFiniteSet(S) /\ Cardinality(S) \in 0..Cardinality(Requests)
<1>1. IsFiniteSet(S) /\ Cardinality(S) <= Cardinality(Requests)
  BY AsksAreKinds, FS_Subset
<1> QED BY <1>1, AsksAreKinds, FS_CardinalityType

LEMMA TalliedInit == RegistrationInit => Tallied
<1> SUFFICES ASSUME RegistrationInit PROVE Tallied
  OBVIOUS
<1>1. counter = [l \in Labels \X Statuses |-> 0] /\ status = [r \in Requests |-> "none"]
  BY DEF RegistrationInit
<1>2. \A s \in Statuses \ {"none"} : {r \in Requests : status[r] = s} = {}
  BY <1>1
<1>3. \A s \in Statuses \ {"none"}, l \in Labels : {r \in Requests : status[r] = s /\ ask[r] = l} = {}
  BY <1>1
<1>4. "404" \in Statuses \ {"none"} /\ "404" \in Labels /\ Kinds \subseteq Labels /\ "none" \in Statuses
  BY DEF Statuses, Labels
<1> QED BY <1>1, <1>2, <1>3, <1>4, FS_EmptySet DEF Tallied, CountedOnce

\* An answer is one more under its label, and one more that has that answer.
LEMMA RespondCounts ==
    ASSUME Handled, Tallied, NEW r \in Requests, status[r] = "none",
           NEW k \in Kinds, NEW s \in Statuses \ {"none"}, Respond(r, k, s),
           ask' = [ask EXCEPT ![r] = k]
    PROVE  Tallied'
<1>1. /\ status' = [status EXCEPT ![r] = s]
      /\ counter' = [counter EXCEPT ![<<Label(k, s), s>>] = @ + 1]
  BY DEF Respond
<1>2. Label(k, s) \in Labels /\ "404" \in Labels /\ Kinds \subseteq Labels /\ "404" \notin Kinds
  BY DEF Label, Labels, Kinds
<1>3. counter' \in [Labels \X Statuses -> Nat] /\ \A l \in Labels : counter'[<<l, "none">>] = 0
  BY <1>1, <1>2 DEF Tallied, Statuses
<1>4. ASSUME NEW S \in SUBSET Requests, r \notin S
      PROVE  Cardinality(S \cup {r}) = Cardinality(S) + 1
  BY <1>4, AnsweredFinite, FS_AddElement
<1>5. ASSUME NEW t \in Statuses \ {"none", "404"}, NEW l \in Labels
      PROVE  counter'[<<l, t>>] = Cardinality({q \in Requests : status'[q] = t /\ ask'[q] = l})
  <2>1. counter[<<l, t>>] = Cardinality(Answered(l, t)) /\ r \notin Answered(l, t)
    BY DEF Tallied, CountedOnce, Answered
  <2>2. CASE l = k /\ t = s
    <3>1. {q \in Requests : status'[q] = t /\ ask'[q] = l} = Answered(l, t) \cup {r}
      BY <1>1, <2>2 DEF Answered, Handled
    <3>2. counter'[<<l, t>>] = counter[<<l, t>>] + 1
      BY <1>1, <2>2 DEF Label, Tallied
    <3> QED BY <1>4, <2>1, <3>1, <3>2 DEF Answered
  <2>3. CASE ~(l = k /\ t = s)
    <3>1. {q \in Requests : status'[q] = t /\ ask'[q] = l} = Answered(l, t)
      BY <1>1, <2>3 DEF Answered, Handled
    <3>2. counter'[<<l, t>>] = counter[<<l, t>>]
      BY <1>1, <2>3 DEF Label, Tallied
    <3> QED BY <2>1, <3>1, <3>2
  <2> QED BY <2>2, <2>3
<1>6. counter'[<<"404", "404">>] = Cardinality({q \in Requests : status'[q] = "404"})
  <2>1. /\ counter[<<"404", "404">>] = Cardinality({q \in Requests : status[q] = "404"})
        /\ "404" \in Statuses
    BY DEF Tallied, CountedOnce, Statuses
  <2>2. CASE s = "404"
    <3>1. {q \in Requests : status'[q] = "404"} = {q \in Requests : status[q] = "404"} \cup {r}
      BY <1>1, <2>2 DEF Handled
    <3>2. counter'[<<"404", "404">>] = counter[<<"404", "404">>] + 1
      BY <1>1, <1>2, <2>1, <2>2 DEF Label, Tallied
    <3> QED BY <1>4, <2>1, <3>1, <3>2
  <2>3. CASE s # "404"
    BY <1>1, <1>2, <2>1, <2>3 DEF Handled, Label, Tallied
  <2> QED BY <2>2, <2>3
<1>7. \A l \in Kinds : counter'[<<l, "404">>] = 0
  BY <1>1, <1>2 DEF Tallied, CountedOnce, Label, Statuses
<1> QED BY <1>3, <1>5, <1>6, <1>7 DEF Tallied, CountedOnce

LEMMA TalliedStep == Handled /\ Tallied /\ [ServicesNext]_servicevars => Tallied'
<1> SUFFICES ASSUME Handled, Tallied, [ServicesNext]_servicevars
             PROVE  Tallied'
  OBVIOUS
<1>1. CASE UNCHANGED reqvars
  BY <1>1 DEF reqvars, Tallied, CountedOnce
<1>2. ASSUME NEW r \in Requests, status[r] = "none", NEW k \in Kinds,
             ask' = [ask EXCEPT ![r] = k], UNCHANGED <<status, counter>>
      PROVE  Tallied'
  <2>1. \A s \in Statuses \ {"none"}, l \in Labels :
           {q \in Requests : status'[q] = s /\ ask'[q] = l} = Answered(l, s)
    BY <1>2 DEF Answered, Handled
  <2> QED BY <1>2, <2>1 DEF Tallied, CountedOnce, Answered
<1>3. ASSUME NEW r \in Requests, Handle(r) PROVE Tallied'
  <2>1. {"200", "201", "404", "500"} \subseteq Statuses \ {"none"}
    BY DEF Statuses
  <2>2. step[r] # "answered" => status[r] = "none"
    BY DEF Handled, Progress
  <2>3. step[r] # "new" => ask[r] \in Kinds /\ ask = [ask EXCEPT ![r] = ask[r]]
    BY DEF Handled, Progress
  <2>4. CASE Post(r)
    <3>1. PICK k \in Asks \cap Registers :
             /\ ask' = [ask EXCEPT ![r] = k]
             /\ UNCHANGED <<status, counter>> \/ Respond(r, k, "500")
      BY <2>4 DEF Post
    <3>2. k \in Kinds /\ status[r] = "none"
      BY <2>2, <2>4, AsksAreKinds DEF Post
    <3> QED BY <1>2, <2>1, <3>1, <3>2, RespondCounts
  <2>5. CASE PostOther(r)
    <3>1. PICK k \in Asks \ Registers :
             /\ ask' = [ask EXCEPT ![r] = k]
             /\ Respond(r, k, IF k = "update" THEN "200" ELSE "404")
      BY <2>5 DEF PostOther
    <3>2. k \in Kinds /\ status[r] = "none"
      BY <2>2, <2>5, AsksAreKinds DEF PostOther
    <3> QED BY <2>1, <3>1, <3>2, RespondCounts
  <2>6. CASE CreateDomain(r)
    BY <2>6 DEF CreateDomain, Tallied, CountedOnce
  <2>7. CASE CreateDomainFails(r)
    <3>1. /\ Respond(r, ask[r], "500") /\ status[r] = "none"
          /\ ask[r] \in Kinds /\ ask' = [ask EXCEPT ![r] = ask[r]]
      BY <2>2, <2>3, <2>7 DEF CreateDomainFails
    <3> QED BY <2>1, <3>1, RespondCounts
  <2>8. CASE Created(r)
    <3>1. /\ Respond(r, ask[r], "201") /\ status[r] = "none"
          /\ ask[r] \in Kinds /\ ask' = [ask EXCEPT ![r] = ask[r]]
      BY <2>2, <2>3, <2>8 DEF Created
    <3> QED BY <2>1, <3>1, RespondCounts
  <2>9. CASE Disconnect(r)
    BY <2>9 DEF Disconnect, Tallied, CountedOnce
  <2> QED BY <1>3, <2>4, <2>5, <2>6, <2>7, <2>8, <2>9 DEF Handle
<1> QED BY <1>1, <1>3 DEF ServicesNext, servicevars

LEMMA RequestsInvariance == ServicesSpec => [](Handled /\ Tallied)
<1>1. ServicesInit => Handled /\ Tallied
  BY HandledInit, TalliedInit DEF ServicesInit
<1> QED BY <1>1, HandledStep, TalliedStep, RowsInvariance, PTL DEF ServicesSpec

\* Every answer is counted once, however many requests there are, and all that was
\* not found under one label.
THEOREM EveryAnswerIsCountedOnce == ServicesSpec => []CountedOnce
<1>1. Tallied => CountedOnce
  BY DEF Tallied
<1> QED BY <1>1, RequestsInvariance, PTL

LEMMA HandledTypes == Handled /\ Tallied => RegistrationTypeOK
<1> SUFFICES ASSUME Handled, Tallied PROVE RegistrationTypeOK
  OBVIOUS
<1>1. ASSUME NEW l \in Labels, NEW s \in Statuses
      PROVE  counter[<<l, s>>] \in 0..Cardinality(Requests)
  <2>1. CASE s \notin {"none", "404"}
    <3>1. counter[<<l, s>>] = Cardinality(Answered(l, s)) /\ Answered(l, s) \in SUBSET Requests
      BY <2>1 DEF Tallied, CountedOnce, Answered
    <3> QED BY <3>1, AnsweredFinite
  <2>2. CASE s = "404" /\ l = "404"
    <3>1. counter[<<l, s>>] = Cardinality({q \in Requests : status[q] = "404"})
      BY <2>2 DEF Tallied, CountedOnce
    <3> QED BY <3>1, AnsweredFinite
  <2>3. CASE s = "none" \/ (s = "404" /\ l # "404")
    <3>1. counter[<<l, s>>] = 0
      BY <2>3 DEF Tallied, CountedOnce, Labels
    <3> QED BY <3>1, AsksAreKinds, FS_CardinalityType
  <2> QED BY <2>1, <2>2, <2>3
<1> QED BY <1>1 DEF Handled, Tallied, RegistrationTypeOK

-----------------------------------------------------------------------------
(* The authority, for any number of processes: its types.                  *)

\* No TXT record is of an order that was not made.
Bounded ==
    /\ \A d \in domains : d.txt <= orders
    /\ \A m \in Managers : order[m] <= orders

LEMMA BoundedStep == Base /\ Bounded /\ [ServicesNext]_servicevars => Bounded'
<1> SUFFICES ASSUME Base, Bounded, [ServicesNext]_servicevars
             PROVE  Bounded'
  OBVIOUS
<1> USE DEF Base, TypeOK
<1>1. ASSUME UNCHANGED <<domains, orders, order>> PROVE Bounded'
  BY <1>1 DEF Bounded
<1>2. ASSUME NEW i \in Ids, AddsDomain(i) PROVE Bounded'
  BY <1>2 DEF AddsDomain, Bounded, job
<1>3. ASSUME NEW m \in Managers, Leave(m), UNCHANGED <<domains, orders>> PROVE Bounded'
  BY <1>3 DEF Leave, Bounded
<1>4. ASSUME NEW m \in Managers, CommitStart(m) PROVE Bounded'
  <2>1. UNCHANGED orders
    BY <1>4 DEF CommitStart
  <2>2. ASSUME NEW new \in Cert, Inserts(m, new) PROVE Bounded'
    BY <2>1, <2>2 DEF Inserts, TakeJob, Bounded
  <2>3. ASSUME UNCHANGED domains, NEW c, TakeJob(m, c) PROVE Bounded'
    BY <2>1, <2>3, <1>1 DEF TakeJob
  <2> QED BY <1>3, <1>4, <2>1, <2>2, <2>3, CommitCases DEF WritesBack, rows
<1>5. ASSUME NEW m \in Managers, NewOrder(m) PROVE Bounded'
  BY <1>5 DEF NewOrder, Bounded, rows, Domain
<1>6. ASSUME NEW m \in Managers, Prove(m) PROVE Bounded'
  BY <1>6 DEF Prove, UpdateDomain, Bounded, Domain
<1>7. ASSUME NEW m \in Managers, SelectStop(m) \/ UpdateStop(m) \/ Fail(m) \/ Crash(m)
      PROVE  Bounded'
  BY <1>1, <1>3, <1>7 DEF SelectStop, UpdateStop, Fail, Crash, rows
<1>8. ASSUME NEW m \in Managers, Tick(m) \/ SelectStart(m) \/ Validate(m) \/ Finalize(m)
      PROVE  UNCHANGED <<domains, orders, order>>
  BY <1>8 DEF Tick, SelectStart, Validate, Finalize, rows
<1>9. CASE Clock \/ UNCHANGED vars
  BY <1>1, <1>9 DEF Clock, vars, rows, job
<1>10. [Next]_vars => Bounded'
  BY <1>1, <1>4, <1>5, <1>6, <1>7, <1>8, <1>9 DEF Next, Step, Manage
<1> QED BY <1>2, <1>10, RowSteps

LEMMA OrdersGrow == Base /\ [ServicesNext]_servicevars => orders <= orders'
<1> SUFFICES ASSUME Base, [ServicesNext]_servicevars PROVE orders <= orders'
  OBVIOUS
<1>1. orders \in Nat
  BY DEF Base, TypeOK
<1>2. [Next]_vars => orders' \in {orders, orders + 1}
  BY DEF Next, Step, Manage, Clock, Tick, SelectStart, CommitStart, NewOrder, Prove, Validate,
         Finalize, SelectStop, UpdateStop, Fail, Crash, vars
<1>3. ASSUME NEW i \in Ids, AddsDomain(i) PROVE orders' = orders
  BY <1>3 DEF AddsDomain
<1> QED BY <1>1, <1>2, <1>3, RowSteps

\* AuthorityTypeOK, but for the history variable proven.
SearchTypes ==
    /\ query \in Query
    /\ qpc \in {"idle", "pre", "cert", "domain", "find"}
    /\ owner \in Ids \cup {None}
    /\ result \in {"", "soa", "empty", "configured", "txt", "error", "panic"}
    /\ answer \in 0..orders /\ asked \in 0..orders
    /\ result = "txt" <=> answer # 0

LEMMA SearchTypesStep ==
    ASSUME Base, Bounded, SearchTypes, Search
    PROVE  SearchTypes'
<1>1. certs \subseteq Cert /\ \A d \in domains : d.txt \in 0..orders
  BY DEF Base, TypeOK, Domain, Bounded
<1>2. orders \in Nat /\ 0 \in 0..orders
  BY DEF Base, TypeOK
<1>3. UNCHANGED orders
  BY DEF Search, Ask, Pre, Failure, ReadCert, ReadDomain, FindDomain, vars
<1>4. CASE Ask
  <2>1. query' \in Query
    BY <1>4, QuestionBounds DEF Ask, Asked, Query
  <2>2. asked' \in 0..orders
    <3>1. ASSUME NEW m \in Managers PROVE order[m] \in 0..orders
      <4>1. order[m] \in Nat /\ order[m] <= orders
        BY DEF Base, TypeOK, Bounded
      <4> QED BY <1>2, <4>1
    <3>2. asked' = IF \E m \in Managers : pc[m] = "validate"
                   THEN order[CHOOSE m \in Managers : pc[m] = "validate"] ELSE 0
      BY <1>4 DEF Ask
    <3> QED BY <1>2, <3>1, <3>2
  <2>3. UNCHANGED owner
    BY <1>4 DEF Ask
  <2>4. qpc' \in {"idle", "pre"} /\ result' \in {"soa", "empty", ""} /\ answer' = 0
    BY <1>4 DEF Ask, Answer
  <2> QED BY <1>2, <1>3, <2>1, <2>2, <2>3, <2>4 DEF SearchTypes
<1>5. CASE Pre \/ Failure
  BY <1>2, <1>3, <1>5 DEF Pre, Failure, Answer, SearchTypes
<1>6. CASE ReadCert
  <2>1. owner' \in Ids \cup {None}
    BY <1>1, <1>6 DEF ReadCert, FirstCert, Cert, SearchTypes
  <2> QED BY <1>2, <1>3, <1>6, <2>1 DEF ReadCert, Answer, SearchTypes
<1>7. CASE ReadDomain \/ FindDomain
  BY <1>1, <1>2, <1>3, <1>7 DEF ReadDomain, FindDomain, Answer, SearchTypes
<1> QED BY <1>4, <1>5, <1>6, <1>7 DEF Search

LEMMA AuthorityTypes ==
    Base /\ Bounded /\ AuthorityTypeOK /\ [ServicesNext]_servicevars => AuthorityTypeOK'
<1> SUFFICES ASSUME Base, Bounded, AuthorityTypeOK, [ServicesNext]_servicevars
             PROVE  AuthorityTypeOK'
  OBVIOUS
<1>1. SearchTypes /\ proven \in BOOLEAN
  BY DEF AuthorityTypeOK, SearchTypes
<1>2. CASE UNCHANGED qvars
  <2>1. orders \in Nat /\ orders' \in Nat /\ orders <= orders'
    BY BaseStep, OrdersGrow DEF Base, TypeOK
  <2>2. UNCHANGED <<query, qpc, owner, result, answer, asked>> /\ UNCHANGED proven
    BY <1>2 DEF qvars
  <2>3. \A n \in 0..orders : n \in 0..orders'
    BY <2>1
  <2>4. SearchTypes'
    BY <1>1, <2>2, <2>3 DEF SearchTypes
  <2> QED BY <1>1, <2>2, <2>4 DEF AuthorityTypeOK, SearchTypes
<1>3. CASE Search
  <2>1. SearchTypes'
    BY <1>1, <1>3, SearchTypesStep
  <2>2. proven' \in BOOLEAN
    BY <1>1, <1>3 DEF Search, Ask, Pre, Failure, ReadCert, ReadDomain, FindDomain
  <2> QED BY <2>1, <2>2 DEF AuthorityTypeOK, SearchTypes
<1> QED BY <1>2, <1>3 DEF ServicesNext, servicevars

LEMMA AuthorityInvariance == ServicesSpec => [](Bounded /\ AuthorityTypeOK)
<1>1. ServicesInit => Bounded /\ AuthorityTypeOK
  <2> SUFFICES ASSUME ServicesInit PROVE Bounded /\ AuthorityTypeOK
    OBVIOUS
  <2>1. Init /\ AuthorityInit
    BY DEF ServicesInit, RegistrationInit
  <2>2. Bounded /\ orders = 0 /\ 0 \in 0..0
    BY <2>1 DEF Init, Bounded
  <2>3. query \in Query
    BY <2>1 DEF AuthorityInit, Query, Types
  <2>4. SearchTypes
    BY <2>1, <2>2, <2>3 DEF AuthorityInit, SearchTypes
  <2>5. proven \in BOOLEAN
    BY <2>1 DEF AuthorityInit
  <2> QED BY <2>2, <2>4, <2>5 DEF AuthorityTypeOK, SearchTypes
<1> QED BY <1>1, BoundedStep, AuthorityTypes, RowsInvariance, PTL DEF ServicesSpec

\* Every variable of the jobs, the routes and the authority keeps its type.
THEOREM TypesCorrect == ServicesSpec => []ServicesTypeOK
<1>1. Base /\ Handled /\ Tallied /\ AuthorityTypeOK => ServicesTypeOK
  BY HandledTypes DEF Base, ServicesTypeOK
<1> QED BY <1>1, RowsInvariance, RequestsInvariance, AuthorityInvariance, PTL

-----------------------------------------------------------------------------
(* The authority beside one process.                                       *)

\* A new domain is nobody's who works on one.
LEMMA AddsAlone ==
    ASSUME Alone, NEW i \in Ids, AddsDomain(i)
    PROVE  Sole' /\ Published'
<1>1. Sole'
  BY DEF Alone, Sole, AddsDomain, job, Busy, Work, JobOn
<1>2. ASSUME NEW m \in Managers, pc[m] = "validate" PROVE mem[m].domain # i
  <2>1. mem[m] # None
    BY <1>2, NoneIsNoRow DEF Alone, Base, HasCert, Busy, Work, InJob
  <2> QED BY <2>1 DEF Alone, Base, Kin, Akin, AddsDomain
<1>3. Published'
  BY <1>2 DEF Alone, Published, AddsDomain, job
<1> QED BY <1>1, <1>3

LEMMA AloneBesideRoutes == OneManager /\ Alone /\ [ServicesNext]_servicevars => Alone'
<1> SUFFICES ASSUME OneManager, Alone, [ServicesNext]_servicevars PROVE Alone'
  OBVIOUS
<1>1. Base'
  BY BaseStep DEF Alone
<1>2. Sole' /\ Published'
  BY RowSteps, AddsAlone, AloneStep DEF Alone
<1> QED BY <1>1, <1>2 DEF Alone

LEMMA AloneServices == ASSUME OneManager PROVE ServicesSpec => []Alone
<1>1. ServicesInit => Alone
  BY TypeInit, KinInit, AloneInit DEF ServicesInit, RegistrationInit, Alone, Base
<1> QED BY <1>1, AloneBesideRoutes, PTL DEF ServicesSpec

\* Whatever the routes register, the DNS answers the proof of the order being validated.
THEOREM ProofIsAnsweredBesideRoutes == ASSUME OneManager PROVE ServicesSpec => []AnswerIsProof
  BY AloneAnswers, AloneServices, PTL

\* What the routes do the job does not see: the certificate stored is never replaced by an
\* older one (NeverOlder), while domains are registered and the DNS reads.
THEOREM CertificateNeverOlderBesideRoutes == ASSUME OneManager PROVE ServicesSpec => NeverOlder
<1>1. Alone /\ [ServicesNext]_servicevars => [Grows]_vars
  <2>1. ASSUME Alone, NEW i \in Ids, AddsDomain(i) PROVE Grows
    BY <2>1 DEF AddsDomain, Alone, Base, TypeOK, Sole, Cert, Grows
  <2> QED BY <2>1, RowSteps, GrowsStep DEF Alone
<1> QED BY <1>1, AloneServices, PTL DEF ServicesSpec, NeverOlder, Grows

\* A route's domain is nobody's lease.
LEMMA LeaseServices ==
    ASSUME OneManager, Alone, [ServicesNext]_servicevars
    PROVE  [Lease!Next]_<<Holders, Stored>>
<1>1. ASSUME NEW i \in Ids, AddsDomain(i) PROVE UNCHANGED <<Holders, Stored>>
  BY <1>1, LeaseStutter DEF AddsDomain, job, Busy, Work
<1> QED BY <1>1, RowSteps, LeaseStep DEF Alone

\* One process keeps the promise of CertLease (ImplementsLease) beside the routes and the
\* authority, which share its tables.
THEOREM RefinementBesideRoutes == ASSUME OneManager PROVE ServicesSpec => ImplementsLease
<1>1. ServicesInit => Lease!Init
  BY LeaseInit DEF ServicesInit, RegistrationInit
<1>2. Alone /\ [ServicesNext]_servicevars => [Lease!Next]_<<Holders, Stored>>
  BY LeaseServices
<1>3. [Lease!Next]_<<Holders, Stored>> <=> [Lease!Next]_Lease!lvars
  BY DEF Lease!lvars
<1> QED BY <1>1, <1>2, <1>3, AloneServices, PTL DEF ServicesSpec, ImplementsLease, Lease!Spec

\* What TlsAcceptor!Store assumes of whoever stores certificates: the only step that changes
\* what is stored puts a newer certificate there.  The lease promises that to any reader.
THEOREM StoredOnlyGrows == ASSUME OneManager PROVE ServicesSpec => [][Stored' > Stored]_Stored
<1>1. Lease!Init => Stored \in Nat
  BY DEF Lease!Init
<1>2. Stored \in Nat /\ [Lease!Next]_Lease!lvars => (Stored \in Nat)' /\ [Stored' > Stored]_Stored
  BY DEF Lease!Next, Lease!Acquire, Lease!Store, Lease!GiveUp, Lease!lvars
<1>3. ImplementsLease => [][Stored' > Stored]_Stored
  BY <1>1, <1>2, PTL DEF ImplementsLease, Lease!Spec
<1> QED BY <1>3, RefinementBesideRoutes, PTL

\* An order is that of the job.
InHand == \A m \in Managers : order[m] # 0 => Busy(m)

\* The order that was asked for was made, and as long as it is worked on nothing but its
\* proof is in its domain.
StillProved ==
    /\ asked <= orders
    /\ \A m \in Managers : asked # 0 /\ order[m] = asked =>
          \A d \in domains : d.id = mem[m].domain => d.txt = asked

\* Every certificate has a proof.
NoBlank ==
    /\ certs # {}
    /\ \A c \in certs, d \in domains : d.id = c.domain => d.txt # 0

\* Between its two reads a query has the domain of a certificate, and it answers for
\* the challenge in the second one only.
Searching ==
    /\ qpc \in {"cert", "domain"} => query.first = "challenge"
    /\ qpc = "find" => query.first \in Ids
    /\ qpc = "domain" => \E c \in certs : c.domain = owner
    /\ qpc # "idle" /\ proven => NoBlank
    /\ ProvenNeverPanics
    /\ \A m \in Managers :
          /\ qpc = "idle" /\ query.first = "challenge" /\ result \in {"txt", "empty", "panic"}
          /\ asked # 0 /\ order[m] = asked
          => answer = asked

LEMMA InHandStep == OneManager /\ Alone /\ InHand /\ [ServicesNext]_servicevars => InHand'
<1> SUFFICES ASSUME OneManager, Alone, InHand, [ServicesNext]_servicevars PROVE InHand'
  OBVIOUS
<1> USE DEF Alone, Base, TypeOK
<1>1. ASSUME UNCHANGED <<pc, order>> PROVE InHand'
  BY <1>1 DEF InHand, Busy, Work
<1>2. ASSUME NEW m \in Managers, Leave(m) PROVE InHand'
  BY <1>2 DEF Leave, InHand, OneManager
<1>3. ASSUME NEW m \in Managers, NEW c, TakeJob(m, c) PROVE InHand'
  BY <1>3 DEF TakeJob, InHand, OneManager, Busy, Work, InJob
<1>4. ASSUME NEW m \in Managers, Tick(m) \/ SelectStart(m) \/ Manage(m) PROVE InHand'
  <2>1. \A q \in Managers : q = m
    BY DEF OneManager
  <2> QED BY <1>4, <2>1
          DEF Tick, SelectStart, Manage, NewOrder, Prove, Validate, Finalize, InHand, Busy, Work,
              InJob
<1>5. ASSUME NEW m \in Managers, SelectStop(m) PROVE InHand'
  BY <1>2, <1>5 DEF SelectStop, InHand, OneManager, Busy, Work, InJob
<1>6. [Next]_vars => InHand'
  BY <1>1, <1>2, <1>3, <1>4, <1>5, CommitCases
  DEF Next, Step, UpdateStop, Fail, Crash, Clock, vars, job, Inserts
<1>7. ASSUME NEW i \in Ids, AddsDomain(i) PROVE InHand'
  BY <1>1, <1>7 DEF AddsDomain, job
<1> QED BY <1>6, <1>7, RowSteps

\* The jobs' steps, with the order it was asked for unchanged.
LEMMA StillProvedRows ==
    ASSUME OneManager, Alone, InHand, StillProved, asked \in Nat,
           [ServicesNext]_servicevars, UNCHANGED asked
    PROVE  StillProved'
<1> USE DEF Alone, Base, TypeOK
<1>1. ASSUME UNCHANGED <<domains, mem, order, orders>> PROVE StillProved'
  BY <1>1 DEF StillProved
<1>2. ASSUME NEW m \in Managers, Leave(m), UNCHANGED orders PROVE StillProved'
  BY <1>2 DEF Leave, StillProved, OneManager
<1>3. ASSUME NEW m \in Managers, pc[m] \in {"idle", "start", "selected"}, UNCHANGED <<order, orders>>
      PROVE  StillProved'
  <2>1. order[m] = 0
    BY <1>3 DEF InHand, Busy, Work, InJob
  <2> QED BY <1>3, <2>1 DEF StillProved, OneManager
<1>4. ASSUME NEW m \in Managers, CommitStart(m) PROVE StillProved'
  <2>1. pc[m] = "selected" /\ UNCHANGED orders
    BY <1>4 DEF CommitStart
  <2> QED BY <1>2, <1>3, <1>4, <2>1, CommitCases DEF Inserts, TakeJob
<1>5. ASSUME NEW m \in Managers, NewOrder(m) PROVE StillProved'
  BY <1>5 DEF NewOrder, StillProved, OneManager
<1>6. ASSUME NEW m \in Managers, Prove(m) PROVE StillProved'
  <2>1. \A d \in domains' : d.id = mem[m].domain => d.txt = order[m]
    BY <1>6 DEF Prove, UpdateDomain, Domain
  <2> QED BY <1>6, <2>1 DEF Prove, StillProved, OneManager
<1>7. ASSUME NEW m \in Managers, Finalize(m) PROVE StillProved'
  <2>1. mem[m] \in Cert /\ mem' = [mem EXCEPT ![m].pem = order[m]]
    BY <1>7 DEF Finalize, HasCert, Busy, Work, InJob
  <2>2. \A q \in Managers : mem'[q].domain = mem[q].domain
    BY <2>1 DEF Cert
  <2> QED BY <1>7, <2>2 DEF Finalize, rows, StillProved
<1>8. ASSUME NEW m \in Managers, Tick(m) \/ SelectStart(m) PROVE StillProved'
  BY <1>3, <1>8 DEF Tick, SelectStart
<1>9. ASSUME NEW m \in Managers,
             Validate(m) \/ SelectStop(m) \/ UpdateStop(m) \/ Fail(m) \/ Crash(m)
      PROVE  StillProved'
  BY <1>1, <1>2, <1>9 DEF Validate, SelectStop, UpdateStop, Fail, Crash, rows
<1>10. CASE Clock \/ UNCHANGED vars
  BY <1>1, <1>10 DEF Clock, vars, rows, job
<1>11. [Next]_vars => StillProved'
  BY <1>4, <1>5, <1>6, <1>7, <1>8, <1>9, <1>10 DEF Next, Step, Manage
<1>12. ASSUME NEW i \in Ids, AddsDomain(i) PROVE StillProved'
  <2>1. ASSUME NEW m \in Managers, order[m] # 0 PROVE mem[m].domain # i
    <3>1. mem[m] # None
      BY <2>1, NoneIsNoRow DEF InHand, HasCert
    <3> QED BY <1>12, <3>1 DEF Kin, Akin, AddsDomain
  <2> QED BY <1>12, <2>1 DEF AddsDomain, StillProved, job
<1> QED BY <1>11, <1>12, RowSteps

\* What is proved when the question is asked.
LEMMA StillProvedAsked ==
    ASSUME OneManager, Alone, Bounded, Ask
    PROVE  StillProved'
<1>1. UNCHANGED <<domains, mem, order, orders>>
  BY DEF Ask, vars
<1>2. asked' = IF \E m \in Managers : pc[m] = "validate"
               THEN order[CHOOSE m \in Managers : pc[m] = "validate"] ELSE 0
  BY DEF Ask
<1>3. orders \in Nat
  BY DEF Alone, Base, TypeOK
<1>4. CASE asked' = 0
  BY <1>1, <1>3, <1>4 DEF StillProved
<1>5. CASE asked' # 0
  <2>1. PICK m \in Managers : pc[m] = "validate" /\ asked' = order[m]
    BY <1>2, <1>5
  <2>2. order[m] <= orders /\ \A d \in domains : d.id = mem[m].domain => d.txt = order[m]
    BY <2>1 DEF Bounded, Alone, Published
  <2> QED BY <1>1, <2>1, <2>2 DEF StillProved, OneManager
<1> QED BY <1>4, <1>5

LEMMA NoBlankKept ==
    ASSUME OneManager, Alone, NoBlank, [ServicesNext]_servicevars
    PROVE  NoBlank'
<1> USE DEF Alone, Base, TypeOK
<1>1. ASSUME UNCHANGED <<certs, domains>> PROVE NoBlank'
  BY <1>1 DEF NoBlank
<1>2. ASSUME NEW m \in Managers, NEW old \in certs, NEW new, WritesBack(m, old, new)
      PROVE  NoBlank'
  BY <1>2 DEF WritesBack, Akin, NoBlank
<1>3. ASSUME NEW m \in Managers, CommitStart(m) PROVE NoBlank'
  <2>1. ASSUME NEW new \in Cert PROVE ~Inserts(m, new)
    BY DEF Inserts, Sole, NoBlank
  <2> QED BY <1>1, <1>2, <1>3, <2>1, CommitCases DEF rows
<1>4. ASSUME NEW m \in Managers, UpdateStop(m) PROVE NoBlank'
  BY <1>2, <1>4, StopWritesBack
<1>5. ASSUME NEW m \in Managers, Prove(m) PROVE NoBlank'
  <2>1. PICK c \in certs : JobOn(m, c)
    BY <1>5 DEF Prove, Sole, Busy, Work, InJob
  <2>2. order[m] \in Nat /\ c.pem \in Nat
    BY DEF Cert
  <2>3. order[m] # 0
    BY <1>5, <2>1, <2>2 DEF Prove, JobOn
  <2>4. \A d \in domains' : d.txt = order[m] \/ d \in domains
    BY <1>5 DEF Prove, UpdateDomain, Domain
  <2> QED BY <1>5, <2>3, <2>4 DEF Prove, NoBlank
<1>6. ASSUME NEW m \in Managers, Step(m) \/ Tick(m) \/ Fail(m) \/ Crash(m),
             ~CommitStart(m), ~UpdateStop(m), ~Prove(m)
      PROVE  UNCHANGED <<certs, domains>>
  BY <1>6 DEF Step, Manage, Tick, SelectStart, NewOrder, Validate, Finalize, SelectStop, Fail,
              Crash, rows
<1>7. [Next]_vars => NoBlank'
  BY <1>1, <1>3, <1>4, <1>5, <1>6 DEF Next, Clock, vars, rows
<1>8. ASSUME NEW i \in Ids, AddsDomain(i) PROVE NoBlank'
  BY <1>8 DEF AddsDomain, NoBlank, Kin
<1> QED BY <1>7, <1>8, RowSteps

\* A certificate's domain stays the domain of a certificate.
LEMMA DomainStays ==
    ASSUME Base, [ServicesNext]_servicevars, NEW c \in certs
    PROVE  \E e \in certs' : e.domain = c.domain
<1>1. ASSUME NEW m \in Managers, NEW old \in certs, NEW new, WritesBack(m, old, new)
      PROVE  \E e \in certs' : e.domain = c.domain
  BY <1>1 DEF WritesBack, Akin
<1>2. ASSUME NEW m \in Managers, CommitStart(m) PROVE \E e \in certs' : e.domain = c.domain
  BY <1>1, <1>2, CommitCases DEF Inserts, rows
<1>3. ASSUME NEW m \in Managers, UpdateStop(m) PROVE \E e \in certs' : e.domain = c.domain
  BY <1>1, <1>3, StopWritesBack
<1>4. [Next]_vars => \E e \in certs' : e.domain = c.domain
  BY <1>2, <1>3, OtherSteps DEF Next, Step, Clock, vars, rows
<1> QED BY <1>4, RowSteps DEF AddsDomain

\* An order that is made now was not asked for.
LEMMA OrderStays ==
    ASSUME Base, StillProved, asked \in Nat, [ServicesNext]_servicevars,
           NEW m \in Managers, asked # 0, order'[m] = asked
    PROVE  order[m] = asked
<1> USE DEF Base, TypeOK
<1>1. ASSUME NEW q \in Managers, NewOrder(q) PROVE order[m] = asked
  BY <1>1 DEF NewOrder, StillProved
<1>2. ASSUME NEW q \in Managers, Leave(q) PROVE order[m] = asked
  BY <1>2 DEF Leave
<1>3. ASSUME NEW q \in Managers, CommitStart(q) PROVE order[m] = asked
  BY <1>2, <1>3, CommitCases DEF Inserts, TakeJob
<1>4. ASSUME NEW q \in Managers,
             Tick(q) \/ SelectStart(q) \/ Prove(q) \/ Validate(q) \/ Finalize(q) \/ SelectStop(q)
                \/ UpdateStop(q) \/ Fail(q) \/ Crash(q)
      PROVE  UNCHANGED order \/ Leave(q)
  BY <1>4 DEF Tick, SelectStart, Prove, Validate, Finalize, SelectStop, UpdateStop, Fail, Crash
<1>5. [Next]_vars => order[m] = asked
  BY <1>1, <1>2, <1>3, <1>4 DEF Next, Step, Manage, Clock, vars, job
<1> QED BY <1>5, RowSteps DEF AddsDomain, job

LEMMA SearchingRows ==
    ASSUME OneManager, Alone, StillProved, Searching, asked \in Nat,
           [ServicesNext]_servicevars, UNCHANGED qvars
    PROVE  Searching'
<1>1. UNCHANGED <<query, qpc, owner, result, answer, asked>> /\ UNCHANGED proven
  BY DEF qvars
<1>2. qpc = "domain" => \E c \in certs' : c.domain = owner
  BY DomainStays DEF Searching, Alone
<1>3. qpc # "idle" /\ proven => NoBlank'
  BY NoBlankKept DEF Searching
<1>4. ProvenNeverPanics'
  BY <1>1 DEF Searching, ProvenNeverPanics
<1>5. \A m \in Managers : asked # 0 /\ order'[m] = asked => order[m] = asked
  BY OrderStays DEF Alone
<1> QED BY <1>1, <1>2, <1>3, <1>4, <1>5 DEF Searching

LEMMA SearchingAsk ==
    ASSUME Ask
    PROVE  Searching'
<1>1. /\ UNCHANGED <<certs, domains>>
      /\ qpc' = "pre" \/ (qpc' = "idle" /\ result' \in {"soa", "empty"} /\ query'.first = "root")
         \/ (qpc' = "idle" /\ result' = "soa")
      /\ result' # "panic"
  BY DEF Ask, Answer, vars
<1>2. proven' => NoBlank'
  <2>1. proven' => certs # {} /\ 0 \notin Answers
    BY DEF Ask
  <2>2. 0 \notin Answers => \A c \in certs, d \in domains : d.id = c.domain => d.txt # 0
    BY DEF Answers
  <2> QED BY <1>1, <2>1, <2>2 DEF NoBlank
<1>3. ProvenNeverPanics'
  BY <1>1 DEF ProvenNeverPanics
<1> QED BY <1>1, <1>2, <1>3 DEF Searching

\* A step of search that ends without an answer from the tables, or goes on.
Goes ==
    /\ qpc # "idle" /\ (result' # "panic" \/ UNCHANGED result)
    /\ qpc' = "idle" => result' \in {"configured", "error"} \/ query.first # "challenge"
    /\ qpc' \in {"cert", "domain"} => query.first = "challenge"
    /\ qpc' = "find" => query.first \in Ids
    /\ qpc' = "domain" => \E c \in certs : c.domain = owner'

LEMMA SearchingReads ==
    ASSUME OneManager, Alone, InHand, StillProved, Searching, asked \in Nat,
           Search, ~Ask
    PROVE  Searching'
<1>1. UNCHANGED <<certs, domains, order, query, asked>> /\ UNCHANGED proven
  BY DEF Search, Pre, Failure, ReadCert, ReadDomain, FindDomain, vars
<1>2. NoBlank => NoBlank'
  BY <1>1 DEF NoBlank
<1>3. ASSUME Goes PROVE Searching'
  <2>1. ProvenNeverPanics'
    BY <1>1, <1>3 DEF Goes, Searching, ProvenNeverPanics
  <2>2. (qpc # "idle" /\ proven => NoBlank)'
    BY <1>1, <1>2, <1>3 DEF Goes, Searching
  <2> QED BY <1>1, <1>3, <2>1, <2>2 DEF Goes, Searching
<1>4. CASE Pre
  <2>1. Goes
    BY <1>4 DEF Pre, Answer, Goes
  <2> QED BY <1>3, <2>1
<1>5. CASE Failure
  <2>1. Goes
    BY <1>5 DEF Failure, Answer, Goes
  <2> QED BY <1>3, <2>1
<1>6. CASE ReadCert
  <2>1. qpc = "cert" /\ query.first = "challenge"
    BY <1>6 DEF ReadCert, Searching
  <2>2. CASE Answer("error", 0)
    BY <1>3, <2>1, <2>2 DEF Answer, Goes
  <2>3. ASSUME NEW c \in FirstCert, c # None, owner' = c.domain, qpc' = "domain",
               UNCHANGED <<result, answer>>
        PROVE  Searching'
    <3>1. c \in certs
      BY <2>3 DEF FirstCert
    <3> QED BY <1>3, <2>1, <2>3, <3>1 DEF Goes
  <2> QED BY <1>6, <2>2, <2>3 DEF ReadCert
<1>7. CASE FindDomain
  <2>1. qpc = "find" /\ query.first # "challenge"
    BY <1>7, LabelsApart DEF FindDomain, Searching
  <2>2. Goes
    BY <1>7, <2>1 DEF FindDomain, Answer, Goes
  <2> QED BY <1>3, <2>2
<1>8. CASE ReadDomain
  <2>1. qpc = "domain" /\ qpc' = "idle"
    BY <1>8 DEF ReadDomain, Answer
  <2>2. PICK c \in certs : c.domain = owner
    BY <2>1 DEF Searching
  <2>3. CASE Answer("error", 0)
    BY <1>3, <2>1, <2>3 DEF Answer, Goes
  <2>4. ASSUME NEW d \in domains, d.id = owner,
               IF d.txt = 0 THEN Answer("panic", 0) ELSE Answer("txt", d.txt)
        PROVE  Searching'
    <3>1. proven => d.txt # 0
      BY <2>1, <2>2, <2>4 DEF Searching, NoBlank
    <3>2. ProvenNeverPanics'
      BY <1>1, <2>4, <3>1 DEF ProvenNeverPanics, Answer
    <3>3. ASSUME NEW m \in Managers, asked # 0, order[m] = asked PROVE answer' = asked
      <4>1. Busy(m)
        BY <3>3 DEF InHand
      <4>2. mem[m].domain = owner
        BY <2>2, <4>1 DEF Alone, Sole, JobOn, Akin
      <4>3. d.txt = asked
        BY <2>4, <3>3, <4>2 DEF StillProved
      <4> QED BY <2>4, <3>3, <4>3 DEF Answer
    <3> QED BY <1>1, <2>1, <3>2, <3>3 DEF Searching
  <2> QED BY <1>8, <2>3, <2>4 DEF ReadDomain
<1> QED BY <1>4, <1>5, <1>6, <1>7, <1>8 DEF Search

\* What the authority finds out, together with what it rests on.
Answering == Alone /\ Bounded /\ AuthorityTypeOK /\ InHand /\ StillProved /\ Searching

LEMMA AnsweringInvariance == ASSUME OneManager PROVE ServicesSpec => []Answering
<1>1. ServicesInit => InHand /\ StillProved /\ Searching
  <2> SUFFICES ASSUME ServicesInit PROVE InHand /\ StillProved /\ Searching
    OBVIOUS
  <2>1. Init /\ AuthorityInit
    BY DEF ServicesInit, RegistrationInit
  <2>2. asked = 0 /\ orders = 0 /\ \A m \in Managers : order[m] = 0
    BY <2>1 DEF Init, AuthorityInit
  <2>3. InHand /\ StillProved
    BY <2>2 DEF InHand, StillProved
  <2>4. Searching
    <3>1. qpc = "idle" /\ result = ""
      BY <2>1 DEF AuthorityInit
    <3> QED BY <2>2, <3>1 DEF Searching, ProvenNeverPanics
  <2> QED BY <2>3, <2>4
<1>2. Alone /\ Bounded /\ AuthorityTypeOK /\ InHand /\ StillProved /\ [ServicesNext]_servicevars
         => StillProved'
  <2>1. AuthorityTypeOK => asked \in Nat
    <3>1. AuthorityTypeOK => asked \in 0..orders
      BY DEF AuthorityTypeOK
    <3> QED BY <3>1
  <2>2. [ServicesNext]_servicevars => UNCHANGED asked \/ Ask
    BY DEF ServicesNext, servicevars, qvars, Search, Pre, Failure, ReadCert, ReadDomain, FindDomain
  <2> QED BY <2>1, <2>2, StillProvedRows, StillProvedAsked
<1>3. Answering /\ [ServicesNext]_servicevars => Searching'
  <2>1. AuthorityTypeOK => asked \in Nat
    <3>1. AuthorityTypeOK => asked \in 0..orders
      BY DEF AuthorityTypeOK
    <3> QED BY <3>1
  <2>2. [ServicesNext]_servicevars => UNCHANGED qvars \/ Search
    BY DEF ServicesNext, servicevars
  <2> QED BY <2>1, <2>2, SearchingRows, SearchingAsk, SearchingReads DEF Answering
<1> QED
  BY <1>1, <1>2, <1>3, InHandStep, AloneServices, AuthorityInvariance, PTL
  DEF ServicesSpec, Answering

\* Two reads, and whatever the process and the routes write between them: a challenge is
\* answered with the proof of the order it was asked for.
THEOREM ChallengeIsAnswered == ASSUME OneManager PROVE ServicesSpec => []ChallengeAnswersOrder
<1>1. Answering => ChallengeAnswersOrder
  BY DEF Answering, Searching, ChallengeAnswersOrder
<1> QED BY <1>1, AnsweringInvariance, PTL

\* Once every certificate's domain has a proof, unwrap() finds it.
THEOREM ProvenIsFound == ASSUME OneManager PROVE ServicesSpec => []ProvenNeverPanics
<1>1. Answering => ProvenNeverPanics
  BY DEF Answering, Searching
<1> QED BY <1>1, AnsweringInvariance, PTL
=============================================================================
