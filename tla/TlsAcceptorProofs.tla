-------------------------- MODULE TlsAcceptorProofs --------------------------
(***************************************************************************)
(* Theorems about TlsAcceptor, for any set of connections, any number of   *)
(* certificates and any of them loadable.                                  *)
(***************************************************************************)
EXTENDS TlsAcceptor, TLAPS

\* What a connection knows of the certificate it was given, from its query on.
Given(c) ==
    /\ since[c] <= row
    /\ pc[c] = "install" => seen[c] \in Loadable
    /\ pc[c] = "keep" => seen[c] \notin Loadable
    /\ pc[c] \in {"compare", "build", "install", "done"} /\ seen[c] \in Loadable
          => seen[c] >= since[c]
    /\ pc[c] = "done" /\ seen[c] \in Loadable => served[c] = seen[c]

Fresh == TypeOK /\ \A c \in Conns : Given(c)

\* A certificate has a number from 1 on: it is neither "no row" nor a failure.
LEMMA LoadableIsStored == ASSUME NEW v \in Loadable PROVE v \in 1..Versions /\ v # 0 /\ v # Failed
  BY VersionBounds, SMT DEF Failed

LEMMA InitFresh == Init => Fresh
  BY VersionBounds DEF Init, Fresh, TypeOK, Given

\* A step of connection c leaves the others, and what is stored, alone.
Others(c) ==
    \A d \in Conns \ {c} :
        /\ pc'[d] = pc[d] /\ seen'[d] = seen[d]
        /\ served'[d] = served[d] /\ since'[d] = since[d]

LEMMA OthersKept ==
    ASSUME Fresh, NEW c \in Conns, Others(c), row' = row
    PROVE  \A d \in Conns \ {c} : Given(d)'
  BY DEF Fresh, Others, Given

LEMMA StepFresh == ASSUME Fresh, [Next]_vars PROVE Fresh'
<1> USE VersionBounds DEF Fresh
<1>1. ASSUME Store PROVE Fresh'
  BY <1>1 DEF Store, conn, TypeOK, Given
<1>2. ASSUME NEW c \in Conns, Begin(c) PROVE Fresh'
  <2>1. TypeOK' /\ Others(c) /\ row' = row
    BY <1>2 DEF Begin, Goto, TypeOK, Others
  <2>2. Given(c)'
    BY <1>2 DEF Begin, Goto, TypeOK, Given
  <2> QED  BY <2>1, <2>2, OthersKept
<1>3. ASSUME NEW c \in Conns, QueryOk(c) PROVE Fresh'
  <2>1. TypeOK' /\ Others(c) /\ row' = row
    BY <1>3 DEF QueryOk, Goto, TypeOK, Others
  <2>2. Given(c)'
    BY <1>3 DEF QueryOk, Goto, TypeOK, Given
  <2> QED  BY <2>1, <2>2, OthersKept
<1>4. ASSUME NEW c \in Conns, QueryErr(c) PROVE Fresh'
  <2>1. TypeOK' /\ Others(c) /\ row' = row
    BY <1>4 DEF QueryErr, Goto, TypeOK, Others
  <2>2. Given(c)'
    BY <1>4, LoadableIsStored DEF QueryErr, Goto, TypeOK, Given
  <2> QED  BY <2>1, <2>2, OthersKept
<1>5. ASSUME NEW c \in Conns, Reuse(c) PROVE Fresh'
  <2>1. TypeOK' /\ Others(c) /\ row' = row
    BY <1>5 DEF Reuse, Serve, Goto, TypeOK, Others
  <2>2. seen[c] \in Loadable => seen[c] = cached
    BY <1>5, LoadableIsStored DEF Reuse
  <2>3. Given(c)'
    BY <1>5, <2>2 DEF Reuse, Serve, Goto, TypeOK, Given
  <2> QED  BY <2>1, <2>3, OthersKept
<1>6. ASSUME NEW c \in Conns, Differs(c) PROVE Fresh'
  <2>1. TypeOK' /\ Others(c) /\ row' = row
    BY <1>6 DEF Differs, Goto, TypeOK, Others
  <2>2. Given(c)'
    BY <1>6 DEF Differs, Goto, TypeOK, Given
  <2> QED  BY <2>1, <2>2, OthersKept
<1>7. ASSUME NEW c \in Conns, Build(c) PROVE Fresh'
  <2>1. TypeOK' /\ Others(c) /\ row' = row
    BY <1>7 DEF Build, Goto, TypeOK, Others
  <2>2. Given(c)'
    BY <1>7 DEF Build, Goto, TypeOK, Given
  <2> QED  BY <2>1, <2>2, OthersKept
<1>8. ASSUME NEW c \in Conns, Keep(c) PROVE Fresh'
  <2>1. TypeOK' /\ Others(c) /\ row' = row
    BY <1>8 DEF Keep, Serve, Goto, TypeOK, Others
  <2>2. Given(c)'
    BY <1>8 DEF Keep, Serve, Goto, TypeOK, Given
  <2> QED  BY <2>1, <2>2, OthersKept
<1>9. ASSUME NEW c \in Conns, Install(c) PROVE Fresh'
  <2>1. TypeOK' /\ Others(c) /\ row' = row
    BY <1>9 DEF Install, Serve, Goto, TypeOK, Others, Given
  <2>2. Given(c)'
    BY <1>9 DEF Install, Serve, Goto, TypeOK, Given
  <2> QED  BY <2>1, <2>2, OthersKept
<1>10. ASSUME UNCHANGED vars PROVE Fresh'
  BY <1>10 DEF vars, TypeOK, Given
<1> QED
  BY <1>1, <1>2, <1>3, <1>4, <1>5, <1>6, <1>7, <1>8, <1>9, <1>10 DEF Next, LoadCert

\* The invariant that the theorems below rest on.
THEOREM StaysFresh == Spec => []Fresh
  BY InitFresh, StepFresh, PTL DEF Spec

\* Every variable keeps its type; the cache in particular holds nothing that has no config.
THEOREM TypeCorrect == Spec => []TypeOK
<1>1. Fresh => TypeOK
  BY DEF Fresh
<1> QED  BY <1>1, StaysFresh, PTL

\* load_cert serves what its own query returned, if a config can be made of that, and
\* never something older than what was stored when it was called.
THEOREM ServesFreshEnough == Spec => []FreshEnough
<1>1. Fresh => FreshEnough
  BY DEF Fresh, Given, FreshEnough
<1> QED  BY <1>1, StaysFresh, PTL

\* Once the cache has a config with a certificate, load_cert serves no empty one.
THEOREM EmptyOnlyAtFirst == Spec => NeverEmptyAgain
<1> DEFINE Kept == \A c \in Conns : cached # 0 /\ pc[c] # "done" /\ pc'[c] = "done" => served'[c] # 0
<1>1. ASSUME Fresh, Next PROVE Kept
  <2> SUFFICES ASSUME NEW c \in Conns, cached # 0, pc[c] # "done", pc'[c] = "done"
               PROVE  served'[c] # 0
    OBVIOUS
  <2>1. PICK d \in Conns : Begin(d) \/ LoadCert(d)
    BY <1>1 DEF Next, Store, conn
  <2>2. c = d /\ (Reuse(c) \/ Keep(c) \/ Install(c))
    BY <1>1, <2>1 DEF Fresh, TypeOK, Begin, LoadCert, QueryOk, QueryErr, Reuse, Differs, Build, Keep,
                     Install, Serve, Goto
  <2>3. CASE Reuse(c) \/ Keep(c)
    BY <1>1, <2>3 DEF Fresh, TypeOK, Reuse, Keep, Serve
  <2>4. CASE Install(c)
    BY <1>1, <2>4, LoadableIsStored DEF Fresh, TypeOK, Given, Install, Serve
  <2> QED  BY <2>2, <2>3, <2>4
<1>2. ASSUME Fresh, [Next]_vars PROVE [Kept]_vars
  BY <1>1, <1>2
<1> QED  BY <1>2, StaysFresh, PTL DEF Spec, NeverEmptyAgain

\* What is true of the comment on the second arm ("cached cert is already the newest"): when
\* the query returned a certificate, the one that is reused is as new as what was stored when
\* load_cert was called.  Only a query that failed or found no row reuses anything older.
THEOREM ReuseIsFresh ==
    Spec => [][\A c \in Conns : Reuse(c) /\ seen[c] \notin {0, Failed} => cached >= since[c]]_vars
<1>1. ASSUME Fresh, NEW c \in Conns, Reuse(c), seen[c] \notin {0, Failed}
      PROVE  cached >= since[c]
  <2>1. pc[c] = "compare" /\ seen[c] = cached
    BY <1>1 DEF Reuse
  <2>2. seen[c] \in Loadable
    BY <1>1, <2>1 DEF Fresh, TypeOK
  <2> QED BY <1>1, <2>1, <2>2 DEF Fresh, Given
<1>2. Fresh =>
         [\A c \in Conns : Reuse(c) /\ seen[c] \notin {0, Failed} => cached >= since[c]]_vars
  BY <1>1
<1> QED BY <1>2, StaysFresh, PTL

\* What CacheConverges rests on: the cache changes only by a connection that installs what
\* its query returned, and that is not older than what was stored when it called load_cert.
\* A certificate that was replaced comes back only from connections older than that.
THEOREM InstallsNothingOlder ==
    Spec => [][cached' # cached =>
                   \E c \in Conns : pc[c] = "install" /\ cached' = seen[c] /\ cached' >= since[c]]_vars
<1> DEFINE Installs ==
               cached' # cached =>
                   \E c \in Conns : pc[c] = "install" /\ cached' = seen[c] /\ cached' >= since[c]
<1>1. ASSUME Fresh, Next PROVE Installs
  <2>1. ASSUME NEW c \in Conns, Install(c) PROVE Installs
    BY <1>1, <2>1 DEF Install, Fresh, Given
  <2>2. ASSUME NEW c \in Conns, Begin(c) \/ LoadCert(c), ~Install(c) PROVE cached' = cached
    BY <2>2 DEF Begin, LoadCert, QueryOk, QueryErr, Reuse, Differs, Build, Keep
  <2> QED BY <1>1, <2>1, <2>2 DEF Next, Store
<1>2. ASSUME Fresh, [Next]_vars PROVE [Installs]_vars
  BY <1>1, <1>2
<1> QED BY <1>2, StaysFresh, PTL DEF Spec

=============================================================================
