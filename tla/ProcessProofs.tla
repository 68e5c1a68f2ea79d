--------------------------- MODULE ProcessProofs ---------------------------
(***************************************************************************)
(* Theorems about the parts of the process, Pool, Serve and Run, for any   *)
(* number of connections, callers and listeners; and that the behaviours   *)
(* of MCProcess are behaviours of each.                                    *)
(***************************************************************************)
EXTENDS MCProcess, FiniteSetTheorems, SequenceTheorems, TLAPS

-----------------------------------------------------------------------------
(* Pool: the callers and the queue.                                        *)

Waiting == {"first", "second"}
Holding == {"one", "second", "two", "last"}
PCs     == {"idle"} \cup Waiting \cup Holding

\* Only stop_cert asks twice, and only those in Stoppers call it.
OnlyStoppersAskAgain ==
    /\ \A c \in Callers : op[c] = "stop_cert" => c \in Stoppers
    /\ \A c \in Callers : pc[c] \in {"second", "two"} => op[c] = "stop_cert"

\* The queue holds callers that wait, each once.
Queued ==
    /\ \A i \in 1..Len(queue) : pc[queue[i]] \in Waiting
    /\ \A i, j \in 1..Len(queue) : queue[i] = queue[j] => i = j

Types ==
    /\ op \in [Callers -> {"none", "statement", "transaction", "stop_cert"}]
    /\ pc \in [Callers -> PCs]
    /\ queue \in Seq(Callers)

IInv == Types /\ OnlyStoppersAskAgain /\ Queued /\ InUse <= Size

-----------------------------------------------------------------------------
(* Places in a queue.                                                      *)

\* With one more at the end everybody keeps his place.
LEMMA Appended ==
    ASSUME NEW Elements, NEW s \in Seq(Elements), NEW x \in Elements, NEW t, t = Append(s, x)
    PROVE  /\ t[Len(s) + 1] = x /\ Len(s) + 1 \in 1..Len(t)
           /\ \A i \in 1..Len(s) : i \in 1..Len(t) /\ t[i] = s[i]
<1> DEFINE n == Len(s)
<1>1. n \in Nat /\ Len(t) = n + 1 /\ t[n + 1] = x /\ \A i \in 1..n : t[i] = s[i]
  BY AppendProperties, LenProperties
<1> HIDE DEF n
<1>2. n + 1 \in 1..(n + 1) /\ \A i \in 1..n : i \in 1..(n + 1)
  BY <1>1
<1> QED BY <1>1, <1>2 DEF n

\* Without the first everybody else is one place further.
LEMMA Shifted ==
    ASSUME NEW Elements, NEW s \in Seq(Elements), s # <<>>, NEW t, t = Tail(s)
    PROVE  /\ Head(s) = s[1] /\ 1 \in 1..Len(s)
           /\ \A i \in 1..Len(s) : i # 1 => i - 1 \in 1..Len(t) /\ t[i - 1] = s[i]
<1> DEFINE n == Len(s)
<1>1. /\ n \in Nat /\ n > 0 /\ Len(t) = n - 1 /\ Head(s) = s[1]
      /\ \A j \in 1..Len(t) : t[j] = s[j + 1]
  BY EmptySeq, LenProperties, HeadTailProperties
<1> HIDE DEF n
<1>2. \A i \in 1..n : i # 1 => i - 1 \in 1..(n - 1) /\ (i - 1) + 1 = i
  BY <1>1
<1> QED BY <1>1, <1>2 DEF n

-----------------------------------------------------------------------------
(* Counting connections.                                                   *)

LEMMA AtFinite == ASSUME NEW P PROVE IsFiniteSet(At(P)) /\ Cardinality(At(P)) \in Nat
<1>1. At(P) \subseteq Callers
  BY DEF At
<1> QED BY <1>1, FewCallers, FS_Subset, FS_CardinalityType

LEMMA InUseType == InUse \in Nat
  BY AtFinite DEF InUse

LEMMA InUseNext == (InUse \in Nat)'
BY InUseType, PTL

LEMMA OneMore ==
    ASSUME NEW P, IsFiniteSet(P), NEW x
    PROVE  /\ Cardinality(P \cup {x}) \in Nat
           /\ Cardinality(P \cup {x}) <= Cardinality(P) + 1
<1>1. IsFiniteSet(P \cup {x}) /\ Cardinality(P) \in Nat
  BY FS_AddElement, FS_CardinalityType
<1>2. Cardinality(P \cup {x}) \in {Cardinality(P), Cardinality(P) + 1}
  BY FS_AddElement
<1> QED BY <1>1, <1>2

\* A step that gives nothing away uses no more connections.
LEMMA LessInUse ==
    ASSUME At(Holding)' \subseteq At(Holding), At({"two"})' \subseteq At({"two"})
    PROVE  InUse' <= InUse
<1>1. IsFiniteSet(At(Holding)) /\ IsFiniteSet(At({"two"}))
  BY AtFinite
<1>2. /\ Cardinality(At(Holding)') <= Cardinality(At(Holding))
      /\ Cardinality(At({"two"})') <= Cardinality(At({"two"}))
      /\ Cardinality(At(Holding)') \in Nat /\ Cardinality(At(Holding)) \in Nat
      /\ Cardinality(At({"two"})') \in Nat /\ Cardinality(At({"two"})) \in Nat
  BY <1>1, FS_Subset, FS_CardinalityType
<1> QED BY <1>2 DEF InUse, Holding

\* A connection that is handed out is one more.
LEMMA OneMoreInUse ==
    ASSUME Types, NEW c \in Callers, pc[c] \in Waiting,
           pc' = [pc EXCEPT ![c] = IF pc[c] = "first" THEN "one" ELSE "two"]
    PROVE  InUse' <= InUse + 1
<1>1. /\ IsFiniteSet(At(Holding)) /\ Cardinality(At(Holding)) \in Nat
      /\ IsFiniteSet(At({"two"})) /\ Cardinality(At({"two"})) \in Nat
  BY AtFinite
<1>0. /\ InUse = Cardinality(At(Holding)) + Cardinality(At({"two"}))
      /\ InUse' = Cardinality(At(Holding)') + Cardinality(At({"two"})')
  BY DEF InUse, Holding
<1>2. CASE pc[c] = "first"
  <2>1. /\ At(Holding)' = At(Holding) \cup {c}
        /\ At({"two"})' = At({"two"})
    BY <1>2 DEF At, Types, PCs, Waiting, Holding
  <2>2. Cardinality(At(Holding) \cup {c}) <= Cardinality(At(Holding)) + 1
    BY <1>1, OneMore
  <2>3. Cardinality(At(Holding)') \in Nat
    BY <1>1, <2>1, OneMore
  <2> QED BY <1>0, <1>1, <2>1, <2>2, <2>3
<1>3. CASE pc[c] = "second"
  <2>1. At(Holding)' = At(Holding) /\ At({"two"})' = At({"two"}) \cup {c}
    BY <1>3 DEF At, Types, PCs, Waiting, Holding
  <2>2. Cardinality(At({"two"}) \cup {c}) <= Cardinality(At({"two"})) + 1
    BY <1>1, OneMore
  <2>3. /\ Cardinality(At({"two"})') \in Nat
        /\ Cardinality(At({"two"})') <= Cardinality(At({"two"})) + 1
        /\ Cardinality(At(Holding)') = Cardinality(At(Holding))
    BY <1>1, <2>1, <2>2, OneMore
  <2> QED BY <1>0, <1>1, <2>3
<1> QED BY <1>2, <1>3 DEF Waiting

-----------------------------------------------------------------------------
(* The invariant.                                                          *)

LEMMA IInvInit == Init => IInv
<1> SUFFICES ASSUME Init PROVE IInv
  OBVIOUS
<1>1. Types /\ OnlyStoppersAskAgain /\ Queued
  BY DEF Init, Types, PCs, OnlyStoppersAskAgain, Queued
<1>2. At(Holding) = {} /\ At({"two"}) = {}
  BY DEF Init, At, Holding
<1>3. InUse = 0
  BY <1>2, FS_EmptySet DEF InUse, Holding
<1> QED BY <1>1, <1>3, PoolSize DEF IInv

\* A step of c that keeps what it holds, or gives some of it back.
LEMMA Keeps ==
    ASSUME IInv, Types', NEW c \in Callers,
           \A d \in Callers \ {c} : pc'[d] = pc[d],
           pc'[c] \in Holding => pc[c] \in Holding,
           pc'[c] = "two" => pc[c] = "two"
    PROVE  InUse' <= Size
<1>1. At(Holding)' \subseteq At(Holding) /\ At({"two"})' \subseteq At({"two"})
  BY DEF At
<1>2. InUse' <= InUse
  BY <1>1, LessInUse
<1> QED BY <1>2, InUseType, InUseNext, PoolSize DEF IInv

LEMMA IInvStep == IInv /\ [Next]_vars => IInv'
<1> SUFFICES ASSUME IInv, [Next]_vars
             PROVE  IInv'
  OBVIOUS
<1> USE DEF IInv
<1>1. CASE UNCHANGED vars
  BY <1>1 DEF vars, Types, OnlyStoppersAskAgain, Queued, InUse, At
<1>2. ASSUME NEW c \in Callers, Call(c)
      PROVE  IInv'
  <2>1. Types'
    BY <1>2 DEF Call, Goto, Types, Ops, PCs, Waiting
  <2>2. OnlyStoppersAskAgain'
    BY <1>2 DEF Call, Goto, Types, Ops, OnlyStoppersAskAgain
  <2>3. Queued'
    BY <1>2 DEF Call, Goto, Types, Queued, Waiting
  <2>4. InUse' <= Size
    BY <1>2, <2>1, Keeps DEF Call, Goto, Types, Holding
  <2> QED BY <2>1, <2>2, <2>3, <2>4
<1>3. ASSUME NEW c \in Callers, AskAgain(c)
      PROVE  IInv'
  <2>1. Types'
    BY <1>3 DEF AskAgain, Goto, Types, PCs, Waiting
  <2>2. OnlyStoppersAskAgain'
    BY <1>3 DEF AskAgain, Goto, Types, OnlyStoppersAskAgain
  <2>3. Queued'
    BY <1>3 DEF AskAgain, Goto, Types, Queued, Waiting
  <2>4. InUse' <= Size
    BY <1>3, <2>1, Keeps DEF AskAgain, Goto, Types, Holding
  <2> QED BY <2>1, <2>2, <2>3, <2>4
<1>4. ASSUME NEW c \in Callers, Acquire(c)
      PROVE  IInv'
  <2>1. pc[c] \in Waiting /\ queue # <<>> /\ c = queue[1]
    BY <1>4 DEF Acquire, Queued, Types
  <2>2. Types'
    BY <1>4 DEF Acquire, Goto, Types, PCs, Holding
  <2>3. OnlyStoppersAskAgain'
    BY <1>4, <2>1 DEF Acquire, Goto, Types, OnlyStoppersAskAgain, Waiting
  <2>4. Queued'
    <3>1. /\ Len(queue') = Len(queue) - 1
          /\ \A i \in 1..Len(queue') : queue'[i] = queue[i + 1]
      BY <1>4, <2>1 DEF Acquire, Types
    <3> QED BY <1>4, <2>1, <3>1 DEF Acquire, Goto, Types, Queued, Waiting
  <2>5. InUse' <= InUse + 1
    BY <1>4, <2>1, OneMoreInUse DEF Acquire, Goto
  <2>6. InUse < Size
    BY <1>4 DEF Acquire
  <2>7. InUse' <= Size
    BY <2>5, <2>6, InUseType, InUseNext, PoolSize
  <2> QED BY <2>2, <2>3, <2>4, <2>7
<1>5. ASSUME NEW c \in Callers, Release(c) \/ Return(c)
      PROVE  IInv'
  <2>1. Types'
    BY <1>5 DEF Release, Return, Goto, Types, PCs, Holding
  <2>2. OnlyStoppersAskAgain'
    BY <1>5 DEF Release, Return, Goto, Types, OnlyStoppersAskAgain
  <2>3. Queued'
    BY <1>5 DEF Release, Return, Goto, Types, Queued, Waiting
  <2>4. InUse' <= Size
    BY <1>5, <2>1, Keeps DEF Release, Return, Goto, Types, Holding
  <2> QED BY <2>1, <2>2, <2>3, <2>4
<1>6. ASSUME NEW c \in Callers, TimeOut(c)
      PROVE  IInv'
  <2>1. PICK i \in 1..Len(queue) :
          /\ queue[i] = c
          /\ queue' = [j \in 1..(Len(queue) - 1) |-> queue[IF j < i THEN j ELSE j + 1]]
    BY <1>6 DEF TimeOut
  <2>2. /\ queue' \in Seq(Callers) /\ Len(queue') = Len(queue) - 1
        /\ \A j \in 1..Len(queue') : queue'[j] = queue[IF j < i THEN j ELSE j + 1]
    BY <2>1 DEF Types
  <2>3. Types'
    BY <1>6, <2>2 DEF TimeOut, Goto, Types, PCs
  <2>4. OnlyStoppersAskAgain'
    BY <1>6 DEF TimeOut, Goto, Types, OnlyStoppersAskAgain
  <2>5. Queued'
    <3> DEFINE n == Len(queue)
               Old(j) == IF j < i THEN j ELSE j + 1
    <3>1. n \in Nat /\ i \in 1..n /\ Len(queue') = n - 1
      BY <2>1, <2>2 DEF Types
    <3>2. /\ \A j \in 1..n : pc[queue[j]] \in Waiting /\ queue[j] \in Callers
          /\ \A j, k \in 1..n : queue[j] = queue[k] => j = k
      BY DEF Queued, Types
    <3> HIDE DEF n
    <3>3. /\ \A j \in 1..(n - 1) : Old(j) \in 1..n /\ Old(j) # i
          /\ \A j, k \in 1..(n - 1) : Old(j) = Old(k) => j = k
      BY <3>1
    <3>4. \A j \in 1..(n - 1) : queue'[j] = queue[Old(j)]
      BY <2>2, <3>1
    <3> HIDE DEF Old
    <3>5. \A j \in 1..(n - 1) : queue'[j] # c /\ queue'[j] \in Callers /\ pc[queue'[j]] \in Waiting
      BY <2>1, <3>1, <3>2, <3>3, <3>4
    <3>6. \A q \in Callers : q # c => pc'[q] = pc[q]
      BY <1>6 DEF TimeOut, Goto, Types
    <3>7. \A j \in 1..(n - 1) : pc'[queue'[j]] \in Waiting
      BY <3>5, <3>6
    <3>8. \A j, k \in 1..(n - 1) : queue'[j] = queue'[k] => j = k
      BY <3>2, <3>3, <3>4
    <3> QED BY <3>1, <3>7, <3>8 DEF Queued
  <2>6. InUse' <= Size
    BY <1>6, <2>3, Keeps DEF TimeOut, Goto, Types, Holding
  <2> QED BY <2>3, <2>4, <2>5, <2>6
<1> QED BY <1>1, <1>2, <1>3, <1>4, <1>5, <1>6 DEF Next

\* The pool never hands out more connections than it has, and the queue is one.
THEOREM TypeCorrect == Spec => []TypeOK
<1>1. IInv => TypeOK
  BY DEF IInv, TypeOK, Types, PCs, Waiting, Holding
<1> QED BY <1>1, IInvInit, IInvStep, PTL DEF Spec

\* If everybody who holds a connection waits for another, they are all in stop_cert, and
\* there are too few of those to hold every connection.
THEOREM PoolNeverStuck == Spec => []NeverStuck
<1>1. IInv => NeverStuck
  <2> SUFFICES ASSUME IInv, Cardinality(Stoppers) < Size,
                      ~(InUse < Size), At({"one", "two", "last"}) = {}
               PROVE  FALSE
    BY DEF NeverStuck
  <2>1. At(Holding) \subseteq Stoppers /\ At({"two"}) = {}
    BY DEF At, Holding, IInv, Types, PCs, OnlyStoppersAskAgain
  <2>2. IsFiniteSet(Stoppers)
    BY FewCallers, FS_Subset
  <2>3. Cardinality(At(Holding)) <= Cardinality(Stoppers) /\ Cardinality(At({"two"})) = 0
    BY <2>1, <2>2, FS_Subset, FS_EmptySet
  <2>4. InUse = Cardinality(At(Holding)) + Cardinality(At({"two"}))
    BY DEF InUse, Holding
  <2> QED BY <2>2, <2>3, <2>4, InUseType, AtFinite, FS_CardinalityType, PoolSize
<1> QED BY <1>1, IInvInit, IInvStep, PTL DEF Spec

\* What EveryCallEnds rests on: a caller that waits is in the queue, once.
InQueue == \A c \in Callers : pc[c] \in Waiting => \E i \in 1..Len(queue) : queue[i] = c

\* Where a step leaves the caller at place i.
Stays(i)     == i \in 1..Len(queue') /\ queue'[i] = queue[i]
Advances(i)  == i - 1 \in 1..Len(queue') /\ queue'[i - 1] = queue[i]
Acquires(i)  == i = 1 /\ pc'[queue[i]] \in {"one", "two"}
TimesOut(i)  == pc'[queue[i]] = "idle"
MovesOn == \A i \in 1..Len(queue) : Stays(i) \/ Advances(i) \/ Acquires(i) \/ TimesOut(i)

LEMMA QueueStep == IInv /\ [Next]_vars => MovesOn
<1> SUFFICES ASSUME IInv, [Next]_vars PROVE MovesOn
  OBVIOUS
<1>0. queue \in Seq(Callers) /\ pc \in [Callers -> PCs]
  BY DEF IInv, Types
<1>1. CASE UNCHANGED queue
  BY <1>1 DEF MovesOn, Stays
<1>2. ASSUME NEW c \in Callers, Call(c) \/ AskAgain(c) PROVE MovesOn
  <2>1. queue' = Append(queue, c)
    BY <1>2 DEF Call, AskAgain
  <2> QED BY <1>0, <2>1, Appended DEF MovesOn, Stays
<1>3. ASSUME NEW c \in Callers, Acquire(c) PROVE MovesOn
  <2>1. queue # <<>> /\ c = Head(queue) /\ queue' = Tail(queue) /\ pc'[c] \in {"one", "two"}
    BY <1>0, <1>3 DEF Acquire, Goto
  <2>2. c = queue[1] /\ \A i \in 1..Len(queue) : i # 1 => Advances(i)
    BY <1>0, <2>1, Shifted DEF Advances
  <2> QED BY <2>1, <2>2 DEF MovesOn, Acquires
<1>4. ASSUME NEW c \in Callers, TimeOut(c) PROVE MovesOn
  <2>1. PICK i \in 1..Len(queue) :
          /\ queue[i] = c
          /\ queue' = [j \in 1..(Len(queue) - 1) |-> queue[IF j < i THEN j ELSE j + 1]]
    BY <1>4 DEF TimeOut
  <2> DEFINE n == Len(queue)
  <2>2. n \in Nat /\ i \in 1..n /\ Len(queue') = n - 1
    BY <1>0, <2>1
  <2>3. \A j \in 1..(n - 1) : queue'[j] = queue[IF j < i THEN j ELSE j + 1]
    BY <2>1
  <2>4. TimesOut(i)
    BY <1>0, <1>4, <2>1 DEF TimeOut, Goto, TimesOut
  <2> HIDE DEF n
  <2>5. ASSUME NEW k \in 1..n, k < i PROVE Stays(k)
    <3>1. k \in 1..(n - 1)
      BY <2>2, <2>5
    <3>2. queue'[k] = queue[k]
      BY <2>3, <2>5, <3>1
    <3> QED BY <2>2, <3>1, <3>2 DEF Stays
  <2>6. ASSUME NEW k \in 1..n, i < k PROVE Advances(k)
    <3>1. k - 1 \in 1..(n - 1) /\ ~(k - 1 < i) /\ (k - 1) + 1 = k
      BY <2>2, <2>6
    <3>2. queue'[k - 1] = queue[k]
      BY <2>3, <3>1
    <3> QED BY <2>2, <3>1, <3>2 DEF Advances
  <2>7. \A k \in 1..n : k < i \/ k = i \/ i < k
    BY <2>2
  <2>8. \A k \in 1..n : Stays(k) \/ Advances(k) \/ TimesOut(k)
    BY <2>4, <2>5, <2>6, <2>7
  <2> QED BY <2>8 DEF MovesOn, n
<1> QED BY <1>1, <1>2, <1>3, <1>4 DEF Next, vars, Release, Return

LEMMA InQueueStep == IInv /\ InQueue /\ [Next]_vars => InQueue'
<1> SUFFICES ASSUME IInv, InQueue, [Next]_vars, NEW d \in Callers, pc'[d] \in Waiting
             PROVE  \E i \in 1..Len(queue') : queue'[i] = d
  BY DEF InQueue
<1>0. queue \in Seq(Callers) /\ pc \in [Callers -> PCs]
  BY DEF IInv, Types
<1>1. CASE pc[d] \in Waiting
  <2>1. PICK i \in 1..Len(queue) : queue[i] = d
    BY <1>1 DEF InQueue
  <2>2. Stays(i) \/ Advances(i) \/ Acquires(i) \/ TimesOut(i)
    BY QueueStep DEF MovesOn
  <2>3. ~Acquires(i) /\ ~TimesOut(i)
    BY <2>1 DEF Acquires, TimesOut, Waiting
  <2> QED BY <2>1, <2>2, <2>3 DEF Stays, Advances
<1>2. CASE pc[d] \notin Waiting
  <2>1. PICK c \in Callers : Call(c) \/ AskAgain(c) \/ Acquire(c) \/ Release(c) \/ Return(c) \/ TimeOut(c)
    BY <1>2 DEF Next, vars
  <2>2. \A e \in Callers \ {c} : pc'[e] = pc[e]
    BY <1>0, <2>1 DEF Call, AskAgain, Acquire, Release, Return, TimeOut, Goto
  <2>3. d = c
    BY <1>2, <2>2
  <2>4. pc'[c] \in Waiting => queue' = Append(queue, c)
    BY <1>0, <2>1 DEF Call, AskAgain, Acquire, Release, Return, TimeOut, Goto, Waiting
  <2> QED BY <1>0, <2>3, <2>4, Appended
<1> QED BY <1>1, <1>2

\* Whoever waits for a connection, for the first or for the second, has one place in the
\* queue: no order of asking, giving back and timing out forgets a caller.
THEOREM WaitingIsQueued ==
    Spec => [](\A c \in Callers : pc[c] \in Waiting =>
                   \E i \in 1..Len(queue) :
                      queue[i] = c /\ \A j \in 1..Len(queue) : queue[j] = c => j = i)
<1> DEFINE Placed == \A c \in Callers : pc[c] \in Waiting =>
                        \E i \in 1..Len(queue) :
                           queue[i] = c /\ \A j \in 1..Len(queue) : queue[j] = c => j = i
<1>1. Init => InQueue
  BY DEF Init, InQueue, Waiting
<1>2. IInv /\ InQueue => Placed
  BY DEF IInv, Queued, InQueue
<1> QED BY <1>1, <1>2, IInvInit, IInvStep, InQueueStep, PTL DEF Spec

\* And it is not overtaken: a step leaves it where it is or one place further, gives it the
\* connection if it is the first, or times it out.
THEOREM QueueMovesOn == Spec => [][MovesOn]_vars
<1>1. IInv /\ [Next]_vars => [MovesOn]_vars
  BY QueueStep
<1> QED BY <1>1, IInvInit, IInvStep, PTL DEF Spec

-----------------------------------------------------------------------------
(* Serve: the backlog and the two metrics.                                 *)

\* Serve's own instance of the module FiniteSets counts alike.
LEMMA SameCount == ASSUME NEW P PROVE S!Cardinality(P) = Cardinality(P)
BY DEF S!Cardinality, Cardinality

\* GaugeKeepsPanicked, in the terms of this module.
Gauges ==
    /\ open = Cardinality(S!In({"handshake", "serving"})) + Cardinality(S!In({"panicked"}))
    /\ total = Cardinality(S!In({"handshake", "serving", "closed", "panicked"}))

LEMMA SameGauges == Gauges <=> S!GaugeKeepsPanicked
BY SameCount DEF Gauges, S!GaugeKeepsPanicked, S!Running

\* Who waits is in the backlog once, so that accepting one leaves the others waiting.
ServeInv ==
    /\ S!TypeOK /\ Gauges
    /\ \A i, j \in 1..Len(backlog) : backlog[i] = backlog[j] => i = j

LEMMA InFinite == ASSUME NEW P PROVE IsFiniteSet(S!In(P)) /\ Cardinality(S!In(P)) \in Nat
<1>1. S!In(P) \subseteq Conns
  BY DEF S!In
<1> QED BY <1>1, FewConns, FS_Subset, FS_CardinalityType

\* A connection that changes its state is one less there and one more here.
LEMMA Counts ==
    ASSUME S!TypeOK, NEW c \in Conns, NEW s, S!Becomes(c, s), NEW P
    PROVE  /\ conn[c] \in P /\ s \notin P => Cardinality(S!In(P)') = Cardinality(S!In(P)) - 1
           /\ conn[c] \notin P /\ s \in P => Cardinality(S!In(P)') = Cardinality(S!In(P)) + 1
           /\ (conn[c] \in P <=> s \in P) => S!In(P)' = S!In(P)
<1>1. conn'[c] = s /\ \A d \in Conns \ {c} : conn'[d] = conn[d]
  BY DEF S!TypeOK, S!Becomes
<1>2. ASSUME conn[c] \in P, s \notin P
      PROVE  S!In(P)' = S!In(P) \ {c} /\ c \in S!In(P)
  BY <1>1, <1>2 DEF S!In
<1>3. ASSUME conn[c] \notin P, s \in P
      PROVE  S!In(P)' = S!In(P) \cup {c} /\ c \notin S!In(P)
  BY <1>1, <1>3 DEF S!In
<1>4. ASSUME conn[c] \in P <=> s \in P
      PROVE  S!In(P)' = S!In(P)
  BY <1>1, <1>4 DEF S!In
<1> QED BY <1>2, <1>3, <1>4, InFinite, FS_RemoveElement, FS_AddElement

LEMMA ServeInit == S!Init => ServeInv
<1> SUFFICES ASSUME S!Init PROVE ServeInv
  OBVIOUS
<1>1. S!TypeOK
  BY DEF S!Init, S!TypeOK
<1>2. /\ S!In({"handshake", "serving"}) = {} /\ S!In({"panicked"}) = {}
      /\ S!In({"handshake", "serving", "closed", "panicked"}) = {}
  BY DEF S!Init, S!In
<1>3. total = 0 /\ open = 0
  BY DEF S!Init
<1>4. Gauges
  BY <1>2, <1>3, FS_EmptySet DEF Gauges
<1> QED BY <1>1, <1>4 DEF S!Init, ServeInv

\* A step that changes the state of a connection outside of the backlog.
LEMMA Outside ==
    ASSUME ServeInv, NEW c \in Conns, conn[c] \in {"handshake", "serving"},
           NEW s \in {"serving", "closed", "panicked"}, S!Becomes(c, s),
           UNCHANGED <<backlog, total>>,
           open' = IF s = "closed" THEN open - 1 ELSE open
    PROVE  ServeInv'
<1> DEFINE A == {"handshake", "serving"}
           B == {"panicked"}
           T == {"handshake", "serving", "closed", "panicked"}
<1>1. /\ Cardinality(S!In(A)) \in Nat /\ Cardinality(S!In(B)) \in Nat
      /\ open = Cardinality(S!In(A)) + Cardinality(S!In(B)) /\ total = Cardinality(S!In(T))
  BY InFinite DEF ServeInv, Gauges
<1>2. S!In(T)' = S!In(T)
  BY Counts DEF ServeInv
<1>3. /\ open' = Cardinality(S!In(A)') + Cardinality(S!In(B)')
      /\ Cardinality(S!In(A)') \in Nat /\ Cardinality(S!In(B)') \in Nat
  <2>1. CASE s = "serving"
    <3>1. S!In(A)' = S!In(A) /\ S!In(B)' = S!In(B)
      BY <2>1, Counts DEF ServeInv
    <3> QED BY <1>1, <2>1, <3>1
  <2>2. CASE s = "closed"
    <3>1. Cardinality(S!In(A)') = Cardinality(S!In(A)) - 1 /\ S!In(B)' = S!In(B)
      BY <2>2, Counts DEF ServeInv
    <3>2. Cardinality(S!In(A)) # 0
      <4>1. c \in S!In(A)
        BY DEF S!In
      <4> QED BY <4>1, InFinite, FS_EmptySet
    <3> QED BY <1>1, <2>2, <3>1, <3>2
  <2>3. CASE s = "panicked"
    <3>1. /\ Cardinality(S!In(A)') = Cardinality(S!In(A)) - 1
          /\ Cardinality(S!In(B)') = Cardinality(S!In(B)) + 1
      BY <2>3, Counts DEF ServeInv
    <3>2. Cardinality(S!In(A)) # 0
      <4>1. c \in S!In(A)
        BY DEF S!In
      <4> QED BY <4>1, InFinite, FS_EmptySet
    <3> QED BY <1>1, <2>3, <3>1, <3>2
  <2> QED BY <2>1, <2>2, <2>3
<1>4. Gauges'
  BY <1>1, <1>2, <1>3 DEF Gauges
<1>5. S!TypeOK'
  <2>1. \A i \in 1..Len(backlog) : backlog[i] # c
    BY DEF ServeInv, S!TypeOK
  <2>2. \A i \in 1..Len(backlog) : conn'[backlog[i]] = "waiting"
    BY <2>1 DEF ServeInv, S!TypeOK, S!Becomes
  <2>3. open' \in Nat
    BY <1>3
  <2> QED BY <2>2, <2>3 DEF ServeInv, S!TypeOK, S!Becomes
<1> QED BY <1>4, <1>5 DEF ServeInv

\* A new connection goes to the end of the backlog.
LEMMA Connects ==
    ASSUME ServeInv, NEW c \in Conns, S!Connect(c)
    PROVE  ServeInv'
<1>1. /\ conn[c] = "new" /\ S!Becomes(c, "waiting")
      /\ backlog' = Append(backlog, c) /\ UNCHANGED <<total, open>>
  BY DEF S!Connect
<1>2. /\ backlog \in Seq(Conns) /\ \A i \in 1..Len(backlog) : conn[backlog[i]] = "waiting"
      /\ conn' = [conn EXCEPT ![c] = "waiting"] /\ c \in DOMAIN conn
  BY <1>1 DEF ServeInv, S!TypeOK, S!Becomes
<1>3. Gauges'
  <2>1. \A P \in {{"handshake", "serving"}, {"panicked"}, {"handshake", "serving", "closed", "panicked"}} :
           S!In(P)' = S!In(P)
    BY <1>1, Counts DEF ServeInv
  <2> QED BY <1>1, <2>1 DEF ServeInv, Gauges
<1>4. /\ backlog' \in Seq(Conns) /\ Len(backlog') = Len(backlog) + 1
      /\ \A i \in 1..Len(backlog) : backlog'[i] = backlog[i] /\ backlog[i] # c
      /\ backlog'[Len(backlog) + 1] = c
  BY <1>1, <1>2, AppendProperties
<1>5. \A i \in 1..Len(backlog') : conn'[backlog'[i]] = "waiting"
  BY <1>2, <1>4
<1>6. S!TypeOK'
  BY <1>1, <1>2, <1>4, <1>5 DEF ServeInv, S!TypeOK
<1>7. \A i, j \in 1..Len(backlog') : backlog'[i] = backlog'[j] => i = j
  BY <1>2, <1>4 DEF ServeInv
<1> QED BY <1>3, <1>6, <1>7 DEF ServeInv

\* The first of the backlog leaves it, and nobody else.
LEMMA Leaves ==
    ASSUME ServeInv, NEW c \in Conns, backlog # <<>>, c = Head(backlog),
           NEW s \in {"handshake", "aborted"}, S!Becomes(c, s), backlog' = Tail(backlog)
    PROVE  /\ conn[c] = "waiting" /\ conn' = [conn EXCEPT ![c] = s]
           /\ backlog' \in Seq(Conns)
           /\ conn' \in [Conns -> {"new", "waiting", "aborted", "handshake", "serving",
                                   "closed", "panicked"}]
           /\ \A i \in 1..Len(backlog') : conn'[backlog'[i]] = "waiting"
           /\ \A i, j \in 1..Len(backlog') : backlog'[i] = backlog'[j] => i = j
<1>1. /\ backlog \in Seq(Conns) /\ Len(backlog) \in Nat /\ Len(backlog) > 0
      /\ \A i \in 1..Len(backlog) : backlog[i] \in Conns /\ conn[backlog[i]] = "waiting"
      /\ \A i, j \in 1..Len(backlog) : backlog[i] = backlog[j] => i = j
  BY EmptySeq, LenProperties, ElementOfSeq DEF ServeInv, S!TypeOK
<1>2. /\ backlog' \in Seq(Conns) /\ Len(backlog') = Len(backlog) - 1
      /\ \A i \in 1..Len(backlog') : backlog'[i] = backlog[i + 1]
      /\ c = backlog[1]
  BY <1>1, HeadTailProperties
<1>3. \A i \in 1..Len(backlog') : i + 1 \in 1..Len(backlog) /\ i + 1 # 1
  BY <1>1, <1>2
<1>4. conn[c] = "waiting" /\ conn' = [conn EXCEPT ![c] = s]
  BY <1>1, <1>2 DEF S!Becomes
<1>5. \A i \in 1..Len(backlog') : backlog'[i] # c
  BY <1>1, <1>2, <1>3
<1>6. \A i \in 1..Len(backlog') : conn'[backlog'[i]] = "waiting"
  BY <1>1, <1>2, <1>3, <1>4, <1>5 DEF ServeInv, S!TypeOK
<1>7. \A i, j \in 1..Len(backlog') : backlog'[i] = backlog'[j] => i = j
  BY <1>1, <1>2, <1>3
<1> QED BY <1>2, <1>4, <1>6, <1>7 DEF ServeInv, S!TypeOK

LEMMA Accepts ==
    ASSUME ServeInv, NEW c \in Conns, S!Accept(c)
    PROVE  ServeInv'
<1>1. /\ backlog # <<>> /\ c = Head(backlog) /\ S!Becomes(c, "handshake") /\ backlog' = Tail(backlog)
      /\ total' = total + 1 /\ open' = open + 1
  BY DEF S!Accept
<1>2. /\ conn[c] = "waiting" /\ backlog' \in Seq(Conns)
      /\ conn' \in [Conns -> {"new", "waiting", "aborted", "handshake", "serving",
                              "closed", "panicked"}]
      /\ \A i \in 1..Len(backlog') : conn'[backlog'[i]] = "waiting"
      /\ \A i, j \in 1..Len(backlog') : backlog'[i] = backlog'[j] => i = j
  BY <1>1, Leaves
<1> DEFINE A == {"handshake", "serving"}
           B == {"panicked"}
           T == {"handshake", "serving", "closed", "panicked"}
<1>3. Cardinality(S!In(A)') = Cardinality(S!In(A)) + 1
  BY <1>1, <1>2, Counts DEF ServeInv
<1>4. Cardinality(S!In(T)') = Cardinality(S!In(T)) + 1
  BY <1>1, <1>2, Counts DEF ServeInv
<1>5. S!In(B)' = S!In(B)
  BY <1>1, <1>2, Counts DEF ServeInv
<1>6. Cardinality(S!In(A)) \in Nat /\ Cardinality(S!In(B)) \in Nat /\ Cardinality(S!In(T)) \in Nat
  BY InFinite
<1>7. Gauges'
  BY <1>1, <1>3, <1>4, <1>5, <1>6 DEF ServeInv, Gauges
<1>8. S!TypeOK'
  BY <1>1, <1>2 DEF ServeInv, S!TypeOK
<1> QED BY <1>2, <1>7, <1>8 DEF ServeInv

LEMMA AcceptsNot ==
    ASSUME ServeInv, NEW c \in Conns, S!AcceptFails(c)
    PROVE  ServeInv'
<1>1. /\ backlog # <<>> /\ c = Head(backlog) /\ S!Becomes(c, "aborted") /\ backlog' = Tail(backlog)
      /\ UNCHANGED <<total, open>>
  BY DEF S!AcceptFails
<1>2. /\ conn[c] = "waiting" /\ backlog' \in Seq(Conns)
      /\ conn' \in [Conns -> {"new", "waiting", "aborted", "handshake", "serving",
                              "closed", "panicked"}]
      /\ \A i \in 1..Len(backlog') : conn'[backlog'[i]] = "waiting"
      /\ \A i, j \in 1..Len(backlog') : backlog'[i] = backlog'[j] => i = j
  BY <1>1, Leaves
<1>3. \A P \in {{"handshake", "serving"}, {"panicked"}, {"handshake", "serving", "closed", "panicked"}} :
         S!In(P)' = S!In(P)
  BY <1>1, <1>2, Counts DEF ServeInv
<1>4. Gauges'
  BY <1>1, <1>3 DEF ServeInv, Gauges
<1>5. S!TypeOK'
  BY <1>1, <1>2 DEF ServeInv, S!TypeOK
<1> QED BY <1>2, <1>4, <1>5 DEF ServeInv

LEMMA ServeStep == ServeInv /\ [S!Next]_(S!vars) => ServeInv'
<1> SUFFICES ASSUME ServeInv, [S!Next]_(S!vars) PROVE ServeInv'
  OBVIOUS
<1>1. ASSUME NEW c \in Conns, S!Connect(c) PROVE ServeInv'
  BY <1>1, Connects
<1>2. ASSUME NEW c \in Conns, S!Accept(c) PROVE ServeInv'
  BY <1>2, Accepts
<1>3. ASSUME NEW c \in Conns, S!AcceptFails(c) PROVE ServeInv'
  BY <1>3, AcceptsNot
<1>4. ASSUME NEW c \in Conns, S!Prepared(c) PROVE ServeInv'
  <2>1. /\ conn[c] \in {"handshake", "serving"} /\ S!Becomes(c, "serving")
        /\ UNCHANGED <<backlog, total>> /\ open' = open
    BY <1>4 DEF S!Prepared
  <2> QED BY <2>1, Outside
<1>5. ASSUME NEW c \in Conns, S!Fails(c) \/ S!Served(c) PROVE ServeInv'
  <2>1. /\ conn[c] \in {"handshake", "serving"} /\ S!Becomes(c, "closed")
        /\ UNCHANGED <<backlog, total>> /\ open' = open - 1
    BY <1>5 DEF S!Fails, S!Served
  <2> QED BY <2>1, Outside
<1>6. ASSUME NEW c \in Conns, S!Panics(c) PROVE ServeInv'
  <2>1. /\ conn[c] \in {"handshake", "serving"} /\ S!Becomes(c, "panicked")
        /\ UNCHANGED <<backlog, total>> /\ open' = open
    BY <1>6 DEF S!Panics
  <2> QED BY <2>1, Outside
<1>7. CASE UNCHANGED S!vars
  BY <1>7 DEF S!vars, ServeInv, S!TypeOK, Gauges, S!In
<1> QED BY <1>1, <1>2, <1>3, <1>4, <1>5, <1>6, <1>7 DEF S!Next

\* The gauge is the number of open connections and of those that panicked, the counter
\* the number of all that were accepted (GaugeKeepsPanicked), whatever the order in which
\* connections are accepted, fail and end.
THEOREM GaugesAlwaysCount == S!Spec => []S!GaugeKeepsPanicked
<1>1. ServeInv => S!GaugeKeepsPanicked
  BY SameGauges DEF ServeInv
<1> QED BY <1>1, ServeInit, ServeStep, PTL DEF S!Spec

\* What NobodyWaits rests on: a connection that waits is in the backlog, once.
InBacklog == \A c \in Conns : conn[c] = "waiting" => \E i \in 1..Len(backlog) : backlog[i] = c

\* What a step is to the backlog.
BacklogMoves ==
    \/ \E c \in Conns : /\ conn[c] = "new" /\ S!Becomes(c, "waiting")
                        /\ backlog' = Append(backlog, c)
    \/ \E c \in Conns, s \in {"handshake", "aborted"} :
          backlog # <<>> /\ c = Head(backlog) /\ S!Becomes(c, s) /\ backlog' = Tail(backlog)
    \/ \E c \in Conns, s \in {"serving", "closed", "panicked"} :
          S!Becomes(c, s) /\ UNCHANGED backlog
    \/ UNCHANGED <<conn, backlog>>

LEMMA StepMovesBacklog == [S!Next]_(S!vars) => BacklogMoves
  BY DEF S!Next, S!vars, S!Connect, S!Accept, S!AcceptFails, S!Prepared, S!Fails, S!Served,
         S!Panics, BacklogMoves

LEMMA InBacklogStep == ServeInv /\ InBacklog /\ [S!Next]_(S!vars) => InBacklog'
<1> SUFFICES ASSUME ServeInv, InBacklog, BacklogMoves, NEW d \in Conns, conn'[d] = "waiting"
             PROVE  \E i \in 1..Len(backlog') : backlog'[i] = d
  BY StepMovesBacklog DEF InBacklog
<1>1. /\ conn \in [Conns -> {"new", "waiting", "aborted", "handshake", "serving", "closed", "panicked"}]
      /\ backlog \in Seq(Conns)
  BY DEF ServeInv, S!TypeOK
<1>2. ASSUME NEW c \in Conns, S!Becomes(c, "waiting"), backlog' = Append(backlog, c)
      PROVE  \E i \in 1..Len(backlog') : backlog'[i] = d
  <2>1. CASE d = c
    BY <1>1, <1>2, <2>1, Appended
  <2>2. CASE d # c
    <3>1. conn[d] = "waiting"
      BY <1>1, <1>2, <2>2 DEF S!Becomes
    <3>2. PICK i \in 1..Len(backlog) : backlog[i] = d
      BY <3>1 DEF InBacklog
    <3> QED BY <1>1, <1>2, <3>2, Appended
  <2> QED BY <2>1, <2>2
<1>3. ASSUME NEW c \in Conns, NEW s \in {"handshake", "aborted"}, backlog # <<>>,
             c = Head(backlog), S!Becomes(c, s), backlog' = Tail(backlog)
      PROVE  \E i \in 1..Len(backlog') : backlog'[i] = d
  <2>1. d # c /\ conn[d] = "waiting"
    BY <1>1, <1>3 DEF S!Becomes
  <2>2. PICK i \in 1..Len(backlog) : backlog[i] = d
    BY <2>1 DEF InBacklog
  <2>3. i # 1
    BY <1>1, <1>3, <2>1, <2>2, Shifted
  <2>4. backlog \in Seq(Conns) /\ backlog # <<>> /\ backlog' = Tail(backlog)
    BY <1>1, <1>3
  <2>5. \A k \in 1..Len(backlog) : k # 1 => /\ k - 1 \in 1..Len(backlog')
                                            /\ backlog'[k - 1] = backlog[k]
    BY ONLY <2>4, Shifted
  <2>6. i - 1 \in 1..Len(backlog') /\ backlog'[i - 1] = d
    BY <2>2, <2>3, <2>5, Zenon
  <2> QED BY <2>6, Zenon
<1>4. ASSUME NEW c \in Conns, NEW s \in {"serving", "closed", "panicked"}, S!Becomes(c, s),
             UNCHANGED backlog
      PROVE  \E i \in 1..Len(backlog') : backlog'[i] = d
  <2>1. conn[d] = "waiting"
    BY <1>1, <1>4 DEF S!Becomes
  <2> QED BY <1>4, <2>1 DEF InBacklog
<1>5. CASE UNCHANGED <<conn, backlog>>
  BY <1>5 DEF InBacklog
<1> QED BY <1>2, <1>3, <1>4, <1>5 DEF BacklogMoves

\* Whatever else goes on, no connection that waits for accept is forgotten: it has one place
\* in the backlog.
THEOREM NobodyIsForgotten ==
    S!Spec => [](\A c \in Conns : conn[c] = "waiting" =>
                     \E i \in 1..Len(backlog) :
                        backlog[i] = c /\ \A j \in 1..Len(backlog) : backlog[j] = c => j = i)
<1> DEFINE Placed == \A c \in Conns : conn[c] = "waiting" =>
                        \E i \in 1..Len(backlog) :
                           backlog[i] = c /\ \A j \in 1..Len(backlog) : backlog[j] = c => j = i
<1>1. S!Init => InBacklog
  BY DEF S!Init, InBacklog
<1>2. ServeInv /\ InBacklog => Placed
  BY DEF ServeInv, InBacklog
<1> QED BY <1>1, <1>2, ServeInit, ServeStep, InBacklogStep, PTL DEF S!Spec

\* And it only moves towards accept: it stays, or is one place further, or was the first and
\* is taken out.  Nobody who comes later, and nobody whose peer hangs, gets in front of it.
THEOREM BacklogMovesOn ==
    S!Spec => [][\A i \in 1..Len(backlog) :
                     \/ i \in 1..Len(backlog') /\ backlog'[i] = backlog[i]
                     \/ i - 1 \in 1..Len(backlog') /\ backlog'[i - 1] = backlog[i]
                     \/ i = 1 /\ conn'[backlog[1]] \in {"handshake", "aborted"}]_(S!vars)
<1> DEFINE Moves == \A i \in 1..Len(backlog) :
                       \/ i \in 1..Len(backlog') /\ backlog'[i] = backlog[i]
                       \/ i - 1 \in 1..Len(backlog') /\ backlog'[i - 1] = backlog[i]
                       \/ i = 1 /\ conn'[backlog[1]] \in {"handshake", "aborted"}
<1>1. ASSUME ServeInv, BacklogMoves PROVE Moves
  <2>0. backlog \in Seq(Conns)
    BY <1>1 DEF ServeInv, S!TypeOK
  <2>1. ASSUME NEW c \in Conns, backlog' = Append(backlog, c) PROVE Moves
    BY <2>0, <2>1, Appended
  <2>2. ASSUME NEW c \in Conns, NEW s \in {"handshake", "aborted"}, backlog # <<>>,
               c = Head(backlog), S!Becomes(c, s), backlog' = Tail(backlog)
        PROVE  Moves
    <3>1. conn'[backlog[1]] = s
      BY <1>1, <2>0, <2>2, Shifted DEF S!Becomes, ServeInv, S!TypeOK
    <3> QED BY <2>0, <2>2, <3>1, Shifted
  <2>3. CASE UNCHANGED backlog
    BY <2>3
  <2> QED BY <1>1, <2>1, <2>2, <2>3 DEF BacklogMoves
<1>2. ServeInv /\ [S!Next]_(S!vars) => [Moves]_(S!vars)
  BY <1>1, StepMovesBacklog
<1> QED BY <1>2, ServeInit, ServeStep, PTL DEF S!Spec

-----------------------------------------------------------------------------
(* Run: the life of the program.                                           *)

\* Before run has a runtime nothing has begun; while it has, its own Arc keeps it.
Began ==
    /\ phase = "config" => conf = {} /\ bound = {} /\ api = "binding" /\ arcs = {} /\ freed = "no"
    /\ phase \in {"runtime", "select", "returned"} => "run" \in arcs /\ freed = "no"

\* The API is done without a listener only, and nothing else ends with success.
EndsOk ==
    /\ api = "done" => conf = {}
    /\ result = "ok" => api = "done" \/ signal = "pressed"

RunInv == R!TypeOK /\ Began /\ EndsOk

LEMMA RunInit == R!Init => RunInv
BY DEF R!Init, RunInv, R!TypeOK, Began, EndsOk

LEMMA RunStep == RunInv /\ [R!Next]_(R!vars) => RunInv'
<1> SUFFICES ASSUME RunInv, [R!Next]_(R!vars) PROVE RunInv'
  OBVIOUS
<1> USE DEF RunInv, Began, EndsOk
<1>1. CASE R!Start
  BY <1>1 DEF R!Start, R!Hold, R!TypeOK
<1>2. CASE R!SetUp
  <2>1. phase = "runtime" /\ "run" \in arcs /\ freed = "no"
    BY <1>2 DEF R!SetUp
  <2>2. UNCHANGED <<conf, bound, api, task, cert, dns, signal>>
    BY <1>2 DEF R!SetUp, R!parts
  <2>3. CASE phase' = "select"
    <3>1. arcs' = arcs \cup {"future"} /\ freed' = freed /\ result' = result
      BY <1>2, <2>1, <2>3 DEF R!SetUp, R!Hold
    <3> QED BY <2>1, <2>2, <2>3, <3>1 DEF R!TypeOK
  <2>4. CASE phase' # "select"
    <3>1. phase' = "returned" /\ result' = "err" /\ arcs' = arcs /\ freed' = freed
      BY <1>2, <2>4 DEF R!SetUp
    <3> QED BY <2>1, <2>2, <3>1 DEF R!TypeOK
  <2> QED BY <2>3, <2>4
<1>3. CASE R!Serve
  BY <1>3 DEF R!Serve, R!TypeOK
<1>4. CASE R!SpawnLoop
  BY <1>4 DEF R!SpawnLoop, R!Hold, R!TypeOK
<1>5. CASE R!Select
  BY <1>5 DEF R!Select, R!Outcomes, R!Hold, R!TypeOK, R!parts
<1>6. CASE R!Drop
  BY <1>6 DEF R!Drop, R!Hold, R!TypeOK, R!parts
<1>7. CASE R!Exit
  BY <1>7 DEF R!Exit, R!TypeOK, R!parts
<1>8. ASSUME NEW l \in Listeners, R!Bind(l) PROVE RunInv'
  BY <1>8 DEF R!Bind, R!TypeOK
<1>9. ASSUME NEW l \in Listeners, R!TaskPanics(l) PROVE RunInv'
  BY <1>9 DEF R!TaskPanics, R!TypeOK
<1>10. CASE R!AskDirectory
  BY <1>10 DEF R!AskDirectory, R!Hold, R!TypeOK
<1>11. CASE R!DirectoryReturns
  <2>1. cert = "asking" /\ arcs # {} /\ freed = "no" /\ phase \notin {"config", "over"}
    BY <1>11 DEF R!DirectoryReturns, R!TypeOK
  <2>2. UNCHANGED <<phase, conf, bound, api, task, dns, signal, result>>
    BY <1>11 DEF R!DirectoryReturns
  <2>3. /\ cert' \in {"answered", "failed"} /\ "thread" \notin arcs'
        /\ ("task" \in arcs' <=> "task" \in arcs) /\ ("run" \in arcs' <=> "run" \in arcs)
        /\ arcs' \subseteq {"run", "future", "thread", "task"}
    BY <1>11 DEF R!DirectoryReturns, R!Hold, R!TypeOK
  <2>4. freed' = IF arcs' = {} THEN "thread" ELSE "no"
    BY <1>11, <2>1 DEF R!DirectoryReturns, R!Hold
  <2> QED BY <2>1, <2>2, <2>3, <2>4 DEF R!TypeOK
<1>12. CASE R!LoopPanics
  BY <1>12 DEF R!LoopPanics, R!Hold, R!TypeOK
<1>13. CASE R!DnsBinds
  BY <1>13 DEF R!DnsBinds, R!TypeOK
<1>14. CASE R!DnsFails
  BY <1>14 DEF R!DnsFails, R!TypeOK
<1>15. CASE R!Signal
  BY <1>15 DEF R!Signal, R!TypeOK
<1>16. CASE UNCHANGED R!vars
  BY <1>16 DEF R!vars, R!TypeOK
<1> QED BY <1>1, <1>2, <1>3, <1>4, <1>5, <1>6, <1>7, <1>8, <1>9, <1>10, <1>11, <1>12,
           <1>13, <1>14, <1>15, <1>16 DEF R!Next, R!Run

\* The program with a listener ends with success only when it is told to
\* (ServesUntilSignal): the API is done at once without one, and never with one.
THEOREM EndsOnlyOnSignal == R!Spec => []R!ServesUntilSignal
<1>1. RunInv => R!ServesUntilSignal
  BY DEF RunInv, EndsOk, R!ServesUntilSignal, R!EndsOkOnlyOnSignal
<1> QED BY <1>1, RunInit, RunStep, PTL DEF R!Spec

\* The runtime is not dropped before run has returned (RuntimeOutlivesAsync): whoever
\* lets go of an Arc inside the runtime, that of run is still there.
THEOREM RuntimeIsKept == R!Spec => []R!RuntimeOutlivesAsync
<1>1. RunInv => R!RuntimeOutlivesAsync
  BY DEF RunInv, Began, R!RuntimeOutlivesAsync
<1> QED BY <1>1, RunInit, RunStep, PTL DEF R!Spec

\* What EndsAsAWhole rests on: a signal came, or a part failed.
Stopping == signal # "waiting" \/ R!Failed

\* A listener has a task only while the API waits for it, and before the select! nothing
\* goes on that could fail.
Awaited ==
    /\ \A l \in Listeners : task[l] # "none" => l \in conf /\ api = "serving"
    /\ phase \in {"config", "runtime"} =>
          api = "binding" /\ dns = "new" /\ cert = "new" /\ signal = "waiting"

LEMMA AwaitedStep == RunInv /\ Awaited /\ [R!Next]_(R!vars) => Awaited'
<1> SUFFICES ASSUME RunInv, Awaited, [R!Next]_(R!vars) PROVE Awaited'
  OBVIOUS
<1> USE DEF Awaited
<1>1. CASE R!Start \/ R!SetUp
  <2>1. UNCHANGED <<task, api, dns, cert, signal>> /\ phase \in {"config", "runtime"}
    BY <1>1 DEF R!Start, R!SetUp, R!parts
  <2> QED BY <2>1
<1>2. CASE R!Serve
  BY <1>2 DEF R!Serve
<1>3. ASSUME NEW l \in Listeners, R!TaskPanics(l) PROVE Awaited'
  <2>1. task[l] # "none" /\ \A k \in Listeners : task'[k] # "none" => task[k] # "none"
    BY <1>3 DEF R!TaskPanics, RunInv, R!TypeOK
  <2> QED BY <1>3, <2>1 DEF R!TaskPanics
<1>4. ASSUME NEW l \in Listeners, R!Bind(l) PROVE Awaited'
  BY <1>4 DEF R!Bind
<1>5. CASE R!AskDirectory \/ R!SpawnLoop \/ R!DnsBinds \/ R!DnsFails \/ R!Signal
  <2>1. UNCHANGED <<phase, conf, api, task>> /\ phase = "select"
    BY <1>5 DEF R!AskDirectory, R!SpawnLoop, R!DnsBinds, R!DnsFails, R!Signal
  <2> QED BY <2>1
<1>6. CASE R!DirectoryReturns \/ R!LoopPanics
  <2>1. UNCHANGED <<phase, conf, api, task>> /\ cert # "new"
    BY <1>6 DEF R!DirectoryReturns, R!LoopPanics
  <2> QED BY <2>1
<1>7. CASE R!Select \/ R!Drop \/ R!Exit
  <2>1. UNCHANGED <<conf, api, task>> /\ phase' \notin {"config", "runtime"}
    BY <1>7 DEF R!Select, R!Drop, R!Exit, R!parts
  <2> QED BY <2>1
<1>8. CASE UNCHANGED R!vars
  BY <1>8 DEF R!vars
<1> QED BY <1>1, <1>2, <1>3, <1>4, <1>5, <1>6, <1>7, <1>8 DEF R!Next, R!Run

LEMMA AwaitedInvariance == R!Spec => [](RunInv /\ Awaited)
<1>1. R!Init => Awaited
  BY DEF R!Init, Awaited
<1> QED BY <1>1, RunInit, RunStep, AwaitedStep, PTL DEF R!Spec

\* When a signal came or a part failed, select! has a branch to take; and the runtime can
\* be dropped behind it: while a request to the CA hangs, its thread has an Arc as well, so
\* that of run is not the last.
THEOREM EndIsOpen ==
    R!Spec => [](/\ phase \in {"config", "runtime"} => ~Stopping
                 /\ phase = "select" /\ Stopping => R!Outcomes # {}
                 /\ phase = "returned" => (arcs = {"run"} => cert # "asking"))
<1> DEFINE Open ==
               /\ phase \in {"config", "runtime"} => ~Stopping
               /\ phase = "select" /\ Stopping => R!Outcomes # {}
               /\ phase = "returned" => (arcs = {"run"} => cert # "asking")
<1>1. RunInv /\ Awaited => Open
  <2> SUFFICES ASSUME RunInv, Awaited PROVE Open
    OBVIOUS
  <2>1. phase \in {"config", "runtime"} => ~Stopping
    BY DEF Awaited, Stopping, R!Failed
  <2>2. ASSUME phase = "select", Stopping PROVE R!Outcomes # {}
    <3>1. \A l \in Listeners : task[l] = "dead" => R!ApiFails
      BY DEF Awaited, R!ApiFails
    <3>2. signal = "pressed" => "ok" \in R!Outcomes
      BY DEF R!Outcomes
    <3>3. R!ApiFails \/ cert \in {"failed", "dead"} \/ dns = "dead" \/ signal = "failed"
             => "err" \in R!Outcomes
      BY DEF R!Outcomes
    <3>4. signal # "waiting" => signal \in {"pressed", "failed"}
      BY DEF RunInv, R!TypeOK
    <3> QED BY <2>2, <3>1, <3>2, <3>3, <3>4 DEF Stopping, R!Failed
  <2>3. arcs = {"run"} => cert # "asking"
    BY DEF RunInv, R!TypeOK
  <2> QED BY <2>1, <2>2, <2>3
<1> QED BY <1>1, AwaitedInvariance, PTL

\* Nothing takes that back: what ends the program goes on to, and the program never goes
\* back to an earlier phase.
THEOREM EndIsNear ==
    R!Spec => [][/\ phase = "select" =>
                       phase' \in {"select", "returned"} /\ (Stopping /\ phase' = "select" => Stopping')
                 /\ phase = "returned" => phase' \in {"returned", "dropped"}
                 /\ phase = "dropped" => phase' \in {"dropped", "over"}
                 /\ phase = "over" => phase' = "over"]_(R!vars)
<1> DEFINE Near ==
               /\ phase = "select" =>
                     phase' \in {"select", "returned"} /\ (Stopping /\ phase' = "select" => Stopping')
               /\ phase = "returned" => phase' \in {"returned", "dropped"}
               /\ phase = "dropped" => phase' \in {"dropped", "over"}
               /\ phase = "over" => phase' = "over"
<1>1. ASSUME RunInv, Awaited, R!Next PROVE Near
  <2>1. CASE R!Run /\ ~R!Serve /\ ~R!SpawnLoop
    BY <2>1 DEF R!Run, R!Start, R!SetUp, R!Select, R!Drop, R!Exit
  <2>2. ASSUME UNCHANGED <<phase, task, dns, cert>>, signal = "waiting" \/ UNCHANGED signal,
               signal' # "waiting" \/ UNCHANGED signal
        PROVE  Near
    BY <1>1, <2>2 DEF Stopping, R!Failed, RunInv, R!TypeOK
  <2>3. ASSUME UNCHANGED <<phase, signal>>, R!Failed => R!Failed' PROVE Near
    BY <1>1, <2>3 DEF Stopping, RunInv, R!TypeOK
  <2>4. CASE R!Serve
    <3>1. UNCHANGED <<phase, signal, dns, cert>> /\ \A l \in Listeners : task[l] = "none"
      BY <1>1, <2>4 DEF R!Serve, Awaited
    <3> QED BY <2>3, <3>1 DEF R!Failed
  <2>5. CASE R!SpawnLoop \/ R!AskDirectory \/ R!DirectoryReturns \/ R!LoopPanics
    <3>1. UNCHANGED <<phase, signal, task, dns>> /\ cert \notin {"failed", "dead"}
      BY <2>5 DEF R!SpawnLoop, R!AskDirectory, R!DirectoryReturns, R!LoopPanics
    <3> QED BY <2>3, <3>1 DEF R!Failed
  <2>6. CASE R!DnsBinds \/ R!DnsFails
    <3>1. UNCHANGED <<phase, signal, task, cert>> /\ dns # "dead"
      BY <2>6 DEF R!DnsBinds, R!DnsFails
    <3> QED BY <2>3, <3>1 DEF R!Failed
  <2>7. CASE R!Signal
    BY <2>2, <2>7 DEF R!Signal
  <2>8. ASSUME NEW l \in Listeners, R!Bind(l) PROVE Near
    BY <2>2, <2>8 DEF R!Bind
  <2>9. ASSUME NEW l \in Listeners, R!TaskPanics(l) PROVE Near
    <3>1. UNCHANGED <<phase, signal, dns, cert>> /\ \A k \in Listeners : task[k] = "dead" => task'[k] = "dead"
      BY <1>1, <2>9 DEF R!TaskPanics, RunInv, R!TypeOK
    <3> QED BY <2>3, <3>1 DEF R!Failed
  <2> QED BY <1>1, <2>1, <2>4, <2>5, <2>6, <2>7, <2>8, <2>9 DEF R!Next, R!Run
<1>2. RunInv /\ Awaited /\ [R!Next]_(R!vars) => [Near]_(R!vars)
  BY <1>1
<1> QED BY <1>2, AwaitedInvariance, PTL DEF R!Spec

-----------------------------------------------------------------------------
(* The parts in one specification.                                         *)

\* In a behaviour of MCProcess every part behaves as its own specification says.
THEOREM PartsBehave == ProcessSpec => Spec /\ S!Spec /\ R!Spec
<1>1. ProcessInit => Init /\ S!Init /\ R!Init
  BY DEF ProcessInit
<1>2. [ProcessNext]_processvars => [Next]_vars /\ [S!Next]_(S!vars) /\ [R!Next]_(R!vars)
  <2> SUFFICES ASSUME [ProcessNext]_processvars
               PROVE  [Next]_vars /\ [S!Next]_(S!vars) /\ [R!Next]_(R!vars)
    OBVIOUS
  <2> USE DEF S!vars, R!vars, servevars, runvars
  <2>1. CASE InPool(Next)
    BY <2>1 DEF InPool
  <2>2. CASE InServe(S!Next)
    BY <2>2 DEF InServe
  <2>3. CASE InRun(R!Next)
    BY <2>3 DEF InRun
  <2>4. CASE UNCHANGED processvars
    BY <2>4 DEF processvars
  <2> QED BY <2>1, <2>2, <2>3, <2>4 DEF ProcessNext
<1> QED BY <1>1, <1>2, PTL DEF ProcessSpec, Spec, S!Spec, R!Spec

\* The variables of pool, listener and program have their types.
THEOREM ProcessTypesCorrect == ProcessSpec => []TypesOK
<1>1. TypeOK /\ ServeInv /\ RunInv => TypesOK
  BY DEF ServeInv, RunInv, TypesOK
<1>2. S!Spec => []ServeInv
  BY ServeInit, ServeStep, PTL DEF S!Spec
<1>3. R!Spec => []RunInv
  BY RunInit, RunStep, PTL DEF R!Spec
<1> QED BY <1>1, <1>2, <1>3, TypeCorrect, PartsBehave, PTL

\* Who waits for a connection never waits for others that wait only.
THEOREM ProcessNeverStuck == ProcessSpec => []NeverStuck
BY PoolNeverStuck, PartsBehave, PTL

\* The gauge and the counter of serve agree with its connections, in any order of
\* accepting, failing, ending and panicking.
THEOREM ProcessGaugesCount == ProcessSpec => []GaugeKeepsPanicked
<1>1. S!GaugeKeepsPanicked => GaugeKeepsPanicked
  BY DEF GaugeKeepsPanicked
<1> QED BY <1>1, GaugesAlwaysCount, PartsBehave, PTL

\* With a listener the program ends with success only when it is told to.
THEOREM ProcessServesUntilSignal == ProcessSpec => []ServesUntilSignal
<1>1. R!ServesUntilSignal => ServesUntilSignal
  BY DEF ServesUntilSignal
<1> QED BY <1>1, EndsOnlyOnSignal, PartsBehave, PTL

\* Whoever lets go of an Arc inside the runtime, run still has its own.
THEOREM ProcessRuntimeOutlivesAsync == ProcessSpec => []RuntimeOutlivesAsync
<1>1. R!RuntimeOutlivesAsync => RuntimeOutlivesAsync
  BY DEF RuntimeOutlivesAsync
<1> QED BY <1>1, RuntimeIsKept, PartsBehave, PTL
=============================================================================
