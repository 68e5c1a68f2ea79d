----------------------------- MODULE MCProcess -----------------------------
(***************************************************************************)
(* Pool, Serve and Run for TLC, in one run.  They share no state: in each  *)
(* behaviour one part of the process goes on, and the others stay as they  *)
(* begin.                                                                  *)
(***************************************************************************)
EXTENDS Pool

CONSTANTS Conns, Hanging, MaxFds    \* of Serve
CONSTANTS Listeners, Texts          \* of Run

ASSUME FewConns == IsFiniteSet(Conns)

VARIABLES backlog, conn, total, open                 \* of Serve
VARIABLES phase, conf, bound, api, task, cert, dns, signal, arcs, freed, result  \* of Run
VARIABLE part   \* the part that goes on

S == INSTANCE Serve
R == INSTANCE Run

servevars   == <<backlog, conn, total, open>>
runvars     == <<phase, conf, bound, api, task, cert, dns, signal, arcs, freed, result>>
processvars == <<part, vars, servevars, runvars>>

InPool(A)  == part = "pool" /\ A /\ UNCHANGED <<part, servevars, runvars>>
InServe(A) == part = "serve" /\ A /\ UNCHANGED <<part, vars, runvars>>
InRun(A)   == part = "run" /\ A /\ UNCHANGED <<part, vars, servevars>>

ProcessInit == part \in {"pool", "serve", "run"} /\ Init /\ S!Init /\ R!Init

ProcessNext == InPool(Next) \/ InServe(S!Next) \/ InRun(R!Next)

\* FairSpec of each part, for the behaviours in which it goes on.
ProcessSpec ==
    /\ ProcessInit /\ [][ProcessNext]_processvars
    /\ \A c \in Callers :
          /\ WF_processvars(InPool(Acquire(c)))
          /\ WF_processvars(InPool(Release(c)))
          /\ WF_processvars(InPool(Return(c)))
    /\ \A c \in Conns : WF_processvars(InServe(S!Accept(c)))
    /\ \A c \in Conns \ Hanging :
          /\ WF_processvars(InServe(S!Prepared(c)))
          /\ WF_processvars(InServe(S!Served(c)))
    /\ WF_processvars(InRun(R!Start)) /\ WF_processvars(InRun(R!SetUp))
    /\ WF_processvars(InRun(R!Select)) /\ WF_processvars(InRun(R!Drop))
    /\ WF_processvars(InRun(R!Exit))

-----------------------------------------------------------------------------
(* The properties of the parts; those of Pool have their names there.      *)

\* The variables of pool, listener and process have their types.
TypesOK == TypeOK /\ S!TypeOK /\ R!TypeOK

\* The gauge of serve is off by the connections that panicked, and its counter is right.
GaugeKeepsPanicked == S!GaugeKeepsPanicked

\* Peers that hang keep no other connection from being accepted.
NobodyWaits == S!NobodyWaits

\* With a listener, the program ends with success only when it is told to.
ServesUntilSignal == R!ServesUntilSignal

\* The runtime is never dropped inside an async call.
RuntimeOutlivesAsync == R!RuntimeOutlivesAsync

\* A signal, or the failure of a part, ends the program.
EndsAsAWhole == R!EndsAsAWhole
=============================================================================
