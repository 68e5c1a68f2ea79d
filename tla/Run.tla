-------------------------------- MODULE Run --------------------------------
(***************************************************************************)
(* The life of the program: run of src/lib.rs with the API, the renewal    *)
(* job, the DNS server and ctrl_c under one select!, each started the way  *)
(* its own module does it, and the runtime they all run in.  That is in an *)
(* Arc which the job takes along, through a blocking thread, into its own  *)
(* task: who drops it last drops the runtime.                              *)
(***************************************************************************)
CONSTANTS
    Listeners,   \* http, https, prom
    Texts        \* bound: what the file has for a listener: nothing, address, [],
                 \* [address] or [address, true]

VARIABLES
    phase,    \* how far run got
    conf,     \* the listeners of the configuration
    bound,    \* those whose socket is bound
    api,      \* the future of api::new
    task,     \* the task of each listener
    cert,     \* the future of CertManager::new, then spawn
    dns,      \* the future of Dns::spawn
    signal,   \* the future of ctrl_c
    arcs,     \* who holds the runtime
    freed,    \* where the last of them dropped it
    result    \* what run returns

vars == <<phase, conf, bound, api, task, cert, dns, signal, arcs, freed, result>>
parts == <<conf, bound, api, task, cert, dns, signal>>

TypeOK ==
    /\ phase \in {"config", "runtime", "select", "returned", "dropped", "over"}
    /\ conf \subseteq Listeners /\ bound \subseteq conf
    /\ api \in {"binding", "serving", "failed", "done"}
    /\ task \in [Listeners -> {"none", "serving", "dead"}]
    /\ cert \in {"new", "asking", "answered", "loop", "failed", "dead"}
    /\ dns \in {"new", "serving", "dead"}
    /\ signal \in {"waiting", "pressed", "failed"}
    /\ arcs \subseteq {"run", "future", "thread", "task"}
    /\ freed \in {"no", "async", "thread", "main"}
    /\ result \in {"none", "ok", "err"}
    /\ freed # "no" => arcs = {}
    /\ ("thread" \in arcs <=> cert = "asking") /\ ("task" \in arcs <=> cert = "loop")

Init ==
    /\ phase = "config" /\ conf = {} /\ bound = {}
    /\ api = "binding" /\ task = [l \in Listeners |-> "none"]
    /\ cert = "new" /\ dns = "new" /\ signal = "waiting"
    /\ arcs = {} /\ freed = "no" /\ result = "none"

\* The Arcs held from now on; the last one is dropped where this step runs.
Hold(S, where) ==
    /\ arcs' = S
    /\ freed' = IF S = {} /\ arcs # {} THEN where ELSE freed

-----------------------------------------------------------------------------
(* Before the select!.                                                     *)

\* listener::deserialize: an empty array is no listener either.
Address(text) == text \notin {"nothing", "[]"}

\* load_config and Runtime::new: the only steps outside the runtime.
Start ==
    /\ phase = "config"
    /\ \/ /\ \E text \in [Listeners -> Texts] : conf' = {l \in Listeners : Address(text[l])}
          /\ phase' = "runtime" /\ Hold({"run"}, "main") /\ UNCHANGED result
       \/ phase' = "over" /\ result' = "err" /\ UNCHANGED <<conf, arcs, freed>>
    /\ UNCHANGED <<bound, api, task, cert, dns, signal>>

\* setup_database, and everything select! needs; a name that does not parse panics.
SetUp ==
    /\ phase = "runtime"
    /\ \/ phase' = "select" /\ Hold(arcs \cup {"future"}, "async") /\ UNCHANGED result
       \/ phase' = "returned" /\ result' = "err" /\ UNCHANGED <<arcs, freed>>
    /\ UNCHANGED parts

-----------------------------------------------------------------------------
(* api::new.                                                               *)

\* One branch of the first try_join!.
Bind(l) ==
    /\ phase = "select" /\ api = "binding" /\ l \in conf \ bound
    /\ \/ bound' = bound \cup {l} /\ UNCHANGED api
       \/ api' = "failed" /\ UNCHANGED bound
    /\ UNCHANGED <<phase, conf, task, cert, dns, signal, arcs, freed, result>>

\* A plausible bug: the tasks are spawned and not awaited.
ServeDetached ==
    /\ phase = "select" /\ api = "binding" /\ bound = conf
    /\ api' = "done"
    /\ task' = [l \in Listeners |-> IF l \in conf THEN "serving" ELSE "none"]
    /\ UNCHANGED <<phase, conf, bound, cert, dns, signal, arcs, freed, result>>

\* All are bound: one task each, or nothing left to do.
Serve ==
    /\ phase = "select" /\ api = "binding" /\ bound = conf
    /\ api' = IF conf = {} THEN "done" ELSE "serving"
    /\ task' = [l \in Listeners |-> IF l \in conf THEN "serving" ELSE "none"]
    /\ UNCHANGED <<phase, conf, bound, cert, dns, signal, arcs, freed, result>>

\* The accept loop never ends by itself.
TaskPanics(l) ==
    /\ phase \notin {"dropped", "over"} /\ task[l] = "serving"
    /\ task' = [task EXCEPT ![l] = "dead"]
    /\ UNCHANGED <<phase, conf, bound, api, cert, dns, signal, arcs, freed, result>>

-----------------------------------------------------------------------------
(* CertManager::new and spawn.                                             *)

\* A plausible bug: the store for the account has a handle, no Arc of the runtime.
AskDirectoryWithHandle ==
    /\ phase = "select" /\ cert = "new"
    /\ cert' = "asking" /\ Hold(arcs \ {"future"}, "async")
    /\ UNCHANGED <<phase, conf, bound, api, task, dns, signal, result>>

\* spawn_blocking moves persist, and the Arc in it, to a thread.
AskDirectory ==
    /\ phase = "select" /\ cert = "new"
    /\ cert' = "asking" /\ Hold((arcs \ {"future"}) \cup {"thread"}, "async")
    /\ UNCHANGED <<phase, conf, bound, api, task, dns, signal, result>>

\* Directory::from_url returns; nobody waits for it once select! is over.
DirectoryReturns ==
    /\ phase # "over" /\ cert = "asking"
    /\ \/ cert' = "answered"
          /\ Hold((arcs \ {"thread"}) \cup (IF phase = "select" THEN {"future"} ELSE {}), "thread")
       \/ cert' = "failed" /\ Hold(arcs \ {"thread"}, "thread")
    /\ UNCHANGED <<phase, conf, bound, api, task, dns, signal, result>>

SpawnLoop ==
    /\ phase = "select" /\ cert = "answered"
    /\ cert' = "loop" /\ Hold((arcs \ {"future"}) \cup {"task"}, "async")
    /\ UNCHANGED <<phase, conf, bound, api, task, dns, signal, result>>

LoopPanics ==
    /\ phase # "over" /\ cert = "loop"
    /\ cert' = "dead" /\ Hold(arcs \ {"task"}, "async")
    /\ UNCHANGED <<phase, conf, bound, api, task, dns, signal, result>>

-----------------------------------------------------------------------------
(* Dns::spawn, ctrl_c, and the end.                                        *)

DnsBinds ==
    /\ phase = "select" /\ dns = "new" /\ dns' \in {"serving", "dead"}
    /\ UNCHANGED <<phase, conf, bound, api, task, cert, signal, arcs, freed, result>>

DnsFails ==
    /\ phase = "select" /\ dns = "serving" /\ dns' = "dead"
    /\ UNCHANGED <<phase, conf, bound, api, task, cert, signal, arcs, freed, result>>

Signal ==
    /\ phase = "select" /\ signal = "waiting" /\ signal' \in {"pressed", "failed"}
    /\ UNCHANGED <<phase, conf, bound, api, task, cert, dns, arcs, freed, result>>

\* The second try_join!, or the only task: the first that panics.
ApiFails == api = "failed" \/ (api = "serving" /\ \E l \in conf : task[l] = "dead")

\* What the branches that are ready return.
Outcomes ==
    {r \in {"ok", "err"} :
        \/ r = "ok" /\ (api = "done" \/ signal = "pressed")
        \/ r = "err" /\ (ApiFails \/ cert \in {"failed", "dead"} \/ dns = "dead" \/ signal = "failed")}

\* A plausible bug: the closure is async move, and run's own Arc is dropped with it.
SelectMoved ==
    /\ phase = "select" /\ result' \in Outcomes
    /\ phase' = "returned" /\ Hold(arcs \ {"run", "future"}, "async")
    /\ UNCHANGED parts

\* A branch is taken, and the other futures are dropped inside the runtime.
Select ==
    /\ phase = "select" /\ result' \in Outcomes
    /\ phase' = "returned" /\ Hold(arcs \ {"future"}, "async")
    /\ UNCHANGED parts

\* run returns: if its Arc is the last, dropping the runtime waits for the threads.
Drop ==
    /\ phase = "returned" /\ (arcs = {"run"} => cert # "asking")
    /\ phase' = "dropped" /\ Hold(arcs \ {"run"}, "main")
    /\ UNCHANGED <<parts, result>>

\* main returns or calls exit: whatever still runs is gone.
Exit ==
    /\ phase = "dropped" /\ phase' = "over"
    /\ UNCHANGED <<parts, arcs, freed, result>>

Run == Start \/ SetUp \/ Serve \/ SpawnLoop \/ Select \/ Drop \/ Exit

Next ==
    \/ Run
    \/ \E l \in Listeners : Bind(l) \/ TaskPanics(l)
    \/ AskDirectory \/ DirectoryReturns \/ LoopPanics
    \/ DnsBinds \/ DnsFails \/ Signal

Spec == Init /\ [][Next]_vars

\* The main thread and the executor go on.  Whether binding ends, whether the CA ever
\* answers, and whether anything fails is up to the world.
FairSpec == Spec /\ WF_vars(Start) /\ WF_vars(SetUp) /\ WF_vars(Select) /\ WF_vars(Drop) /\ WF_vars(Exit)

-----------------------------------------------------------------------------
(* Properties.                                                             *)

\* The README's example: "Every listener is optional".  Also without any, DNS and
\* certificates go on until somebody stops the program.
EndsOkOnlyOnSignal == result = "ok" => signal = "pressed"

\* With a listener they do: no part of the program ends it by being done.
ServesUntilSignal == conf # {} => EndsOkOnlyOnSignal

\* The runtime is alive as long as a future of run is polled or dropped: "if runtime
\* gets moved into it it gets dropped inside an async call" (lib.rs:36) cannot happen.
RuntimeOutlivesAsync == phase \in {"runtime", "select", "returned"} => freed = "no"

\* A signal ends the program, though a request to the CA hangs: the thread that makes
\* it keeps the runtime from being dropped, and so nobody waits for the thread.  A part
\* that failed takes the whole program with it, too, for a supervisor to restart.
Failed ==
    \/ \E l \in Listeners : task[l] = "dead"
    \/ dns = "dead"
    \/ phase = "select" /\ cert \in {"failed", "dead"}
EndsAsAWhole == (signal # "waiting" \/ Failed) ~> (phase = "over")
=============================================================================
