---------------------------- MODULE Registration ----------------------------
(***************************************************************************)
(* The routes of src/api/routes.rs with the metrics around them, beside    *)
(* the renewal job on the same database: POST /register inserts a domain   *)
(* of its own, POST /update does nothing in this commit, and everything    *)
(* else is not found.  A request whose client goes away is dropped where   *)
(* it waits, and so is what it has not done yet.                           *)
(***************************************************************************)
EXTENDS CertFacadeDatabase

CONSTANTS
    Requests,   \* bound: the requests
    Asks        \* bound: what they ask for, among Kinds

\* A path, and whether the headers of update are there.
Kinds == {"register", "register/more", "update", "update without headers", "other"}

ASSUME AsksAreKinds == Asks \subseteq Kinds /\ IsFiniteSet(Requests)
ASSUME NoneIsNoId == None \notin Ids

VARIABLES
    ask,      \* the path of each request, once it is here
    step,     \* how far its handler got
    given,    \* the id it registered
    status,   \* the status it was answered with
    counter   \* HTTP_STATUS_COUNTER, by path and status

reqvars == <<ask, step, given, status, counter>>
regvars == <<vars, reqvars>>

Statuses == {"none", "200", "201", "404", "500"}
Labels   == Kinds \cup {"404"}

RegistrationTypeOK ==
    /\ ask \in [Requests -> Kinds \cup {"none"}]
    /\ step \in [Requests -> {"new", "inserting", "inserted", "answered", "gone"}]
    /\ given \in [Requests -> Ids \cup {None}]
    /\ status \in [Requests -> Statuses]
    /\ counter \in [Labels \X Statuses -> 0..Cardinality(Requests)]
    /\ \A r, s \in Requests : given[r] # None /\ given[r] = given[s] => r = s

RegistrationInit ==
    /\ Init
    /\ ask = [r \in Requests |-> "none"]
    /\ step = [r \in Requests |-> "new"]
    /\ given = [r \in Requests |-> None]
    /\ status = [r \in Requests |-> "none"]
    /\ counter = [l \in Labels \X Statuses |-> 0]

\* A plausible bug: not_found is labelled with the path, too.
LabelPath(k, s) == k

\* MetricsConfig: the whole path, but one label for all that was not found.
Label(k, s) == IF s = "404" THEN "404" ELSE k

\* The wrapper around all routes counts the response and sends it.
Respond(r, k, s) ==
    /\ step' = [step EXCEPT ![r] = "answered"]
    /\ status' = [status EXCEPT ![r] = s]
    /\ counter' = [counter EXCEPT ![<<Label(k, s), s>>] = @ + 1]

Registers == {"register", "register/more"}   \* path() matches a prefix

\* register_handler: new credentials, their hash, which may fail, and the insertion.
Post(r) ==
    /\ step[r] = "new"
    /\ \E k \in Asks \cap Registers :
          /\ ask' = [ask EXCEPT ![r] = k]
          /\ \/ step' = [step EXCEPT ![r] = "inserting"] /\ UNCHANGED <<status, counter>>
             \/ Respond(r, k, "500")
    /\ UNCHANGED <<vars, given>>

\* register and update reject what they do not match, not_found takes the rest.
PostOther(r) ==
    /\ step[r] = "new"
    /\ \E k \in Asks \ Registers :
          /\ ask' = [ask EXCEPT ![r] = k]
          /\ Respond(r, k, IF k = "update" THEN "200" ELSE "404")
    /\ UNCHANGED <<vars, given>>

\* A plausible bug: an id that is taken is overwritten.
CreateDomainAgain(r) ==
    /\ step[r] = "inserting"
    /\ \E i \in Ids :
          /\ given' = [given EXCEPT ![r] = i]
          /\ domains' = {x \in domains : x.id # i} \cup {[id |-> i, txt |-> 0]}
    /\ step' = [step EXCEPT ![r] = "inserted"]
    /\ UNCHANGED <<now, certs, orders, job, due, ask, status, counter>>

\* create_domain, a statement of its own.
CreateDomain(r) ==
    /\ step[r] = "inserting"
    /\ \E i \in Ids \ {x.id : x \in domains} :
          /\ given' = [given EXCEPT ![r] = i]
          /\ domains' = domains \cup {[id |-> i, txt |-> 0]}
    /\ step' = [step EXCEPT ![r] = "inserted"]
    /\ UNCHANGED <<now, certs, orders, job, due, ask, status, counter>>

\* The insertion fails, or its answer is lost.
CreateDomainFails(r) ==
    /\ step[r] \in {"inserting", "inserted"}
    /\ Respond(r, ask[r], "500")
    /\ UNCHANGED <<vars, ask, given>>

Created(r) ==
    /\ step[r] = "inserted"
    /\ Respond(r, ask[r], "201")
    /\ UNCHANGED <<vars, ask, given>>

\* The client is gone: hyper drops the future where it waits.
Disconnect(r) ==
    /\ step[r] \in {"inserting", "inserted"}
    /\ step' = [step EXCEPT ![r] = "gone"]
    /\ UNCHANGED <<vars, ask, given, status, counter>>

Handle(r) ==
    Post(r) \/ PostOther(r) \/ CreateDomain(r) \/ CreateDomainFails(r) \/ Created(r) \/ Disconnect(r)

RegistrationNext == (Next /\ UNCHANGED reqvars) \/ \E r \in Requests : Handle(r)

RegistrationSpec == RegistrationInit /\ [][RegistrationNext]_regvars

-----------------------------------------------------------------------------
(* Properties.                                                             *)

\* Who was told 201 has a row of his own, and the renewal job, which creates and proves
\* a domain in the same table, never takes it or writes into it.
RegisteredKept ==
    \A r \in Requests : status[r] = "201" =>
        /\ [id |-> given[r], txt |-> 0] \in domains
        /\ \A c \in certs : c.domain # given[r]

\* Every answer is counted once, under its path, or all together when it is a 404:
\* unknown paths make no new time series.
CountedOnce ==
    /\ \A s \in Statuses \ {"none", "404"}, l \in Labels :
          counter[<<l, s>>] = Cardinality({r \in Requests : status[r] = s /\ ask[r] = l})
    /\ counter[<<"404", "404">>] = Cardinality({r \in Requests : status[r] = "404"})
    /\ \A l \in Kinds : counter[<<l, "404">>] = 0
=============================================================================
