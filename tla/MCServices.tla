----------------------------- MODULE MCServices -----------------------------
(***************************************************************************)
(* Services for TLC: symmetric managers, requests and ids, and beside the  *)
(* first manager only one of a second one, the requests, and the DNS.      *)
(***************************************************************************)
EXTENDS Services, TLC

VARIABLE started   \* the managers that ever did anything

Requested == \E r \in Requests : step[r] # "new"
Queried   == qpc # "idle" \/ result # ""

FewActors ==
    \/ Cardinality(started) <= 1 /\ ~(Requested /\ Queried)
    \/ ~Requested /\ ~Queried

MCInit == ServicesInit /\ started = {}

MCNext ==
    /\ ServicesNext
    /\ started' = started \cup {m \in Managers : due'[m] > due[m]}
    /\ FewActors'

MCSpec == MCInit /\ [][MCNext]_<<servicevars, started>>

Symmetry == Permutations(Managers) \cup Permutations(Requests) \cup Permutations(Ids)
=============================================================================
