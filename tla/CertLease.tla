----------------------------- MODULE CertLease -----------------------------
(***************************************************************************)
(* What CertFacade::start_cert and CertFacade::stop_cert promise together, *)
(* without the stamp and the state column that realise it: a start that    *)
(* returns a certificate hands the renewal job to its caller and to nobody *)
(* else, and a stop stores a certificate only for the manager that still   *)
(* has the job.  The certificate stored is newer than the one it replaces. *)
(***************************************************************************)
EXTENDS Naturals

CONSTANT Managers   \* whoever calls CertManager::manage

VARIABLES
    holders,   \* the managers whose stop_cert would store their certificate
    issued     \* the number of the stored certificate, 0 when there is none

lvars == <<holders, issued>>

Init == holders = {} /\ issued = 0

\* start_cert returned Some: whoever had the job before has lost it.
Acquire(m) == holders' = {m} /\ UNCHANGED issued

\* stop_cert found that m still has the job.
Store(m) ==
    /\ m \in holders
    /\ holders' = {}
    /\ issued' \in Nat /\ issued' > issued

\* The attempt of m ended without a certificate.
GiveUp(m) == holders' = holders \ {m} /\ UNCHANGED issued

Next == \E m \in Managers : Acquire(m) \/ Store(m) \/ GiveUp(m)

Spec == Init /\ [][Next]_lvars
=============================================================================
