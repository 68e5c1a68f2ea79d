------------------------------ MODULE Services ------------------------------
(***************************************************************************)
(* All that works on the two tables: the renewal jobs, the routes that     *)
(* register domains beside them, and the DNS authority that reads both     *)
(* tables for its answers.                                                 *)
(***************************************************************************)
EXTENDS Registration, Authority

servicevars == <<vars, reqvars, qvars>>

ServicesInit == RegistrationInit /\ AuthorityInit

ServicesNext ==
    \/ Next /\ UNCHANGED <<reqvars, qvars>>
    \/ \E r \in Requests : Handle(r) /\ UNCHANGED qvars
    \/ Search /\ UNCHANGED reqvars

ServicesSpec == ServicesInit /\ [][ServicesNext]_servicevars

ServicesTypeOK == TypeOK /\ RegistrationTypeOK /\ AuthorityTypeOK
=============================================================================
