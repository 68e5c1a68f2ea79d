----------------------------- MODULE Authority -----------------------------
(***************************************************************************)
(* DatabaseAuthority::search of src/dns/authority.rs, beside the renewal   *)
(* job on the same database: a query reads the certificate and then its    *)
(* domain, and processes write between the two.  A query only reads, so    *)
(* one at a time shows all that any of them sees.                          *)
(*                                                                         *)
(* The name asked for is what search tells apart: its first label (the     *)
(* challenge, the id of a domain, or bytes that are no UTF-8), and the     *)
(* record types that are configured for it.                                *)
(***************************************************************************)
EXTENDS CertFacadeDatabase

CONSTANTS
    Questions,   \* bound: the record types that are asked for
    Configured   \* bound: the sets of types that names have in the configuration

VARIABLES
    query,    \* the question
    qpc,      \* where search is
    owner,    \* domain_id of the certificate that acme_challenge read
    result,   \* how it ended
    answer,   \* the TXT record of the answer, 0 when there is none
    asked,    \* history: the order that was being validated when it was asked
    proven    \* history: whether the domain of every certificate had a proof by then

qvars == <<query, qpc, owner, result, answer, asked, proven>>
allvars == <<vars, qvars>>

Types == {"SOA", "A", "TXT", "CNAME"}
Query == [type : Types, first : {"challenge", "binary", "root"} \cup Ids,
          conf : SUBSET (Types \ {"SOA"})]

ASSUME QuestionBounds == Questions \subseteq Types /\ Configured \subseteq SUBSET (Types \ {"SOA"})
\* The first label of a name is one of these only.
ASSUME LabelsApart == Ids \cap {"challenge", "binary", "root"} = {}

AuthorityTypeOK ==
    /\ query \in Query
    /\ qpc \in {"idle", "pre", "cert", "domain", "find"}
    /\ owner \in Ids \cup {None}
    /\ result \in {"", "soa", "empty", "configured", "txt", "error", "panic"}
    /\ answer \in 0..orders /\ asked \in 0..orders /\ proven \in BOOLEAN
    /\ result = "txt" <=> answer # 0

AuthorityInit ==
    /\ Init
    /\ query = [type |-> "SOA", first |-> "root", conf |-> {}]
    /\ qpc = "idle" /\ owner = None /\ result = "" /\ answer = 0 /\ asked = 0 /\ proven = FALSE

Answer(r, txt) == qpc' = "idle" /\ result' = r /\ answer' = txt

Asked == [type : Questions, first : {"challenge", "binary", "root"} \cup Ids, conf : Configured]

\* The future of search: SOA at once, nothing for the root.
Ask ==
    /\ qpc = "idle"
    /\ query' \in Asked
    /\ asked' = IF \E m \in Managers : pc[m] = "validate"
                THEN order[CHOOSE m \in Managers : pc[m] = "validate"] ELSE 0
    /\ proven' = (certs # {} /\ 0 \notin Answers)
    /\ \/ query'.type = "SOA" /\ Answer("soa", 0)
       \/ query'.type # "SOA" /\ query'.first = "root" /\ Answer("empty", 0)
       \/ /\ query'.type # "SOA" /\ query'.first # "root"
          /\ qpc' = "pre" /\ result' = "" /\ answer' = 0
    /\ UNCHANGED <<vars, owner>>

\* lookup_pre: an A record may come from resolving the configured CNAME, which may
\* find nothing or fail; then the other lookups are tried.
Pre ==
    /\ qpc = "pre"
    /\ \/ /\ query.type \in query.conf \/ (query.type = "A" /\ "CNAME" \in query.conf)
          /\ Answer("configured", 0)
       \/ /\ query.type \notin query.conf
          /\ \/ /\ query.first = "challenge"
                /\ qpc' = "cert" /\ UNCHANGED <<result, answer>>
             \/ query.first = "binary" /\ Answer("error", 0)
             \/ /\ query.first \in Ids
                /\ qpc' = "find" /\ UNCHANGED <<result, answer>>
    /\ UNCHANGED <<vars, query, owner, asked, proven>>

Failure ==
    /\ qpc \in {"cert", "domain", "find"}
    /\ Answer("error", 0)
    /\ UNCHANGED <<vars, query, owner, asked, proven>>

\* acme_challenge: first_cert.
ReadCert ==
    /\ qpc = "cert"
    /\ \E c \in FirstCert :
          \/ c = None /\ Answer("error", 0) /\ UNCHANGED owner
          \/ /\ c # None /\ owner' = c.domain
             /\ qpc' = "domain" /\ UNCHANGED <<result, answer>>
    /\ UNCHANGED <<vars, query, asked, proven>>

\* find_domain_by_id, and txt.unwrap().
ReadDomain ==
    /\ qpc = "domain"
    /\ \/ /\ \A d \in domains : d.id # owner
          /\ Answer("error", 0)
       \/ \E d \in domains :
             /\ d.id = owner
             /\ IF d.txt = 0 THEN Answer("panic", 0) ELSE Answer("txt", d.txt)
    /\ UNCHANGED <<vars, query, owner, asked, proven>>

\* The first label is taken for an id.
FindDomain ==
    /\ qpc = "find"
    /\ \/ /\ \A d \in domains : d.id # query.first
          /\ Answer("error", 0)
       \/ \E d \in domains :
             /\ d.id = query.first
             /\ IF d.txt = 0 THEN Answer("empty", 0) ELSE Answer("txt", d.txt)
    /\ UNCHANGED <<vars, query, owner, asked, proven>>

Search == Ask \/ Pre \/ Failure \/ ReadCert \/ ReadDomain \/ FindDomain

AuthorityNext == (Next /\ UNCHANGED qvars) \/ Search

AuthoritySpec == AuthorityInit /\ [][AuthorityNext]_allvars

-----------------------------------------------------------------------------
(* Properties, for one process that renews.                                *)

\* A challenge asked while the CA validates an order, and answered while it still
\* does, is answered with that order's proof, although two reads make the answer.
ChallengeAnswersOrder ==
    \A m \in Managers :
        /\ qpc = "idle" /\ query.first = "challenge" /\ result \in {"txt", "empty", "panic"}
        /\ asked # 0 /\ pc[m] = "validate" /\ order[m] = asked
        => answer = asked

\* unwrap panics only until the first proof is published: no later attempt leaves a
\* certificate without one.
ProvenNeverPanics == proven => result # "panic"
=============================================================================
