-------------------------- MODULE MCAdministration -------------------------
(***************************************************************************)
(* What administration commits, for model checking, in two parts that      *)
(* share no state: the lifecycle of the runs of two sources that share a   *)
(* content (the first has enough runs for two prunes and for a rollback    *)
(* between them), or three commands that register rows.  A behaviour is    *)
(* one of one part, and the variables of the other are idle.               *)
(***************************************************************************)
EXTENDS IndexGenerations, Registration, TLC

CONSTANTS s1, s2, a1, a2, a3, a4, b1, b2, b3, x, y, z

MCSourceOf == [r \in {a1, a2, a3, a4, b1, b2, b3} |->
                  IF r \in {a1, a2, a3, a4} THEN s1 ELSE s2]

MCSnapshot == (a1 :> {x}) @@ (a2 :> {x, y}) @@ (a3 :> {z}) @@ (a4 :> {y})
              @@ (b1 :> {x}) @@ (b2 :> {}) @@ (b3 :> {y, z})

---------------------------------------------------------------------------
(* Three commands on two sources, over what earlier ones may have left.    *)
CONSTANTS p1, p2, p3, old, new, config, policy, unreadable, k1, k2

VARIABLE part

allVars == <<part, vars, registrationVars>>

IndexJob(s, t) == [kind |-> "index", source |-> s, patterns |-> t, config |-> config]
ServeJob(h) == [kind |-> "serve", policy |-> h]
ClientJob(granted) == [kind |-> "client", grants |-> granted]
RevokeJob(k) == [kind |-> "revoke", key |-> k]

Three(a, b, c) == (p1 :> a) @@ (p2 :> b) @@ (p3 :> c)

MCWorkloads ==
    {Three(IndexJob(s1, old), b, c) :
        b \in {IndexJob(s1, new), IndexJob(s2, old), ClientJob({s1})},
        c \in {IndexJob(s1, old), ClientJob({s1, s2})}}
    \cup {Three(ServeJob(policy), ServeJob(policy), ServeJob(unreadable)),
          Three(ClientJob({s1}), ClientJob({}), RevokeJob(k1)),
          Three(ClientJob({}), ClientJob({s1}), ClientJob({}))}

MCInstalled == {{}, {config}, {config, s1}, {config, s1, s2, policy, k1}}

ASSUME PartsAssumption == RegistrationAssumption

---------------------------------------------------------------------------
RegistrationIdle == job = Three(ServeJob(policy), ServeJob(policy), ServeJob(unreadable)) /\ rows = {}

PartsInit ==
    /\ Init /\ RegistrationInit
    /\ \/ part = "lifecycle" /\ RegistrationIdle
       \/ part = "registration"

PartsNext ==
    \/ part = "lifecycle" /\ Next /\ UNCHANGED <<part, registrationVars>>
    \/ part = "registration" /\ RegistrationNext /\ UNCHANGED <<part, vars>>

Proceeds(p) == part = "registration" /\ Proceed(p) /\ UNCHANGED <<part, vars>>

PartsSpec ==
    /\ PartsInit /\ [][PartsNext]_allVars
    /\ \A p \in Commands : WF_allVars(Proceeds(p))

---------------------------------------------------------------------------
(* Every registering command ends. *)
RegistrationsEnd == \A p \in Commands : <>(part = "registration" => pc[p] \in Ends)
===========================================================================
