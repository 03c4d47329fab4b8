------------------------- MODULE MCModelPublication ------------------------
(***************************************************************************)
(* Preparations of the model, for model checking: two processes that       *)
(* contend for the lock, one process after another with every fault, and   *)
(* one process with a reader.  A behaviour is one of one of these, which   *)
(* differ in how often the bounded events happen.                          *)
(***************************************************************************)
EXTENDS ModelPublication

CONSTANTS p1, p2, c1, c2, r1

VARIABLE part
allVars == <<part, vars>>

---------------------------------------------------------------------------
Quota ==
    [publish |-> [prepare |-> 3, read |-> 0, fault |-> 1, kill |-> 1, power |-> 1,
                  replacement |-> 1, damage |-> 1],
     seek |-> [prepare |-> 2, read |-> 2, fault |-> 1, kill |-> 0, power |-> 1,
               replacement |-> 0, damage |-> 1],
     contend |-> [prepare |-> 3, read |-> 0, fault |-> 2, kill |-> 1, power |-> 0,
                  replacement |-> 0, damage |-> 1]]

(* Only in one part do two processes contend. *)
Allowed ==
    /\ \A event \in DOMAIN used : used[event] <= Quota[part][event]
    /\ part # "contend" => lock # p2

---------------------------------------------------------------------------
ASSUME PartsAssumption == NullsAssumption

PartsInit == part \in DOMAIN Quota /\ Init

PartsNext == Next /\ UNCHANGED part /\ Allowed'

PartsSpec ==
    /\ PartsInit /\ [][PartsNext]_allVars
    /\ \A p \in {p1, p2} : WF_allVars(part = "contend" /\ Prepare(p) /\ UNCHANGED part)

---------------------------------------------------------------------------
(* The lock is let go, whatever happens to the preparation that holds it. *)
LocksAreFreed == part = "contend" /\ lock # Nobody ~> lock = Nobody
===========================================================================
