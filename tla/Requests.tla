------------------------------ MODULE Requests ------------------------------
(***************************************************************************)
(* The HTTP requests the NestJS process has in flight.  A handler is an    *)
(* async function: it runs to its next await without interruption, and at  *)
(* every await any other handler may run.  So a handler is a sequence of   *)
(* steps, one per query, transaction or outgoing call, and pc[p] names the *)
(* await that request slot p is suspended at.  A slot is "idle" before its *)
(* request arrives and again once the request is answered, with a result   *)
(* or with an error.  Handlers keep their variables in memory only: a      *)
(* process that dies fails all the requests it holds, one after the other  *)
(* as far as the database can tell.                                        *)
(***************************************************************************)
CONSTANT
    Procs       \* request slots: how many handlers may be in flight at once

VARIABLES
    pc,         \* pc[p]: where the handler of slot p is suspended
    raced       \* rows that two handlers ever worked on at the same time

Idle(p) == pc[p] = "idle"

Goto(p, label) == pc' = [pc EXCEPT ![p] = label]

RequestsInit ==
    /\ pc = [p \in Procs |-> "idle"]
    /\ raced = {}

(***************************************************************************)
(* raced is a history variable: no guard reads it.  A component says which *)
(* rows the handler of a slot works on, its specification adds the shared  *)
(* ones to raced, and its properties say what holds of all other rows.     *)
(***************************************************************************)
Shared(WorksOn(_)) ==
    {r \in UNION {WorksOn(p) : p \in Procs} :
        \E p, q \in Procs : p # q /\ r \in WorksOn(p) \cap WorksOn(q)}

=============================================================================
