------------------------------- MODULE Requests ------------------------------
(***************************************************************************)
(* The requests of the back office: what the guards of apps/api do before  *)
(* a handler runs, and where each handler is.  A handler's awaits cut it   *)
(* into steps; the steps of all requests interleave.  Each component adds  *)
(* the steps of its own handlers; BackOffice composes them.                *)
(*                                                                         *)
(* Scenes bounds the interleavings TLC looks at: the requests of a         *)
(* behaviour call the handlers of one scene, and there are so many of      *)
(* them.  A single scene of all handlers and requests excludes nothing.    *)
(***************************************************************************)
EXTENDS Postgres, FiniteSets, Routes

CONSTANT Scenes   \* sets of handlers, each with a number of requests

VARIABLES
  scene,    \* the handlers that are called, and by how many requests
  pc, op,   \* where each request's handler is, and which one it is
  may,      \* the access token it came with
  met       \* history: the pairs of requests that were in flight at once

requestVars == <<scene, pc, op, may, met>>

Answered == {"ok", "refused", "forbidden", "aborted"}

NoOp == <<"none", "none">>

\* The handlers: those of Routes, and those of auth.controller.ts.
Ops == DOMAIN RoutesOf \cup ({"login", "refresh", "switch"} \X {"session"})
         \cup {<<"register", "registration">>}

ASSUME RequestsAssumption == Scenes \subseteq [ops : SUBSET Ops, requests : Nat]

\* The resources of the scene.
About == {o[2] : o \in scene.ops}

RequestsInit ==
  /\ scene \in Scenes
  /\ pc = [r \in Req |-> "idle"]
  /\ op = [r \in Req |-> NoOp]
  /\ may = [r \in Req |-> "nothing"]
  /\ met = {}

InFlight(r) == pc[r] \notin Answered \cup {"idle"}

On(r) == op[r][2]
Does(r, act) == op[r][1] = act

Met(r, s) == {r, s} \in met

\* A request that may come now.
Idle(r) == /\ pc[r] = "idle"
           /\ Cardinality({s \in Req : pc[s] # "idle"}) < scene.requests

\* PermissionsGuard: the token holds every permission the route names.  Two
\* tokens tell the routes apart, one that holds every permission and one that
\* holds the "read" permissions.
Allows(token, o) ==
  token = "all" \/ \A needed \in Needs(o) : needed[2] = "read"

\* A request that passes the guards, with the weakest token that does; no handler
\* looks at the token again.
Begin(r, o, at) ==
  /\ Idle(r) /\ o \in scene.ops
  /\ pc' = [pc EXCEPT ![r] = at]
  /\ op' = [op EXCEPT ![r] = o]
  /\ may' = [may EXCEPT ![r] = IF Allows("reader", o) THEN "reader" ELSE "all"]
  /\ met' = met \cup {{r, s} : s \in {x \in Req : InFlight(x)}}
  /\ UNCHANGED scene

\* ForbiddenException: no handler runs.
TurnAway(r) ==
  /\ Idle(r)
  /\ \E o \in scene.ops : ~Allows("reader", o) /\ op' = [op EXCEPT ![r] = o]
  /\ may' = [may EXCEPT ![r] = "reader"]
  /\ pc' = [pc EXCEPT ![r] = "forbidden"]
  /\ UNCHANGED <<scene, met>>

\* The handler's next await.
Goto(r, at) ==
  /\ pc' = [pc EXCEPT ![r] = at]
  /\ UNCHANGED <<scene, op, may, met>>

\* The answer: the handler's last value, or the exception it threw.
Answer(r, fine) == Goto(r, IF fine THEN "ok" ELSE "refused")

At(r, act, on, at) == op[r] = <<act, on>> /\ pc[r] = at
=============================================================================
