--------------------------- MODULE RouteCatalogue ---------------------------
(***************************************************************************)
(* What the control server promises of its routes, with nothing of how the *)
(* registries, the files and the secret store keep it.                     *)
(*                                                                         *)
(* promised is what the answers given so far amount to; durable is what a  *)
(* start would bring back.  A request that is answered with success takes  *)
(* effect at once and in both.  One that is answered with an error has no  *)
(* effect on what is promised, but its change may turn up after the next   *)
(* start: a write can fail after it has taken effect.  stop_all, which     *)
(* writes two files, promises less.                                        *)
(***************************************************************************)
CONSTANTS Aliases, Users, Creds, Confs, NoUser, NoRoute

Families == {"http", "ssh"}
Route == [kind: {"http", "llm", "ssh"}, user: Users \cup {NoUser},
          cred: Creds, conf: Confs, enabled: BOOLEAN]

VARIABLES
    serving,     \* the control server answers requests
    promised,    \* promised[family][alias]; nothing while it does not answer
    durable      \* durable[family][alias]

vars == <<serving, promised, durable>>

Empty == [f \in Families |-> [a \in Aliases |-> NoRoute]]

Init ==
    /\ serving = FALSE
    /\ promised = Empty
    /\ durable = Empty

With(table, f, a, r) == [table EXCEPT ![f] = [@ EXCEPT ![a] = r]]
AllOff(routes) ==
    [a \in Aliases |-> IF routes[a] = NoRoute THEN NoRoute
                       ELSE [routes[a] EXCEPT !.enabled = FALSE]]

\* A local SSH user name has one route.
UserFree(f, a, r) ==
    f = "ssh" => \A b \in Aliases \ {a} : promised["ssh"][b] = NoRoute \/ promised["ssh"][b].user # r.user

\* The changes a request may ask for: a new route under an alias no route of
\* either family has, and switched off; another version of a route; its removal.
MayBecome(f, a, r) ==
    \/ /\ \A g \in Families : promised[g][a] = NoRoute
       /\ r \in Route /\ ~r.enabled /\ UserFree(f, a, r)
    \/ /\ promised[f][a] # NoRoute
       /\ r \in Route /\ r.kind = promised[f][a].kind /\ UserFree(f, a, r)
    \/ promised[f][a] # NoRoute /\ r = NoRoute

\* A change of one route that is answered with success.
Succeed(f, a) ==
    /\ serving
    /\ durable' = [durable EXCEPT ![f] = promised'[f]]
    /\ promised' = With(promised, f, a, promised'[f][a])
    /\ MayBecome(f, a, promised'[f][a])
    /\ UNCHANGED serving

\* A change that is answered with an error and reached the file all the same.
Linger(f, a) ==
    /\ serving
    /\ UNCHANGED <<serving, promised>>
    /\ durable' = [durable EXCEPT ![f] = With(promised, f, a, durable'[f][a])[f]]
    /\ MayBecome(f, a, durable'[f][a])

\* stop_all has written one file, or takes that back after the other one failed.
StopPart(f) ==
    /\ serving
    /\ durable' \in {[durable EXCEPT ![f] = AllOff(promised[f])], [durable EXCEPT ![f] = promised[f]]}
    /\ UNCHANGED <<serving, promised>>

\* stop_all is answered with success: by then routes.json is written.
StopAll ==
    /\ serving
    /\ promised' = [f \in Families |-> AllOff(promised[f])]
    /\ durable' = promised'
    /\ UNCHANGED serving

\* stop_all is answered with an error and leaves the SSH routes off.
StopSSHOnly ==
    /\ serving
    /\ promised' = [promised EXCEPT !["ssh"] = AllOff(@)]
    /\ UNCHANGED <<serving, durable>>

Fall ==
    /\ serving
    /\ serving' = FALSE
    /\ promised' = Empty
    /\ UNCHANGED durable

\* Files in which an alias has two routes, or a user name, are refused.
Rise ==
    /\ ~serving
    /\ \A a \in Aliases : durable["http"][a] = NoRoute \/ durable["ssh"][a] = NoRoute
    /\ \A a, b \in Aliases :
        a # b /\ durable["ssh"][a] # NoRoute /\ durable["ssh"][b] # NoRoute
            => durable["ssh"][a].user # durable["ssh"][b].user
    /\ serving' = TRUE
    /\ promised' = durable
    /\ UNCHANGED durable

Next ==
    \/ \E f \in Families, a \in Aliases : Succeed(f, a) \/ Linger(f, a)
    \/ \E f \in Families : StopPart(f)
    \/ StopAll \/ StopSSHOnly \/ Fall \/ Rise

Spec == Init /\ [][Next]_vars

=============================================================================
