---------------------------- MODULE ProxySetting ----------------------------
(***************************************************************************)
(* The proxy as the clients of the control server see it: one setting that *)
(* each operation changes at one moment, and that survives the process.    *)
(* How the manager's two fields, its lock and the protected store are kept *)
(* in step is left to Egress.                                              *)
(***************************************************************************)
CONSTANTS Proxies, NoProxy

VARIABLES
    serving,     \* the daemon runs
    promised,    \* the setting that was answered with success; none when it is down
    durable      \* the setting that the next start brings back

vars == <<serving, promised, durable>>

Init == serving = FALSE /\ promised = NoProxy /\ durable = NoProxy

\* configure_proxy or clear_proxy succeeds.
Succeed(p) ==
    /\ serving
    /\ promised' = p /\ durable' = p
    /\ UNCHANGED serving

\* It is answered with an error, and comes true with the next start all the same.
Linger(p) ==
    /\ serving
    /\ durable' = p
    /\ UNCHANGED <<serving, promised>>

Fall ==
    /\ serving
    /\ serving' = FALSE /\ promised' = NoProxy
    /\ UNCHANGED durable

Rise ==
    /\ ~serving
    /\ serving' = TRUE /\ promised' = durable
    /\ UNCHANGED durable

Next == (\E p \in Proxies \cup {NoProxy} : Succeed(p) \/ Linger(p)) \/ Fall \/ Rise

Spec == Init /\ [][Next]_vars

=============================================================================
