------------------------------- MODULE Egress -------------------------------
(***************************************************************************)
(* How connections leave the daemon: internal/egress/manager.go, used by   *)
(* the HTTP gateway (RoundTrip) and by the SSH gateway, the probe and the  *)
(* health tests (DialContext), while the control server configures and     *)
(* clears the proxy in the protected store and in the manager, and the     *)
(* daemon is killed and started again.                                     *)
(***************************************************************************)
EXTENDS Naturals, FiniteSets

CONSTANTS
    Flows,      \* goroutines that open connections, one after the other
    Proxies,    \* proxy URLs
    NoProxy,    \* no proxy is configured
    Faults      \* how a write of the store may fail, a subset of {"before", "after"}

ASSUME NoProxyAssumption == NoProxy \notin Proxies
ASSUME DirectAssumption == "direct" \notin Proxies   \* the tag of touched is no URL
ASSUME FaultsAssumption == Faults \subseteq {"before", "after"}

VARIABLES
    status,      \* airlockd: "down" or "up"
    transport,   \* Manager.proxy, the transport of RoundTrip, by its proxy URL
    proxyURL,    \* Manager.proxyURL, which DialContext reads
    stored,      \* egress/default in the protected store
    op,          \* configureProxy or clearProxy under mutationMu
    step,        \* where a flow is
    call,        \* what it was called with
    held,        \* the proxy a flow has read
    \* History, read by no action:
    touched,     \* where the flow has opened connections: "direct" or proxies
    copies,      \* copies of the flow's request that the upstream may have handled, up to 2
    current,     \* the proxy that was last configured, or NoProxy when it was cleared
    inForce,     \* proxies in force at some time since the flow began
    wanted,      \* proxies asked for and not since replaced or cleared with success
    parted       \* a write of the store failed after it took effect

manager == <<transport, proxyURL>>
flows == <<step, call, held, touched, copies, inForce>>
vars == <<status, manager, stored, op, flows, current, wanted, parted>>

\* safe: safeToRetry of a request, a GET or HEAD without body or a marked LLM request
\* that has GetBody.  replayable: net/http sends the request again by itself, as it does
\* with GET, HEAD, OPTIONS and TRACE and with an Idempotency-Key.  An LLM request is a
\* POST, safe and as a rule not replayable.  A dial has no request.
Call == [method: {"RoundTrip", "DialContext"}, policy: {"Direct", "Proxy", "Auto"},
         safe: BOOLEAN, replayable: BOOLEAN]

NoCall == [method |-> "none"]
Idle == [name |-> "none"]

TypeOK ==
    /\ status \in {"down", "up"}
    /\ {transport, proxyURL, stored, current} \subseteq Proxies \cup {NoProxy}
    /\ op \in [name: {"configure", "clear"}, step: {"store", "apply"},
               to: Proxies \cup {NoProxy}] \cup {Idle}
    /\ step \in [Flows -> {"none", "direct", "configured", "proxy", "tunnel", "done"}]
    /\ call \in [Flows -> Call \cup {NoCall}]
    /\ held \in [Flows -> Proxies \cup {NoProxy}]
    /\ \A f \in Flows : step[f] = "tunnel" => held[f] \in Proxies
    /\ touched \in [Flows -> SUBSET (Proxies \cup {"direct"})]
    /\ copies \in [Flows -> 0..2]
    /\ inForce \in [Flows -> SUBSET Proxies]
    /\ wanted \subseteq Proxies
    /\ parted \in BOOLEAN

NoFlows ==
    /\ step' = [f \in Flows |-> "none"]
    /\ call' = [f \in Flows |-> NoCall]
    /\ held' = [f \in Flows |-> NoProxy]
    /\ touched' = [f \in Flows |-> {}]
    /\ copies' = [f \in Flows |-> 0]
    /\ inForce' = [f \in Flows |-> {}]

\* The daemon has never run.
Init ==
    /\ status = "down"
    /\ transport = NoProxy /\ proxyURL = NoProxy /\ stored = NoProxy /\ current = NoProxy
    /\ op = Idle
    /\ step = [f \in Flows |-> "none"]
    /\ call = [f \in Flows |-> NoCall]
    /\ held = [f \in Flows |-> NoProxy]
    /\ touched = [f \in Flows |-> {}]
    /\ copies = [f \in Flows |-> 0]
    /\ inForce = [f \in Flows |-> {}]
    /\ wanted = {}
    /\ parted = FALSE

-----------------------------------------------------------------------------
(* RoundTrip and DialContext.                                              *)

GoTo(f, s) == step' = [step EXCEPT ![f] = s]
Touch(f, where) == touched' = [touched EXCEPT ![f] = @ \cup {where}]
Send(f) == copies' = [copies EXCEPT ![f] = IF @ < 2 THEN @ + 1 ELSE @]

\* The caller names the policy of its route.
Enter(f, c) ==
    /\ status = "up" /\ step[f] = "none"
    /\ c.method = "DialContext" => ~c.safe /\ ~c.replayable
    /\ call' = [call EXCEPT ![f] = c]
    /\ GoTo(f, IF c.policy = "Proxy" THEN "proxy" ELSE "direct")
    /\ inForce' = [inForce EXCEPT ![f] = {current} \ {NoProxy}]
    /\ UNCHANGED <<status, manager, stored, op, held, touched, copies, current, wanted, parted>>

\* Mutant: every error is retried.
AfterError_AnyError(f, retryable) ==
    IF call[f].policy # "Auto" THEN "done"
    ELSE IF call[f].method = "DialContext" THEN "configured"
    ELSE IF call[f].safe THEN "proxy" ELSE "done"

\* Auto goes on to the proxy after a connectivity error, and with a request only if
\* it is safe to retry.
AfterError(f, retryable) ==
    IF call[f].policy # "Auto" \/ ~retryable THEN "done"
    ELSE IF call[f].method = "DialContext" THEN "configured"
    ELSE IF call[f].safe THEN "proxy" ELSE "done"

\* m.dial or m.direct.RoundTrip: it succeeds; or the connection is not made, which is
\* retryable unless the caller gave up; or it fails later, when the upstream may have
\* handled the request.  A replayable request that is lost on a connection the transport
\* had kept is sent again, and the connection for that may not be made.
Direct(f) ==
    /\ step[f] = "direct"
    /\ Touch(f, "direct")
    /\ \/ GoTo(f, "done") /\ Send(f)
       \/ \E retryable \in BOOLEAN : GoTo(f, AfterError(f, retryable)) /\ UNCHANGED copies
       \/ /\ call[f].method = "RoundTrip"
          /\ GoTo(f, AfterError(f, FALSE)) /\ Send(f)
       \/ call[f].replayable /\ Send(f) /\ UNCHANGED step
    /\ UNCHANGED <<status, manager, stored, op, call, held, inForce, current, wanted, parted>>

\* DialContext asks first whether a proxy is configured and reads it later.
Configured(f) ==
    /\ step[f] = "configured"
    /\ GoTo(f, IF transport # NoProxy /\ proxyURL # NoProxy THEN "proxy" ELSE "done")
    /\ UNCHANGED <<status, manager, stored, op, call, held, touched, copies, inForce, current, wanted, parted>>

\* The proxy of this call: the transport for a request, the URL for a dial.
Read(f) == IF call[f].method = "RoundTrip" THEN transport ELSE proxyURL

\* Mutant: without a proxy the connection is made directly.
ReadProxy_FallBack(f) ==
    /\ step[f] = "proxy"
    /\ held' = [held EXCEPT ![f] = Read(f)]
    /\ GoTo(f, IF Read(f) = NoProxy THEN "direct" ELSE "tunnel")
    /\ UNCHANGED <<status, manager, stored, op, call, touched, copies, inForce, current, wanted, parted>>

\* Mutant: the proxy is used without a look at it.
ReadProxy_Unchecked(f) ==
    /\ step[f] = "proxy"
    /\ held' = [held EXCEPT ![f] = Read(f)]
    /\ GoTo(f, "tunnel")
    /\ UNCHANGED <<status, manager, stored, op, call, touched, copies, inForce, current, wanted, parted>>

\* proxyTransport or configuredProxyURL: without a proxy the call fails.
ReadProxy(f) ==
    /\ step[f] = "proxy"
    /\ held' = [held EXCEPT ![f] = Read(f)]
    /\ GoTo(f, IF Read(f) = NoProxy THEN "done" ELSE "tunnel")
    /\ UNCHANGED <<status, manager, stored, op, call, touched, copies, inForce, current, wanted, parted>>

\* Through the proxy that was read: the body cannot be had again, or the proxy
\* refuses, or the request goes out, a replayable one again if it is lost.
Tunnel(f) ==
    /\ step[f] = "tunnel"
    /\ \/ /\ GoTo(f, "done")
          /\ held' = [held EXCEPT ![f] = NoProxy]
          /\ \/ UNCHANGED <<touched, copies>>
             \/ Touch(f, held[f]) /\ UNCHANGED copies
             \/ Touch(f, held[f]) /\ Send(f)
       \/ call[f].replayable /\ Touch(f, held[f]) /\ Send(f) /\ UNCHANGED <<step, held>>
    /\ UNCHANGED <<status, manager, stored, op, call, inForce, current, wanted, parted>>

\* The caller has the answer; the goroutine may call again.
Return(f) ==
    /\ step[f] = "done"
    /\ GoTo(f, "none")
    /\ call' = [call EXCEPT ![f] = NoCall]
    /\ touched' = [touched EXCEPT ![f] = {}]
    /\ copies' = [copies EXCEPT ![f] = 0]
    /\ inForce' = [inForce EXCEPT ![f] = {}]
    /\ UNCHANGED <<status, manager, stored, op, held, current, wanted, parted>>

-----------------------------------------------------------------------------
(* The manager's configuration.                                            *)

\* Both fields, under Manager.mu.
Set(p) == transport' = p /\ proxyURL' = p

Configure(p) == Set(p)

\* Mutant: only the URL is forgotten.
Clear_URLOnly == proxyURL' = NoProxy /\ UNCHANGED transport

Clear == Set(NoProxy)

\* History: p is in force from now on, for the flows in progress too.
InForce(p) ==
    /\ current' = p
    /\ inForce' = [f \in Flows |-> IF step[f] = "none" THEN {} ELSE inForce[f] \cup ({p} \ {NoProxy})]

-----------------------------------------------------------------------------
(* The control server.                                                     *)

Free == status = "up" /\ op = Idle

configureProxy(p) ==
    /\ Free
    /\ op' = [name |-> "configure", step |-> "store", to |-> p]
    /\ wanted' = wanted \cup {p}
    /\ UNCHANGED <<status, manager, stored, flows, current, parted>>

clearProxy ==
    /\ Free
    /\ op' = [name |-> "clear", step |-> "store", to |-> NoProxy]
    /\ UNCHANGED <<status, manager, stored, flows, current, wanted, parted>>

\* Mutant: the outcome of the write is not looked at.
Store_Unchecked ==
    /\ status = "up" /\ op # Idle /\ op.step = "store"
    /\ \E outcome \in {"ok"} \cup Faults :
        /\ stored' = IF outcome = "before" THEN stored ELSE op.to
        /\ parted' = (parted /\ outcome # "ok")
        /\ op' = [op EXCEPT !.step = "apply"]
    /\ UNCHANGED <<status, manager, flows, current, wanted>>

\* PutProxyConfig or DeleteTarget: an error ends the operation.
Store ==
    /\ status = "up" /\ op # Idle /\ op.step = "store"
    /\ \E outcome \in {"ok"} \cup Faults :
        /\ stored' = IF outcome = "before" THEN stored ELSE op.to
        /\ parted' = CASE outcome = "ok" -> FALSE
                       [] outcome = "after" -> TRUE
                       [] OTHER -> parted
        /\ op' = IF outcome = "ok" THEN [op EXCEPT !.step = "apply"] ELSE Idle
    /\ UNCHANGED <<status, manager, flows, current, wanted>>

\* Configure, which cannot refuse a URL that was validated before, or Clear; then the
\* answer.
Apply ==
    /\ status = "up" /\ op # Idle /\ op.step = "apply"
    /\ IF op.name = "configure" THEN Configure(op.to) ELSE Clear
    /\ op' = Idle
    /\ wanted' = {op.to} \ {NoProxy}
    /\ InForce(op.to)
    /\ UNCHANGED <<status, stored, step, call, held, touched, copies, parted>>

-----------------------------------------------------------------------------
(* The process.                                                            *)

Crash ==
    /\ status = "up"
    /\ status' = "down"
    /\ transport' = NoProxy /\ proxyURL' = NoProxy
    /\ op' = Idle
    /\ NoFlows
    /\ current' = NoProxy /\ parted' = FALSE
    /\ UNCHANGED <<stored, wanted>>

\* runWithConfig configures the manager with what the store has.
Start ==
    /\ status = "down"
    /\ status' = "up"
    /\ IF stored # NoProxy THEN Configure(stored) ELSE UNCHANGED manager
    /\ InForce(stored)
    /\ UNCHANGED <<stored, op, step, call, held, touched, copies, wanted, parted>>

Next ==
    \/ \E f \in Flows :
        \/ \E c \in Call : Enter(f, c)
        \/ Direct(f) \/ Configured(f) \/ ReadProxy(f) \/ Tunnel(f) \/ Return(f)
    \/ \E p \in Proxies : configureProxy(p)
    \/ clearProxy \/ Store \/ Apply
    \/ Crash \/ Start

Spec == Init /\ [][Next]_vars

-----------------------------------------------------------------------------
(* Properties.                                                             *)

\* A flow under the Proxy policy never connects directly, and one under the Direct
\* policy never through a proxy, whatever is configured or cleared meanwhile.
PolicyDecidesTheWay ==
    \A f \in Flows : step[f] # "none" =>
        /\ call[f].policy = "Proxy" => "direct" \notin touched[f]
        /\ call[f].policy = "Direct" => touched[f] \subseteq {"direct"}

\* The upstream handles a request at most once, directly or through the proxy, unless
\* net/http may send it again by itself: a retry of Auto never repeats a POST that the
\* upstream may have handled.  For a GET nothing of the kind holds: net/http sends it
\* again, ends with the error of the new dial, and Auto goes on to the proxy.
SentAtMostOnce ==
    \A f \in Flows : step[f] # "none" /\ ~call[f].replayable => copies[f] <= 1

\* A flow uses a proxy only if it was in force at some time since the flow began: one
\* that begins after clear_proxy was answered never uses the proxy that was cleared.
ProxyInForce == \A f \in Flows : touched[f] \subseteq inForce[f] \cup {"direct"}

\* Between operations both of the manager's fields are what the store has, restarts
\* included, unless a write of the store failed after it took effect.
ManagerMatchesStore == Free /\ ~parted => transport = stored /\ proxyURL = stored

\* A proxy is configured or stored only if it was asked for and no later clear or
\* configuration was answered with success: what was cleared does not come back with
\* a restart.
ProxyOnlyIfWanted == {transport, proxyURL, stored} \subseteq wanted \cup {NoProxy}

\* An operation takes effect when the store has its setting: from then on it succeeds,
\* unless the process dies first, and then the next start completes it.
Promised == IF op # Idle /\ op.step = "apply" THEN op.to ELSE transport

Setting == INSTANCE ProxySetting WITH
    serving <- status = "up", promised <- Promised, durable <- stored

\* configure_proxy and clear_proxy are atomic for their clients, and durable: the
\* proxy is one setting, changed in the manager and in the store at one moment, that a
\* restart brings back; only a write that fails after it took effect lets the two
\* differ, and then until the next success or the next start.
ImplementsProxySetting == Setting!Spec

=============================================================================
