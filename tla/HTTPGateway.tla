---------------------------- MODULE HTTPGateway ----------------------------
(***************************************************************************)
(* The HTTP gateway: Handler.ServeHTTP of internal/httpgw/handler.go, run   *)
(* by one goroutine per request, over the HTTP registry it shares with the  *)
(* control server.                                                          *)
(*                                                                          *)
(* A request reads the route once, in Lookup, and decides everything after  *)
(* that from this snapshot, while the control server edits the registry and *)
(* other requests take and give back the gateway's slots and the route's    *)
(* limiter.  A limiter is a heap object that the map Handler.limits and the *)
(* release closures of the requests it admitted point to; a request creates *)
(* at most one, so it is named by the request that created it.              *)
(***************************************************************************)
EXTENDS Integers, Sequences, FiniteSets

CONSTANTS
    Aliases,      \* route aliases
    Requests,     \* requests; each is served once
    Creds,        \* local credentials (capability digests)
    Policies,     \* limits of an LLM route: records [rpm, max]
    NoLimit,      \* the policy of a plain HTTP route
    NoRoute,      \* an alias that is not registered
    None,         \* no limiter
    MaxInFlight,  \* capacity of Handler.requests
    Minute,       \* the length of a rate window, in clock ticks
    MaxClock      \* bound on the clock

ASSUME PoliciesAssumption ==
    \A p \in Policies : p.rpm \in Nat \ {0} /\ p.max \in Nat \ {0}
ASSUME NoneAssumption == None \notin Requests /\ NoLimit \notin Policies
ASSUME BoundsAssumption == MaxInFlight \in Nat /\ Minute \in Nat \ {0} /\ MaxClock \in Nat
ASSUME RequestsAssumption == IsFiniteSet(Requests)

Route == [cred: Creds, policy: Policies \cup {NoLimit}, enabled: BOOLEAN]

\* When a request read the clock, and when it was admitted.
Admission == [now: 0..MaxClock, at: 0..MaxClock]

\* llmLimitState; log is history, the requests it admitted.
Limiter == [cred: Creds, policy: Policies, started: 0..MaxClock, requests: Nat, current: Nat,
            log: Seq(Admission)]

ASSUME NoRouteAssumption == NoRoute \notin Route
ASSUME NoLimiterAssumption == None \notin Limiter

Steps == {"new", "miss", "slot", "limit", "acquire", "prepare", "upstream", "stream",
          "unlimit", "unslot", "record", "done"}

VARIABLES
    routes,     \* routes.Registry
    step,       \* where ServeHTTP is, for each request
    alias,      \* the alias the request named
    snap,       \* the route Lookup returned, up to its last use
    result,     \* activityResult
    slots,      \* tokens in Handler.requests
    limits,     \* Handler.limits
    limiter,    \* the limiter objects, by the request that created them
    via,        \* the limiter a request's release closure captured
    clock,
    now,        \* the clock as acquireLLMRequest read it, up to its last use
    \* History, read by no action:
    sent        \* whether the request reached the upstream: "no", "sent", "answered"

served == <<step, alias, snap, result>>
vars == <<routes, served, slots, limits, limiter, via, clock, now, sent>>

IsLLM(r) == r.policy # NoLimit

TypeOK ==
    /\ routes \in [Aliases -> Route \cup {NoRoute}]
    /\ step \in [Requests -> Steps]
    /\ alias \in [Requests -> Aliases \cup {None}]
    /\ snap \in [Requests -> Route \cup {NoRoute}]
    /\ result \in [Requests -> {"none", "failed", "blocked", "allowed"}]
    /\ slots \in Nat
    /\ limits \in [Aliases -> Requests \cup {None}]
    /\ limiter \in [Requests -> Limiter \cup {None}]
    /\ via \in [Requests -> Requests \cup {None}]
    /\ clock \in 0..MaxClock
    /\ now \in [Requests -> 0..MaxClock]
    /\ sent \in [Requests -> {"no", "sent", "answered"}]

Init ==
    /\ routes \in [Aliases -> Route \cup {NoRoute}]
    /\ step = [r \in Requests |-> "new"]
    /\ alias = [r \in Requests |-> None]
    /\ snap = [r \in Requests |-> NoRoute]
    /\ result = [r \in Requests |-> "none"]
    /\ slots = 0
    /\ limits = [a \in Aliases |-> None]
    /\ limiter = [r \in Requests |-> None]
    /\ via = [r \in Requests |-> None]
    /\ clock = 0
    /\ now = [r \in Requests |-> 0]
    /\ sent = [r \in Requests |-> "no"]

-----------------------------------------------------------------------------
(* ServeHTTP.                                                              *)

GoTo(r, s) == step' = [step EXCEPT ![r] = s]
Result(r, v) == result' = [result EXCEPT ![r] = v]

\* recordActivity, the first defer, runs last; then the goroutine is gone, and with it
\* every local variable.
End(r) ==
    /\ GoTo(r, "done")
    /\ alias' = [alias EXCEPT ![r] = None]
    /\ snap' = [snap EXCEPT ![r] = NoRoute]
    /\ result' = [result EXCEPT ![r] = "none"]
    /\ sent' = [sent EXCEPT ![r] = "no"]
    /\ UNCHANGED <<routes, limits, limiter, via, clock, now>>

\* The path names no alias or is not safe: nothing is looked up and nothing recorded.
parseRoutePath(r) == step[r] = "new" /\ End(r) /\ UNCHANGED slots

\* Otherwise Lookup: a route that is not registered or not enabled is not found.  Of
\* the route found, the presented credential is verified and the
\* policy on the method, the query keys and, for an LLM route, the path is applied
\* (conforms); these read nothing that is shared.
Lookup(r, a, presented, conforms) ==
    /\ step[r] = "new"
    /\ alias' = [alias EXCEPT ![r] = a]
    /\ IF routes[a] # NoRoute /\ routes[a].enabled
       THEN IF presented = routes[a].cred /\ conforms
            THEN GoTo(r, "slot") /\ Result(r, "failed") /\ snap' = [snap EXCEPT ![r] = routes[a]]
            ELSE GoTo(r, "record") /\ Result(r, "blocked") /\ UNCHANGED snap
       ELSE GoTo(r, "miss") /\ UNCHANGED <<snap, result>>
    /\ UNCHANGED <<routes, slots, limits, limiter, via, clock, now, sent>>

\* The second read, of a route that Lookup did not return: only a route that is
\* still there and still disabled is recorded as blocked.
GetDisabled(r) ==
    LET blocked == routes[alias[r]] # NoRoute /\ ~routes[alias[r]].enabled IN
    /\ step[r] = "miss"
    /\ \/ /\ blocked
          /\ Result(r, "blocked") /\ GoTo(r, "record")
          /\ UNCHANGED <<routes, alias, snap, slots, limits, limiter, via, clock, now, sent>>
       \/ ~blocked /\ End(r) /\ UNCHANGED slots

\* Mutant: the request waits for a slot.
tryAcquireRequest_Blocking(r) ==
    /\ step[r] = "slot"
    /\ slots < MaxInFlight
    /\ slots' = slots + 1 /\ GoTo(r, "limit") /\ UNCHANGED result
    /\ UNCHANGED <<routes, alias, snap, limits, limiter, via, clock, now, sent>>

\* A full channel refuses at once.
tryAcquireRequest(r) ==
    /\ step[r] = "slot"
    /\ IF slots < MaxInFlight
       THEN slots' = slots + 1 /\ GoTo(r, "limit") /\ UNCHANGED result
       ELSE GoTo(r, "record") /\ Result(r, "blocked") /\ UNCHANGED slots
    /\ UNCHANGED <<routes, alias, snap, limits, limiter, via, clock, now, sent>>

\* The limiter the map holds serves only requests whose snapshot has its
\* credential and its limits; any other request installs a fresh one.
SameLimits(s, r) == s.cred = snap[r].cred /\ s.policy = snap[r].policy

Fresh(r) == limits[alias[r]] = None \/ ~SameLimits(limiter[limits[alias[r]]], r)

\* Mutant: the elapsed time is not compared with the minute.
WindowOver_Always(s, r) == now[r] - s.started >= 0

\* Mutant: a window is over only after the minute.
WindowOver_Late(s, r) == now[r] - s.started > Minute

\* For the time that the request has read, which may lie before the window.
WindowOver(s, r) == now[r] - s.started >= Minute

\* Mutant: a new window is stored by its end.
Found_WindowEnd(r) ==
    IF Fresh(r)
    THEN [cred |-> snap[r].cred, policy |-> snap[r].policy, started |-> now[r],
          requests |-> 0, current |-> 0, log |-> <<>>]
    ELSE LET s == limiter[limits[alias[r]]] IN
         IF WindowOver(s, r) THEN [s EXCEPT !.started = now[r] + Minute, !.requests = 0] ELSE s

\* The limiter as acquireLLMRequest finds it: fresh, or in a new window, or as it is.
Found(r) ==
    IF Fresh(r)
    THEN [cred |-> snap[r].cred, policy |-> snap[r].policy, started |-> now[r],
          requests |-> 0, current |-> 0, log |-> <<>>]
    ELSE LET s == limiter[limits[alias[r]]] IN
         IF WindowOver(s, r) THEN [s EXCEPT !.started = now[r], !.requests = 0] ELSE s

Admit(s, r) ==
    [s EXCEPT !.requests = @ + 1, !.current = @ + 1,
              !.log = Append(@, [now |-> now[r], at |-> clock])]

\* A limiter that neither the map nor a release closure points to is garbage.
Collect(all, map, captured) ==
    [s \in Requests |->
        IF (\E a \in Aliases : map[a] = s) \/ (\E r \in Requests : captured[r] = s)
        THEN all[s] ELSE None]

\* acquireLLMRequest reads the clock before it waits for limitsMu.
readClock(r) ==
    /\ step[r] = "limit"
    /\ IsLLM(snap[r])
    /\ now' = [now EXCEPT ![r] = clock]
    /\ GoTo(r, "acquire")
    /\ UNCHANGED <<routes, alias, snap, result, slots, limits, limiter, via, clock, sent>>

\* acquireLLMRequest, under limitsMu: the clock may have gone on since, and other
\* requests may have begun a later window.  A refusal keeps the fresh limiter or window.
acquireLLMRequest(r) ==
    LET key == IF Fresh(r) THEN r ELSE limits[alias[r]]
        s   == Found(r)
    IN
    /\ step[r] = "acquire"
    /\ limits' = [limits EXCEPT ![alias[r]] = key]
    /\ IF s.current >= s.policy.max \/ s.requests >= s.policy.rpm
       THEN /\ limiter' = Collect([limiter EXCEPT ![key] = s], limits', via)
            /\ Result(r, "blocked") /\ GoTo(r, "unslot")
            /\ UNCHANGED via
       ELSE /\ via' = [via EXCEPT ![r] = key]
            /\ limiter' = Collect([limiter EXCEPT ![key] = Admit(s, r)], limits', via')
            /\ GoTo(r, "prepare") /\ UNCHANGED result
    /\ now' = [now EXCEPT ![r] = 0]
    /\ UNCHANGED <<routes, alias, snap, slots, clock, sent>>

\* A plain HTTP route has no limiter.
acquireUnlimited(r) ==
    /\ step[r] = "limit"
    /\ ~IsLLM(snap[r])
    /\ GoTo(r, "prepare")
    /\ UNCHANGED <<routes, alias, snap, result, slots, limits, limiter, via, clock, now, sent>>

Refuse(r) == GoTo(r, "unlimit") /\ Result(r, "blocked")
Fail(r) == GoTo(r, "unlimit") /\ UNCHANGED result

\* The suffix cannot be joined to the target's URL.
buildUpstreamURL(r) == Refuse(r)

\* The body, read from the client, is too large, is not JSON, names a model that is
\* not allowed or asks for too many tokens.
prepareLLMRequest(r) == IsLLM(snap[r]) /\ Refuse(r)

\* ResolveHTTPTarget fails, or one of the two refuses, or the request is sent.  No
\* later choice depends on the route.
Prepare(r) ==
    /\ step[r] = "prepare"
    /\ \/ Fail(r)
       \/ buildUpstreamURL(r)
       \/ prepareLLMRequest(r)
       \/ GoTo(r, "upstream") /\ UNCHANGED result
    /\ snap' = [snap EXCEPT ![r] = NoRoute]
    /\ UNCHANGED <<routes, alias, slots, limits, limiter, via, clock, now, sent>>

\* Mutant: the result is "allowed" before the redirect is looked at.
RoundTrip_AllowedEarly(r) ==
    /\ step[r] = "upstream"
    /\ \/ sent' = [sent EXCEPT ![r] = "sent"] /\ GoTo(r, "unlimit")
          /\ result' \in {result, [result EXCEPT ![r] = "allowed"]}
       \/ sent' = [sent EXCEPT ![r] = "answered"] /\ GoTo(r, "stream") /\ Result(r, "allowed")
    /\ UNCHANGED <<routes, alias, snap, slots, limits, limiter, via, clock, now>>

\* The answer is a redirect that leads away from the target.
rewriteLocation(r) == sent' = [sent EXCEPT ![r] = "sent"] /\ Fail(r)

\* transport.RoundTrip fails, with or without the upstream having the request, or
\* rewriteLocation does, or the answer is passed on.
RoundTrip(r) ==
    /\ step[r] = "upstream"
    /\ \/ sent' \in {sent, [sent EXCEPT ![r] = "sent"]} /\ Fail(r)
       \/ rewriteLocation(r)
       \/ sent' = [sent EXCEPT ![r] = "answered"] /\ GoTo(r, "stream") /\ Result(r, "allowed")
    /\ UNCHANGED <<routes, alias, snap, slots, limits, limiter, via, clock, now>>

\* The body ends, or the client or the upstream breaks off.  RecordLLMUsage then adds
\* to the counters of the route, which LLMUsage models.
Stream(r) ==
    /\ step[r] = "stream"
    /\ GoTo(r, "unlimit")
    /\ UNCHANGED <<routes, alias, snap, result, slots, limits, limiter, via, clock, now, sent>>

\* The counter of a limiter goes down, never below zero.
Leave(s) ==
    IF limiter[s].current > 0
    THEN [limiter EXCEPT ![s] = [limiter[s] EXCEPT !.current = @ - 1]] ELSE limiter

\* Mutant: the closure looks the limiter up again.
release_CurrentLimiter(r) ==
    LET s == limits[alias[r]] IN
    /\ step[r] = "unlimit"
    /\ via' = [via EXCEPT ![r] = None]
    /\ limiter' = Collect(IF via[r] # None THEN Leave(s) ELSE limiter, limits, via')
    /\ GoTo(r, "unslot")
    /\ UNCHANGED <<routes, alias, snap, result, slots, limits, clock, now, sent>>

\* The deferred release(): the limiter that admitted the request, whether or not
\* the map still holds it.
release(r) ==
    LET s == via[r] IN
    /\ step[r] = "unlimit"
    /\ via' = [via EXCEPT ![r] = None]
    /\ limiter' = Collect(IF s # None THEN Leave(s) ELSE limiter, limits, via')
    /\ GoTo(r, "unslot")
    /\ UNCHANGED <<routes, alias, snap, result, slots, limits, clock, now, sent>>

\* Mutant: a refused request does not give its slot back.
releaseRequest_OnlyAllowed(r) ==
    /\ step[r] = "unslot"
    /\ slots' = IF slots > 0 /\ result[r] # "blocked" THEN slots - 1 ELSE slots
    /\ End(r)

\* The deferred releaseRequest takes a token if there is one.  What is left is
\* recordActivity, which touches nothing else that is shared.
releaseRequest(r) ==
    /\ step[r] = "unslot"
    /\ slots' = IF slots > 0 THEN slots - 1 ELSE slots
    /\ End(r)

\* recordActivity of a request that was turned away before it had a slot.
recordActivity(r) ==
    /\ step[r] = "record"
    /\ UNCHANGED slots
    /\ End(r)

-----------------------------------------------------------------------------
(* The control server's side of the registry: ControlPlane says which      *)
(* operation makes which change, HTTPGateway only that one may come between *)
(* any two steps of a request.                                              *)

\* What a registered route may be replaced by: SetEnabled switches it, and of an LLM
\* route setLLMPolicy changes the limits and rotateLLMAPIKey the credential.
Edited(old) ==
    {[old EXCEPT !.enabled = ~@]} \cup
    (IF IsLLM(old) THEN {[old EXCEPT !.policy = p] : p \in Policies \ {old.policy}}
                        \cup {[old EXCEPT !.cred = c] : c \in Creds \ {old.cred}} ELSE {})

\* Delete and SetEnabled of a route that is there; Upsert of an edited one, of a new
\* one, or of the one a failed deletion puts back.
Configure(a, route) ==
    /\ IF routes[a] = NoRoute THEN route # NoRoute
       ELSE route \in Edited(routes[a]) \cup {NoRoute}
    /\ routes' = [routes EXCEPT ![a] = route]
    /\ UNCHANGED <<served, slots, limits, limiter, via, clock, now, sent>>

Tick ==
    /\ clock < MaxClock
    /\ clock' = clock + 1
    /\ UNCHANGED <<routes, served, slots, limits, limiter, via, now, sent>>

-----------------------------------------------------------------------------

\* The steps of ServeHTTP that depend on nobody outside the process.
Handle(r) ==
    \/ GetDisabled(r)
    \/ tryAcquireRequest(r)
    \/ acquireUnlimited(r) \/ readClock(r) \/ acquireLLMRequest(r)
    \/ release(r) \/ releaseRequest(r) \/ recordActivity(r)

\* The steps that wait for the client or for the upstream.
Await(r) ==
    \/ parseRoutePath(r)
    \/ \E a \in Aliases, presented \in Creds \cup {None}, conforms \in BOOLEAN :
        Lookup(r, a, presented, conforms)
    \/ Prepare(r) \/ RoundTrip(r) \/ Stream(r)

Next == (\E r \in Requests : Handle(r) \/ Await(r)) 
        \/ (\E a \in Aliases, route \in Route \cup {NoRoute} : Configure(a, route))
        \/ Tick

Spec == Init /\ [][Next]_vars

-----------------------------------------------------------------------------
(* Properties.                                                             *)

\* A request has a token of Handler.requests from tryAcquireRequest to the
\* deferred releaseRequest, whatever return it takes.
HasSlot(r) == step[r] \in {"limit", "acquire", "prepare", "upstream", "stream", "unlimit", "unslot"}
SlotsMatchHolders ==
    slots = Cardinality({r \in Requests : HasSlot(r)}) /\ slots <= MaxInFlight

\* The counter of every limiter, also of one that a policy change or a request
\* with an older snapshot has pushed out of the map, is the number of requests it
\* admitted that have not released it, and within its limit.
LimitersMatchHolders ==
    \A s \in Requests : limiter[s] # None =>
        /\ limiter[s].current = Cardinality({r \in Requests : via[r] = s})
        /\ limiter[s].current <= limiter[s].policy.max

\* acquireLLMRequest keeps a limiter to its rate, although a request is counted in a
\* window by a time that it may have read long before it got the lock: from the moment
\* an admitted request read the clock, it and all that were admitted after it are at
\* most the requests per minute for every minute begun, and one window more.  In the
\* first minute that is twice the requests per minute: two windows can meet in it,
\* never three.
RateBoundPerMinute ==
    \A s \in Requests : limiter[s] # None =>
        \A i \in DOMAIN limiter[s].log :
            Len(limiter[s].log) - i + 1
                <= limiter[s].policy.rpm * (2 + (clock - limiter[s].log[i].now) \div Minute)

\* The activity log tells what happened: a request recorded as blocked never
\* reached the upstream, one recorded as allowed was answered by it, and one
\* recorded as failed was not passed an answer.
ActivityTellsTruth ==
    \A r \in Requests : step[r] \in {"unslot", "record"} =>
        /\ result[r] = "blocked" => sent[r] = "no"
        /\ result[r] = "allowed" <=> sent[r] = "answered"

\* A request is turned away only by a limit that is reached: every slot is taken, or
\* the limiter of its route, with the credential and the policy that the request read,
\* has as many requests in flight as the policy allows, or has admitted a minute's
\* number of them since a minute before the request read the clock.  A slot or a place
\* that was not given back, a window that was over when the request read the clock, or
\* the limiter of another policy never does.  (A window that ends between the reading
\* and the lock does.)
RefusedOnlyAtLimit ==
    [][\A r \in Requests :
        /\ step[r] = "slot" /\ step'[r] = "record" =>
            Cardinality({q \in Requests : HasSlot(q)}) = MaxInFlight
        /\ step[r] = "acquire" /\ step'[r] = "unslot" =>
            LET s == limits[alias[r]] IN
            /\ s # None /\ SameLimits(limiter[s], r)
            /\ \/ Cardinality({q \in Requests : via[q] = s}) = snap[r].policy.max
               \/ Cardinality({i \in DOMAIN limiter[s].log : now[r] - limiter[s].log[i].at < Minute})
                    >= snap[r].policy.rpm]_vars

\* ServeHTTP never waits for another request, nor for the clock or the operator:
\* where it does not wait for its client or its upstream, it has a step to take,
\* however many requests stall upstream with every slot and every limiter taken.
NeverWaitsForOthers ==
    \A r \in Requests :
        step[r] \in {"miss", "slot", "limit", "acquire", "unlimit", "unslot", "record"}
            => ENABLED Handle(r)

=============================================================================
