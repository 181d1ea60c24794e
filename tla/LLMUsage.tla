------------------------------ MODULE LLMUsage ------------------------------
(***************************************************************************)
(* The usage counter of an LLM route.  It lives in the route's entry of the *)
(* HTTP registry, where three parties change it: ServeHTTP adds to it when  *)
(* a response has ended (RecordLLMUsage), reset_llm_usage clears it, and    *)
(* the mutators of the control server write whole entries back, the counter *)
(* they read with Get included.  Only the mutators take mutationMu.         *)
(*                                                                          *)
(* What is added is counted by the capture the response was teed into, in   *)
(* whatever pieces it arrived.                                              *)
(***************************************************************************)
EXTENDS Naturals, FiniteSets, LLMRequest

CONSTANTS
    Aliases,     \* aliases of LLM routes
    Requests,    \* requests whose response is captured
    NoRoute,     \* an alias that is not registered
    None         \* no edit, no alias

ASSUME NoneAssumption == None \notin Aliases

Usage == [requests: Nat, input: Nat, output: Nat]
NoUsage == [requests |-> 0, input |-> 0, output |-> 0]

\* One more response, that counts for the given tokens.
Add(usage, tokens) ==
    [requests |-> usage.requests + 1,
     input |-> usage.input + tokens.input,
     output |-> usage.output + tokens.output]

Route == [track: BOOLEAN, enabled: BOOLEAN, usage: Usage]

ASSUME NoRouteAssumption == NoRoute \notin Route

Edit == [kind: {"create", "replace", "enable", "delete"}, step: {"apply", "save"},
         alias: Aliases, prev: Route \cup {NoRoute}, new: Route \cup {NoRoute}]

VARIABLES
    routes,      \* the LLM routes of routes.Registry
    edit,        \* the mutator that holds mutationMu, or None
    capturing,   \* the alias whose response a request is capturing, or None
    capture,     \* the llmUsageCapture of a request
    served,      \* requests that are over
    \* History, read by no action but to bound a response:
    received,    \* the response a request has passed on so far
    due,         \* what the responses recorded since the counter was last cleared report
    overlapped   \* aliases whose counter changed while a mutator held a copy of it

vars == <<routes, edit, capturing, capture, served, received, due, overlapped>>
\* What only the gateway changes.
gateway == <<capturing, capture, served, received>>

TypeOK ==
    /\ routes \in [Aliases -> Route \cup {NoRoute}]
    /\ edit \in Edit \cup {None}
    /\ capturing \in [Requests -> Aliases \cup {None}]
    /\ capture \in [Requests -> [payload: Seq(Lines), truncated: BOOLEAN]]
    /\ served \subseteq Requests
    /\ received \in [Requests -> Seq(Lines)]
    /\ due \in [Aliases -> Usage]
    /\ overlapped \subseteq Aliases

\* Routes come from routes.json with their counters at zero.
Init ==
    /\ routes \in [Aliases -> [track: BOOLEAN, enabled: BOOLEAN, usage: {NoUsage}] \cup {NoRoute}]
    /\ edit = None
    /\ capturing = [r \in Requests |-> None]
    /\ capture = [r \in Requests |-> newLLMUsageCapture]
    /\ served = {}
    /\ received = [r \in Requests |-> <<>>]
    /\ due = [a \in Aliases |-> NoUsage]
    /\ overlapped = {}

-----------------------------------------------------------------------------
(* The HTTP gateway.                                                       *)

\* ServeHTTP has passed an answer on and tees it into a capture: the route it
\* looked up was enabled and tracked usage.
Capture(r, a) ==
    /\ capturing[r] = None /\ r \notin served
    /\ routes[a] # NoRoute /\ routes[a].enabled /\ routes[a].track
    /\ capturing' = [capturing EXCEPT ![r] = a]
    /\ capture' = [capture EXCEPT ![r] = newLLMUsageCapture]
    /\ received' = [received EXCEPT ![r] = <<>>]
    /\ UNCHANGED <<routes, edit, served, due, overlapped>>

\* The next piece of the response is passed on, and written to the capture.
Tee(r, chunk) ==
    /\ capturing[r] # None
    /\ chunk # <<>> /\ Len(received[r]) + Len(chunk) <= MaxLines
    /\ capture' = [capture EXCEPT ![r] = Write(@, chunk)]
    /\ received' = [received EXCEPT ![r] = @ \o chunk]
    /\ UNCHANGED <<routes, edit, capturing, served, due, overlapped>>

\* A change of the counter that the mutator in progress will overwrite, or has
\* hidden, when it writes back what it read.
Overlap(a) ==
    IF edit # None /\ edit.alias = a /\ edit.kind # "enable"
    THEN overlapped \cup {a} ELSE overlapped

\* The capture is cleared, and the request is over.
Clear(r) ==
    /\ capture' = [capture EXCEPT ![r] = newLLMUsageCapture]
    /\ received' = [received EXCEPT ![r] = <<>>]
    /\ capturing' = [capturing EXCEPT ![r] = None]
    /\ served' = served \cup {r}

\* Mutant: the zero entry of a missing route is counted and stored.
RecordLLMUsage_MissingEntry(r) ==
    LET a == capturing[r]
        tokens == TokenUsage(capture[r]) IN
    /\ a # None
    /\ routes' = [routes EXCEPT ![a] =
                    IF @ = NoRoute THEN [usage |-> Add(NoUsage, tokens)]
                    ELSE [routes[a] EXCEPT !.usage = Add(@, tokens)]]
    /\ due' = [due EXCEPT ![a] = Add(@, Reported(received[r]))]
    /\ overlapped' = Overlap(a)
    /\ Clear(r)
    /\ UNCHANGED edit

\* RecordLLMUsage finds the route by its alias, as it is when the response ends, of
\* itself or because the client or the upstream went away.
RecordLLMUsage(r) ==
    LET a == capturing[r] IN
    /\ a # None
    /\ IF routes[a] # NoRoute /\ routes[a].track
       THEN /\ routes' = [routes EXCEPT ![a] =
                            [routes[a] EXCEPT !.usage = Add(@, TokenUsage(capture[r]))]]
            /\ due' = [due EXCEPT ![a] = Add(@, Reported(received[r]))]
            /\ overlapped' = Overlap(a)
       ELSE UNCHANGED <<routes, due, overlapped>>
    /\ Clear(r)
    /\ UNCHANGED edit

-----------------------------------------------------------------------------
(* The control server.                                                     *)

Begin(kind, a, new) ==
    /\ edit = None
    /\ edit' = [kind |-> kind, step |-> "apply", alias |-> a, prev |-> routes[a], new |-> new]
    /\ UNCHANGED <<routes, gateway, due, overlapped>>

createLLMRoute(a, track) ==
    /\ routes[a] = NoRoute
    /\ Begin("create", a, [track |-> track, enabled |-> FALSE, usage |-> NoUsage])

setLLMPolicy(a, track) ==
    /\ routes[a] # NoRoute
    /\ Begin("replace", a, [routes[a] EXCEPT !.track = track])

\* Changes the credential, which no counter depends on.
rotateLLMAPIKey(a) ==
    /\ routes[a] # NoRoute
    /\ Begin("replace", a, routes[a])

\* stopAll does the same to every route.
setRouteEnabled(a, enabled) ==
    /\ routes[a] # NoRoute
    /\ Begin("enable", a, [routes[a] EXCEPT !.enabled = enabled])

\* Delete reads the entry and removes it under one lock.
deleteRoute(a) ==
    /\ edit = None /\ routes[a] # NoRoute
    /\ edit' = [kind |-> "delete", step |-> "save", alias |-> a, prev |-> routes[a], new |-> NoRoute]
    /\ routes' = [routes EXCEPT ![a] = NoRoute]
    /\ UNCHANGED <<gateway, due, overlapped>>

\* Mutant: setRouteEnabled writes the whole entry back.
Changed_WholeEntry(target) == [routes EXCEPT ![edit.alias] = target]

\* SetEnabled changes one field of the entry as it is; Upsert replaces the entry by
\* what the mutator made of the one it read, or puts back the one it deleted.
Changed(target) ==
    IF edit.kind = "enable"
    THEN [routes EXCEPT ![edit.alias] = [@ EXCEPT !.enabled = target.enabled]]
    ELSE [routes EXCEPT ![edit.alias] = target]

Apply ==
    /\ edit # None /\ edit.step = "apply"
    /\ routes' = Changed(edit.new)
    /\ edit' = [edit EXCEPT !.step = "save"]
    /\ IF edit.kind = "create"
       THEN due' = [due EXCEPT ![edit.alias] = NoUsage] /\ overlapped' = overlapped \ {edit.alias}
       ELSE UNCHANGED <<due, overlapped>>
    /\ UNCHANGED gateway

\* Save succeeds, or what was read before is put back.
Saved ==
    /\ edit # None /\ edit.step = "save"
    /\ routes' \in {routes, Changed(edit.prev)}
    /\ edit' = None
    /\ UNCHANGED <<gateway, due, overlapped>>

resetLLMUsage(a) ==
    /\ routes[a] # NoRoute
    /\ routes' = [routes EXCEPT ![a] = [@ EXCEPT !.usage = NoUsage]]
    /\ due' = [due EXCEPT ![a] = NoUsage]
    /\ overlapped' = IF edit # None /\ edit.alias = a THEN Overlap(a) ELSE overlapped \ {a}
    /\ UNCHANGED <<edit, gateway>>

Next ==
    \/ \E r \in Requests :
        \/ \E a \in Aliases : Capture(r, a)
        \/ \E chunk \in BoundedSeq(Lines, MaxLines) : Tee(r, chunk)
        \/ RecordLLMUsage(r)
    \/ \E a \in Aliases :
        \/ \E track \in BOOLEAN : createLLMRoute(a, track) \/ setLLMPolicy(a, track)
        \/ \E enabled \in BOOLEAN : setRouteEnabled(a, enabled)
        \/ rotateLLMAPIKey(a) \/ deleteRoute(a) \/ resetLLMUsage(a)
    \/ Apply \/ Saved

Spec == Init /\ [][Next]_vars

-----------------------------------------------------------------------------
(* Properties.                                                             *)

\* The counter is the number of responses recorded since it was last cleared and the
\* sum of the tokens they report, whatever was enabled, disabled, edited or rolled
\* back in between, unless a response ended or a reset came while a mutator that
\* writes whole entries held a copy of this one.
UsageExactUnlessOverlapped ==
    \A a \in Aliases : routes[a] # NoRoute /\ a \notin overlapped => routes[a].usage = due[a]

\* Whatever a client of a served route writes into whichever field, a request that
\* conforms to the route's policy is passed on and no other is; what reaches the
\* provider bounds the output by exactly one field that the endpoint honours, within
\* the limit, and the client's other fields are as it wrote them.
PolicyAdmitsExactly ==
    (\E a \in Aliases : routes[a] # NoRoute /\ routes[a].enabled) => AdmitsExactly

\* At any time the tokens a capture counts are those of the response passed on so
\* far, whatever the pieces it arrived in: the largest numbers it reports, which is
\* the total since the reports of a stream are cumulative, and none once it is longer
\* than the capture, however much of it came before or after the overflow.
UsageIndependentOfPieces ==
    \A r \in Requests : TokenUsage(capture[r]) = Reported(received[r])


=============================================================================
