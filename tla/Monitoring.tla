----------------------------- MODULE Monitoring -----------------------------
(***************************************************************************)
(* What the operator is shown about a route - its health, the activity     *)
(* list and the command audit - and the traffic it is taken from.          *)
(*                                                                         *)
(* One alias is followed: the registries, the protected targets and the    *)
(* health results are keyed by alias and nothing here relates two of them. *)
(* A visitor is a gateway request, an SSH command or file transfer, or a   *)
(* health test.  It copies the route in one step, reads the protected      *)
(* target by reference in a later one, talks to that target for as long as *)
(* it likes, and is recorded at the end.  Meanwhile the mutators of the    *)
(* control server change the route and its target one write at a time.     *)
(* Targets are numbered in the order in which they are stored.             *)
(***************************************************************************)
EXTENDS Naturals, Sequences, FiniteSets

CONSTANTS
    Visitors,        \* each comes once
    MaxTarget,       \* bound: how many targets are ever stored
    ActivityLimit,   \* maxEvents of the activity recorder
    AuditLimit,      \* maxCommandAuditEvents
    Faults,          \* how a write may fail, a subset of {"before", "after"}
    NoRoute, NoHealth

ASSUME LimitsAssumption ==
    /\ ActivityLimit \in Nat \ {0}
    /\ AuditLimit \in Nat \ {0}
    /\ MaxTarget \in Nat
    /\ Faults \subseteq {"before", "after"}

VARIABLES
    status,      \* airlockd is "up" or "down"
    route,       \* the registry's entry
    saved,       \* the route file's entry
    target,      \* the protected target stored under the route's reference, 0 if none
    made,        \* how many targets were stored so far
    op,          \* the mutator that holds mutationMu
    visit,       \* where each visitor is, and its locals
    health,      \* the health map's entry
    activity,    \* the activity recorder, oldest first
    audit,       \* FileCommandAudit.events
    auditFile,   \* ssh-command-audit.json
    \* History, read by no action:
    current,     \* the newest target that was acknowledged to the operator
    due,         \* what current was when the visitor copied the route
    orphaned,    \* visitors whose route was given up, before or after they copied it
    doubtful,    \* tests whose route or target changed under them
    torn,        \* the file holds a route whose creation was answered with an error
    told,        \* the last ActivityLimit events given to the activity recorder since the start
    log          \* the last AuditLimit commands that reached the audit file, and whether
                 \* their records were acknowledged

store == <<route, saved, target, made, op>>
records == <<health, activity, audit, auditFile>>
history == <<current, due, orphaned, doubtful, torn, told, log>>
vars == <<status, store, visit, records, history>>

Families == {"http", "ssh"}
\* "request" is an HTTP request or an SSH file transfer, "command" an SSH command or
\* shell of a route that records them, "test" a health test of the route, "proxy" one
\* of the proxy.
Kinds == {"request", "command", "test", "proxy"}
Route == [family: Families, born: 1..MaxTarget, enabled: BOOLEAN]

Health == [status: {"healthy", "degraded"}, of: 0..MaxTarget, by: Visitors]

\* The markers are not mistaken for what they stand for the absence of.
ASSUME MarkersAssumption == NoRoute \notin Route /\ NoHealth \notin Health

Visit == [kind: Kinds, step: {"resolve", "contact", "health", "record"},
          target: 0..MaxTarget, result: {"pending", "allowed", "failed", "missing"}]
NotYet == [step |-> "idle"]
Gone == [step |-> "done"]

Idle == [name |-> "none", step |-> "idle"]
Operation == [name: {"create", "enable", "delete", "retarget"},
              step: {"put", "upsert", "save", "undo", "unput", "clear", "unlink"},
              new: Route \cup {NoRoute}, prev: Route \cup {NoRoute}]

TypeOK ==
    /\ status \in {"up", "down"}
    /\ {route, saved} \subseteq Route \cup {NoRoute}
    /\ {target, made, current} \subseteq 0..MaxTarget
    /\ op \in Operation \cup {Idle}
    /\ visit \in [Visitors -> Visit \cup {NotYet, Gone}]
    /\ health \in Health \cup {NoHealth}
    /\ {activity, audit, auditFile, told} \subseteq Seq(Visitors)
    /\ {Len(audit), Len(auditFile)} \subseteq 0..AuditLimit /\ Len(activity) <= ActivityLimit
    /\ due \in [Visitors -> 0..MaxTarget]
    /\ orphaned \cup doubtful \subseteq Visitors
    /\ torn \in BOOLEAN
    /\ log \in Seq([by: Visitors, acknowledged: BOOLEAN])

Init ==
    /\ status = "up"
    /\ route = NoRoute /\ saved = NoRoute
    /\ target = 0 /\ made = 0
    /\ op = Idle
    /\ visit = [v \in Visitors |-> NotYet]
    /\ health = NoHealth
    /\ activity = <<>> /\ audit = <<>> /\ auditFile = <<>>
    /\ current = 0
    /\ due = [v \in Visitors |-> 0]
    /\ orphaned = {} /\ doubtful = {}
    /\ torn = FALSE
    /\ told = <<>> /\ log = <<>>

Outcomes == {"ok"} \cup Faults

-----------------------------------------------------------------------------
(* The mutators, one step for each write; mutationMu lets in one at a time. *)

Begin(name, step, new) ==
    /\ status = "up"
    /\ op = Idle
    /\ op' = [name |-> name, step |-> step, new |-> new, prev |-> route]
    /\ UNCHANGED <<status, route, saved, target, made, visit, records, history>>

\* createHTTPRoute, createLLMRoute and createSSHRoute: the alias is free, the
\* route is created disabled, with a target of its own.
createRoute(f) ==
    /\ route = NoRoute
    /\ made < MaxTarget
    /\ Begin("create", "put", [family |-> f, born |-> made + 1, enabled |-> FALSE])

setRouteEnabled(enabled) ==
    /\ route # NoRoute
    /\ Begin("enable", "upsert", [route EXCEPT !.enabled = enabled])

deleteRoute ==
    /\ route # NoRoute
    /\ Begin("delete", "upsert", NoRoute)

updateSSHTarget ==
    /\ route # NoRoute /\ route.family = "ssh"
    /\ made < MaxTarget
    /\ Begin("retarget", "put", route)

At(step) == status = "up" /\ op.step = step
GoTo(step) == op' = [op EXCEPT !.step = step]
Release == op' = Idle

\* Visitors between their copy of the route and their last use of it.
InFlight(v) == visit[v].step \in {"resolve", "contact", "health"}
TestsInFlight == {v \in Visitors : InFlight(v) /\ visit[v].kind = "test"}
Shown == IF health = NoHealth THEN {} ELSE {health.by}

\* PutHTTPTarget or PutSSHTarget.  updateSSHTarget clears the health only when
\* the write reports success.
Put ==
    /\ At("put")
    /\ \E outcome \in Outcomes :
        /\ IF outcome = "before" THEN UNCHANGED <<target, made, doubtful>>
           ELSE /\ target' = made + 1
                /\ made' = made + 1
                /\ doubtful' = doubtful \cup TestsInFlight
                                 \cup (IF outcome = "after" THEN Shown ELSE {})
        /\ IF outcome # "ok" THEN Release
           ELSE IF op.name = "create" THEN GoTo("upsert") ELSE GoTo("clear")
    /\ UNCHANGED <<status, route, saved, visit, records, current, due, orphaned, torn, told, log>>

\* Registry.Upsert, SetEnabled or Delete.
Upsert ==
    /\ At("upsert")
    /\ route' = op.new
    /\ GoTo("save")
    /\ current' = IF op.name = "create" THEN op.new.born ELSE current
    /\ orphaned' = IF op.name = "delete" THEN orphaned \cup {v \in Visitors : InFlight(v)} ELSE orphaned
    /\ doubtful' = IF op.name = "delete" THEN doubtful \cup TestsInFlight ELSE doubtful
    /\ UNCHANGED <<status, saved, target, made, visit, records, due, torn, told, log>>

Save ==
    /\ At("save")
    /\ \E outcome \in Outcomes :
        /\ saved' = IF outcome = "before" THEN saved ELSE route
        /\ torn' = CASE op.name = "create" /\ outcome = "after" -> TRUE
                     [] op.name \in {"create", "delete"} /\ outcome = "ok" -> FALSE
                     [] OTHER -> torn
        /\ IF outcome # "ok" THEN GoTo("undo")
           ELSE IF op.name = "delete" THEN GoTo("clear") ELSE Release
    /\ UNCHANGED <<status, route, target, made, visit, records, current, due, orphaned, doubtful, told, log>>

\* Mutant: whatever the operation was, the target goes too.
Undo_AlwaysUnput ==
    /\ At("undo")
    /\ route' = op.prev
    /\ GoTo("unput")
    /\ UNCHANGED <<status, saved, target, made, visit, records, current, due, orphaned, doubtful,
                   torn, told, log>>

\* The registry goes back; a health result of the route that is given up stays.
Undo ==
    /\ At("undo")
    /\ route' = op.prev
    /\ IF op.name = "create"
       THEN /\ GoTo("unput")
            /\ orphaned' = orphaned \cup {v \in Visitors : InFlight(v)}
            /\ doubtful' = doubtful \cup TestsInFlight \cup Shown
       ELSE Release /\ UNCHANGED <<orphaned, doubtful>>
    /\ UNCHANGED <<status, saved, target, made, visit, records, current, due, torn, told, log>>

DeleteTarget(outcome) == target' = IF outcome = "before" THEN target ELSE 0

\* What a failed creation takes back, and what a deletion ends with; neither
\* outcome changes the answer.
RemoveTarget ==
    /\ At("unput") \/ At("unlink")
    /\ \E outcome \in Outcomes : DeleteTarget(outcome)
    /\ Release
    /\ UNCHANGED <<status, route, saved, made, visit, records, history>>

\* Mutant: the entry stays.
clearRouteHealth_Missing ==
    /\ At("clear")
    /\ IF op.name = "delete" THEN GoTo("unlink") ELSE Release
    /\ current' = IF op.name = "retarget" THEN target ELSE 0
    /\ UNCHANGED <<status, route, saved, target, made, visit, records, due, orphaned, doubtful,
                   torn, told, log>>

\* After the target was replaced, and after the deletion was saved.
clearRouteHealth ==
    /\ At("clear")
    /\ health' = NoHealth
    /\ IF op.name = "delete" THEN GoTo("unlink") ELSE Release
    /\ current' = IF op.name = "retarget" THEN target ELSE 0
    /\ doubtful' = TestsInFlight \cap doubtful
    /\ UNCHANGED <<status, route, saved, target, made, visit, activity, audit, auditFile,
                   due, orphaned, torn, told, log>>

-----------------------------------------------------------------------------
(* The visitors.                                                           *)

\* Lookup of an enabled route (the gateways), or Get of any (a health test).
Lookup(v, kind) ==
    /\ status = "up"
    /\ visit[v] = NotYet
    /\ route # NoRoute
    /\ kind # "test" => route.enabled
    /\ kind = "command" => route.family = "ssh"
    /\ visit' = [visit EXCEPT ![v] = [kind |-> kind, step |-> "resolve", target |-> 0,
                                      result |-> "pending"]]
    /\ due' = [due EXCEPT ![v] = current]
    /\ orphaned' = IF torn THEN orphaned \cup {v} ELSE orphaned
    /\ UNCHANGED <<status, store, records, current, doubtful, torn, told, log>>

\* testProxyHealth looks at no route; only its activity event is left.
testProxyHealth(v) ==
    /\ status = "up"
    /\ visit[v] = NotYet
    /\ \E result \in {"allowed", "failed"} :
        visit' = [visit EXCEPT ![v] = [kind |-> "proxy", step |-> "record", target |-> 0,
                                       result |-> result]]
    /\ UNCHANGED <<status, store, records, history>>

AfterContact(v) == IF visit[v].kind = "test" THEN "health" ELSE "record"

\* ResolveHTTPTarget or ResolveSSHTarget by the reference in the copied route:
\* there is none, it cannot be read, or it is what the store holds now.
ResolveTarget(v) ==
    /\ status = "up"
    /\ visit[v].step = "resolve"
    /\ \E readable \in BOOLEAN :
        visit' = [visit EXCEPT ![v] =
            IF target = 0 THEN [@ EXCEPT !.step = AfterContact(v), !.result = "missing"]
            ELSE IF ~readable THEN [@ EXCEPT !.step = AfterContact(v), !.result = "failed"]
            ELSE [@ EXCEPT !.step = "contact", !.target = target]]
    /\ UNCHANGED <<status, store, records, history>>

\* The exchange with the target: a request and its response, a command, a file
\* transfer, or the connection and handshake of checkHTTPRoute and checkSSHRoute.
Contact(v) ==
    /\ status = "up"
    /\ visit[v].step = "contact"
    /\ \E result \in {"allowed", "failed"} :
        visit' = [visit EXCEPT ![v].step = AfterContact(v), ![v].result = result]
    /\ UNCHANGED <<status, store, records, history>>

\* testRouteHealth stores its result, whatever became of the route.
setRouteHealth(v) ==
    /\ status = "up"
    /\ visit[v].step = "health"
    /\ health' = [status |-> IF visit[v].result = "allowed" THEN "healthy" ELSE "degraded",
                  of |-> visit[v].target, by |-> v]
    /\ visit' = [visit EXCEPT ![v].step = "record"]
    /\ UNCHANGED <<status, store, activity, audit, auditFile, history>>

\* Mutant: a full list keeps one event too few.
Newest_OneTooFew(events, limit) ==
    IF Len(events) > limit THEN SubSeq(events, Len(events) - limit + 2, Len(events)) ELSE events

\* Mutant: nothing is trimmed.
Newest_Untrimmed(events, limit) == events

\* The trimming both recorders do after they append.
Newest(events, limit) ==
    IF Len(events) > limit THEN SubSeq(events, Len(events) - limit + 1, Len(events)) ELSE events

\* The visitor leaves, and the history forgets it unless it is on show.
Done(v) ==
    /\ visit' = [visit EXCEPT ![v] = Gone]
    /\ due' = [due EXCEPT ![v] = 0]
    /\ orphaned' = orphaned \ {v}
    /\ doubtful' = doubtful \ ({v} \ Shown)

\* A history of at most limit entries: the oldest goes when one too many comes.
Remember(entries, entry, limit) ==
    IF Len(entries) < limit THEN Append(entries, entry) ELSE Append(Tail(entries), entry)

\* MemoryRecorder.Record of a request, a transfer or a test.  An interactive shell
\* records an activity like a request and a command like a command, the second
\* whatever became of the first: two visitors do what it does.
RecordActivity(v) ==
    /\ status = "up"
    /\ visit[v].step = "record" /\ visit[v].kind # "command"
    /\ activity' = Newest(Append(activity, v), ActivityLimit)
    /\ told' = Remember(told, v, ActivityLimit)
    /\ Done(v)
    /\ UNCHANGED <<status, store, health, audit, auditFile, current, torn, log>>

\* FileCommandAudit.Record under its lock: save what the history will be, then
\* install it.  The gateway ignores the error.
RecordCommand(v) ==
    LET updated == Newest(Append(audit, v), AuditLimit) IN
    /\ status = "up"
    /\ visit[v].step = "record" /\ visit[v].kind = "command"
    /\ \E outcome \in Outcomes :
        /\ auditFile' = IF outcome = "before" THEN auditFile ELSE updated
        /\ audit' = IF outcome = "ok" THEN updated ELSE audit
        /\ log' = IF outcome = "before" THEN log
                  ELSE Remember(log, [by |-> v, acknowledged |-> outcome = "ok"], AuditLimit)
    /\ Done(v)
    /\ UNCHANGED <<status, store, health, activity, current, torn, told>>

-----------------------------------------------------------------------------
(* The process.                                                            *)

Crash ==
    /\ status = "up"
    /\ status' = "down"
    /\ route' = NoRoute
    /\ op' = Idle
    /\ visit' = [v \in Visitors |-> IF visit[v] = NotYet THEN NotYet ELSE Gone]
    /\ due' = [v \in Visitors |-> 0]
    /\ orphaned' = {} /\ doubtful' = {}
    /\ health' = NoHealth
    /\ activity' = <<>> /\ told' = <<>>
    /\ audit' = <<>>
    /\ UNCHANGED <<saved, target, made, auditFile, current, torn, log>>

\* runWithConfig: the routes are loaded, and OpenFileCommandAudit reads the history.
Start ==
    /\ status = "down"
    /\ status' = "up"
    /\ route' = saved
    /\ audit' = auditFile
    /\ UNCHANGED <<saved, target, made, op, visit, health, activity, auditFile, history>>

Mutate ==
    \/ \E f \in Families : createRoute(f)
    \/ \E enabled \in BOOLEAN : setRouteEnabled(enabled)
    \/ deleteRoute \/ updateSSHTarget
    \/ Put \/ Upsert \/ Save \/ Undo \/ RemoveTarget \/ clearRouteHealth

Proceed(v) ==
    \/ \E kind \in Kinds \ {"proxy"} : Lookup(v, kind)
    \/ testProxyHealth(v) \/ ResolveTarget(v) \/ Contact(v) \/ setRouteHealth(v)
    \/ RecordActivity(v) \/ RecordCommand(v)

Next == Mutate \/ (\E v \in Visitors : Proceed(v)) \/ Crash \/ Start

Spec == Init /\ [][Next]_vars

-----------------------------------------------------------------------------
(* Properties.                                                             *)

\* Between operations the health that the route list shows is that of the route's
\* present target, unless the test it comes from ran while its route or target
\* changed, the target was replaced by a write that reported an error, or the
\* route's creation was taken back after the test.
HealthOfPresentTarget ==
    status = "up" /\ op = Idle /\ health # NoHealth /\ health.by \notin doubtful
        => route # NoRoute /\ health.of \in {0, target}

\* A visitor never reaches a target older than the one the operator was told is in
\* place when the visitor was let in - not the target a deletion failed to remove,
\* and not the one that was replaced - and finds no target at all only if its route
\* was given up meanwhile, or is one whose creation failed after the rename.
NeverAnOlderTarget ==
    \A v \in Visitors : visit[v] \notin {NotYet, Gone} =>
        /\ visit[v].target # 0 => visit[v].target >= due[v]
        /\ visit[v].result = "missing" => v \in orphaned

Holds(events, v) == \E i \in DOMAIN events : events[i] = v

\* A command whose record was acknowledged stays in the audit file, and in the list,
\* across crashes and failed saves until AuditLimit newer commands have reached the
\* file; the activity list holds the newest ActivityLimit events since the start.
RecordsKeepTheNewest ==
    /\ \A i \in DOMAIN log :
        log[i].acknowledged =>
            Holds(auditFile, log[i].by) /\ (status = "up" => Holds(audit, log[i].by))
    /\ \A i \in DOMAIN told : Holds(activity, told[i])

=============================================================================
