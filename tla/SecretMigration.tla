-------------------------- MODULE SecretMigration --------------------------
(***************************************************************************)
(* A change of the secret store: the desktop application asks airlockd to  *)
(* copy every protected record into the other store, saves the new         *)
(* settings, restarts airlockd on the other store and has the copies in    *)
(* the previous store removed; when a step fails it goes back.             *)
(*                                                                         *)
(* Three things run at once: the command thread of the desktop             *)
(* application (apply_security_settings, restart_local_core), the thread   *)
(* that watches the first sidecar (monitor_initial_sidecar), and airlockd, *)
(* whose other clients go on changing routes and the proxy.  Airlockd runs *)
(* a migration or a cleanup under mutationMu, one record at a time; the    *)
(* client that asked for it may have given up long before it ends.         *)
(* Of a record only this is kept: that a copy is the one written last, or  *)
(* one that a later write or a removal has made stale.  A client's write   *)
(* counts when it took effect, also when an error was reported after that. *)
(***************************************************************************)
EXTENDS Naturals

CONSTANTS
    Aliases,     \* routes, each with the protected target of its reference
    Proxy,       \* egress.DefaultSecretReference
    Identity     \* sshgw.HostIdentitySecretReference

ASSUME ReferencesAssumption ==
    /\ Proxy # Identity
    /\ {Proxy, Identity} \cap Aliases = {}

Modes == {"keychain", "local_file"}
Refs == Aliases \cup {Proxy, Identity}
Copies == {"none", "latest", "stale"}

VARIABLES
    stores,      \* stores[mode][reference]: the copy there, one of Copies
    routes,      \* the registered routes; the route files are the same for both modes
    settings,    \* the mode in security-settings.json
    current,     \* the mode in the desktop application's memory, "none" if it does not run
    daemon,      \* airlockd: NoDaemon, or starting or up in a mode
    job,         \* what holds mutationMu in airlockd
    waiting,     \* requests whose client has gone, waiting for mutationMu
    app,         \* the desktop application runs
    cmd,         \* its command thread
    monitor,     \* its thread that waits for the first sidecar
    \* History, read by no action:
    intended,    \* references whose last change that took effect was a write
    excused,     \* references a known gap of the procedure may have harmed
    unsaved      \* a rollback could not save the settings it went back to

disk == <<stores, routes, settings>>
core == <<daemon, job, waiting>>
desktop == <<app, current, cmd, monitor>>
history == <<intended, excused, unsaved>>
vars == <<disk, core, desktop, history>>

NoDaemon == [state |-> "none", mode |-> "none"]
NoJob == [name |-> "none"]
NoCommand == [name |-> "none", step |-> "idle"]
Requests == [name: {"migrate", "cleanup"}, mode: Modes]
Jobs == [name: {"migrate", "cleanup"}, mode: Modes, todo: SUBSET Refs]
Commands == [name: {"apply", "restart"},
             step: {"migrate", "migrating", "save", "abandon", "stop", "start", "wait",
                    "unsave", "restart", "rewait", "adopt", "clean", "cleaning"},
             from: Modes, to: Modes]

TypeOK ==
    /\ stores \in [Modes -> [Refs -> Copies]]
    /\ routes \subseteq Aliases
    /\ settings \in Modes /\ current \in Modes \cup {"none"}
    /\ daemon \in [state: {"starting", "up"}, mode: Modes] \cup {NoDaemon}
    /\ job \in Jobs \cup {NoJob}
    /\ waiting \subseteq Requests
    /\ app \in BOOLEAN
    /\ cmd \in Commands \cup {NoCommand}
    /\ monitor \in {"off", "waiting"}
    /\ intended \subseteq Refs
    /\ excused \subseteq Refs
    /\ unsaved \in BOOLEAN

\* A first start; the desktop application's default is the local file.
Init ==
    /\ stores = [m \in Modes |-> [r \in Refs |-> "none"]]
    /\ routes = {}
    /\ settings = "local_file" /\ current = "none"
    /\ daemon = NoDaemon
    /\ job = NoJob /\ waiting = {}
    /\ app = FALSE
    /\ cmd = NoCommand
    /\ monitor = "off"
    /\ intended = {}
    /\ excused = {} /\ unsaved = FALSE

-----------------------------------------------------------------------------
(* The secret stores, one operator per method.                             *)

\* A write reports an error before or after it took effect, or it is done.
Outcomes == {"ok", "before", "after"}

PutRecord(m, r, copy, outcome) ==
    stores' = IF outcome = "before" THEN stores
              ELSE [stores EXCEPT ![m] = [@ EXCEPT ![r] = copy]]

\* A record no other store holds: copies elsewhere are stale from now on.
PutNew(m, r, copy) ==
    stores' = [n \in Modes |-> [stores[n] EXCEPT ![r] =
                   IF n = m THEN copy ELSE IF @ = "latest" THEN "stale" ELSE @]]

PutTarget(m, a) == PutNew(m, a, "latest")
PutProxyConfig(m) == PutNew(m, Proxy, "latest")
PutSSHHostIdentity(m, copy) == PutRecord(m, Identity, copy, "ok")
DeleteTarget(m, r, outcome) == PutRecord(m, r, "none", outcome)

ResolveTarget(m, a) == stores[m][a]
ResolveProxyConfig(m) == stores[m][Proxy]
ResolveSSHHostIdentity(m) == stores[m][Identity]

-----------------------------------------------------------------------------
(* airlockd.                                                               *)

Serving == daemon.state = "up"
LockFree == Serving /\ job = NoJob

\* A settings change has copied the records, and what clients write now is not copied
\* any more.
TooLate ==
    /\ cmd.name = "apply" /\ cmd.from # cmd.to
    /\ cmd.step \in {"save", "stop", "start", "wait", "adopt"}

\* History: a client's change of a record took effect.
TakeEffect(r, held) ==
    /\ intended' = IF held THEN intended \cup {r} ELSE intended \ {r}
    /\ excused' = IF TooLate THEN excused \cup {r} ELSE excused \ {r}

\* A client creates a route or replaces its target.  A replacement may report an error
\* all the same; one that fails before it takes effect changes nothing.
StoreTarget(a) ==
    /\ LockFree
    /\ PutTarget(daemon.mode, a)
    /\ routes' = routes \cup {a}
    /\ TakeEffect(a, TRUE)
    /\ UNCHANGED <<settings, core, desktop, unsaved>>

\* A client's new route fails after its target was stored: the store reported an error,
\* or the route could not be saved and the target is removed again, unless that fails.
CreateFails(a) ==
    /\ LockFree
    /\ a \notin routes
    /\ \E copy \in {"none", "stale"} : PutNew(daemon.mode, a, copy)
    /\ TakeEffect(a, FALSE)
    /\ UNCHANGED <<routes, settings, core, desktop, unsaved>>

\* A client deletes a route; the target may stay behind.
deleteRoute(a) ==
    /\ LockFree
    /\ a \in routes
    /\ routes' = routes \ {a}
    /\ \/ PutNew(daemon.mode, a, "none")
       \/ ResolveTarget(daemon.mode, a) # "none" /\ PutNew(daemon.mode, a, "stale")
    /\ TakeEffect(a, FALSE)
    /\ UNCHANGED <<settings, core, desktop, unsaved>>

\* The proxy is stored, whether or not the store reports an error after that.
configureProxy ==
    /\ LockFree
    /\ PutProxyConfig(daemon.mode)
    /\ TakeEffect(Proxy, TRUE)
    /\ UNCHANGED <<routes, settings, core, desktop, unsaved>>

\* The proxy is removed, whether or not the store reports an error after that.
clearProxy ==
    /\ LockFree
    /\ ResolveProxyConfig(daemon.mode) # "none"
    /\ PutNew(daemon.mode, Proxy, "none")
    /\ TakeEffect(Proxy, FALSE)
    /\ UNCHANGED <<routes, settings, core, desktop, unsaved>>

\* Mutant: the host identity is forgotten.
Take_NoIdentity(name, mode) ==
    job' = [name |-> name, mode |-> mode, todo |-> routes \cup {Proxy}]

\* A migration or a cleanup takes mutationMu.  A migration copies the target of
\* every registered route, then the proxy, then the host identity; a cleanup
\* removes the same references.
Take(name, mode) ==
    job' = [name |-> name, mode |-> mode, todo |-> routes \cup {Proxy, Identity}]

\* A request whose client has gone gets the lock; a Go mutex promises no order.
RunWaiting ==
    /\ LockFree
    /\ \E q \in waiting :
        /\ Take(q.name, q.mode)
        /\ waiting' = waiting \ {q}
        /\ excused' = IF TooLate /\ q.name = "cleanup" THEN Refs ELSE excused
    /\ UNCHANGED <<disk, daemon, desktop, intended, unsaved>>

\* What comes next: a migration does the routes first, a cleanup last.
ToCopy ==
    IF job.todo \cap Aliases # {} THEN job.todo \cap Aliases
    ELSE IF Proxy \in job.todo THEN {Proxy} ELSE job.todo
ToRemove ==
    IF Proxy \in job.todo THEN {Proxy}
    ELSE IF Identity \in job.todo THEN {Identity} ELSE job.todo

\* The client that waits for the answer, if there still is one.
Awaited == cmd.step \in {"migrating", "cleaning"}
Answer(command) == cmd' = IF Awaited THEN command ELSE cmd

Missing(r) == stores[daemon.mode][r] = "none"

\* Mutant: source and destination are confused.
CopyRecord_Backwards(r, outcome) ==
    IF stores[job.mode][r] = "none" THEN UNCHANGED stores
    ELSE PutRecord(daemon.mode, r, stores[job.mode][r], outcome)

CopyRecord(r, outcome) ==
    IF Missing(r) THEN UNCHANGED stores
    ELSE PutRecord(job.mode, r, stores[daemon.mode][r], outcome)

\* One record of migrateSecretStore: read it, store it, read it back.  A missing
\* target is an error; a missing proxy or identity is passed over, and what the
\* destination still holds under that reference stays there.
migrateSecretStore ==
    /\ Serving /\ job.name = "migrate"
    /\ \E r \in ToCopy, outcome \in Outcomes :
        LET failed == outcome # "ok" \/ (r \in Aliases /\ Missing(r)) IN
        /\ CopyRecord(r, outcome)
        /\ \/ failed /\ job' = NoJob /\ Answer(NoCommand)
           \/ /\ ~failed /\ job.todo = {r}
              /\ job' = NoJob /\ Answer([cmd EXCEPT !.step = "save"])
           \/ /\ ~failed /\ job.todo # {r}
              /\ job' = [job EXCEPT !.todo = @ \ {r}] /\ UNCHANGED cmd
        /\ excused' = IF Missing(r) /\ stores[job.mode][r] # "none"
                      THEN excused \cup {r} ELSE excused
    /\ UNCHANGED <<routes, settings, daemon, waiting, app, current, monitor,
                   intended, unsaved>>

\* One reference of cleanupSecretStore; an error is remembered for the warning.
cleanupSecretStore ==
    /\ Serving /\ job.name = "cleanup"
    /\ \E r \in ToRemove, outcome \in Outcomes :
        /\ DeleteTarget(job.mode, r, outcome)
        /\ \/ job.todo = {r} /\ job' = NoJob /\ Answer(NoCommand)
           \/ job.todo # {r} /\ job' = [job EXCEPT !.todo = @ \ {r}] /\ UNCHANGED cmd
    /\ UNCHANGED <<routes, settings, daemon, waiting, app, current, monitor, history>>

\* A start of airlockd reaches the point where it answers; it makes a host
\* identity when its store has none, another one than the clients know if it
\* made one before.
runWithConfig ==
    /\ daemon.state = "starting"
    /\ daemon' = [daemon EXCEPT !.state = "up"]
    /\ IF ResolveSSHHostIdentity(daemon.mode) = "none"
       THEN PutSSHHostIdentity(daemon.mode, IF Identity \in intended THEN "stale" ELSE "latest")
       ELSE UNCHANGED stores
    /\ intended' = intended \cup {Identity}
    /\ UNCHANGED <<routes, settings, job, waiting, desktop, excused, unsaved>>

\* Mutant: the handle of the killed process is kept.
Gone_KeepsHandle ==
    /\ daemon' = [daemon EXCEPT !.state = "none"]
    /\ job' = NoJob /\ waiting' = {}

\* The process is gone, with what it was doing.
Gone ==
    /\ daemon' = NoDaemon
    /\ job' = NoJob /\ waiting' = {}

\* airlockd fails to start or dies; a client that waits gets an error.
DaemonExit ==
    /\ daemon # NoDaemon
    /\ Gone
    /\ Answer(NoCommand)
    /\ UNCHANGED <<disk, app, current, monitor, history>>

-----------------------------------------------------------------------------
(* The command thread of the desktop application.                          *)

At(step) == app /\ cmd.step = step
Goto(step) == cmd' = [cmd EXCEPT !.step = step]
StoreChanged == cmd.from # cmd.to

\* apply_security_settings: the store may stay the same and the ports change.
ApplySettings(mode) ==
    /\ app /\ cmd = NoCommand
    /\ cmd' = [name |-> "apply", from |-> current, to |-> mode,
               step |-> IF mode # current THEN "migrate" ELSE "save"]
    /\ UNCHANGED <<disk, core, app, current, monitor, history>>

restart_local_core ==
    /\ app /\ cmd = NoCommand
    /\ cmd' = [name |-> "restart", step |-> "stop", from |-> current, to |-> current]
    /\ UNCHANGED <<disk, core, app, current, monitor, history>>

\* The three requests: copy the records to the next store, remove them from it
\* again, remove them from the previous store.
Asked ==
    CASE cmd.step = "migrate" -> [name |-> "migrate", mode |-> cmd.to]
      [] cmd.step = "abandon" -> [name |-> "cleanup", mode |-> cmd.to]
      [] cmd.step = "clean" -> [name |-> "cleanup", mode |-> cmd.from]

Asking == app /\ cmd.step \in {"migrate", "abandon", "clean"}
Accepted == Serving /\ Asked.mode # daemon.mode

\* The request gets the lock.
Request ==
    /\ Asking
    /\ Accepted /\ job = NoJob
    /\ Take(Asked.name, Asked.mode)
    /\ Goto(IF cmd.step = "migrate" THEN "migrating" ELSE "cleaning")
    /\ UNCHANGED <<disk, daemon, waiting, app, current, monitor, history>>

\* Nobody answers, or airlockd refuses the mode.
RequestFails ==
    /\ Asking
    /\ ~Accepted
    /\ cmd' = NoCommand
    /\ UNCHANGED <<disk, core, app, current, monitor, history>>

\* CONTROL_EXCHANGE_TIMEOUT ends before the request has the lock, or its answer
\* is there; airlockd goes on all the same.
RequestTimesOut ==
    /\ app
    /\ \/ Asking /\ Accepted /\ waiting' = waiting \cup {Asked}
       \/ Awaited /\ UNCHANGED waiting
    /\ cmd' = NoCommand
    /\ UNCHANGED <<disk, daemon, job, app, current, monitor, history>>

\* save_security_settings replaces the file or fails before that.
Save ==
    /\ At("save")
    /\ \/ settings' = cmd.to /\ unsaved' = FALSE /\ Goto("stop")
       \/ /\ cmd' = IF StoreChanged THEN [cmd EXCEPT !.step = "abandon"] ELSE NoCommand
          /\ UNCHANGED <<settings, unsaved>>
    /\ UNCHANGED <<stores, routes, core, app, current, monitor, intended, excused>>

StopDaemon ==
    /\ At("stop")
    /\ Gone
    /\ Goto("start")
    /\ UNCHANGED <<disk, app, current, monitor, history>>

Spawn(mode) == daemon' = [state |-> "starting", mode |-> mode]

\* Mutant: a failed start is tried again.
StartFailed_Again ==
    cmd' = IF cmd.name = "apply" /\ cmd.step \in {"start", "wait"}
           THEN [cmd EXCEPT !.step = "start"] ELSE NoCommand

\* What a failed start leads to.
StartFailed ==
    cmd' = IF cmd.name = "apply" /\ cmd.step \in {"start", "wait"}
           THEN [cmd EXCEPT !.step = "unsave"] ELSE NoCommand

\* spawn_sidecar, for the next settings or for the ones to go back to.
StartDaemon ==
    /\ \/ At("start") /\ Spawn(cmd.to) /\ Goto("wait")
       \/ At("restart") /\ Spawn(cmd.from) /\ Goto("rewait")
       \/ (At("start") \/ At("restart")) /\ StartFailed /\ UNCHANGED daemon
    /\ UNCHANGED <<disk, job, waiting, app, current, monitor, history>>

\* wait_for_control got an answer.
ControlAnswers ==
    /\ Serving
    /\ \/ At("wait") /\ cmd' = IF cmd.name = "apply" THEN [cmd EXCEPT !.step = "adopt"]
                              ELSE NoCommand
       \/ At("rewait") /\ cmd' = IF StoreChanged THEN [cmd EXCEPT !.step = "abandon"]
                                ELSE NoCommand
    /\ UNCHANGED <<disk, core, app, current, monitor, history>>

\* Mutant: only an exit of the process ends the wait.
ControlTimesOut_NoDeadline ==
    /\ At("wait") \/ At("rewait")
    /\ daemon = NoDaemon
    /\ Gone
    /\ StartFailed
    /\ UNCHANGED <<disk, app, current, monitor, history>>

\* CORE_STARTUP_TIMEOUT ends, or the process has exited: it is stopped.
ControlTimesOut ==
    /\ At("wait") \/ At("rewait")
    /\ Gone
    /\ StartFailed
    /\ UNCHANGED <<disk, app, current, monitor, history>>

\* The previous settings are saved again; a failure is ignored.
SaveBack ==
    /\ At("unsave")
    /\ \/ settings' = cmd.from /\ UNCHANGED unsaved
       \/ unsaved' = StoreChanged /\ UNCHANGED settings
    /\ Goto("restart")
    /\ UNCHANGED <<stores, routes, core, app, current, monitor, intended, excused>>

\* Mutant: the application keeps showing the previous mode.
Adopt_Forgotten ==
    /\ At("adopt")
    /\ cmd' = IF StoreChanged THEN [cmd EXCEPT !.step = "clean"] ELSE NoCommand
    /\ UNCHANGED <<disk, core, app, current, monitor, history>>

Adopt ==
    /\ At("adopt")
    /\ current' = cmd.to
    /\ cmd' = IF StoreChanged THEN [cmd EXCEPT !.step = "clean"] ELSE NoCommand
    /\ UNCHANGED <<disk, core, app, monitor, history>>

-----------------------------------------------------------------------------
(* The rest of the desktop application.                                    *)

\* setup: read the settings, start airlockd and a thread that waits for it.
AppStart ==
    /\ ~app
    /\ app' = TRUE
    /\ current' = settings
    /\ \/ Spawn(settings) /\ monitor' = "waiting"
       \/ UNCHANGED <<daemon, monitor>>
    /\ excused' = IF unsaved THEN Refs ELSE excused
    /\ unsaved' = FALSE
    /\ UNCHANGED <<disk, job, waiting, cmd, intended>>

\* monitor_initial_sidecar ends: airlockd answers, or it is given up and the
\* airlockd there is by then is stopped.
MonitorAnswered ==
    /\ monitor = "waiting" /\ Serving
    /\ monitor' = "off"
    /\ UNCHANGED <<disk, core, app, current, cmd, history>>

MonitorGivesUp ==
    /\ monitor = "waiting"
    /\ monitor' = "off"
    /\ Gone
    /\ Answer(NoCommand)
    /\ UNCHANGED <<disk, app, current, history>>

\* "quit" in the tray menu, or the machine goes down, whatever was under way.
Quit ==
    /\ app
    /\ app' = FALSE
    /\ Gone
    /\ cmd' = NoCommand /\ monitor' = "off" /\ current' = "none"
    /\ UNCHANGED <<disk, history>>

Command ==
    \/ Request \/ RequestFails \/ RequestTimesOut
    \/ Save \/ StopDaemon \/ StartDaemon \/ ControlAnswers \/ ControlTimesOut
    \/ SaveBack \/ Adopt

Next ==
    \/ \E a \in Aliases : StoreTarget(a) \/ CreateFails(a) \/ deleteRoute(a)
    \/ configureProxy \/ clearProxy
    \/ RunWaiting \/ migrateSecretStore \/ cleanupSecretStore
    \/ runWithConfig \/ DaemonExit
    \/ \E mode \in Modes : ApplySettings(mode)
    \/ restart_local_core \/ Command
    \/ AppStart \/ MonitorAnswered \/ MonitorGivesUp \/ Quit

Spec == Init /\ [][Next]_vars

-----------------------------------------------------------------------------
(* Properties.                                                             *)

Secrets == (routes \cup {Proxy, Identity}) \ excused

(* Whatever is interrupted, given up or fails on the way, every secret is as *)
(* the last write or removal that took effect left it, in the store a start  *)
(* would open and in the store airlockd works with; it took effect if it was *)
(* acknowledged, and may have if it was answered with an error.              *)
(* Excepted are the secrets the procedure is known to expose (README):       *)
(* changed after the copy was made, cleared while the destination still held *)
(* an old copy, removed by a cleanup that came so late that the next change  *)
(* was under way, or lost to settings that could not be saved back.          *)
StoredSecretsSurvive ==
    \A r \in Secrets :
        LET wanted == IF r \in intended THEN "latest" ELSE "none" IN
        /\ unsaved \/ stores[settings][r] = wanted
        /\ Serving => stores[daemon.mode][r] = wanted

(* When no command is under way, airlockd runs in the mode the application   *)
(* shows, and the same mode is saved, unless saving it back failed.          *)
SettingsMatchCore ==
    app /\ cmd = NoCommand =>
        /\ daemon # NoDaemon => daemon.mode = current
        /\ unsaved \/ settings = current

(* A migration or a cleanup never changes the store airlockd is serving from, *)
(* also when the client that asked for it gave up, another change of settings *)
(* has begun or airlockd was restarted in between; nobody else changes that   *)
(* store while one is under way.                                              *)
ServedStoreUntouched ==
    [][job # NoJob => Serving /\ stores'[daemon.mode] = stores[daemon.mode]]_vars

(* A command never gets stuck: whatever has become of airlockd meanwhile, be  *)
(* it dead, silent, stopped by the first monitor or busy, the command thread  *)
(* has a step of its own to take.                                             *)
CommandsGoOn == cmd # NoCommand => ENABLED Command

Order == [migrate |-> 1, migrating |-> 2, save |-> 3, stop |-> 4, start |-> 5, wait |-> 6,
          unsave |-> 7, restart |-> 8, rewait |-> 9, adopt |-> 7,
          abandon |-> 10, clean |-> 10, cleaning |-> 11]

(* A command only leads forward: whatever fails, answers late or dies, no step *)
(* of it is taken twice, on the way back to the previous settings either.  As  *)
(* it never gets stuck, it ends after at most a dozen steps.                   *)
CommandsLeadForward ==
    [][cmd # NoCommand /\ cmd' # cmd =>
        cmd' = NoCommand \/ Order[cmd'.step] > Order[cmd.step]]_vars

=============================================================================
