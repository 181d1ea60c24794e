----------------------- MODULE SecretMigrationProofs -----------------------
(***************************************************************************)
(* Proofs about SecretMigration, for any set of routes: whatever is given   *)
(* up, fails or dies on the way, the application, airlockd and the saved    *)
(* settings agree when no command is under way, and the stores they name    *)
(* hold what was written last.                                              *)
(***************************************************************************)
EXTENDS SecretMigration, TLAPS

-----------------------------------------------------------------------------
(* The inductive invariant.                                                *)

\* airlockd, if there is one, works in the mode m; and a start would, too.
Runs(m) == daemon # NoDaemon => daemon.mode = m
Settled(m) == Runs(m) /\ (unsaved \/ settings = m)

\* From the time apply_security_settings has saved the new settings.
Saved == IF cmd.name = "apply" THEN ~unsaved /\ settings = cmd.to
         ELSE unsaved \/ settings = cmd.to

\* Where the command thread is, and what it has done to get there.
CommandInv ==
    cmd # NoCommand =>
        /\ app
        /\ cmd.name = "restart" => cmd.from = cmd.to /\ cmd.step \in {"stop", "start", "wait"}
        /\ IF cmd.step = "clean" THEN current = cmd.to /\ Settled(cmd.to)
           ELSE IF cmd.step = "cleaning" THEN Settled(current)
           ELSE current = cmd.from
        /\ cmd.step \in {"migrate", "migrating", "abandon", "clean"} => cmd.from # cmd.to
        /\ cmd.step \in {"migrate", "migrating", "save", "abandon", "restart", "rewait"} => Settled(cmd.from)
        /\ cmd.step = "stop" => Runs(cmd.from) /\ Saved
        /\ cmd.step \in {"wait", "adopt"} => Runs(cmd.to) /\ Saved
        /\ cmd.step \in {"start", "unsave"} => Saved
        /\ cmd.step \in {"start", "unsave", "restart"} => daemon = NoDaemon

AppInv ==
    /\ app => current \in Modes /\ (cmd = NoCommand => Settled(current))
    /\ ~app => cmd = NoCommand /\ daemon = NoDaemon

\* What holds or waits for mutationMu was asked of this airlockd, about the other
\* store; the command that waits for it is the one that asked.
JobInv ==
    /\ job # NoJob => job.mode # daemon.mode
    /\ \A q \in waiting : q.mode # daemon.mode
    /\ job # NoJob \/ waiting # {} =>
        /\ Serving
        /\ cmd.step \notin {"start", "wait", "adopt", "unsave", "restart", "rewait"}
    /\ cmd.step = "migrating" => job.name = "migrate" /\ job.mode = cmd.to
    /\ cmd.step = "cleaning" => job.name = "cleanup"

Wanted(r) == IF r \in intended THEN "latest" ELSE "none"

\* The store has every secret as it was written last.
Complete(m) == \A r \in Secrets : stores[m][r] = Wanted(r)

\* The store to go back to is complete, the one a start would open is, and the new
\* one is by the time its settings are saved.
StoreInv ==
    /\ unsaved \/ Complete(settings)
    /\ app => Complete(current)
    /\ cmd.step = "save" => Complete(cmd.to)
    /\ cmd.step = "migrating" => \A r \in Secrets \ job.todo : stores[cmd.to][r] = Wanted(r)
    /\ job.name = "cleanup" /\ TooLate => excused = Refs

\* Until airlockd has made its identity nothing was migrated.
IdentityInv ==
    Identity \notin intended =>
        /\ ~Serving /\ ~unsaved
        /\ app => current = settings
        /\ daemon # NoDaemon => daemon.mode = settings
        /\ cmd # NoCommand /\ cmd.step # "migrate" => cmd.from = cmd.to

IInv ==
    /\ TypeOK
    /\ CommandInv
    /\ AppInv
    /\ JobInv
    /\ StoreInv
    /\ IdentityInv

-----------------------------------------------------------------------------
(* The records.                                                            *)

\* What a command of the desktop application carries.
LEMMA CommandFields ==
    ASSUME cmd \in Commands \cup {NoCommand}
    PROVE  /\ cmd # NoCommand <=> cmd.step # "idle"
           /\ cmd # NoCommand => /\ cmd \in Commands /\ cmd.name \in {"apply", "restart"}
                                 /\ cmd.from \in Modes /\ cmd.to \in Modes
                                 /\ cmd.step \in {"migrate", "migrating", "save", "abandon", "stop", "start", "wait",
                                                  "unsave", "restart", "rewait", "adopt", "clean", "cleaning"}
           /\ cmd = NoCommand => cmd.step = "idle" /\ cmd.name = "none"
BY DEF Commands, NoCommand

\* A command at another step is one.
LEMMA NextStep ==
    ASSUME NEW c \in Commands,
           NEW s \in {"migrate", "migrating", "save", "abandon", "stop", "start", "wait",
                      "unsave", "restart", "rewait", "adopt", "clean", "cleaning"}
    PROVE  /\ [c EXCEPT !.step = s] \in Commands /\ [c EXCEPT !.step = s] # NoCommand
           /\ [c EXCEPT !.step = s].step = s /\ [c EXCEPT !.step = s].name = c.name
           /\ [c EXCEPT !.step = s].from = c.from /\ [c EXCEPT !.step = s].to = c.to
<1>1. /\ [c EXCEPT !.step = s] \in Commands
      /\ [c EXCEPT !.step = s].step = s /\ [c EXCEPT !.step = s].name = c.name
      /\ [c EXCEPT !.step = s].from = c.from /\ [c EXCEPT !.step = s].to = c.to
  BY DEF Commands
<1>2. NoCommand.step = "idle"
  BY DEF NoCommand
<1> QED BY <1>1, <1>2

\* What the daemon carries.
LEMMA DaemonFields ==
    ASSUME daemon \in [state: {"starting", "up"}, mode: Modes] \cup {NoDaemon}
    PROVE  /\ daemon # NoDaemon <=> daemon.state # "none"
           /\ daemon # NoDaemon => daemon.state \in {"starting", "up"} /\ daemon.mode \in Modes
           /\ daemon = NoDaemon => daemon.state = "none" /\ daemon.mode = "none"
           /\ Serving => daemon # NoDaemon /\ daemon.mode \in Modes
BY DEF NoDaemon, Serving

\* What a migration or clean-up carries.
LEMMA JobFields ==
    ASSUME job \in Jobs \cup {NoJob}
    PROVE  /\ job # NoJob <=> job.name # "none"
           /\ job # NoJob => /\ job \in Jobs /\ job.name \in {"migrate", "cleanup"}
                             /\ job.mode \in Modes /\ job.todo \subseteq Refs
           /\ job = NoJob => job.name = "none"
BY DEF Jobs, NoJob

-----------------------------------------------------------------------------
(* The clients of airlockd.                                                *)

\* Unless a settings change has copied the records, the one store that counts is the
\* one airlockd works with.
LEMMA OneStoreCounts ==
    ASSUME IInv, Serving, ~TooLate
    PROVE  /\ app /\ current = daemon.mode /\ (unsaved \/ settings = daemon.mode)
           /\ cmd.step = "save" => cmd.to = daemon.mode
<1>1. daemon # NoDaemon /\ daemon.mode \in Modes
  BY DaemonFields DEF IInv, TypeOK
<1>2. app
  BY <1>1 DEF IInv, AppInv
<1>3. CASE cmd = NoCommand
  BY <1>1, <1>2, <1>3, CommandFields DEF IInv, TypeOK, AppInv, Settled, Runs
<1>4. CASE cmd # NoCommand
  <2>1. cmd.name \in {"apply", "restart"}
        /\ cmd.step \in {"migrate", "migrating", "save", "abandon", "stop", "start", "wait",
                         "unsave", "restart", "rewait", "adopt", "clean", "cleaning"}
    BY <1>4, CommandFields DEF IInv, TypeOK
  <2>2. cmd.step \in {"save", "stop", "start", "wait", "adopt"} => cmd.from = cmd.to
    BY <1>4, <2>1 DEF IInv, CommandInv, TooLate
  <2> QED BY <1>1, <1>2, <1>4, <2>1, <2>2 DEF IInv, CommandInv, Settled, Runs, Saved
<1> QED BY <1>3, <1>4

\* The store airlockd works with is complete, also while it starts.
LEMMA CoreComplete ==
    ASSUME IInv, daemon # NoDaemon
    PROVE  /\ app
           /\ daemon.mode # current => cmd.step \in {"wait", "adopt"} /\ ~unsaved /\ settings = daemon.mode
           /\ Complete(daemon.mode)
<1>1. app
  BY DEF IInv, AppInv
<1>2. daemon.mode # current => cmd.step \in {"wait", "adopt"} /\ ~unsaved /\ settings = daemon.mode
  <2>1. CASE cmd = NoCommand
    BY <1>1, <2>1 DEF IInv, AppInv, Settled, Runs
  <2>2. CASE cmd # NoCommand
    <3>1. cmd.name \in {"apply", "restart"}
          /\ cmd.step \in {"migrate", "migrating", "save", "abandon", "stop", "start", "wait",
                           "unsave", "restart", "rewait", "adopt", "clean", "cleaning"}
      BY <2>2, CommandFields DEF IInv, TypeOK
    <3> QED BY <2>2, <3>1 DEF IInv, CommandInv, Settled, Runs, Saved
  <2> QED BY <2>1, <2>2
<1>3. CASE daemon.mode = current
  BY <1>1, <1>3 DEF IInv, StoreInv
<1>4. CASE daemon.mode # current
  BY <1>1, <1>2, <1>4 DEF IInv, StoreInv
<1> QED BY <1>1, <1>2, <1>3, <1>4

\* A secret is stored or deleted in the store the daemon runs on.
LEMMA ChangeKeeps ==
    ASSUME IInv, LockFree, NEW r \in Refs \ {Identity}, NEW copy \in Copies, NEW held \in BOOLEAN,
           PutNew(daemon.mode, r, copy), TakeEffect(r, held),
           routes' \subseteq Aliases, \A q \in Refs \ {r} : q \in routes' => q \in routes,
           r \in routes' \cup {Proxy, Identity} => copy = IF held THEN "latest" ELSE "none",
           UNCHANGED <<settings, core, desktop, unsaved>>
    PROVE  IInv'
<1>1. /\ daemon # NoDaemon /\ daemon.mode \in Modes /\ Serving
  BY DaemonFields DEF IInv, TypeOK, LockFree
<1>2. /\ stores \in [Modes -> [Refs -> Copies]] /\ settings \in Modes /\ current \in Modes \cup {"none"}
      /\ intended \subseteq Refs /\ excused \subseteq Refs
      /\ cmd \in Commands \cup {NoCommand} /\ job \in Jobs \cup {NoJob}
  BY DEF IInv, TypeOK
<1>3. UNCHANGED <<settings, daemon, job, waiting, app, current, cmd, monitor, unsaved>>
  BY DEF core, desktop
<1>4. /\ stores' \in [Modes -> [Refs -> Copies]]
      /\ stores'[daemon.mode][r] = copy
      /\ \A m \in Modes, q \in Refs \ {r} : stores'[m][q] = stores[m][q]
  <2>1. stores' = [n \in Modes |-> [stores[n] EXCEPT ![r] =
            IF n = daemon.mode THEN copy ELSE IF stores[n][r] = "latest" THEN "stale" ELSE stores[n][r]]]
    BY DEF PutNew
  <2>2. ASSUME NEW n \in Modes
        PROVE  /\ stores'[n] \in [Refs -> Copies]
               /\ \A q \in Refs \ {r} : stores'[n][q] = stores[n][q]
               /\ n = daemon.mode => stores'[n][r] = copy
    <3>1. stores[n] \in [Refs -> Copies]
      BY <1>2
    <3>2. PICK v \in Copies : stores'[n] = [stores[n] EXCEPT ![r] = v] /\ (n = daemon.mode => v = copy)
      BY <2>1, <3>1 DEF Copies
    <3> QED BY <3>1, <3>2
  <2> QED BY <1>1, <2>1, <2>2
<1>5. /\ intended' \subseteq Refs /\ excused' \subseteq Refs
      /\ \A q \in Refs \ {r} : (q \in intended' <=> q \in intended) /\ (q \in excused' <=> q \in excused)
      /\ r \in intended' <=> held
      /\ r \in excused' <=> TooLate
  BY <1>2 DEF TakeEffect
<1>6. TypeOK'
  BY <1>3, <1>4, <1>5 DEF IInv, TypeOK
<1>7. CommandInv' /\ AppInv' /\ JobInv'
  BY <1>3 DEF IInv, CommandInv, AppInv, JobInv, Settled, Runs, Saved, Serving
<1>8. IdentityInv'
  BY <1>1, <1>5 DEF IInv, IdentityInv, Refs
<1>9. ASSUME NEW q \in Secrets' \ {r} PROVE q \in Secrets /\ q \in Refs /\ Wanted(q)' = Wanted(q)
  <2>1. q \in Refs \ {r} /\ q \in routes' \cup {Proxy, Identity} /\ q \notin excused'
    BY <1>9 DEF Secrets, Refs
  <2>2. q \notin excused
    BY <1>5, <2>1
  <2>3. q \in routes \cup {Proxy, Identity}
    BY <2>1
  <2> QED BY <1>5, <2>1, <2>2, <2>3 DEF Secrets, Wanted
<1>10. r \in Secrets' => ~TooLate /\ Wanted(r)' = copy
  BY <1>5 DEF Secrets, Wanted
<1>11. ASSUME NEW m \in Modes, Complete(m), r \in Secrets' => m = daemon.mode
       PROVE  Complete(m)'
  <2>1. SUFFICES ASSUME NEW q \in Secrets' PROVE stores'[m][q] = Wanted(q)'
    BY DEF Complete
  <2>2. CASE q = r
    BY <1>4, <1>10, <1>11, <2>2
  <2>3. CASE q # r
    <3>1. q \in Secrets /\ q \in Refs \ {r} /\ Wanted(q)' = Wanted(q)
      BY <1>9, <2>3
    <3> QED BY <1>4, <1>11, <3>1 DEF Complete
  <2> QED BY <2>2, <2>3
<1>12. StoreInv'
  <2>1. r \in Secrets' => /\ app /\ current = daemon.mode /\ (unsaved \/ settings = daemon.mode)
                          /\ cmd.step = "save" => cmd.to = daemon.mode
    BY <1>1, <1>10, OneStoreCounts
  <2>2. unsaved' \/ Complete(settings)'
    <3>1. unsaved \/ Complete(settings)
      BY DEF IInv, StoreInv
    <3>2. settings' = settings /\ unsaved' = unsaved
      BY <1>3
    <3>3. Complete(settings) /\ ~unsaved => Complete(settings)'
      <4>1. SUFFICES ASSUME Complete(settings), ~unsaved PROVE Complete(settings)'
        OBVIOUS
      <4>2. PICK m \in Modes : m = settings
        BY <1>2
      <4>3. Complete(m)'
        BY <1>11, <2>1, <4>1, <4>2
      <4> QED BY <3>2, <4>2, <4>3 DEF Complete
    <3> QED BY <3>1, <3>2, <3>3
  <2>3. app' => Complete(current)'
    <3>1. SUFFICES ASSUME app PROVE Complete(current)'
      BY <1>3
    <3>2. PICK m \in Modes : m = current
      BY <3>1 DEF IInv, AppInv
    <3>3. Complete(m)'
      BY <1>11, <2>1, <3>1, <3>2 DEF IInv, StoreInv
    <3> QED BY <1>3, <3>2, <3>3 DEF Complete
  <2>4. (cmd.step = "save")' => Complete(cmd.to)'
    <3>1. SUFFICES ASSUME cmd.step = "save" PROVE Complete(cmd.to)'
      BY <1>3
    <3>2. PICK m \in Modes : m = cmd.to
      BY <1>2, <3>1, CommandFields
    <3>3. Complete(m)'
      BY <1>11, <2>1, <3>1, <3>2 DEF IInv, StoreInv
    <3> QED BY <1>3, <3>2, <3>3 DEF Complete
  <2>5. job' = NoJob /\ job'.name = "none" /\ cmd' = cmd /\ cmd.step # "migrating"
    BY <1>2, <1>3, JobFields DEF LockFree, IInv, JobInv
  <2> QED BY <2>2, <2>3, <2>4, <2>5 DEF StoreInv
<1> QED BY <1>6, <1>7, <1>8, <1>12 DEF IInv

\* The mutators that do so.
LEMMA ClientsKeep ==
    ASSUME IInv, (\E a \in Aliases : StoreTarget(a) \/ CreateFails(a) \/ deleteRoute(a)) \/ configureProxy \/ clearProxy
    PROVE  IInv'
<1>1. routes \subseteq Aliases /\ Proxy \notin Aliases /\ Identity \notin Aliases /\ Proxy # Identity
  BY ReferencesAssumption DEF IInv, TypeOK
<1>2. ASSUME NEW a \in Aliases, StoreTarget(a) PROVE IInv'
  <2>1. /\ LockFree /\ PutNew(daemon.mode, a, "latest") /\ TakeEffect(a, TRUE)
        /\ routes' = routes \cup {a} /\ UNCHANGED <<settings, core, desktop, unsaved>>
    BY <1>2 DEF StoreTarget, PutTarget
  <2>2. a \in Refs \ {Identity} /\ "latest" \in Copies /\ TRUE \in BOOLEAN
    BY <1>1 DEF Refs, Copies
  <2>3. routes' \subseteq Aliases /\ \A q \in Refs \ {a} : q \in routes' => q \in routes
    BY <1>1, <2>1
  <2> QED BY <2>1, <2>2, <2>3, ChangeKeeps
<1>3. ASSUME NEW a \in Aliases, CreateFails(a) \/ deleteRoute(a) PROVE IInv'
  <2>1. /\ LockFree /\ TakeEffect(a, FALSE)
        /\ routes' = routes \ {a} /\ UNCHANGED <<settings, core, desktop, unsaved>>
    BY <1>3 DEF CreateFails, deleteRoute
  <2>2. a \in Refs \ {Identity} /\ FALSE \in BOOLEAN /\ a \notin routes' \cup {Proxy, Identity}
    BY <1>1, <2>1 DEF Refs
  <2>3. routes' \subseteq Aliases /\ \A q \in Refs \ {a} : q \in routes' => q \in routes
    BY <1>1, <2>1
  <2>4. PICK copy \in Copies : PutNew(daemon.mode, a, copy)
    BY <1>3 DEF CreateFails, deleteRoute, Copies
  <2> QED BY <2>1, <2>2, <2>3, <2>4, ChangeKeeps
<1>4. ASSUME NEW held \in BOOLEAN, NEW copy \in Copies, copy = IF held THEN "latest" ELSE "none",
             LockFree, PutNew(daemon.mode, Proxy, copy), TakeEffect(Proxy, held),
             UNCHANGED <<routes, settings, core, desktop, unsaved>>
      PROVE  IInv'
  <2>1. Proxy \in Refs \ {Identity} /\ routes' \subseteq Aliases /\ routes' = routes
        /\ UNCHANGED <<settings, core, desktop, unsaved>>
    BY <1>1, <1>4 DEF Refs
  <2> QED BY <1>4, <2>1, ChangeKeeps
<1>5. ASSUME configureProxy PROVE IInv'
  BY <1>4, <1>5 DEF configureProxy, PutProxyConfig, Copies
<1>6. ASSUME clearProxy PROVE IInv'
  BY <1>4, <1>6 DEF clearProxy, Copies
<1> QED BY <1>2, <1>3, <1>5, <1>6

-----------------------------------------------------------------------------
(* The jobs of airlockd.                                                   *)

\* Nothing but an excuse is added: what was complete stays so.
LEMMA CompleteStays ==
    ASSUME UNCHANGED <<stores, routes, intended>>, excused \subseteq excused', NEW m
    PROVE  Complete(m) => Complete(m)'
BY DEF Complete, Secrets, Wanted

\* A request that waited for the lock is taken up.
LEMMA RunWaitingKeeps ==
    ASSUME IInv, RunWaiting
    PROVE  IInv'
<1>1. PICK q \in waiting :
        /\ Take(q.name, q.mode)
        /\ waiting' = waiting \ {q}
        /\ excused' = IF TooLate /\ q.name = "cleanup" THEN Refs ELSE excused
  BY DEF RunWaiting
<1>2. LockFree /\ UNCHANGED <<stores, routes, settings, daemon, app, current, cmd, monitor, intended, unsaved>>
  BY DEF RunWaiting, disk, desktop
<1>3. /\ q.name \in {"migrate", "cleanup"} /\ q.mode \in Modes /\ q.mode # daemon.mode
      /\ excused \subseteq Refs /\ routes \subseteq Aliases
  BY DEF IInv, TypeOK, Requests, JobInv
<1>4. /\ job' \in Jobs /\ job'.name = q.name /\ job'.mode = q.mode /\ job' # NoJob
  <2>1. job' = [name |-> q.name, mode |-> q.mode, todo |-> routes \cup {Proxy, Identity}]
    BY <1>1 DEF Take
  <2>2. routes \cup {Proxy, Identity} \in SUBSET Refs
    BY <1>3 DEF Refs
  <2>3. job' \in Jobs /\ job'.name = q.name /\ job'.mode = q.mode
    BY <1>3, <2>1, <2>2 DEF Jobs
  <2>4. NoJob.name = "none"
    BY DEF NoJob
  <2> QED BY <1>3, <2>3, <2>4
<1>5. excused' \subseteq Refs /\ excused \subseteq excused'
  BY <1>1, <1>3
<1>6. TypeOK'
  BY <1>1, <1>2, <1>4, <1>5 DEF IInv, TypeOK
<1>7. CommandInv' /\ AppInv'
  BY <1>2 DEF IInv, CommandInv, AppInv, Settled, Runs, Saved
<1>8. cmd.step \notin {"migrating", "cleaning", "start", "wait", "adopt", "unsave", "restart", "rewait"}
  BY <1>2, JobFields DEF IInv, TypeOK, JobInv, LockFree
<1>9. JobInv'
  BY <1>1, <1>2, <1>3, <1>4, <1>8 DEF IInv, JobInv, LockFree, Serving
<1>10. IdentityInv'
  BY <1>2 DEF IInv, IdentityInv, Serving
<1>11. StoreInv'
  <2>1. \A m : Complete(m) => Complete(m)'
    BY <1>2, <1>5, CompleteStays
  <2>2. TooLate' <=> TooLate
    BY <1>2 DEF TooLate
  <2> QED BY <1>1, <1>2, <1>4, <1>8, <2>1, <2>2 DEF IInv, StoreInv
<1> QED BY <1>6, <1>7, <1>9, <1>10, <1>11 DEF IInv

\* Who waits for a job is the command that asked for it.
LEMMA AnsweredCommand ==
    ASSUME IInv, Serving, job # NoJob
    PROVE  /\ job \in Jobs /\ job.mode \in Modes /\ job.todo \subseteq Refs
           /\ daemon.mode \in Modes /\ job.mode # daemon.mode
           /\ app /\ daemon.mode = current /\ Complete(daemon.mode)
           /\ Awaited <=> cmd.step = (IF job.name = "migrate" THEN "migrating" ELSE "cleaning")
           /\ Awaited => cmd \in Commands /\ Settled(current)
<1>1. /\ job \in Jobs /\ job.mode \in Modes /\ job.todo \subseteq Refs /\ job.name \in {"migrate", "cleanup"}
      /\ daemon # NoDaemon /\ daemon.mode \in Modes
  BY JobFields, DaemonFields DEF IInv, TypeOK
<1>2. app /\ daemon.mode = current /\ Complete(daemon.mode)
  BY <1>1, CoreComplete DEF IInv, JobInv
<1>3. job.mode # daemon.mode
  BY DEF IInv, JobInv
<1>4. Awaited <=> cmd.step = (IF job.name = "migrate" THEN "migrating" ELSE "cleaning")
  BY <1>1 DEF IInv, JobInv, Awaited
<1>5. Awaited => cmd \in Commands /\ Settled(current)
  <2>1. Awaited => cmd # NoCommand /\ cmd \in Commands
    BY CommandFields DEF IInv, TypeOK, Awaited
  <2> QED BY <2>1 DEF IInv, CommandInv, Awaited
<1> QED BY <1>1, <1>2, <1>3, <1>4, <1>5

\* A migration copies one secret or ends.
LEMMA MigrateKeeps ==
    ASSUME IInv, migrateSecretStore
    PROVE  IInv'
<1>1. Serving /\ job.name = "migrate"
      /\ UNCHANGED <<routes, settings, daemon, waiting, app, current, monitor, intended, unsaved>>
  BY DEF migrateSecretStore
<1>2. PICK r \in ToCopy, outcome \in Outcomes :
        /\ CopyRecord(r, outcome)
        /\ \/ (outcome # "ok" \/ (r \in Aliases /\ Missing(r))) /\ job' = NoJob /\ Answer(NoCommand)
           \/ /\ ~(outcome # "ok" \/ (r \in Aliases /\ Missing(r))) /\ job.todo = {r}
              /\ job' = NoJob /\ Answer([cmd EXCEPT !.step = "save"])
           \/ /\ ~(outcome # "ok" \/ (r \in Aliases /\ Missing(r))) /\ job.todo # {r}
              /\ job' = [job EXCEPT !.todo = job.todo \ {r}] /\ UNCHANGED cmd
        /\ excused' = IF Missing(r) /\ stores[job.mode][r] # "none" THEN excused \cup {r} ELSE excused
  BY DEF migrateSecretStore
<1>3. job # NoJob
  BY <1>1, JobFields DEF IInv, TypeOK
<1>4. /\ job \in Jobs /\ job.mode \in Modes /\ job.todo \subseteq Refs
      /\ daemon.mode \in Modes /\ job.mode # daemon.mode
      /\ app /\ daemon.mode = current /\ Complete(daemon.mode)
      /\ Awaited <=> cmd.step = "migrating"
      /\ Awaited => cmd \in Commands /\ Settled(current)
  BY <1>1, <1>3, AnsweredCommand
<1>5. r \in job.todo /\ r \in Refs
  BY <1>4 DEF ToCopy
<1>6. stores \in [Modes -> [Refs -> Copies]] /\ excused \subseteq Refs /\ cmd \in Commands \cup {NoCommand}
      /\ settings \in Modes
  BY DEF IInv, TypeOK
<1>7. /\ stores' \in [Modes -> [Refs -> Copies]]
      /\ \A m \in Modes, q \in Refs : m # job.mode \/ q # r => stores'[m][q] = stores[m][q]
      /\ Missing(r) => stores' = stores
      /\ ~Missing(r) => stores'[job.mode][r] \in {stores[job.mode][r], stores[daemon.mode][r]}
      /\ ~Missing(r) /\ outcome = "ok" => stores'[job.mode][r] = stores[daemon.mode][r]
  <2>1. CASE Missing(r) \/ outcome = "before"
    BY <1>2, <1>6, <2>1 DEF CopyRecord, PutRecord
  <2>2. CASE ~Missing(r) /\ outcome # "before"
    <3>1. PICK v \in Copies : v = stores[daemon.mode][r]
      BY <1>4, <1>5, <1>6
    <3>2. stores' = [stores EXCEPT ![job.mode] = [stores[job.mode] EXCEPT ![r] = v]]
      BY <1>2, <2>2, <3>1 DEF CopyRecord, PutRecord
    <3> QED BY <1>4, <1>5, <1>6, <2>2, <3>1, <3>2
  <2> QED BY <2>1, <2>2
<1>8. excused' \subseteq Refs /\ excused \subseteq excused'
      /\ (Missing(r) /\ stores[job.mode][r] # "none" => r \in excused')
  BY <1>2, <1>5, <1>6
<1>9. Secrets' \subseteq Secrets /\ Secrets \subseteq Refs /\ \A q : Wanted(q)' = Wanted(q)
  BY <1>1, <1>8 DEF Secrets, Wanted, Refs, IInv, TypeOK
<1>10. r \in Secrets' => /\ stores[daemon.mode][r] = Wanted(r)
                         /\ Missing(r) => stores[job.mode][r] = Wanted(r)
  <2>1. SUFFICES ASSUME r \in Secrets'
                 PROVE  /\ stores[daemon.mode][r] = Wanted(r)
                        /\ Missing(r) => stores[job.mode][r] = Wanted(r)
    OBVIOUS
  <2>2. r \in Secrets /\ r \notin excused'
    BY <1>9, <2>1 DEF Secrets
  <2>3. stores[daemon.mode][r] = Wanted(r)
    BY <1>4, <2>2 DEF Complete
  <2>4. Missing(r) => stores[job.mode][r] = "none" /\ stores[daemon.mode][r] = "none"
    BY <1>8, <2>2 DEF Missing
  <2> QED BY <2>3, <2>4
<1>11. ASSUME NEW m \in Modes, Complete(m) PROVE Complete(m)'
  <2>1. SUFFICES ASSUME NEW q \in Secrets' PROVE stores'[m][q] = Wanted(q)
    BY <1>9 DEF Complete
  <2>2. q \in Refs /\ stores[m][q] = Wanted(q)
    BY <1>9, <1>11 DEF Complete
  <2>3. CASE m # job.mode \/ q # r
    BY <1>7, <2>2, <2>3
  <2>4. CASE m = job.mode /\ q = r
    <3>1. stores'[m][q] \in {stores[job.mode][r], stores[daemon.mode][r]}
      BY <1>7, <2>4
    <3>2. stores[daemon.mode][r] = Wanted(r) /\ stores[job.mode][r] = Wanted(r)
      BY <1>10, <2>1, <2>2, <2>4
    <3> QED BY <2>4, <3>1, <3>2
  <2> QED BY <2>3, <2>4
<1>12. outcome = "ok" /\ r \in Secrets' => stores'[job.mode][r] = Wanted(r)
  BY <1>7, <1>10
<1>13. /\ unsaved' \/ Complete(settings)'
       /\ app' => Complete(current)'
       /\ cmd.step = "save" => Complete(cmd.to)'
  <2>1. unsaved' \/ Complete(settings)'
    <3>1. unsaved \/ Complete(settings)
      BY DEF IInv, StoreInv
    <3>2. PICK m \in Modes : m = settings
      BY <1>6
    <3>3. unsaved \/ Complete(m)'
      BY <1>11, <3>1, <3>2
    <3> QED BY <1>1, <3>2, <3>3 DEF Complete
  <2>2. Complete(current)'
    <3>1. PICK m \in Modes : m = current /\ Complete(m)
      BY <1>4
    <3>2. Complete(m)'
      BY <1>11, <3>1
    <3> QED BY <1>1, <3>1, <3>2 DEF Complete
  <2>3. ASSUME cmd.step = "save" PROVE Complete(cmd.to)'
    <3>1. PICK m \in Modes : m = cmd.to /\ Complete(m)
      BY <1>6, <2>3, CommandFields DEF IInv, StoreInv
    <3>2. Complete(m)'
      BY <1>11, <3>1
    <3>3. cmd'.to = cmd.to
      <4>1. cmd' = cmd
        BY <1>2, <1>4, <2>3 DEF Answer
      <4> QED BY <4>1
    <3> QED BY <3>1, <3>2, <3>3 DEF Complete
  <2> QED BY <2>1, <2>2, <2>3
<1>14. CASE job' = NoJob /\ cmd' = cmd /\ ~Awaited
  <2>1. job'.name = "none" /\ job' \in Jobs \cup {NoJob}
    BY <1>14 DEF NoJob
  <2>2. TypeOK'
    BY <1>1, <1>7, <1>8, <1>14, <2>1 DEF IInv, TypeOK
  <2>3. CommandInv' /\ AppInv' /\ IdentityInv'
    BY <1>1, <1>14 DEF IInv, CommandInv, AppInv, IdentityInv, Settled, Runs, Saved, Serving
  <2>4. JobInv'
    BY <1>1, <1>14 DEF IInv, JobInv, Serving, Awaited
  <2>5. StoreInv'
    BY <1>13, <1>14, <2>1 DEF StoreInv, Awaited
  <2> QED BY <2>2, <2>3, <2>4, <2>5 DEF IInv
<1>15. CASE job' = NoJob /\ cmd' = NoCommand /\ Awaited
  <2>1. job'.name = "none" /\ job' \in Jobs \cup {NoJob} /\ cmd'.step = "idle" /\ cmd' \in Commands \cup {NoCommand}
    BY <1>15 DEF NoJob, NoCommand
  <2>2. TypeOK'
    BY <1>1, <1>7, <1>8, <2>1 DEF IInv, TypeOK
  <2>3. CommandInv' /\ AppInv' /\ IdentityInv'
    <3>1. Settled(current)'
      BY <1>1, <1>4, <1>15 DEF Settled, Runs
    <3>2. AppInv'
      BY <1>1, <1>4, <3>1 DEF IInv, AppInv
    <3> QED BY <1>1, <1>15, <3>2 DEF IInv, CommandInv, IdentityInv, Serving
  <2>4. JobInv'
    BY <1>1, <1>15, <2>1 DEF IInv, JobInv, Serving
  <2>5. StoreInv'
    BY <1>13, <2>1 DEF StoreInv
  <2> QED BY <2>2, <2>3, <2>4, <2>5 DEF IInv
<1>16. CASE job' = NoJob /\ cmd' = [cmd EXCEPT !.step = "save"] /\ Awaited /\ outcome = "ok" /\ job.todo = {r}
  <2>1. /\ cmd \in Commands /\ cmd # NoCommand /\ cmd.step = "migrating" /\ cmd.to = job.mode
        /\ cmd.name = "apply" /\ current = cmd.from /\ Settled(cmd.from)
    BY <1>4, <1>16, CommandFields DEF IInv, TypeOK, CommandInv, JobInv
  <2>2. /\ cmd' \in Commands /\ cmd' # NoCommand /\ cmd'.step = "save" /\ cmd'.name = cmd.name
        /\ cmd'.from = cmd.from /\ cmd'.to = cmd.to
    BY <1>16, <2>1, NextStep, ZenonT(40)
  <2>3. job'.name = "none" /\ job' \in Jobs \cup {NoJob}
    BY <1>16 DEF NoJob
  <2>4. TypeOK'
    BY <1>1, <1>7, <1>8, <2>2, <2>3 DEF IInv, TypeOK
  <2>5. CommandInv'
    <3>1. Settled(cmd.from)'
      BY <1>1, <2>1, <2>2 DEF Settled, Runs
    <3> QED BY <1>1, <1>4, <2>1, <2>2, <3>1 DEF CommandInv
  <2>6. AppInv'
    BY <1>1, <1>4, <2>2 DEF AppInv, IInv
  <2>7. JobInv'
    BY <1>1, <1>16, <2>2 DEF JobInv, IInv, Serving
  <2>8. IdentityInv'
    BY <1>1 DEF IdentityInv, IInv
  <2>9. Complete(cmd.to)'
    <3>1. SUFFICES ASSUME NEW q \in Secrets' PROVE stores'[job.mode][q] = Wanted(q)
      BY <1>9, <2>1, <2>2 DEF Complete
    <3>2. CASE q = r
      BY <1>12, <1>16, <3>1, <3>2
    <3>3. CASE q # r
      <4>1. q \in Secrets \ job.todo /\ q \in Refs
        BY <1>9, <1>16, <3>1, <3>3
      <4>2. stores[job.mode][q] = Wanted(q)
        BY <2>1, <4>1 DEF IInv, StoreInv
      <4> QED BY <1>4, <1>7, <3>3, <4>1, <4>2
    <3> QED BY <3>2, <3>3
  <2>10. StoreInv'
    BY <1>13, <2>2, <2>3, <2>9 DEF StoreInv
  <2> QED BY <2>4, <2>5, <2>6, <2>7, <2>8, <2>10 DEF IInv
<1>17. CASE job' = [job EXCEPT !.todo = job.todo \ {r}] /\ cmd' = cmd /\ outcome = "ok"
  <2>1. /\ job' \in Jobs /\ job'.name = "migrate" /\ job'.mode = job.mode /\ job'.todo = job.todo \ {r}
    <3>1. job.todo \ {r} \in SUBSET Refs
      BY <1>4
    <3> QED BY <1>1, <1>4, <1>17, <3>1 DEF Jobs
  <2>2. job' # NoJob
    BY <2>1 DEF NoJob
  <2>3. TypeOK'
    BY <1>1, <1>7, <1>8, <1>17, <2>1 DEF IInv, TypeOK
  <2>4. CommandInv' /\ AppInv' /\ IdentityInv'
    BY <1>1, <1>17 DEF IInv, CommandInv, AppInv, IdentityInv, Settled, Runs, Saved, Serving
  <2>5. JobInv'
    BY <1>1, <1>3, <1>17, <2>1 DEF IInv, JobInv, Serving
  <2>6. cmd.step = "migrating" => \A q \in Secrets' \ job'.todo : stores'[cmd.to][q] = Wanted(q)
    <3>1. SUFFICES ASSUME cmd.step = "migrating", NEW q \in Secrets', q \notin job.todo \/ q = r
                   PROVE  stores'[cmd.to][q] = Wanted(q)
      BY <2>1
    <3>2. cmd.to = job.mode
      BY <3>1 DEF IInv, JobInv
    <3>3. CASE q = r
      BY <1>12, <1>17, <3>1, <3>2, <3>3
    <3>4. CASE q # r
      <4>1. q \in Secrets \ job.todo /\ q \in Refs
        BY <1>9, <3>1, <3>4
      <4>2. stores[job.mode][q] = Wanted(q)
        BY <3>1, <3>2, <4>1 DEF IInv, StoreInv
      <4> QED BY <1>4, <1>7, <3>2, <3>4, <4>1, <4>2
    <3> QED BY <3>3, <3>4
  <2>7. StoreInv'
    BY <1>9, <1>13, <1>17, <2>1, <2>6 DEF StoreInv
  <2> QED BY <2>3, <2>4, <2>5, <2>7 DEF IInv
<1> QED BY <1>2, <1>14, <1>15, <1>16, <1>17 DEF Answer

\* A clean-up deletes one secret or ends.
LEMMA CleanupKeeps ==
    ASSUME IInv, cleanupSecretStore
    PROVE  IInv'
<1>1. Serving /\ job.name = "cleanup"
      /\ UNCHANGED <<routes, settings, daemon, waiting, app, current, monitor, intended, excused, unsaved>>
  BY DEF cleanupSecretStore, history
<1>2. PICK r \in ToRemove, outcome \in Outcomes :
        /\ PutRecord(job.mode, r, "none", outcome)
        /\ \/ job.todo = {r} /\ job' = NoJob /\ Answer(NoCommand)
           \/ job.todo # {r} /\ job' = [job EXCEPT !.todo = job.todo \ {r}] /\ UNCHANGED cmd
  BY DEF cleanupSecretStore, DeleteTarget
<1>3. job # NoJob
  BY <1>1, JobFields DEF IInv, TypeOK
<1>4. /\ job \in Jobs /\ job.mode \in Modes /\ job.todo \subseteq Refs
      /\ daemon.mode \in Modes /\ job.mode # daemon.mode
      /\ app /\ daemon.mode = current /\ Complete(daemon.mode)
      /\ Awaited <=> cmd.step = "cleaning"
      /\ Awaited => cmd \in Commands /\ Settled(current)
  BY <1>1, <1>3, AnsweredCommand
<1>5. r \in job.todo /\ r \in Refs
  BY <1>4 DEF ToRemove
<1>6. stores \in [Modes -> [Refs -> Copies]] /\ cmd \in Commands \cup {NoCommand} /\ settings \in Modes
  BY DEF IInv, TypeOK
<1>7. /\ stores' \in [Modes -> [Refs -> Copies]]
      /\ \A m \in Modes, q \in Refs : m # job.mode => stores'[m][q] = stores[m][q]
  <2>1. CASE outcome = "before"
    BY <1>2, <1>6, <2>1 DEF PutRecord
  <2>2. CASE outcome # "before"
    <3>1. stores' = [stores EXCEPT ![job.mode] = [stores[job.mode] EXCEPT ![r] = "none"]] /\ "none" \in Copies
      BY <1>2, <2>2 DEF PutRecord, Copies
    <3> QED BY <1>4, <1>5, <1>6, <3>1
  <2> QED BY <2>1, <2>2
<1>8. Secrets' = Secrets /\ Secrets \subseteq Refs /\ \A q : Wanted(q)' = Wanted(q)
  BY <1>1 DEF Secrets, Wanted, Refs, IInv, TypeOK
<1>9. TooLate => Secrets = {}
  BY <1>1, <1>8 DEF IInv, StoreInv, Secrets
<1>10. ASSUME NEW m \in Modes, Complete(m), ~TooLate => m = daemon.mode PROVE Complete(m)'
  <2>1. CASE TooLate
    BY <1>8, <1>9, <2>1 DEF Complete
  <2>2. CASE ~TooLate
    BY <1>4, <1>7, <1>8, <1>10, <2>2 DEF Complete
  <2> QED BY <2>1, <2>2
<1>11. ~TooLate => /\ current = daemon.mode /\ (unsaved \/ settings = daemon.mode)
                   /\ cmd.step = "save" => cmd.to = daemon.mode
  BY <1>1, OneStoreCounts
<1>12. /\ unsaved' \/ Complete(settings)'
       /\ app' => Complete(current)'
       /\ cmd' = cmd /\ cmd.step = "save" => Complete(cmd.to)'
  <2>1. unsaved' \/ Complete(settings)'
    <3>1. unsaved \/ Complete(settings)
      BY DEF IInv, StoreInv
    <3>2. PICK m \in Modes : m = settings
      BY <1>6
    <3>3. unsaved \/ Complete(m)'
      BY <1>10, <1>11, <3>1, <3>2
    <3> QED BY <1>1, <3>2, <3>3 DEF Complete
  <2>2. Complete(current)'
    <3>1. PICK m \in Modes : m = current /\ Complete(m)
      BY <1>4
    <3>2. Complete(m)'
      BY <1>10, <1>11, <3>1
    <3> QED BY <1>1, <3>1, <3>2 DEF Complete
  <2>3. ASSUME cmd' = cmd, cmd.step = "save" PROVE Complete(cmd.to)'
    <3>1. PICK m \in Modes : m = cmd.to /\ Complete(m)
      BY <1>6, <2>3, CommandFields DEF IInv, StoreInv
    <3>2. Complete(m)'
      BY <1>10, <1>11, <2>3, <3>1
    <3> QED BY <2>3, <3>1, <3>2 DEF Complete
  <2> QED BY <2>1, <2>2, <2>3
<1>13. CASE job' = NoJob /\ cmd' = cmd /\ ~Awaited
  <2>1. job'.name = "none" /\ job' \in Jobs \cup {NoJob}
    BY <1>13 DEF NoJob
  <2>2. TypeOK'
    BY <1>1, <1>7, <1>13, <2>1 DEF IInv, TypeOK
  <2>3. CommandInv' /\ AppInv' /\ IdentityInv'
    BY <1>1, <1>13 DEF IInv, CommandInv, AppInv, IdentityInv, Settled, Runs, Saved, Serving
  <2>4. JobInv'
    BY <1>1, <1>13 DEF IInv, JobInv, Serving, Awaited
  <2>5. StoreInv'
    BY <1>12, <1>13, <2>1 DEF StoreInv, Awaited
  <2> QED BY <2>2, <2>3, <2>4, <2>5 DEF IInv
<1>14. CASE job' = NoJob /\ cmd' = NoCommand /\ Awaited
  <2>1. job'.name = "none" /\ job' \in Jobs \cup {NoJob} /\ cmd'.step = "idle" /\ cmd' \in Commands \cup {NoCommand}
    BY <1>14 DEF NoJob, NoCommand
  <2>2. TypeOK'
    BY <1>1, <1>7, <2>1 DEF IInv, TypeOK
  <2>3. CommandInv' /\ AppInv' /\ IdentityInv'
    <3>1. Settled(current)'
      BY <1>1, <1>4, <1>14 DEF Settled, Runs
    <3>2. AppInv'
      BY <1>1, <1>4, <3>1 DEF IInv, AppInv
    <3> QED BY <1>1, <1>14, <3>2 DEF IInv, CommandInv, IdentityInv, Serving
  <2>4. JobInv'
    BY <1>1, <1>14, <2>1 DEF IInv, JobInv, Serving
  <2>5. StoreInv'
    BY <1>12, <2>1 DEF StoreInv
  <2> QED BY <2>2, <2>3, <2>4, <2>5 DEF IInv
<1>15. CASE job' = [job EXCEPT !.todo = job.todo \ {r}] /\ cmd' = cmd
  <2>1. /\ job' \in Jobs /\ job'.name = "cleanup" /\ job'.mode = job.mode
    <3>1. job.todo \ {r} \in SUBSET Refs
      BY <1>4
    <3> QED BY <1>1, <1>4, <1>15, <3>1 DEF Jobs
  <2>2. TypeOK'
    BY <1>1, <1>7, <1>15, <2>1 DEF IInv, TypeOK
  <2>3. CommandInv' /\ AppInv' /\ IdentityInv'
    BY <1>1, <1>15 DEF IInv, CommandInv, AppInv, IdentityInv, Settled, Runs, Saved, Serving
  <2>4. JobInv'
    BY <1>1, <1>3, <1>15, <2>1 DEF IInv, JobInv, Serving
  <2>5. cmd.step # "migrating"
    BY <1>1 DEF IInv, JobInv
  <2>6. TooLate' <=> TooLate
    BY <1>15 DEF TooLate
  <2>7. StoreInv'
    BY <1>1, <1>12, <1>15, <2>5, <2>6 DEF StoreInv, IInv
  <2> QED BY <2>2, <2>3, <2>4, <2>7 DEF IInv
<1> QED BY <1>2, <1>13, <1>14, <1>15 DEF Answer

-----------------------------------------------------------------------------
(* The life of airlockd.                                                   *)

\* The daemon reads its store and serves.
LEMMA StartKeeps ==
    ASSUME IInv, runWithConfig
    PROVE  IInv'
<1> DEFINE D == daemon.mode
<1>1. /\ daemon.state = "starting" /\ daemon' = [daemon EXCEPT !.state = "up"]
      /\ intended' = intended \cup {Identity}
      /\ UNCHANGED <<routes, settings, job, waiting, app, current, cmd, monitor, excused, unsaved>>
  BY DEF runWithConfig, desktop
<1>2. /\ daemon # NoDaemon /\ ~Serving /\ D \in Modes /\ daemon \in [state: {"starting", "up"}, mode: Modes]
  BY <1>1, DaemonFields DEF IInv, TypeOK, Serving
<1>3. /\ daemon' \in [state: {"starting", "up"}, mode: Modes] /\ daemon'.state = "up" /\ daemon'.mode = D
      /\ daemon' # NoDaemon /\ Serving'
  <2>1. daemon' \in [state: {"starting", "up"}, mode: Modes] /\ daemon'.state = "up" /\ daemon'.mode = D
    BY <1>1, <1>2
  <2> QED BY <2>1 DEF NoDaemon, Serving
<1>4. job = NoJob /\ waiting = {} /\ job.name = "none" /\ cmd.step # "migrating" /\ cmd.step # "cleaning"
  BY <1>2, JobFields DEF IInv, TypeOK, JobInv
<1>5. app /\ Complete(D) /\ (D # current => cmd.step \in {"wait", "adopt"} /\ ~unsaved /\ settings = D)
  BY <1>2, CoreComplete
<1>6. stores \in [Modes -> [Refs -> Copies]] /\ Identity \in Refs /\ settings \in Modes
      /\ intended \subseteq Refs /\ cmd \in Commands \cup {NoCommand}
  BY DEF IInv, TypeOK, Refs
<1> HIDE DEF D
<1>7. /\ stores' \in [Modes -> [Refs -> Copies]]
      /\ \A m \in Modes, q \in Refs : m # D \/ q # Identity => stores'[m][q] = stores[m][q]
      /\ stores[D][Identity] # "none" => stores' = stores
      /\ stores[D][Identity] = "none" /\ Identity \notin intended => stores'[D][Identity] = "latest"
  <2>1. CASE stores[D][Identity] = "none"
    <3>1. PICK v \in Copies : v = IF Identity \in intended THEN "stale" ELSE "latest"
      BY DEF Copies
    <3>2. stores' = [stores EXCEPT ![D] = [stores[D] EXCEPT ![Identity] = v]]
      BY <2>1, <3>1 DEF runWithConfig, PutSSHHostIdentity, PutRecord, ResolveSSHHostIdentity, D
    <3> QED BY <1>2, <1>6, <2>1, <3>1, <3>2
  <2>2. CASE stores[D][Identity] # "none"
    BY <1>6, <2>2 DEF runWithConfig, ResolveSSHHostIdentity, D
  <2> QED BY <2>1, <2>2
<1>8. Secrets' = Secrets /\ Secrets \subseteq Refs /\ \A q : q # Identity => Wanted(q)' = Wanted(q)
  BY <1>1 DEF Secrets, Wanted, Refs, IInv, TypeOK
<1>9. Wanted(Identity)' = "latest"
  BY <1>1 DEF Wanted
<1>10. Identity \in Secrets => stores[D][Identity] = Wanted(Identity)
  BY <1>5 DEF Complete
<1>11. ASSUME NEW m \in Modes, Complete(m), Identity \notin intended => m = D PROVE Complete(m)'
  <2>1. SUFFICES ASSUME NEW q \in Secrets PROVE stores'[m][q] = Wanted(q)'
    BY <1>8 DEF Complete
  <2>2. q \in Refs /\ stores[m][q] = Wanted(q)
    BY <1>8, <1>11 DEF Complete
  <2>3. CASE q # Identity
    BY <1>7, <1>8, <2>2, <2>3
  <2>4. CASE q = Identity /\ Identity \in intended
    <3>1. stores[D][Identity] = "latest" /\ stores[m][q] = "latest"
      BY <1>10, <2>2, <2>4 DEF Wanted
    <3> QED BY <1>7, <1>9, <2>4, <3>1
  <2>5. CASE q = Identity /\ Identity \notin intended
    <3>1. stores[D][Identity] = "none"
      BY <1>10, <2>5 DEF Wanted
    <3> QED BY <1>7, <1>9, <1>11, <2>5, <3>1
  <2> QED BY <2>3, <2>4, <2>5
<1>12. Identity \notin intended =>
         settings = D /\ current = D /\ (cmd.step = "save" => cmd.to = D)
  <2>1. SUFFICES ASSUME Identity \notin intended
                 PROVE  settings = D /\ current = D /\ (cmd.step = "save" => cmd.to = D)
    OBVIOUS
  <2>2. settings = D /\ current = D
    BY <1>2, <1>5, <2>1 DEF IInv, IdentityInv, D
  <2>3. cmd.step = "save" => cmd # NoCommand /\ cmd.from = cmd.to /\ current = cmd.from
    BY <1>6, <2>1, CommandFields DEF IInv, IdentityInv, CommandInv
  <2> QED BY <2>2, <2>3
<1>13. TypeOK'
  BY <1>1, <1>3, <1>6, <1>7 DEF IInv, TypeOK
<1>14. CommandInv' /\ AppInv'
  BY <1>1, <1>2, <1>3 DEF IInv, CommandInv, AppInv, Settled, Runs, Saved, D
<1>15. JobInv'
  BY <1>1, <1>4 DEF JobInv
<1>16. IdentityInv'
  BY <1>1 DEF IdentityInv
<1>17. StoreInv'
  <2>1. unsaved' \/ Complete(settings)'
    <3>1. unsaved \/ Complete(settings)
      BY DEF IInv, StoreInv
    <3>2. PICK m \in Modes : m = settings
      BY <1>6
    <3>3. unsaved \/ Complete(m)'
      BY <1>11, <1>12, <3>1, <3>2
    <3> QED BY <1>1, <3>2, <3>3 DEF Complete
  <2>2. Complete(current)'
    <3>1. PICK m \in Modes : m = current /\ Complete(m)
      BY <1>5 DEF IInv, StoreInv, AppInv
    <3>2. Complete(m)'
      BY <1>11, <1>12, <3>1
    <3> QED BY <1>1, <3>1, <3>2 DEF Complete
  <2>3. ASSUME cmd.step = "save" PROVE Complete(cmd.to)'
    <3>1. PICK m \in Modes : m = cmd.to /\ Complete(m)
      BY <1>6, <2>3, CommandFields DEF IInv, StoreInv
    <3>2. Complete(m)'
      BY <1>11, <1>12, <2>3, <3>1
    <3> QED BY <1>1, <3>1, <3>2 DEF Complete
  <2> QED BY <1>1, <1>4, <2>1, <2>2, <2>3 DEF StoreInv
<1> QED BY <1>13, <1>14, <1>15, <1>16, <1>17 DEF IInv

\* airlockd is gone: whoever waits for an answer has an error, and nothing on disk changes.
LEMMA ExitKeeps ==
    ASSUME IInv, Gone, Answer(NoCommand), UNCHANGED <<disk, app, current, history>>, monitor' \in {"off", "waiting"}
    PROVE  IInv'
<1>1. /\ UNCHANGED <<stores, routes, settings, app, current, intended, excused, unsaved>>
      /\ daemon' = NoDaemon /\ job' = NoJob /\ waiting' = {}
  BY DEF disk, history, Gone
<1>2. job'.name = "none" /\ ~Serving' /\ NoCommand.step = "idle"
  BY <1>1 DEF NoJob, Serving, NoDaemon, NoCommand
<1>3. (cmd' = cmd /\ ~Awaited) \/ (cmd' = NoCommand /\ Awaited)
  BY DEF Answer
<1>4. TypeOK'
  BY <1>1, <1>3 DEF IInv, TypeOK
<1>5. \A m : Complete(m)' <=> Complete(m)
  BY <1>1 DEF Complete, Secrets, Wanted
<1>6. CASE cmd' = cmd /\ ~Awaited
  <2>1. CommandInv' /\ AppInv' /\ JobInv' /\ IdentityInv'
    BY <1>1, <1>2, <1>6 DEF IInv, CommandInv, AppInv, JobInv, IdentityInv, Settled, Runs, Saved, Awaited
  <2>2. StoreInv'
    BY <1>1, <1>2, <1>5, <1>6 DEF IInv, StoreInv, Awaited
  <2> QED BY <1>4, <2>1, <2>2 DEF IInv
<1>7. CASE cmd' = NoCommand /\ Awaited
  <2>1. cmd # NoCommand
    BY <1>2, <1>7 DEF Awaited
  <2>2. app /\ Settled(current)
    BY <1>7, <2>1 DEF IInv, CommandInv, Awaited
  <2>3. Settled(current)'
    BY <1>1, <2>2 DEF Settled, Runs
  <2>4. CommandInv' /\ AppInv' /\ JobInv' /\ IdentityInv'
    BY <1>1, <1>2, <1>7, <2>2, <2>3 DEF IInv, CommandInv, AppInv, JobInv, IdentityInv
  <2>5. StoreInv'
    BY <1>1, <1>2, <1>5, <1>7 DEF IInv, StoreInv
  <2> QED BY <1>4, <2>4, <2>5 DEF IInv
<1> QED BY <1>3, <1>6, <1>7

-----------------------------------------------------------------------------
(* The desktop application.                                                *)

\* A step that moves the command on, or ends it, and leaves the stores and the history
\* of the secrets alone.
LEMMA CommandMoves ==
    ASSUME IInv, UNCHANGED <<stores, routes, intended, excused>>,
           cmd' \in Commands \cup {NoCommand}, settings' \in Modes, unsaved' \in BOOLEAN, app' \in BOOLEAN,
           current' \in Modes \cup {"none"}, monitor' \in {"off", "waiting"},
           daemon' \in [state: {"starting", "up"}, mode: Modes] \cup {NoDaemon},
           job' \in Jobs \cup {NoJob}, waiting' \subseteq Requests,
           CommandInv', AppInv', JobInv', IdentityInv',
           unsaved' \/ Complete(settings'), app' => Complete(current'),
           cmd'.step = "save" => Complete(cmd'.to),
           cmd'.step = "migrating" => Secrets \subseteq job'.todo,
           job'.name = "cleanup" => ~TooLate' \/ (TooLate /\ job.name = "cleanup")
    PROVE  IInv'
<1>1. \A m : Complete(m)' <=> Complete(m)
  BY DEF Complete, Secrets, Wanted
<1>2. Secrets' = Secrets
  BY DEF Secrets
<1>3. TypeOK'
  BY DEF IInv, TypeOK
<1>4. unsaved' \/ Complete(settings)'
  BY DEF Complete, Secrets, Wanted
<1>5. app' => Complete(current)'
  BY DEF Complete, Secrets, Wanted
<1>6. cmd'.step = "save" => Complete(cmd.to)'
  BY DEF Complete, Secrets, Wanted
<1>7. StoreInv'
  BY <1>2, <1>4, <1>5, <1>6 DEF StoreInv, IInv
<1> QED BY <1>3, <1>7 DEF IInv

\* Beginning a command, with airlockd as it is.
LEMMA BeginKeeps ==
    ASSUME IInv, (\E mode \in Modes : ApplySettings(mode)) \/ restart_local_core
    PROVE  IInv'
<1>1. /\ app /\ cmd = NoCommand
      /\ UNCHANGED <<stores, routes, settings, daemon, job, waiting, app, current, monitor, intended, excused, unsaved>>
  BY DEF ApplySettings, restart_local_core, disk, core, history
<1>2. PICK name \in {"apply", "restart"}, step \in {"migrate", "save", "stop"}, to \in Modes :
        /\ cmd' = [name |-> name, step |-> step, from |-> current, to |-> to]
        /\ step = "migrate" => name = "apply" /\ current # to
        /\ step = "save" => name = "apply" /\ current = to
        /\ step = "stop" => name = "restart" /\ current = to
  <2>1. current \in Modes
    BY <1>1 DEF IInv, AppInv
  <2>2. ASSUME NEW mode \in Modes, ApplySettings(mode)
        PROVE  \E name \in {"apply", "restart"}, step \in {"migrate", "save", "stop"}, to \in Modes :
                 /\ cmd' = [name |-> name, step |-> step, from |-> current, to |-> to]
                 /\ step = "migrate" => name = "apply" /\ current # to
                 /\ step = "save" => name = "apply" /\ current = to
                 /\ step = "stop" => name = "restart" /\ current = to
    BY <2>1, <2>2 DEF ApplySettings
  <2>3. ASSUME restart_local_core
        PROVE  cmd' = [name |-> "restart", step |-> "stop", from |-> current, to |-> current]
    BY <2>3 DEF restart_local_core
  <2> QED BY <2>1, <2>2, <2>3
<1>3. /\ current \in Modes /\ Settled(current) /\ settings \in Modes /\ unsaved \in BOOLEAN /\ app \in BOOLEAN
      /\ monitor \in {"off", "waiting"} /\ waiting \subseteq Requests
      /\ daemon \in [state: {"starting", "up"}, mode: Modes] \cup {NoDaemon}
      /\ job \in Jobs \cup {NoJob}
  BY <1>1 DEF IInv, TypeOK, AppInv
<1>4. /\ cmd' \in Commands /\ cmd'.name = name /\ cmd'.step = step /\ cmd'.from = current /\ cmd'.to = to
  BY <1>2, <1>3 DEF Commands
<1>5. cmd' # NoCommand
  BY <1>4 DEF NoCommand
<1>6. CommandInv'
  <2>1. Settled(current)' /\ Runs(current)' /\ current' = current
    BY <1>1, <1>3 DEF Settled, Runs
  <2>2. step \in {"save", "stop"} => Settled(to)' /\ to = current
    BY <1>2, <2>1
  <2>3. Settled(cmd.from)' /\ Runs(cmd.from)'
    BY <1>4, <2>1 DEF Settled, Runs
  <2>4. step = "stop" => Saved'
    BY <1>2, <1>4, <2>2 DEF Settled, Saved
  <2> QED BY <1>1, <1>2, <1>4, <2>1, <2>3, <2>4 DEF CommandInv
<1>7. AppInv' /\ IdentityInv'
  BY <1>1, <1>2, <1>3, <1>4, <1>5 DEF IInv, AppInv, IdentityInv, Serving
<1>8. JobInv'
  BY <1>1, <1>4 DEF IInv, JobInv, Serving
<1>9. ~TooLate'
  BY <1>2, <1>4 DEF TooLate
<1>10. /\ unsaved \/ Complete(settings)
       /\ Complete(current)
       /\ step = "save" => Complete(to)
  BY <1>1, <1>2 DEF IInv, StoreInv
<1> QED BY <1>1, <1>3, <1>4, <1>6, <1>7, <1>8, <1>9, <1>10, CommandMoves

\* The facts every step of the command thread starts from.
LEMMA CommandContext ==
    ASSUME IInv
    PROVE  /\ settings \in Modes /\ unsaved \in BOOLEAN /\ app \in BOOLEAN /\ current \in Modes \cup {"none"}
           /\ monitor \in {"off", "waiting"} /\ waiting \subseteq Requests
           /\ daemon \in [state: {"starting", "up"}, mode: Modes] \cup {NoDaemon}
           /\ job \in Jobs \cup {NoJob} /\ cmd \in Commands \cup {NoCommand}
           /\ NoCommand.step = "idle" /\ NoCommand.name = "none" /\ NoJob.name = "none"
           /\ NoDaemon.state = "none" /\ NoDaemon.mode = "none"
           /\ unsaved \/ Complete(settings)
           /\ app => Complete(current) /\ current \in Modes
BY DEF IInv, TypeOK, StoreInv, AppInv, NoCommand, NoJob, NoDaemon

\* The three requests, and the mode airlockd is asked to copy to or to remove from.
LEMMA AskedRequest ==
    ASSUME IInv, Asking
    PROVE  /\ cmd \in Commands /\ cmd # NoCommand /\ app /\ Settled(current)
           /\ Asked \in Requests
           /\ cmd.step = "migrate" => Asked.name = "migrate" /\ Asked.mode = cmd.to
           /\ cmd.step # "migrate" => Asked.name = "cleanup"
<1>1. /\ cmd \in Commands /\ cmd # NoCommand /\ cmd.to \in Modes /\ cmd.from \in Modes
      /\ cmd.step \in {"migrate", "abandon", "clean"} /\ app
  BY CommandFields DEF IInv, TypeOK, Asking
<1>2. Settled(current)
  BY <1>1 DEF IInv, CommandInv
<1>3. CASE cmd.step = "migrate"
  BY <1>1, <1>2, <1>3 DEF Asked, Requests
<1>4. CASE cmd.step = "abandon"
  BY <1>1, <1>2, <1>4 DEF Asked, Requests
<1>5. CASE cmd.step = "clean"
  BY <1>1, <1>2, <1>5 DEF Asked, Requests
<1> QED BY <1>1, <1>3, <1>4, <1>5

\* The application asks for a migration or a clean-up.
LEMMA RequestKeeps ==
    ASSUME IInv, Request
    PROVE  IInv'
<1>1. /\ Asking /\ Serving /\ Asked.mode # daemon.mode /\ job = NoJob
      /\ job' = [name |-> Asked.name, mode |-> Asked.mode, todo |-> routes \cup {Proxy, Identity}]
      /\ UNCHANGED <<stores, routes, settings, daemon, waiting, app, current, monitor, intended, excused, unsaved>>
  BY DEF Request, Accepted, Take, disk, history
<1>2. /\ cmd \in Commands /\ cmd # NoCommand /\ app /\ Settled(current)
      /\ Asked \in Requests
      /\ cmd.step = "migrate" => Asked.name = "migrate" /\ Asked.mode = cmd.to
      /\ cmd.step # "migrate" => Asked.name = "cleanup"
  BY <1>1, AskedRequest
<1>3. PICK step \in {"migrating", "cleaning"} :
        step = (IF cmd.step = "migrate" THEN "migrating" ELSE "cleaning") /\ cmd' = [cmd EXCEPT !.step = step]
  BY DEF Request, Goto
<1>4. /\ cmd' \in Commands /\ cmd' # NoCommand /\ cmd'.step = step /\ cmd'.name = cmd.name
      /\ cmd'.from = cmd.from /\ cmd'.to = cmd.to
  <2>1. CASE step = "migrating"
    <3>1. cmd' = [cmd EXCEPT !.step = "migrating"]
      BY <1>3, <2>1
    <3> QED BY <1>2, <2>1, <3>1, NextStep, ZenonT(40)
  <2>2. CASE step = "cleaning"
    <3>1. cmd' = [cmd EXCEPT !.step = "cleaning"]
      BY <1>3, <2>2
    <3> QED BY <1>2, <2>2, <3>1, NextStep, ZenonT(40)
  <2> QED BY <2>1, <2>2
<1>5. /\ job' \in Jobs /\ job'.name = Asked.name /\ job'.mode = Asked.mode /\ job'.todo = routes \cup {Proxy, Identity}
  <2>1. routes \cup {Proxy, Identity} \in SUBSET Refs /\ Asked.name \in {"migrate", "cleanup"} /\ Asked.mode \in Modes
    BY <1>2 DEF IInv, TypeOK, Refs, Requests
  <2> QED BY <1>1, <2>1 DEF Jobs
<1>6. Settled(current)' /\ (cmd.step = "migrate" => Settled(cmd.from)' /\ current = cmd.from)
  <2>1. cmd.step = "migrate" => Settled(cmd.from) /\ current = cmd.from
    BY <1>2 DEF IInv, CommandInv
  <2> QED BY <1>1, <1>2, <1>4, <2>1 DEF Settled, Runs
<1>7. CommandInv'
  BY <1>1, <1>2, <1>3, <1>4, <1>6 DEF IInv, CommandInv, Asking
<1>8. AppInv' /\ IdentityInv'
  BY <1>1, <1>2, <1>4 DEF IInv, AppInv, IdentityInv
<1>9. JobInv'
  BY <1>1, <1>2, <1>3, <1>4, <1>5 DEF IInv, JobInv, Serving
<1>10. ~TooLate' /\ cmd'.step # "save" /\ Secrets \subseteq job'.todo
  BY <1>4, <1>5 DEF TooLate, Secrets
<1> QED BY <1>1, <1>4, <1>5, <1>7, <1>8, <1>9, <1>10, CommandContext, CommandMoves

\* The command ends where it is, with nothing of it waited for.
LEMMA EndKeeps ==
    ASSUME IInv, app, Settled(current), cmd' = NoCommand,
           UNCHANGED <<stores, routes, settings, daemon, job, app, current, monitor, intended, excused, unsaved>>,
           waiting' \subseteq Requests, \A q \in waiting' : q \in waiting \/ (Serving /\ q.mode # daemon.mode)
    PROVE  IInv'
<1>1. cmd'.step = "idle" /\ cmd'.name = "none"
  BY CommandContext
<1>2. Settled(current)'
  BY DEF Settled, Runs
<1>3. CommandInv' /\ AppInv' /\ IdentityInv'
  BY <1>2 DEF IInv, CommandInv, AppInv, IdentityInv, Serving
<1>4. JobInv'
  <2>1. \A q \in waiting : Serving /\ q.mode # daemon.mode
    BY DEF IInv, JobInv
  <2>2. \A q \in waiting' : Serving' /\ q.mode # daemon'.mode
    BY <2>1 DEF Serving
  <2>3. job' # NoJob => job'.mode # daemon'.mode /\ Serving'
    BY DEF IInv, JobInv, Serving
  <2> QED BY <1>1, <2>2, <2>3 DEF JobInv
<1>5. ~TooLate'
  BY <1>1 DEF TooLate
<1> QED BY <1>1, <1>3, <1>4, <1>5, CommandContext, CommandMoves

\* The request fails or is given up, and the daemon may still run it.
LEMMA UnansweredKeeps ==
    ASSUME IInv, RequestFails \/ RequestTimesOut
    PROVE  IInv'
<1>1. /\ app /\ cmd' = NoCommand /\ (Asking \/ Awaited)
      /\ UNCHANGED <<stores, routes, settings, daemon, job, app, current, monitor, intended, excused, unsaved>>
      /\ waiting' = waiting \/ (Asking /\ Accepted /\ waiting' = waiting \cup {Asked})
  BY DEF RequestFails, RequestTimesOut, Asking, disk, core, history
<1>2. Settled(current)
  <2>1. CASE Asking
    BY <2>1, AskedRequest
  <2>2. CASE Awaited
    <3>1. cmd # NoCommand
      BY <2>2, CommandContext DEF Awaited
    <3> QED BY <2>2, <3>1 DEF IInv, CommandInv, Awaited
  <2> QED BY <1>1, <2>1, <2>2
<1>3. waiting' \subseteq Requests /\ \A q \in waiting' : q \in waiting \/ (Serving /\ q.mode # daemon.mode)
  BY <1>1, AskedRequest, CommandContext DEF Accepted
<1> QED BY <1>1, <1>2, <1>3, EndKeeps

\* A command under way.
LEMMA CommandAt ==
    ASSUME IInv, cmd.step # "idle"
    PROVE  /\ cmd \in Commands /\ cmd # NoCommand
           /\ cmd.from \in Modes /\ cmd.to \in Modes /\ cmd.name \in {"apply", "restart"}
BY CommandFields DEF IInv, TypeOK

\* The application saves the new mode.
LEMMA SaveKeeps ==
    ASSUME IInv, Save
    PROVE  IInv'
<1>1. UNCHANGED <<stores, routes, daemon, job, waiting, app, current, monitor, intended, excused>>
  BY DEF Save, core
<1>2. /\ cmd \in Commands /\ cmd # NoCommand /\ app /\ cmd.step = "save"
      /\ cmd.from \in Modes /\ cmd.to \in Modes /\ cmd.name \in {"apply", "restart"}
  BY CommandAt DEF Save, At
<1>3. cmd.name = "apply" /\ current = cmd.from /\ Settled(cmd.from) /\ Complete(cmd.to)
  BY <1>2 DEF IInv, CommandInv, StoreInv
<1>4. CASE settings' = cmd.to /\ unsaved' = FALSE /\ Goto("stop")
  <2>1. /\ cmd' \in Commands /\ cmd' # NoCommand /\ cmd'.step = "stop" /\ cmd'.name = cmd.name
        /\ cmd'.from = cmd.from /\ cmd'.to = cmd.to
    BY <1>2, <1>4, NextStep, ZenonT(40) DEF Goto
  <2>2. Runs(cmd.from)' /\ Saved'
    BY <1>1, <1>3, <1>4, <2>1 DEF Settled, Runs, Saved
  <2>3. CommandInv'
    BY <1>1, <1>2, <1>3, <2>1, <2>2 DEF CommandInv
  <2>4. AppInv'
    BY <1>1, <1>2, <2>1 DEF IInv, AppInv
  <2>5. JobInv'
    BY <1>1, <2>1 DEF IInv, JobInv, Serving
  <2>6. IdentityInv'
    BY <1>1, <1>2, <1>3, <1>4, <2>1 DEF IInv, IdentityInv, Serving
  <2>7. job'.name = "cleanup" => ~TooLate' \/ (TooLate /\ job.name = "cleanup")
    BY <1>1, <1>2, <2>1 DEF TooLate
  <2> QED BY <1>1, <1>2, <1>3, <1>4, <2>1, <2>3, <2>4, <2>5, <2>6, <2>7, CommandContext, CommandMoves
<1>5. CASE StoreChanged /\ cmd' = [cmd EXCEPT !.step = "abandon"] /\ UNCHANGED <<settings, unsaved>>
  <2>1. /\ cmd' \in Commands /\ cmd' # NoCommand /\ cmd'.step = "abandon" /\ cmd'.name = cmd.name
        /\ cmd'.from = cmd.from /\ cmd'.to = cmd.to
    BY <1>2, <1>5, NextStep, ZenonT(40)
  <2>2. Settled(cmd.from)'
    BY <1>1, <1>3, <1>5, <2>1 DEF Settled, Runs
  <2>3. CommandInv'
    BY <1>1, <1>2, <1>3, <1>5, <2>1, <2>2 DEF CommandInv, StoreChanged
  <2>4. AppInv'
    BY <1>1, <1>2, <2>1 DEF IInv, AppInv
  <2>5. JobInv'
    BY <1>1, <2>1 DEF IInv, JobInv, Serving
  <2>6. IdentityInv'
    BY <1>1, <1>2, <1>3, <1>5, <2>1 DEF IInv, IdentityInv, Serving
  <2>7. ~TooLate'
    BY <2>1 DEF TooLate
  <2> QED BY <1>1, <1>2, <1>5, <2>1, <2>3, <2>4, <2>5, <2>6, <2>7, CommandContext, CommandMoves
<1>6. CASE cmd' = NoCommand /\ UNCHANGED <<settings, unsaved>>
  <2>1. Settled(current)
    BY <1>3
  <2> QED BY <1>1, <1>2, <1>6, <2>1, CommandContext, EndKeeps
<1> QED BY <1>4, <1>5, <1>6 DEF Save

\* It stops the daemon.
LEMMA StopKeeps ==
    ASSUME IInv, StopDaemon
    PROVE  IInv'
<1>1. /\ UNCHANGED <<stores, routes, settings, app, current, monitor, intended, excused, unsaved>>
      /\ daemon' = NoDaemon /\ job' = NoJob /\ waiting' = {} /\ Goto("start")
  BY DEF StopDaemon, Gone, disk, history
<1>2. /\ cmd \in Commands /\ cmd # NoCommand /\ app /\ cmd.step = "stop"
      /\ cmd.from \in Modes /\ cmd.to \in Modes /\ cmd.name \in {"apply", "restart"}
  BY CommandAt DEF StopDaemon, At
<1>3. /\ cmd' \in Commands /\ cmd' # NoCommand /\ cmd'.step = "start" /\ cmd'.name = cmd.name
      /\ cmd'.from = cmd.from /\ cmd'.to = cmd.to
  BY <1>1, <1>2, NextStep, ZenonT(40) DEF Goto
<1>4. Saved' /\ current = cmd.from
  BY <1>1, <1>2, <1>3 DEF IInv, CommandInv, Saved
<1>5. CommandInv'
  BY <1>1, <1>2, <1>3, <1>4 DEF IInv, CommandInv
<1>6. AppInv' /\ JobInv' /\ IdentityInv'
  BY <1>1, <1>2, <1>3, CommandContext DEF IInv, AppInv, JobInv, IdentityInv, Serving
<1> QED BY <1>1, <1>2, <1>3, <1>5, <1>6, CommandContext, CommandMoves

\* After a failed start: back to the previous settings, or to the end.
LEMMA FailedStartKeeps ==
    ASSUME IInv, StartFailed, daemon' = NoDaemon, job' = NoJob, waiting' = {},
           UNCHANGED <<stores, routes, settings, app, current, monitor, intended, excused, unsaved>>,
           app, cmd.step \in {"start", "wait", "restart", "rewait"}
    PROVE  IInv'
<1>1. /\ cmd \in Commands /\ cmd # NoCommand /\ cmd.from \in Modes /\ cmd.to \in Modes
      /\ cmd.name \in {"apply", "restart"}
  BY CommandFields, CommandContext
<1>2. CASE cmd.name = "apply" /\ cmd.step \in {"start", "wait"}
  <2>1. /\ cmd' \in Commands /\ cmd' # NoCommand /\ cmd'.step = "unsave" /\ cmd'.name = cmd.name
        /\ cmd'.from = cmd.from /\ cmd'.to = cmd.to
    BY <1>1, <1>2, NextStep, ZenonT(40) DEF StartFailed
  <2>2. Saved' /\ current = cmd.from
    BY <1>1, <1>2, <2>1 DEF IInv, CommandInv, Saved
  <2>3. CommandInv'
    BY <1>1, <1>2, <2>1, <2>2 DEF IInv, CommandInv
  <2>4. AppInv' /\ JobInv' /\ IdentityInv'
    BY <1>1, <1>2, <2>1, CommandContext DEF IInv, AppInv, JobInv, IdentityInv, Serving
  <2> QED BY <1>1, <2>1, <2>3, <2>4, CommandContext, CommandMoves
<1>3. CASE ~(cmd.name = "apply" /\ cmd.step \in {"start", "wait"})
  <2>1. cmd' = NoCommand /\ cmd'.step = "idle"
    BY <1>3, CommandContext DEF StartFailed
  <2>2. unsaved \/ settings = current
    BY <1>1, <1>3 DEF IInv, CommandInv, Saved, Settled
  <2>3. Settled(current)'
    BY <2>2 DEF Settled, Runs
  <2>4. CommandInv' /\ AppInv' /\ JobInv' /\ IdentityInv'
    BY <2>1, <2>3, CommandContext DEF IInv, CommandInv, AppInv, JobInv, IdentityInv, Serving
  <2> QED BY <2>1, <2>4, CommandContext, CommandMoves
<1> QED BY <1>2, <1>3

\* It starts one on the saved mode.
LEMMA StartDaemonKeeps ==
    ASSUME IInv, StartDaemon
    PROVE  IInv'
<1>1. UNCHANGED <<stores, routes, settings, job, waiting, app, current, monitor, intended, excused, unsaved>>
  BY DEF StartDaemon, disk, history
<1>2. app /\ cmd.step \in {"start", "restart"}
  BY DEF StartDaemon, At
<1>3. /\ cmd \in Commands /\ cmd # NoCommand /\ cmd.from \in Modes /\ cmd.to \in Modes
      /\ cmd.name \in {"apply", "restart"}
  BY <1>2, CommandFields, CommandContext
<1>4. daemon = NoDaemon /\ job = NoJob /\ waiting = {} /\ current = cmd.from
  BY <1>2, <1>3 DEF IInv, CommandInv, JobInv
<1>5. CASE cmd.step = "start" /\ Spawn(cmd.to) /\ Goto("wait")
  <2>1. /\ cmd' \in Commands /\ cmd' # NoCommand /\ cmd'.step = "wait" /\ cmd'.name = cmd.name
        /\ cmd'.from = cmd.from /\ cmd'.to = cmd.to
    BY <1>3, <1>5, NextStep, ZenonT(40) DEF Goto
  <2>2. daemon' \in [state: {"starting", "up"}, mode: Modes] /\ daemon'.mode = cmd.to /\ daemon'.state = "starting"
    BY <1>3, <1>5 DEF Spawn
  <2>3. Runs(cmd.to)' /\ Saved'
    BY <1>1, <1>3, <1>5, <2>1, <2>2 DEF IInv, CommandInv, Saved, Runs
  <2>4. CommandInv'
    BY <1>1, <1>2, <1>3, <1>4, <1>5, <2>1, <2>3 DEF IInv, CommandInv
  <2>5. AppInv' /\ JobInv'
    BY <1>1, <1>2, <1>4, <2>1 DEF IInv, AppInv, JobInv
  <2>6. IdentityInv'
    BY <1>1, <1>2, <1>3, <1>4, <1>5, <2>1, <2>2 DEF IInv, IdentityInv, Serving
  <2> QED BY <1>1, <1>4, <2>1, <2>2, <2>4, <2>5, <2>6, CommandContext, CommandMoves
<1>6. CASE cmd.step = "restart" /\ Spawn(cmd.from) /\ Goto("rewait")
  <2>1. /\ cmd' \in Commands /\ cmd' # NoCommand /\ cmd'.step = "rewait" /\ cmd'.name = cmd.name
        /\ cmd'.from = cmd.from /\ cmd'.to = cmd.to
    BY <1>3, <1>6, NextStep, ZenonT(40) DEF Goto
  <2>2. daemon' \in [state: {"starting", "up"}, mode: Modes] /\ daemon'.mode = cmd.from /\ daemon'.state = "starting"
    BY <1>3, <1>6 DEF Spawn
  <2>3. Settled(cmd.from)'
    BY <1>1, <1>3, <1>6, <2>1, <2>2 DEF IInv, CommandInv, Settled, Runs
  <2>4. CommandInv'
    BY <1>1, <1>2, <1>3, <1>4, <1>6, <2>1, <2>3 DEF IInv, CommandInv
  <2>5. AppInv' /\ JobInv'
    BY <1>1, <1>2, <1>4, <2>1 DEF IInv, AppInv, JobInv
  <2>6. IdentityInv'
    BY <1>1, <1>2, <1>3, <1>4, <1>6, <2>1, <2>2 DEF IInv, IdentityInv, Serving
  <2> QED BY <1>1, <1>4, <2>1, <2>2, <2>4, <2>5, <2>6, CommandContext, CommandMoves
<1>7. CASE StartFailed /\ UNCHANGED daemon
  BY <1>1, <1>2, <1>4, <1>7, FailedStartKeeps
<1> QED BY <1>5, <1>6, <1>7 DEF StartDaemon, At

\* The new daemon does not answer in time.
LEMMA ControlTimesOutKeeps ==
    ASSUME IInv, ControlTimesOut
    PROVE  IInv'
<1>1. /\ UNCHANGED <<stores, routes, settings, app, current, monitor, intended, excused, unsaved>>
      /\ daemon' = NoDaemon /\ job' = NoJob /\ waiting' = {} /\ StartFailed
      /\ app /\ cmd.step \in {"wait", "rewait"}
  BY DEF ControlTimesOut, Gone, disk, history, At
<1> QED BY <1>1, FailedStartKeeps

\* The new daemon answers.
LEMMA ControlAnswersKeeps ==
    ASSUME IInv, ControlAnswers
    PROVE  IInv'
<1>1. /\ UNCHANGED <<stores, routes, settings, daemon, job, waiting, app, current, monitor, intended, excused, unsaved>>
      /\ Serving /\ app /\ cmd.step \in {"wait", "rewait"}
  BY DEF ControlAnswers, At, disk, core, history
<1>2. /\ cmd \in Commands /\ cmd # NoCommand
      /\ cmd.from \in Modes /\ cmd.to \in Modes /\ cmd.name \in {"apply", "restart"}
  BY <1>1, CommandAt
<1>3. job = NoJob /\ waiting = {} /\ current = cmd.from
  BY <1>1, <1>2 DEF IInv, CommandInv, JobInv
<1>4. CASE cmd.step = "wait" /\ cmd.name = "apply" /\ cmd' = [cmd EXCEPT !.step = "adopt"]
  <2>1. /\ cmd' \in Commands /\ cmd' # NoCommand /\ cmd'.step = "adopt" /\ cmd'.name = cmd.name
        /\ cmd'.from = cmd.from /\ cmd'.to = cmd.to
    BY <1>2, <1>4, NextStep
  <2>2. Runs(cmd.to)' /\ Saved'
    BY <1>1, <1>2, <1>4, <2>1 DEF IInv, CommandInv, Saved, Runs
  <2>3. CommandInv'
    BY <1>1, <1>2, <1>3, <1>4, <2>1, <2>2 DEF CommandInv
  <2>4. AppInv' /\ JobInv' /\ IdentityInv'
    BY <1>1, <1>3, <2>1 DEF IInv, AppInv, JobInv, IdentityInv
  <2> QED BY <1>1, <1>3, <2>1, <2>3, <2>4, CommandContext, CommandMoves
<1>5. CASE cmd.step = "rewait" /\ StoreChanged /\ cmd' = [cmd EXCEPT !.step = "abandon"]
  <2>1. /\ cmd' \in Commands /\ cmd' # NoCommand /\ cmd'.step = "abandon" /\ cmd'.name = cmd.name
        /\ cmd'.from = cmd.from /\ cmd'.to = cmd.to
    BY <1>2, <1>5, NextStep, ZenonT(40)
  <2>2. Settled(cmd.from)' /\ cmd.name = "apply"
    BY <1>1, <1>2, <1>5, <2>1 DEF IInv, CommandInv, Settled, Runs
  <2>3. CommandInv'
    BY <1>1, <1>2, <1>3, <1>5, <2>1, <2>2 DEF CommandInv, StoreChanged
  <2>4. AppInv' /\ JobInv' /\ IdentityInv'
    BY <1>1, <1>3, <2>1 DEF IInv, AppInv, JobInv, IdentityInv
  <2> QED BY <1>1, <1>3, <2>1, <2>3, <2>4, CommandContext, CommandMoves
<1>6. CASE cmd' = NoCommand /\ (cmd.step = "wait" => cmd.name # "apply")
  <2>1. Settled(current)
    BY <1>1, <1>2, <1>3, <1>6 DEF IInv, CommandInv, Settled, Saved
  <2> QED BY <1>1, <1>3, <1>6, <2>1, EndKeeps
<1> QED BY <1>4, <1>5, <1>6 DEF ControlAnswers, At

\* The old mode is saved back.
LEMMA SaveBackKeeps ==
    ASSUME IInv, SaveBack
    PROVE  IInv'
<1>1. /\ UNCHANGED <<stores, routes, daemon, job, waiting, app, current, monitor, intended, excused>>
      /\ app /\ cmd.step = "unsave" /\ Goto("restart")
      /\ (settings' = cmd.from /\ unsaved' = unsaved) \/ (unsaved' = StoreChanged /\ settings' = settings)
  BY DEF SaveBack, At, core
<1>2. /\ cmd \in Commands /\ cmd # NoCommand
      /\ cmd.from \in Modes /\ cmd.to \in Modes /\ cmd.name \in {"apply", "restart"}
  BY <1>1, CommandAt
<1>3. /\ cmd' \in Commands /\ cmd' # NoCommand /\ cmd'.step = "restart" /\ cmd'.name = cmd.name
      /\ cmd'.from = cmd.from /\ cmd'.to = cmd.to
  BY <1>1, <1>2, NextStep, ZenonT(40) DEF Goto
<1>4. /\ cmd.name = "apply" /\ ~unsaved /\ settings = cmd.to /\ current = cmd.from /\ daemon = NoDaemon
  BY <1>1, <1>2 DEF IInv, CommandInv, Saved
<1>5. /\ unsaved' \in BOOLEAN /\ settings' \in Modes /\ (unsaved' \/ settings' = cmd.from)
      /\ cmd.from = cmd.to => ~unsaved' /\ settings' = cmd.from
  <2>1. CASE settings' = cmd.from /\ unsaved' = unsaved
    <3>1. unsaved' = FALSE
      BY <1>4, <2>1, CommandContext
    <3> QED BY <1>2, <2>1, <3>1
  <2>2. CASE unsaved' = StoreChanged /\ settings' = settings
    <3>1. unsaved' <=> cmd.from # cmd.to
      BY <2>2, Zenon DEF StoreChanged
    <3>2. unsaved' \in BOOLEAN
      BY <2>2, Zenon DEF StoreChanged
    <3> QED BY <1>2, <1>4, <2>2, <3>1, <3>2
  <2> QED BY <1>1, <2>1, <2>2
<1>6. unsaved' \/ Complete(settings')
  BY <1>1, <1>4, <1>5 DEF IInv, StoreInv
<1>7. Settled(cmd.from)'
  BY <1>1, <1>3, <1>4, <1>5 DEF Settled, Runs
<1>8. CommandInv'
  BY <1>1, <1>2, <1>3, <1>4, <1>7 DEF CommandInv
<1>9. AppInv' /\ JobInv'
  BY <1>1, <1>3 DEF IInv, AppInv, JobInv, Serving
<1>10. IdentityInv'
  <2>1. SUFFICES ASSUME Identity \notin intended
                 PROVE  ~Serving' /\ ~unsaved' /\ current = settings' /\ cmd.from = cmd.to
    BY <1>1, <1>3, <1>4 DEF IdentityInv
  <2>2. ~Serving /\ cmd.from = cmd.to
    BY <1>1, <1>2, <2>1 DEF IInv, IdentityInv
  <2> QED BY <1>1, <1>4, <1>5, <2>2 DEF Serving
<1>11. ~TooLate'
  BY <1>3 DEF TooLate
<1> QED BY <1>1, <1>3, <1>5, <1>6, <1>8, <1>9, <1>10, <1>11, CommandContext, CommandMoves

\* It takes the new mode for its own, and goes on to clean up if the store changed.
LEMMA AdoptKeeps ==
    ASSUME IInv, Adopt
    PROVE  IInv'
<1>1. /\ UNCHANGED <<stores, routes, settings, daemon, job, waiting, app, monitor, intended, excused, unsaved>>
      /\ app /\ cmd.step = "adopt" /\ current' = cmd.to
      /\ cmd' = IF StoreChanged THEN [cmd EXCEPT !.step = "clean"] ELSE NoCommand
  BY DEF Adopt, At, disk, core, history
<1>2. /\ cmd \in Commands /\ cmd # NoCommand
      /\ cmd.from \in Modes /\ cmd.to \in Modes /\ cmd.name \in {"apply", "restart"}
  BY <1>1, CommandAt
<1>3. /\ cmd.name = "apply" /\ ~unsaved /\ settings = cmd.to /\ current = cmd.from /\ Runs(cmd.to)
      /\ job = NoJob /\ waiting = {}
  BY <1>1, <1>2 DEF IInv, CommandInv, JobInv, Saved
<1>4. Complete(cmd.to)
  BY <1>3 DEF IInv, StoreInv
<1>5. (\A m : m = cmd.to => Settled(m)') /\ Settled(current)'
  BY <1>1, <1>3 DEF Settled, Runs
<1>6. CASE StoreChanged
  <2>1. /\ cmd' \in Commands /\ cmd' # NoCommand /\ cmd'.step = "clean" /\ cmd'.name = cmd.name
        /\ cmd'.from = cmd.from /\ cmd'.to = cmd.to
    BY <1>1, <1>2, <1>6, NextStep
  <2>2. Settled(cmd.to)'
    BY <1>1, <1>3, <2>1 DEF Settled, Runs
  <2>3. CommandInv'
    BY <1>1, <1>2, <1>3, <1>6, <2>1, <2>2 DEF CommandInv, StoreChanged
  <2>4. AppInv' /\ JobInv' /\ IdentityInv'
    BY <1>1, <1>2, <1>3, <2>1 DEF IInv, AppInv, JobInv, IdentityInv, Serving
  <2> QED BY <1>1, <1>2, <1>3, <1>4, <2>1, <2>3, <2>4, CommandContext, CommandMoves
<1>7. CASE ~StoreChanged
  <2>1. cmd' = NoCommand /\ cmd'.step = "idle"
    BY <1>1, <1>7, CommandContext
  <2>2. CommandInv' /\ AppInv' /\ JobInv' /\ IdentityInv'
    BY <1>1, <1>2, <1>3, <1>5, <2>1 DEF IInv, CommandInv, AppInv, JobInv, IdentityInv, Serving
  <2> QED BY <1>1, <1>2, <1>3, <1>4, <2>1, <2>2, CommandContext, CommandMoves
<1> QED BY <1>6, <1>7

\* Every step of a command.
LEMMA CommandKeeps ==
    ASSUME IInv, Command
    PROVE  IInv'
BY RequestKeeps, UnansweredKeeps, SaveKeeps, StopKeeps, StartDaemonKeeps, ControlAnswersKeeps,
   ControlTimesOutKeeps, SaveBackKeeps, AdoptKeeps DEF Command

\* setup reads the settings; if they could not be saved back, what the other store holds
\* by then is excused.
LEMMA AppStartKeeps ==
    ASSUME IInv, AppStart
    PROVE  IInv'
<1>1. /\ ~app /\ app' = TRUE /\ current' = settings /\ unsaved' = FALSE
      /\ excused' = IF unsaved THEN Refs ELSE excused
      /\ UNCHANGED <<stores, routes, settings, job, waiting, cmd, intended>>
      /\ \/ daemon' = [state |-> "starting", mode |-> settings] /\ monitor' = "waiting"
         \/ daemon' = daemon /\ monitor' = monitor
  BY DEF AppStart, disk, Spawn
<1>2. settings \in Modes /\ excused \subseteq Refs /\ unsaved \in BOOLEAN /\ monitor \in {"off", "waiting"}
  BY DEF IInv, TypeOK
<1>3. cmd = NoCommand /\ cmd.step = "idle" /\ cmd.name = "none" /\ daemon = NoDaemon /\ ~Serving
  BY <1>1, CommandContext DEF IInv, AppInv, Serving
<1>4. job = NoJob /\ job.name = "none" /\ waiting = {}
  BY <1>3, CommandContext DEF IInv, JobInv
<1>5. /\ daemon' \in [state: {"starting", "up"}, mode: Modes] \cup {NoDaemon}
      /\ daemon' # NoDaemon => daemon'.mode = settings
      /\ ~Serving'
  BY <1>1, <1>2, <1>3, CommandContext DEF Serving
<1>6. TypeOK'
  <2>1. excused' \subseteq Refs /\ monitor' \in {"off", "waiting"}
    BY <1>1, <1>2
  <2> QED BY <1>1, <1>2, <1>5, <2>1 DEF IInv, TypeOK
<1>7. CommandInv' /\ JobInv' /\ IdentityInv'
  BY <1>1, <1>3, <1>4, <1>5 DEF CommandInv, JobInv, IdentityInv
<1>8. AppInv'
  BY <1>1, <1>2, <1>3, <1>5 DEF AppInv, Settled, Runs
<1>9. StoreInv'
  <2>1. Complete(settings)' /\ Complete(current)'
    <3>1. CASE unsaved
      <4>1. Secrets' = {}
        BY <1>1, <3>1 DEF Secrets, Refs, IInv, TypeOK
      <4> QED BY <4>1 DEF Complete
    <3>2. CASE ~unsaved
      <4>1. Complete(settings)
        BY <3>2 DEF IInv, StoreInv
      <4> QED BY <1>1, <3>2, <4>1 DEF Complete, Secrets, Wanted
    <3> QED BY <3>1, <3>2
  <2> QED BY <1>1, <1>3, <1>4, <2>1 DEF StoreInv
<1> QED BY <1>6, <1>7, <1>8, <1>9 DEF IInv

\* The monitor of a start ends.
LEMMA MonitorKeeps ==
    ASSUME IInv, MonitorAnswered
    PROVE  IInv'
<1>1. /\ monitor' = "off"
      /\ UNCHANGED <<stores, routes, settings, daemon, job, waiting, app, current, cmd, intended, excused, unsaved>>
  BY DEF MonitorAnswered, disk, core, history
<1>2. TypeOK' /\ CommandInv' /\ AppInv' /\ JobInv' /\ IdentityInv'
  BY <1>1 DEF IInv, TypeOK, CommandInv, AppInv, JobInv, IdentityInv, Settled, Runs, Saved, Serving
<1>3. StoreInv'
  BY <1>1 DEF IInv, StoreInv, Complete, Secrets, Wanted, TooLate
<1> QED BY <1>2, <1>3 DEF IInv

\* The application quits.
LEMMA QuitKeeps ==
    ASSUME IInv, Quit
    PROVE  IInv'
<1>1. /\ app' = FALSE /\ daemon' = NoDaemon /\ job' = NoJob /\ waiting' = {}
      /\ cmd' = NoCommand /\ monitor' = "off" /\ current' = "none"
      /\ UNCHANGED <<stores, routes, settings, intended, excused, unsaved>>
  BY DEF Quit, Gone, disk, history
<1>2. cmd'.step = "idle" /\ ~Serving' /\ job'.name = "none"
  BY <1>1, CommandContext DEF Serving
<1>3. CommandInv' /\ AppInv' /\ JobInv' /\ IdentityInv'
  BY <1>1, <1>2 DEF IInv, CommandInv, AppInv, JobInv, IdentityInv
<1> QED BY <1>1, <1>2, <1>3, CommandContext, CommandMoves

\* The invariant holds at first.
LEMMA Initial ==
    ASSUME Init
    PROVE  IInv
<1>1. NoCommand.step = "idle" /\ NoJob.name = "none" /\ NoDaemon.state = "none"
  BY DEF NoCommand, NoJob, NoDaemon
<1>2. stores \in [Modes -> [Refs -> Copies]]
  BY DEF Init, Copies
<1>3. TypeOK
  BY <1>2 DEF Init, TypeOK, Modes
<1>4. CommandInv /\ AppInv /\ JobInv /\ IdentityInv
  BY <1>1 DEF Init, CommandInv, AppInv, JobInv, IdentityInv, Serving
<1>5. Complete(settings)
  BY <1>3 DEF Init, Complete, Wanted, Secrets, Modes, Refs
<1>6. StoreInv
  BY <1>1, <1>5 DEF Init, StoreInv
<1> QED BY <1>3, <1>4, <1>6 DEF IInv

\* Every step keeps the invariant.
LEMMA Induction ==
    ASSUME IInv, [Next]_vars
    PROVE  IInv'
<1>1. CASE UNCHANGED vars
  <2>1. UNCHANGED <<stores, routes, settings, daemon, job, waiting, app, current, cmd, monitor,
                    intended, excused, unsaved>>
    BY <1>1 DEF vars, disk, core, desktop, history
  <2>2. TypeOK' /\ CommandInv' /\ AppInv' /\ JobInv' /\ IdentityInv'
    BY <2>1 DEF IInv, TypeOK, CommandInv, AppInv, JobInv, IdentityInv, Settled, Runs, Saved, Serving
  <2>3. StoreInv'
    BY <2>1 DEF IInv, StoreInv, Complete, Secrets, Wanted, TooLate
  <2> QED BY <2>2, <2>3 DEF IInv
<1>2. CASE DaemonExit
  BY <1>2, ExitKeeps, CommandContext DEF DaemonExit
<1>3. CASE MonitorGivesUp
  BY <1>3, ExitKeeps DEF MonitorGivesUp
<1> QED BY <1>1, <1>2, <1>3, ClientsKeep, RunWaitingKeeps, MigrateKeeps, CleanupKeeps, StartKeeps,
           BeginKeeps, CommandKeeps, AppStartKeeps, MonitorKeeps, QuitKeeps DEF Next

-----------------------------------------------------------------------------
(* The theorems.                                                           *)

\* The invariant holds of every reachable state.
LEMMA Invariance == Spec => []IInv
BY Initial, Induction, PTL DEF Spec

\* The stores, the jobs of airlockd and the commands of the application stay of their
\* kinds, for any set of routes.
THEOREM TypeCorrect == Spec => []TypeOK
<1>1. IInv => TypeOK
  BY DEF IInv
<1> QED BY <1>1, Invariance, PTL

\* Whatever apply_security_settings or restart_local_core met on the way, once it is over
\* airlockd runs in the mode the application shows, and that mode is the one saved,
\* unless the application knows that it could not save it back.
THEOREM SettingsFollowCore == Spec => []SettingsMatchCore
<1>1. IInv => SettingsMatchCore
  BY DEF IInv, AppInv, Settled, Runs, SettingsMatchCore
<1> QED BY <1>1, Invariance, PTL

\* A change of the secret store loses no secret that a client stored and brings none
\* back: each is as the last write that took effect left it, in the store a start would
\* open and in the one airlockd serves from, at every step of the procedure and of its
\* rollback, but for the gaps that are excused.
THEOREM SecretsSurvive == Spec => []StoredSecretsSurvive
<1>1. IInv => StoredSecretsSurvive
  <2>1. SUFFICES ASSUME IInv, NEW r \in Secrets
                 PROVE  /\ unsaved \/ stores[settings][r] = Wanted(r)
                        /\ Serving => stores[daemon.mode][r] = Wanted(r)
    BY DEF StoredSecretsSurvive, Wanted
  <2>2. unsaved \/ stores[settings][r] = Wanted(r)
    BY <2>1 DEF IInv, StoreInv, Complete
  <2>3. Serving => stores[daemon.mode][r] = Wanted(r)
    <3>1. Serving => daemon # NoDaemon
      BY <2>1, DaemonFields DEF IInv, TypeOK
    <3> QED BY <2>1, <3>1, CoreComplete DEF Complete
  <2> QED BY <2>2, <2>3
<1> QED BY <1>1, Invariance, PTL

\* migrateSecretStore and cleanupSecretStore write only to a store airlockd does not
\* serve from, however late they come, and mutationMu keeps every other change out.
THEOREM ServedStoreIsSafe == Spec => ServedStoreUntouched
<1> DEFINE Step == job # NoJob => Serving /\ stores'[daemon.mode] = stores[daemon.mode]
<1>1. IInv /\ [Next]_vars => [Step]_vars
  <2>1. SUFFICES ASSUME IInv, Next, job # NoJob
                 PROVE  Serving /\ stores'[daemon.mode] = stores[daemon.mode]
    OBVIOUS
  <2>2. Serving /\ job.mode # daemon.mode /\ daemon.mode \in Modes /\ job.mode \in Modes
    <3>1. Serving /\ job.mode # daemon.mode
      BY <2>1 DEF IInv, JobInv
    <3>2. daemon \in [state: {"starting", "up"}, mode: Modes]
      BY <2>1, <3>1 DEF IInv, TypeOK, NoDaemon, Serving
    <3>3. job \in Jobs
      BY <2>1 DEF IInv, TypeOK
    <3> QED BY <3>1, <3>2, <3>3 DEF Jobs
  <2>3. ASSUME NEW r, NEW copy, NEW outcome, PutRecord(job.mode, r, copy, outcome)
        PROVE  stores'[daemon.mode] = stores[daemon.mode]
    BY <2>1, <2>2, <2>3 DEF PutRecord, IInv, TypeOK
  <2>4. CASE migrateSecretStore
    <3>1. PICK r, outcome : CopyRecord(r, outcome)
      BY <2>4 DEF migrateSecretStore
    <3> QED BY <2>2, <2>3, <3>1 DEF CopyRecord
  <2>5. CASE cleanupSecretStore
    <3>1. PICK r, outcome : PutRecord(job.mode, r, "none", outcome)
      BY <2>5 DEF cleanupSecretStore, DeleteTarget
    <3> QED BY <2>2, <2>3, <3>1
  <2>6. CASE \/ \E a \in Aliases : StoreTarget(a) \/ CreateFails(a) \/ deleteRoute(a)
             \/ configureProxy \/ clearProxy \/ runWithConfig
    BY <2>1, <2>2, <2>6 DEF StoreTarget, CreateFails, deleteRoute, configureProxy, clearProxy, LockFree,
                            runWithConfig, Serving
  <2>7. CASE RunWaiting \/ DaemonExit \/ AppStart \/ MonitorAnswered \/ MonitorGivesUp \/ Quit
    BY <2>2, <2>7 DEF RunWaiting, DaemonExit, AppStart, MonitorAnswered, MonitorGivesUp, Quit, disk
  <2>8. CASE (\E mode \in Modes : ApplySettings(mode)) \/ restart_local_core \/ Command
    BY <2>2, <2>8 DEF ApplySettings, restart_local_core, Command, Request, RequestFails,
                      RequestTimesOut, Save, StopDaemon, StartDaemon, ControlAnswers,
                      ControlTimesOut, SaveBack, Adopt, disk
  <2> QED BY <2>1, <2>2, <2>4, <2>5, <2>6, <2>7, <2>8 DEF Next
<1>2. [][Step]_vars => ServedStoreUntouched
  BY PTL DEF ServedStoreUntouched
<1> QED BY <1>1, <1>2, Invariance, PTL DEF Spec

\* The steps of a command, each with those it may lead to.
LEMMA CommandSteps ==
    ASSUME IInv, Next, cmd # NoCommand, cmd' # cmd, cmd' # NoCommand
    PROVE  \E s \in {"migrate", "migrating", "save", "abandon", "stop", "start", "wait",
                     "unsave", "restart", "rewait", "adopt", "clean", "cleaning"} :
               /\ cmd' = [cmd EXCEPT !.step = s]
               /\ <<cmd.step, s>> \in
                    {<<"migrate", "migrating">>, <<"abandon", "cleaning">>, <<"clean", "cleaning">>,
                     <<"migrating", "save">>, <<"save", "stop">>, <<"save", "abandon">>,
                     <<"stop", "start">>, <<"start", "wait">>, <<"restart", "rewait">>,
                     <<"start", "unsave">>, <<"wait", "unsave">>, <<"wait", "adopt">>,
                     <<"rewait", "abandon">>, <<"unsave", "restart">>, <<"adopt", "clean">>}
<1>1. CASE migrateSecretStore
  <2>1. Awaited /\ cmd' = [cmd EXCEPT !.step = "save"] /\ job.name = "migrate"
    BY <1>1 DEF migrateSecretStore, Answer
  <2>2. cmd.step = "migrating"
    BY <2>1 DEF Awaited, IInv, JobInv
  <2> QED BY <2>1, <2>2
<1>2. CASE Request
  BY <1>2 DEF Request, Asking, Goto
<1>3. CASE Save \/ StopDaemon \/ SaveBack
  BY <1>3 DEF Save, StopDaemon, SaveBack, At, Goto
<1>4. CASE StartDaemon
  BY <1>4 DEF StartDaemon, StartFailed, At, Goto
<1>5. CASE ControlAnswers \/ Adopt
  BY <1>5 DEF ControlAnswers, Adopt, At
<1>6. CASE ControlTimesOut
  BY <1>6 DEF ControlTimesOut, StartFailed, At
<1>7. CASE RequestFails \/ RequestTimesOut
  BY <1>7 DEF RequestFails, RequestTimesOut
<1>8. CASE cleanupSecretStore \/ DaemonExit \/ MonitorGivesUp \/ Quit
  BY <1>8 DEF cleanupSecretStore, DaemonExit, MonitorGivesUp, Quit, Answer
<1>9. CASE \/ \E a \in Aliases : StoreTarget(a) \/ CreateFails(a) \/ deleteRoute(a)
           \/ configureProxy \/ clearProxy \/ RunWaiting \/ runWithConfig
           \/ AppStart \/ MonitorAnswered
  BY <1>9 DEF StoreTarget, CreateFails, deleteRoute, configureProxy, clearProxy, RunWaiting, runWithConfig,
              AppStart, MonitorAnswered, desktop
<1>10. CASE (\E mode \in Modes : ApplySettings(mode)) \/ restart_local_core
  BY <1>10 DEF ApplySettings, restart_local_core
<1> QED BY <1>1, <1>2, <1>3, <1>4, <1>5, <1>6, <1>7, <1>8, <1>9, <1>10 DEF Next, Command

\* apply_security_settings and restart_local_core take no step twice, however the
\* change or the way back goes wrong.
THEOREM CommandsOnlyLeadForward == Spec => CommandsLeadForward
<1> DEFINE Step == cmd # NoCommand /\ cmd' # cmd =>
                       cmd' = NoCommand \/ Order[cmd'.step] > Order[cmd.step]
<1>1. IInv /\ [Next]_vars => [Step]_vars
  <2>1. SUFFICES ASSUME IInv, Next, cmd # NoCommand, cmd' # cmd, cmd' # NoCommand
                 PROVE  Order[cmd'.step] > Order[cmd.step]
    BY DEF vars, desktop
  <2>2. cmd \in Commands
    BY <2>1 DEF IInv, TypeOK
  <2>3. PICK s \in {"migrate", "migrating", "save", "abandon", "stop", "start", "wait",
                    "unsave", "restart", "rewait", "adopt", "clean", "cleaning"} :
               /\ cmd' = [cmd EXCEPT !.step = s]
               /\ <<cmd.step, s>> \in
                    {<<"migrate", "migrating">>, <<"abandon", "cleaning">>, <<"clean", "cleaning">>,
                     <<"migrating", "save">>, <<"save", "stop">>, <<"save", "abandon">>,
                     <<"stop", "start">>, <<"start", "wait">>, <<"restart", "rewait">>,
                     <<"start", "unsave">>, <<"wait", "unsave">>, <<"wait", "adopt">>,
                     <<"rewait", "abandon">>, <<"unsave", "restart">>, <<"adopt", "clean">>}
    BY <2>1, CommandSteps
  <2>4. cmd'.step = s
    BY <2>2, <2>3, NextStep
  <2>5. Order[s] > Order[cmd.step]
    BY <2>3 DEF Order
  <2> QED BY <2>4, <2>5
<1>2. [][Step]_vars => CommandsLeadForward
  BY PTL DEF CommandsLeadForward
<1> QED BY <1>1, <1>2, Invariance, PTL DEF Spec

=============================================================================
