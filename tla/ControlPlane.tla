---------------------------- MODULE ControlPlane ----------------------------
(***************************************************************************)
(* The control server's mutating operations and the four stores they keep  *)
(* in step: the HTTP and SSH registries (memory), routes.json and          *)
(* ssh-routes.json (disk) and the protected secret store.                  *)
(*                                                                         *)
(* Every mutator of internal/control/server.go runs under mutationMu, so   *)
(* at most one operation is in progress; it is the variable op, and each   *)
(* write it makes to a store is one step, because the process may be       *)
(* killed between two writes and because each write may fail.  A write of  *)
(* a file goes through a temporary file, fsync, rename and an fsync of the *)
(* directory: an error is reported either before the rename ("before": the *)
(* old content stays) or after it ("after": the new content is installed). *)
(***************************************************************************)
EXTENDS Naturals, FiniteSets

CONSTANTS
    Aliases,     \* route aliases a client may name
    Users,       \* local SSH user names
    Creds,       \* capability digests
    Confs,       \* the rest of a route: policy, egress, name, keyword replacements
    NoUser,      \* the user of an HTTP or LLM route: there is none
    NoRoute,     \* an alias that is not registered
    HostAlias,   \* "host-identity": "ssh/" plus it is the SSH host key's reference
    Faults       \* how a write may fail, a subset of {"before", "after"}

ASSUME ConstantsAssumption ==
    /\ NoUser \notin Users
    /\ Faults \subseteq {"before", "after"}

Families == {"http", "ssh"}

Route == [kind: {"http", "llm", "ssh"}, user: Users \cup {NoUser},
          cred: Creds, conf: Confs, enabled: BOOLEAN]

\* NoRoute is told apart from every route.
ASSUME NoRouteAssumption == NoRoute \notin Route

VARIABLES
    status,      \* airlockd: "down", "up", or "refused" when it will not start
    reg,         \* the registries: reg[family][alias]
    file,        \* routes.json and ssh-routes.json: file[family][alias]
    secrets,     \* the secret store: what kind of record a reference holds
    op,          \* the mutator that holds mutationMu
    \* History, read by no action:
    wanted,      \* aliases enabled on request and not since disabled with success
    torn,        \* routes whose creation failed after the rename
    unsynced     \* families whose last Save failed and left file and memory apart

vars == <<status, reg, file, secrets, op, wanted, torn, unsynced>>
history == <<wanted, torn, unsynced>>

NoRoutes == [a \in Aliases |-> NoRoute]
Empty == [f \in Families |-> NoRoutes]

Refs == Families \X (Aliases \cup {HostAlias})
HostRef == <<"ssh", HostAlias>>
Contents == {"none", "http", "ssh", "identity"}

RouteSteps == {"put", "upsert", "save", "undo", "unput", "unlink"}
StopSteps == {"stopHTTP", "stopSSH", "saveHTTP", "undoHTTP", "saveSSH", "undoBoth", "resave"}

Table == [Aliases -> Route \cup {NoRoute}]
Tables == [Families -> Table]

\* An operation in progress: the alias and family it works on, the route it
\* installs (NoRoute for a deletion, and for a creation that Validate refuses) and
\* what the registries held when the lock was taken.  stopAll works on every alias.
RouteOperation ==
    [name: {"create", "replace", "enable", "delete", "retarget"},
     step: RouteSteps, family: Families, alias: Aliases,
     new: Route \cup {NoRoute}, prev: Tables]
StopOperation == [name: {"stopAll"}, step: StopSteps, prev: Tables]

Idle == [name |-> "none", step |-> "idle"]

TypeOK ==
    /\ status \in {"down", "up", "refused"}
    /\ reg \in Tables
    /\ file \in Tables
    /\ secrets \in [Refs -> Contents]
    /\ op \in RouteOperation \cup StopOperation \cup {Idle}
    /\ wanted \subseteq Aliases
    /\ torn \subseteq Families \X Aliases
    /\ unsynced \subseteq Families

\* A first start on an empty data directory.
Init ==
    /\ status = "down"
    /\ reg = Empty
    /\ file = Empty
    /\ secrets = [r \in Refs |-> "none"]
    /\ op = Idle
    /\ wanted = {}
    /\ torn = {}
    /\ unsynced = {}

-----------------------------------------------------------------------------
(* The registries and the stores, one operator per method.                 *)

Registered(f, a) == reg[f][a] # NoRoute

\* Mutant: the check asks LookupByUsername, which sees enabled routes only.
UserInUse_EnabledOnly(f, a, r) ==
    /\ f = "ssh"
    /\ \E b \in Aliases \ {a} :
        reg["ssh"][b] # NoRoute /\ reg["ssh"][b].enabled /\ reg["ssh"][b].user = r.user

\* sshgw.Registry.Upsert refuses a local user name another alias has;
\* routes.Registry.Upsert has no such check.
UserInUse(f, a, r) ==
    /\ f = "ssh"
    /\ \E b \in Aliases \ {a} : reg["ssh"][b] # NoRoute /\ reg["ssh"][b].user = r.user

Install(f, a, r) == [reg EXCEPT ![f] = [@ EXCEPT ![a] = r]]

DisableAll(table) ==
    [a \in Aliases |-> IF table[a] = NoRoute THEN NoRoute ELSE [table[a] EXCEPT !.enabled = FALSE]]

\* Mutant: the rollback loop is missing.
RestoreEnabled_Missing(table, before) == table

\* The loop of SetEnabled calls that stopAll undoes a failed stop with.
RestoreEnabled(table, before) ==
    [a \in Aliases |-> IF table[a] = NoRoute \/ before[a] = NoRoute THEN table[a]
                       ELSE [table[a] EXCEPT !.enabled = before[a].enabled]]

\* FileStore.Save of a whole table: outcome "ok", or how it failed.  That the SSH store
\* refuses a table with a user name twice is left out: the registry alone has to see to
\* it that no such table is saved.
Save(f, table, outcome) ==
    file' = IF outcome = "before" THEN file ELSE [file EXCEPT ![f] = table]

\* Mutant: the record is tagged with the route's kind, which nobody decodes.
PutTarget_Kind(ref, content, outcome) ==
    secrets' = IF outcome = "before" THEN secrets
               ELSE [secrets EXCEPT ![ref] = IF content = "http" THEN op.new.kind ELSE content]

\* Put and Delete of the secret store. Deleting what is not there is ErrNotFound,
\* which every caller treats as success.
PutTarget(ref, content, outcome) ==
    secrets' = IF outcome = "before" THEN secrets ELSE [secrets EXCEPT ![ref] = content]

DeleteTarget(ref, outcome) == PutTarget(ref, "none", outcome)

Outcomes == {"ok"} \cup Faults

-----------------------------------------------------------------------------
(* Taking mutationMu: the checks each handler makes before its first write. *)

Free == status = "up" /\ op = Idle

\* The history forgets what neither the registries nor the files hold any more.
Enabled(table, a) == \E f \in Families : table[f][a] # NoRoute /\ table[f][a].enabled
StillWanted == {a \in wanted : Enabled(reg, a) \/ Enabled(file, a)}
StillTorn == {t \in torn : reg[t[1]][t[2]] # NoRoute \/ file[t[1]][t[2]] # NoRoute}

Begin(name, step, f, a, r) ==
    /\ op' = [name |-> name, step |-> step, family |-> f, alias |-> a, new |-> r,
              prev |-> reg]
    /\ torn' = StillTorn
    /\ UNCHANGED <<status, reg, file, secrets, unsynced>>

NewRoute(kind, u, k, c) ==
    [kind |-> kind, user |-> u, cred |-> k, conf |-> c, enabled |-> FALSE]

\* Mutant: only the HTTP registry is asked.
AliasFree_HTTPOnly(a) == ~Registered("http", a)

AliasFree(a) == ~Registered("http", a) /\ ~Registered("ssh", a)

\* The alias must be free in both registries; the route is created disabled.
createHTTPRoute(a, k, c) ==
    /\ Free
    /\ AliasFree(a)
    /\ Begin("create", "put", "http", a, NewRoute("http", NoUser, k, c))
    /\ wanted' = StillWanted

createLLMRoute(a, k, c) ==
    /\ Free
    /\ AliasFree(a)
    /\ Begin("create", "put", "http", a, NewRoute("llm", NoUser, k, c))
    /\ wanted' = StillWanted

createSSHRoute(a, u, k, c) ==
    /\ Free
    /\ AliasFree(a)
    /\ ~UserInUse("ssh", a, NewRoute("ssh", u, k, c))
    /\ Begin("create", "put", "ssh", a, NewRoute("ssh", u, k, c))
    /\ wanted' = StillWanted

\* Any of the three, asked for an alias or a policy that Validate refuses: the
\* handlers store the protected target before they find out.
createInvalidRoute(f, a) ==
    /\ Free
    /\ AliasFree(a)
    /\ Begin("create", "put", f, a, NoRoute)
    /\ wanted' = StillWanted

\* The updates of a registered route: Get, change some fields, Upsert, Save.
Replace(f, a, r) ==
    /\ Begin("replace", "upsert", f, a, r)
    /\ wanted' = StillWanted

setLLMPolicy(a, c) ==
    /\ Free
    /\ Registered("http", a) /\ reg["http"][a].kind = "llm"
    /\ Replace("http", a, [reg["http"][a] EXCEPT !.conf = c])

rotateLLMAPIKey(a, k) ==
    /\ Free
    /\ Registered("http", a) /\ reg["http"][a].kind = "llm"
    /\ Replace("http", a, [reg["http"][a] EXCEPT !.cred = k])

\* May move the route to another local user name.
setSSHPolicy(a, u, c) ==
    /\ Free
    /\ Registered("ssh", a)
    /\ Replace("ssh", a, [reg["ssh"][a] EXCEPT !.conf = c, !.user = u])

setSSHKeywordReplacements(a, c) ==
    /\ Free
    /\ Registered("ssh", a)
    /\ Replace("ssh", a, [reg["ssh"][a] EXCEPT !.conf = c])

rotateSSHCredential(a, k) ==
    /\ Free
    /\ Registered("ssh", a)
    /\ Replace("ssh", a, [reg["ssh"][a] EXCEPT !.cred = k])

\* Replaces the protected target only: nothing is saved.
updateSSHTarget(a) ==
    /\ Free
    /\ Registered("ssh", a)
    /\ Begin("retarget", "put", "ssh", a, reg["ssh"][a])
    /\ wanted' = StillWanted

\* The HTTP registry is asked first, the SSH registry when the alias is not there.
FamilyOf(a) == IF Registered("http", a) THEN "http" ELSE "ssh"

setRouteEnabled(a, enabled) ==
    LET f == FamilyOf(a) IN
    /\ Free
    /\ Registered(f, a)
    /\ Begin("enable", "upsert", f, a, [reg[f][a] EXCEPT !.enabled = enabled])
    /\ wanted' = IF enabled THEN StillWanted \cup {a} ELSE StillWanted

deleteRoute(a) ==
    LET f == FamilyOf(a) IN
    /\ Free
    /\ Registered(f, a)
    /\ Begin("delete", "upsert", f, a, NoRoute)
    /\ wanted' = StillWanted

stopAll ==
    /\ Free
    /\ op' = [name |-> "stopAll", step |-> "stopHTTP", prev |-> reg]
    /\ wanted' = StillWanted
    /\ torn' = StillTorn
    /\ UNCHANGED <<status, reg, file, secrets, unsynced>>

-----------------------------------------------------------------------------
(* The writes of the operation in progress.                                *)

At(step) == status = "up" /\ op.step = step
GoTo(step) == op' = [op EXCEPT !.step = step]

\* What a successful response promises about enablement: a new, disabled or
\* deleted route is off, and after stop_all every route is.
Acknowledged ==
    CASE op.name \in {"create", "delete"} -> wanted \ {op.alias}
      [] op.name = "enable" /\ ~op.new.enabled -> wanted \ {op.alias}
      [] op.name = "stopAll" -> {}
      [] OTHER -> wanted

\* Answer and unlock mutationMu.
Release == op' = Idle

\* PutHTTPTarget / PutSSHTarget of a create, or of updateSSHTarget.
Put ==
    /\ At("put")
    /\ \E outcome \in Outcomes :
        /\ PutTarget(<<op.family, op.alias>>, op.family, outcome)
        /\ IF outcome # "ok" THEN Release
           ELSE IF op.name = "create" THEN GoTo("upsert") ELSE Release
    /\ UNCHANGED <<status, reg, file, history>>

\* Registry.Upsert, SetEnabled or Delete: an invalid route is refused, and a
\* refused creation takes its protected target back.
Refused ==
    IF op.new = NoRoute THEN op.name = "create" ELSE UserInUse(op.family, op.alias, op.new)

Upsert ==
    /\ At("upsert")
    /\ IF ~Refused
       THEN reg' = Install(op.family, op.alias, op.new) /\ GoTo("save")
       ELSE /\ IF op.name = "create" THEN GoTo("unput") ELSE Release
            /\ UNCHANGED reg
    /\ UNCHANGED <<status, file, secrets, history>>

\* A file whose Save failed after the rename holds what memory gives up.
TornBy(outcome) ==
    CASE op.name = "create" /\ outcome = "after" -> torn \cup {<<op.family, op.alias>>}
      [] op.name \in {"create", "delete"} /\ outcome = "ok" -> torn \ {<<op.family, op.alias>>}
      [] OTHER -> torn

UnsyncedBy(f, outcome) ==
    CASE outcome = "ok" -> unsynced \ {f}
      [] outcome = "after" -> unsynced \cup {f}
      [] OTHER -> unsynced

SaveRoutes ==
    /\ At("save")
    /\ \E outcome \in Outcomes :
        /\ Save(op.family, reg[op.family], outcome)
        /\ torn' = TornBy(outcome)
        /\ unsynced' = UnsyncedBy(op.family, outcome)
        /\ IF outcome # "ok" THEN GoTo("undo") /\ UNCHANGED wanted
           ELSE IF op.name = "delete" THEN GoTo("unlink") /\ UNCHANGED wanted
           ELSE Release /\ wanted' = Acknowledged
    /\ UNCHANGED <<status, reg, secrets>>

\* Mutant: every rollback takes the protected target back.
Undo_AlwaysUnput ==
    /\ At("undo")
    /\ reg' = Install(op.family, op.alias, op.prev[op.family][op.alias])
    /\ GoTo("unput")
    /\ UNCHANGED <<status, file, secrets, history>>

\* Mutant: the route that is put back is switched off.
Undo_Disabled ==
    LET before == op.prev[op.family][op.alias] IN
    /\ At("undo")
    /\ reg' = Install(op.family, op.alias,
                      IF before = NoRoute THEN NoRoute ELSE [before EXCEPT !.enabled = FALSE])
    /\ IF op.name = "create" THEN GoTo("unput") ELSE Release
    /\ UNCHANGED <<status, file, secrets, history>>

\* Delete the created route, Upsert the previous one, or SetEnabled it back.
Undo ==
    /\ At("undo")
    /\ reg' = Install(op.family, op.alias, op.prev[op.family][op.alias])
    /\ IF op.name = "create" THEN GoTo("unput") ELSE Release
    /\ UNCHANGED <<status, file, secrets, history>>

\* The result of this DeleteTarget is ignored.
Unput ==
    /\ At("unput")
    /\ \E outcome \in Outcomes : DeleteTarget(<<op.family, op.alias>>, outcome)
    /\ Release
    /\ UNCHANGED <<status, reg, file, history>>

\* The result only adds a warning to the response.
Unlink ==
    /\ At("unlink")
    /\ \E outcome \in Outcomes : DeleteTarget(<<op.family, op.alias>>, outcome)
    /\ Release
    /\ wanted' = Acknowledged
    /\ UNCHANGED <<status, reg, file, torn, unsynced>>

-----------------------------------------------------------------------------
(* stopAll: both registries first, then routes.json, then ssh-routes.json. *)

StopHTTP ==
    /\ At("stopHTTP")
    /\ reg' = [reg EXCEPT !["http"] = DisableAll(@)]
    /\ GoTo("stopSSH")
    /\ UNCHANGED <<status, file, secrets, history>>

StopSSH ==
    /\ At("stopSSH")
    /\ reg' = [reg EXCEPT !["ssh"] = DisableAll(@)]
    /\ GoTo("saveHTTP")
    /\ UNCHANGED <<status, file, secrets, history>>

StopSaveHTTP ==
    /\ At("saveHTTP")
    /\ \E outcome \in Outcomes :
        /\ Save("http", reg["http"], outcome)
        /\ unsynced' = UnsyncedBy("http", outcome)
        /\ GoTo(IF outcome = "ok" THEN "saveSSH" ELSE "undoHTTP")
    /\ UNCHANGED <<status, reg, secrets, wanted, torn>>

\* Only the HTTP registry is restored here.
StopUndoHTTP ==
    /\ At("undoHTTP")
    /\ reg' = [reg EXCEPT !["http"] = RestoreEnabled(@, op.prev["http"])]
    /\ Release
    /\ UNCHANGED <<status, file, secrets, history>>

\* Mutant: the error of the second Save is dropped.
StopSaveSSH_ErrorDropped ==
    /\ At("saveSSH")
    /\ \E outcome \in Outcomes :
        /\ Save("ssh", reg["ssh"], outcome)
        /\ unsynced' = UnsyncedBy("ssh", outcome)
    /\ Release /\ wanted' = Acknowledged
    /\ UNCHANGED <<status, reg, secrets, torn>>

StopSaveSSH ==
    /\ At("saveSSH")
    /\ \E outcome \in Outcomes :
        /\ Save("ssh", reg["ssh"], outcome)
        /\ unsynced' = UnsyncedBy("ssh", outcome)
        /\ IF outcome = "ok" THEN Release /\ wanted' = Acknowledged
           ELSE GoTo("undoBoth") /\ UNCHANGED wanted
    /\ UNCHANGED <<status, reg, secrets, torn>>

StopUndoBoth ==
    /\ At("undoBoth")
    /\ reg' = [f \in Families |-> RestoreEnabled(reg[f], op.prev[f])]
    /\ GoTo("resave")
    /\ UNCHANGED <<status, file, secrets, history>>

\* routes.json is written back; whether that worked is not looked at.
StopResave ==
    /\ At("resave")
    /\ \E outcome \in Outcomes :
        /\ Save("http", op.prev["http"], outcome)
        /\ unsynced' = IF outcome = "before" THEN unsynced \cup {"http"}
                       ELSE unsynced \ {"http"}
    /\ Release
    /\ UNCHANGED <<status, reg, secrets, wanted, torn>>

-----------------------------------------------------------------------------
(* The process.                                                            *)

\* The process is killed between any two writes; what was renamed stays.
Crash ==
    /\ status = "up"
    /\ status' = "down"
    /\ reg' = Empty
    /\ op' = Idle
    /\ wanted' = {a \in wanted : Enabled(file, a)}
    /\ torn' = {t \in torn : file[t[1]][t[2]] # NoRoute}
    /\ unsynced' = {}
    /\ UNCHANGED <<file, secrets>>

\* The checks runWithConfig makes of the state it finds.
AliasesUnique == \A a \in Aliases : file["http"][a] = NoRoute \/ file["ssh"][a] = NoRoute
IdentityLoads == secrets[HostRef] \in {"none", "identity"}

\* Load of ssh-routes.json refuses two routes with one local user name.
DistinctUsers(table) ==
    \A a, b \in Aliases :
        a # b /\ table[a] # NoRoute /\ table[b] # NoRoute => table[a].user # table[b].user
SSHRoutesLoad == DistinctUsers(file["ssh"])

\* A host identity that is not there is created.
LoadOrCreateHostSigner(outcome) ==
    IF secrets[HostRef] = "identity" THEN outcome = "ok" /\ UNCHANGED secrets
    ELSE PutTarget(HostRef, "identity", outcome)

\* runWithConfig: load both files, refuse an alias that is in both, load the SSH
\* host identity or create it, then serve.  The proxy is in Egress.
Start ==
    /\ status \in {"down", "refused"}
    /\ IF SSHRoutesLoad /\ AliasesUnique /\ IdentityLoads
       THEN /\ \E outcome \in Outcomes :
                 /\ LoadOrCreateHostSigner(outcome)
                 /\ IF outcome = "ok"
                    THEN status' = "up" /\ reg' = file
                    ELSE UNCHANGED <<status, reg>>
       ELSE status' = "refused" /\ UNCHANGED <<reg, secrets>>
    /\ UNCHANGED <<file, op, history>>

Request ==
    \/ \E a \in Aliases, k \in Creds, c \in Confs :
        \/ createHTTPRoute(a, k, c)
        \/ createLLMRoute(a, k, c)
        \/ \E u \in Users : createSSHRoute(a, u, k, c)
    \/ \E f \in Families, a \in Aliases : createInvalidRoute(f, a)
    \/ \E a \in Aliases, c \in Confs :
        \/ setLLMPolicy(a, c)
        \/ setSSHKeywordReplacements(a, c)
        \/ \E u \in Users : setSSHPolicy(a, u, c)
    \/ \E a \in Aliases, k \in Creds :
        \/ rotateLLMAPIKey(a, k)
        \/ rotateSSHCredential(a, k)
    \/ \E a \in Aliases :
        \/ updateSSHTarget(a)
        \/ deleteRoute(a)
        \/ \E enabled \in BOOLEAN : setRouteEnabled(a, enabled)
    \/ stopAll

Work ==
    \/ Put \/ Upsert \/ SaveRoutes \/ Undo \/ Unput \/ Unlink
    \/ StopHTTP \/ StopSSH \/ StopSaveHTTP \/ StopUndoHTTP
    \/ StopSaveSSH \/ StopUndoBoth \/ StopResave

Next == Request \/ Work \/ Crash \/ Start

Spec == Init /\ [][Next]_vars

-----------------------------------------------------------------------------
(* Properties.                                                             *)

\* No alias is registered as an HTTP and as an SSH route at once: the check a
\* creation makes when it takes mutationMu is still true when it installs the
\* route, two stores later, and every rollback keeps it.
AliasesDisjoint == \A a \in Aliases : ~Registered("http", a) \/ ~Registered("ssh", a)

\* No two SSH routes share a local user name, in memory or on disk, so that
\* LookupByUsername has one answer and ssh-routes.json always loads.
UsersDistinct == DistinctUsers(reg["ssh"]) /\ DistinctUsers(file["ssh"])

\* Between operations routes.json is the HTTP registry and ssh-routes.json is
\* the SSH registry up to routes a failed stop_all left disabled in memory,
\* unless the last Save of the file reported an error.
FilesMatchRegistries ==
    Free =>
        /\ "http" \notin unsynced => file["http"] = reg["http"]
        /\ "ssh" \notin unsynced =>
              \A a \in Aliases :
                 \/ file["ssh"][a] = reg["ssh"][a]
                 \/ /\ file["ssh"][a] # NoRoute /\ file["ssh"][a].enabled
                    /\ reg["ssh"][a] = [file["ssh"][a] EXCEPT !.enabled = FALSE]

\* A route that routes.json or ssh-routes.json names has its protected target,
\* of the kind its gateway decodes, after any crash and any failed write, save
\* when its own creation failed after the rename.
PersistedRoutesHaveTargets ==
    \A f \in Families, a \in Aliases :
        file[f][a] # NoRoute /\ <<f, a>> \notin torn => secrets[<<f, a>>] = f

\* An alias is in both files only if a creation of it failed after the rename.
ClashOnlyAfterTornSave ==
    \A a \in Aliases :
        file["http"][a] # NoRoute /\ file["ssh"][a] # NoRoute
            => <<"http", a>> \in torn \/ <<"ssh", a>> \in torn

\* A route is enabled, in memory or on disk, only if the operator enabled it and
\* no later disable, delete or stop_all of it was answered with success: a
\* crash, a restart or a rollback never brings back what was switched off.
NeverEnabledUnasked ==
    \A f \in Families, a \in Aliases :
        \A r \in {reg[f][a], file[f][a]} : r # NoRoute /\ r.enabled => a \in wanted

\* What the answers given so far promise: while an operation has not saved its
\* change, the routes there were when it began.
Promised ==
    IF status # "up" THEN Empty
    ELSE IF op = Idle \/ op.step \in {"unput", "unlink"} THEN reg ELSE op.prev

Catalogue == INSTANCE RouteCatalogue WITH
    serving <- status = "up", promised <- Promised, durable <- file

\* The writes, rollbacks, crashes and starts amount to a catalogue of routes: each
\* change takes effect when its file is saved, in memory and on disk at once, an
\* error puts every route back as it was, and what else may differ between the
\* routes and the files is what RouteCatalogue lists.
ImplementsCatalogue == Catalogue!Spec

\* A start is refused for two causes only: a creation that failed after the rename
\* left its alias in both files, or an SSH route named like the host identity put its
\* target in its place. No crash or failed write makes ssh-routes.json unreadable.
RefusedForCause ==
    status = "refused" =>
        \/ \E a \in Aliases : /\ \A f \in Families : file[f][a] # NoRoute
                              /\ \E f \in Families : <<f, a>> \in torn
        \/ HostAlias \in Aliases /\ secrets[HostRef] = "ssh"

\* airlockd can always be started on the state it left behind: runWithConfig never
\* answers "HTTP and SSH route aliases must be unique".
StartNeverRefused == status # "refused"

\* The two steps in which stop_all answers with an error leave every route as it
\* was when the request came.
StopAllErrorRestoresRoutes ==
    [][StopUndoHTTP \/ StopResave => reg' = op.prev]_vars

\* The SSH host key the running server presents stays in the secret store.
HostIdentityPersists == status = "up" => secrets[HostRef] = "identity"

=============================================================================
