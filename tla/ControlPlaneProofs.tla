------------------------- MODULE ControlPlaneProofs -------------------------
(***************************************************************************)
(* Proofs about ControlPlane, for every set of aliases, users, credentials  *)
(* and configurations and for every way writes may fail.                    *)
(***************************************************************************)
EXTENDS ControlPlane, TLAPS

-----------------------------------------------------------------------------
(* What the operators on the registries return.                            *)

\* Installing a route, or its absence, in a registry gives a registry.
LEMMA InstallType ==
    ASSUME reg \in Tables, NEW f \in Families, NEW a \in Aliases,
           NEW r \in Route \cup {NoRoute}
    PROVE  Install(f, a, r) \in Tables
  BY DEF Install, Tables, Table

\* Disabling every route gives a registry with the same aliases and users.
LEMMA DisableAllType ==
    ASSUME NEW t \in Table
    PROVE  /\ DisableAll(t) \in Table
           /\ \A a \in Aliases : DisableAll(t)[a] = NoRoute <=> t[a] = NoRoute
           /\ \A a \in Aliases : t[a] # NoRoute => DisableAll(t)[a].user = t[a].user
  <1>1. ASSUME NEW r \in Route
        PROVE  [r EXCEPT !.enabled = FALSE] \in Route /\ [r EXCEPT !.enabled = FALSE].user = r.user
    BY DEF Route
  <1> QED  BY <1>1, NoRouteAssumption DEF DisableAll, Table

\* Undoing a stop gives a registry with the same aliases and users.
LEMMA RestoreEnabledType ==
    ASSUME NEW t \in Table, NEW before \in Table
    PROVE  /\ RestoreEnabled(t, before) \in Table
           /\ \A a \in Aliases : RestoreEnabled(t, before)[a] = NoRoute <=> t[a] = NoRoute
           /\ \A a \in Aliases : t[a] # NoRoute => RestoreEnabled(t, before)[a].user = t[a].user
  <1>1. ASSUME NEW r \in Route, NEW q \in Route
        PROVE  /\ [r EXCEPT !.enabled = q.enabled] \in Route
               /\ [r EXCEPT !.enabled = q.enabled].user = r.user
    BY DEF Route
  <1> QED  BY <1>1, NoRouteAssumption DEF RestoreEnabled, Table

\* A step of RouteSteps belongs to an operation on one route.
LEMMA RouteStep ==
    ASSUME TypeOK, op.step \in RouteSteps
    PROVE  op \in RouteOperation
  BY DEF TypeOK, RouteOperation, StopOperation, Idle, RouteSteps, StopSteps

\* A step of StopSteps belongs to stopAll.
LEMMA StopStep ==
    ASSUME TypeOK, op.step \in StopSteps
    PROVE  op \in StopOperation
  BY DEF TypeOK, RouteOperation, StopOperation, Idle, RouteSteps, StopSteps

\* An operation on one route stays one when it moves on.
LEMMA GoToRoute ==
    ASSUME op \in RouteOperation, NEW s \in RouteSteps, GoTo(s)
    PROVE  op' \in RouteOperation /\ op'.family = op.family /\ op'.alias = op.alias
           /\ op'.prev = op.prev /\ op'.new = op.new /\ op'.name = op.name
  BY DEF GoTo, RouteOperation

\* stopAll stays stopAll when it moves on.
LEMMA GoToStop ==
    ASSUME op \in StopOperation, NEW s \in StopSteps, GoTo(s)
    PROVE  op' \in StopOperation
  BY DEF GoTo, StopOperation

-----------------------------------------------------------------------------
(* What a request does: it takes the lock and changes nothing else.        *)

OperationNames == {"create", "replace", "enable", "delete", "retarget"}

\* What a request asks for: a new route under a free alias, switched off; another
\* version of a registered route, switched on only if it was or the request is to; a
\* new target for a registered route; or its removal.
Asked(name, step, f, a, r) ==
    \/ /\ name = "create" /\ step = "put"
       /\ AliasFree(a) /\ (r # NoRoute => ~r.enabled)
    \/ /\ name \in {"replace", "enable"} /\ step = "upsert"
       /\ Registered(f, a) /\ r \in Route /\ r.kind = reg[f][a].kind
       /\ r.enabled => a \in wanted' \/ reg[f][a].enabled
    \/ name = "retarget" /\ step = "put" /\ Registered(f, a) /\ r = reg[f][a]
    \/ name = "delete" /\ step = "upsert" /\ Registered(f, a) /\ r = NoRoute

\* A request on one route takes the lock.
BeginsOperation ==
    /\ Free
    /\ StillWanted \subseteq wanted' /\ wanted' \subseteq Aliases
    /\ \E name \in OperationNames, step \in RouteSteps, f \in Families, a \in Aliases,
          r \in Route \cup {NoRoute} :
        Begin(name, step, f, a, r) /\ Asked(name, step, f, a, r)

\* Changing a field of a route gives a route.
LEMMA RouteUpdates ==
    ASSUME NEW r \in Route
    PROVE  /\ \A c \in Confs : [r EXCEPT !.conf = c] \in Route
           /\ \A k \in Creds : [r EXCEPT !.cred = k] \in Route
           /\ \A c \in Confs, u \in Users : [r EXCEPT !.conf = c, !.user = u] \in Route
           /\ \A e \in BOOLEAN : [r EXCEPT !.enabled = e] \in Route
           /\ \A c \in Confs : [r EXCEPT !.conf = c].kind = r.kind /\ [r EXCEPT !.conf = c].enabled = r.enabled
           /\ \A k \in Creds : [r EXCEPT !.cred = k].kind = r.kind /\ [r EXCEPT !.cred = k].enabled = r.enabled
           /\ \A c \in Confs, u \in Users : /\ [r EXCEPT !.conf = c, !.user = u].kind = r.kind
                                            /\ [r EXCEPT !.conf = c, !.user = u].enabled = r.enabled
           /\ \A e \in BOOLEAN : [r EXCEPT !.enabled = e].kind = r.kind /\ [r EXCEPT !.enabled = e].enabled = e
  BY DEF Route

\* What a registry holds for a registered alias is a route.
LEMMA RegisteredRoute ==
    ASSUME TypeOK, NEW f \in Families, NEW a \in Aliases, Registered(f, a)
    PROVE  reg[f][a] \in Route
  BY DEF TypeOK, Tables, Table, Registered

\* Every request is stopAll or begins an operation on one route.
LEMMA RequestBegins == TypeOK /\ Request => stopAll \/ BeginsOperation
  <1> SUFFICES ASSUME TypeOK, Request, ~stopAll PROVE BeginsOperation
    OBVIOUS
  <1>0. StillWanted \subseteq Aliases
    BY DEF TypeOK, StillWanted
  <1>1. ASSUME NEW kind \in {"http", "llm", "ssh"}, NEW u \in Users \cup {NoUser},
               NEW k \in Creds, NEW c \in Confs
        PROVE  NewRoute(kind, u, k, c) \in Route /\ ~NewRoute(kind, u, k, c).enabled
    BY DEF NewRoute, Route
  <1>2. ASSUME NEW name \in OperationNames, NEW step \in RouteSteps, NEW f \in Families,
               NEW a \in Aliases, NEW r \in Route \cup {NoRoute}, Free,
               Begin(name, step, f, a, r), Asked(name, step, f, a, r),
               StillWanted \subseteq wanted', wanted' \subseteq Aliases
        PROVE  BeginsOperation
    BY <1>2 DEF BeginsOperation
  <1>3. ASSUME NEW f \in Families, NEW a \in Aliases, NEW r \in Route \cup {NoRoute}, Free, AliasFree(a),
               r # NoRoute => ~r.enabled, Begin("create", "put", f, a, r), wanted' = StillWanted
        PROVE  BeginsOperation
    <2>1. Asked("create", "put", f, a, r)
      BY <1>3 DEF Asked
    <2> QED  BY <1>0, <1>2, <1>3, <2>1 DEF OperationNames, RouteSteps
  <1>4. ASSUME NEW a \in Aliases, NEW k \in Creds, NEW c \in Confs,
               createHTTPRoute(a, k, c) \/ createLLMRoute(a, k, c)
        PROVE  BeginsOperation
    BY <1>1, <1>3, <1>4 DEF createHTTPRoute, createLLMRoute, Families
  <1>5. ASSUME NEW a \in Aliases, NEW u \in Users, NEW k \in Creds, NEW c \in Confs,
               createSSHRoute(a, u, k, c)
        PROVE  BeginsOperation
    BY <1>1, <1>3, <1>5 DEF createSSHRoute, Families
  <1>6. ASSUME NEW f \in Families, NEW a \in Aliases, createInvalidRoute(f, a)
        PROVE  BeginsOperation
    BY <1>3, <1>6 DEF createInvalidRoute
  <1>7. ASSUME NEW f \in Families, NEW a \in Aliases, NEW r \in Route, Free, Registered(f, a),
               r.kind = reg[f][a].kind, r.enabled = reg[f][a].enabled, Replace(f, a, r)
        PROVE  BeginsOperation
    <2>1. Asked("replace", "upsert", f, a, r)
      BY <1>7 DEF Asked
    <2> QED  BY <1>0, <1>2, <1>7, <2>1 DEF Replace, OperationNames, RouteSteps
  <1>8. ASSUME NEW a \in Aliases, NEW c \in Confs, setLLMPolicy(a, c)
        PROVE  BeginsOperation
    <2>1. Free /\ Registered("http", a) /\ Replace("http", a, [reg["http"][a] EXCEPT !.conf = c])
      BY <1>8 DEF setLLMPolicy
    <2>2. PICK q \in Route : q = reg["http"][a]
      BY <2>1, RegisteredRoute DEF Families
    <2>3. PICK r : r = [q EXCEPT !.conf = c]
      OBVIOUS
    <2>4. r \in Route /\ r.kind = q.kind /\ r.enabled = q.enabled
      BY <2>3, RouteUpdates, ZenonT(40)
    <2> QED  BY <1>7, <2>1, <2>2, <2>3, <2>4 DEF Families
  <1>9. ASSUME NEW a \in Aliases, NEW k \in Creds, rotateLLMAPIKey(a, k)
        PROVE  BeginsOperation
    <2>1. Free /\ Registered("http", a) /\ Replace("http", a, [reg["http"][a] EXCEPT !.cred = k])
      BY <1>9 DEF rotateLLMAPIKey
    <2>2. PICK q \in Route : q = reg["http"][a]
      BY <2>1, RegisteredRoute DEF Families
    <2>3. PICK r : r = [q EXCEPT !.cred = k]
      OBVIOUS
    <2>4. r \in Route /\ r.kind = q.kind /\ r.enabled = q.enabled
      BY <2>3, RouteUpdates, ZenonT(40)
    <2> QED  BY <1>7, <2>1, <2>2, <2>3, <2>4 DEF Families
  <1>10. ASSUME NEW a \in Aliases, NEW u \in Users, NEW c \in Confs, setSSHPolicy(a, u, c)
         PROVE  BeginsOperation
    <2>1. Free /\ Registered("ssh", a) /\ Replace("ssh", a, [reg["ssh"][a] EXCEPT !.conf = c, !.user = u])
      BY <1>10 DEF setSSHPolicy
    <2>2. PICK q \in Route : q = reg["ssh"][a]
      BY <2>1, RegisteredRoute DEF Families
    <2>3. PICK r : r = [q EXCEPT !.conf = c, !.user = u]
      OBVIOUS
    <2>4. r \in Route /\ r.kind = q.kind /\ r.enabled = q.enabled
      BY <2>3 DEF Route
    <2> QED  BY <1>7, <2>1, <2>2, <2>3, <2>4 DEF Families
  <1>11. ASSUME NEW a \in Aliases, NEW c \in Confs, setSSHKeywordReplacements(a, c)
         PROVE  BeginsOperation
    <2>1. Free /\ Registered("ssh", a) /\ Replace("ssh", a, [reg["ssh"][a] EXCEPT !.conf = c])
      BY <1>11 DEF setSSHKeywordReplacements
    <2>2. PICK q \in Route : q = reg["ssh"][a]
      BY <2>1, RegisteredRoute DEF Families
    <2>3. PICK r : r = [q EXCEPT !.conf = c]
      OBVIOUS
    <2>4. r \in Route /\ r.kind = q.kind /\ r.enabled = q.enabled
      BY <2>3, RouteUpdates
    <2> QED  BY <1>7, <2>1, <2>2, <2>3, <2>4 DEF Families
  <1>12. ASSUME NEW a \in Aliases, NEW k \in Creds, rotateSSHCredential(a, k)
         PROVE  BeginsOperation
    <2>1. Free /\ Registered("ssh", a) /\ Replace("ssh", a, [reg["ssh"][a] EXCEPT !.cred = k])
      BY <1>12 DEF rotateSSHCredential
    <2>2. PICK q \in Route : q = reg["ssh"][a]
      BY <2>1, RegisteredRoute DEF Families
    <2>3. PICK r : r = [q EXCEPT !.cred = k]
      OBVIOUS
    <2>4. r \in Route /\ r.kind = q.kind /\ r.enabled = q.enabled
      BY <2>3, RouteUpdates
    <2> QED  BY <1>7, <2>1, <2>2, <2>3, <2>4 DEF Families
  <1>13. ASSUME NEW a \in Aliases, updateSSHTarget(a)
         PROVE  BeginsOperation
    <2>1. Asked("retarget", "put", "ssh", a, reg["ssh"][a]) /\ reg["ssh"][a] \in Route
      BY <1>13, RegisteredRoute DEF updateSSHTarget, Asked, Families
    <2> QED  BY <1>0, <1>2, <1>13, <2>1 DEF updateSSHTarget, OperationNames, RouteSteps, Families
  <1>14. \A a \in Aliases : FamilyOf(a) \in Families
    BY DEF FamilyOf, Families
  <1>15. ASSUME NEW a \in Aliases, NEW enabled \in BOOLEAN, setRouteEnabled(a, enabled)
         PROVE  BeginsOperation
    <2>1. PICK f \in Families : f = FamilyOf(a)
      BY <1>14
    <2>2. PICK r : r = [reg[f][a] EXCEPT !.enabled = enabled]
      OBVIOUS
    <2>3. /\ Free /\ Registered(f, a) /\ Begin("enable", "upsert", f, a, r)
          /\ wanted' = IF enabled THEN StillWanted \cup {a} ELSE StillWanted
      BY <1>15, <2>1, <2>2 DEF setRouteEnabled
    <2>4. r \in Route /\ r.kind = reg[f][a].kind /\ r.enabled = enabled
      <3>1. PICK q \in Route : q = reg[f][a]
        BY <2>3, RegisteredRoute
      <3> QED  BY <2>2, <3>1, RouteUpdates, ZenonT(40)
    <2>5. StillWanted \subseteq wanted' /\ wanted' \subseteq Aliases /\ (enabled => a \in wanted')
      BY <1>0, <2>3
    <2>6. Asked("enable", "upsert", f, a, r)
      BY <2>3, <2>4, <2>5 DEF Asked
    <2> QED  BY <1>2, <2>3, <2>4, <2>5, <2>6 DEF OperationNames, RouteSteps
  <1>16. ASSUME NEW a \in Aliases, deleteRoute(a)
         PROVE  BeginsOperation
    <2>1. PICK f \in Families : f = FamilyOf(a)
      BY <1>14
    <2>2. Free /\ Registered(f, a) /\ Begin("delete", "upsert", f, a, NoRoute) /\ wanted' = StillWanted
      BY <1>16, <2>1 DEF deleteRoute
    <2>3. Asked("delete", "upsert", f, a, NoRoute)
      BY <2>2 DEF Asked
    <2> QED  BY <1>0, <1>2, <2>2, <2>3 DEF OperationNames, RouteSteps
  <1> QED
    BY <1>4, <1>5, <1>6, <1>8, <1>9, <1>10, <1>11, <1>12, <1>13, <1>15, <1>16 DEF Request

-----------------------------------------------------------------------------
(* Type correctness.                                                       *)

\* Writing a registry to its file gives a file.
LEMMA SaveType ==
    ASSUME file \in Tables, NEW f \in Families, NEW t \in Table, NEW outcome, Save(f, t, outcome)
    PROVE  file' \in Tables
  BY DEF Save, Tables

\* Writing or deleting a record gives a secret store.
LEMMA PutTargetType ==
    ASSUME secrets \in [Refs -> Contents], NEW ref \in Refs, NEW content \in Contents,
           NEW outcome, PutTarget(ref, content, outcome)
    PROVE  secrets' \in [Refs -> Contents]
  BY DEF PutTarget

\* The history variables stay sets of aliases, routes and families.
LEMMA HistoryType ==
    ASSUME TypeOK, NEW outcome, NEW f \in Families
    PROVE  /\ UnsyncedBy(f, outcome) \subseteq Families
           /\ op \in RouteOperation => TornBy(outcome) \subseteq Families \X Aliases
           /\ Acknowledged \subseteq Aliases
  BY DEF TypeOK, UnsyncedBy, TornBy, Acknowledged, RouteOperation

\* The invariant holds at first and every step keeps it: the requests, the writes
\* of an operation on one route, the writes of stopAll, crash and start.
THEOREM TypeCorrect == Spec => []TypeOK
  <1>1. Init => TypeOK
    BY DEF Init, TypeOK, Tables, Table, Empty, NoRoutes, Contents, Idle
  <1>2. TypeOK /\ [Next]_vars => TypeOK'
    <2> SUFFICES ASSUME TypeOK, [Next]_vars PROVE TypeOK'
      OBVIOUS
    <2>1. CASE UNCHANGED vars
      BY <2>1 DEF vars, TypeOK
    <2>2. CASE BeginsOperation
      <3>1. op' \in RouteOperation
        BY <2>2 DEF BeginsOperation, OperationNames, Begin, TypeOK, RouteOperation
      <3>2. torn' \subseteq Families \X Aliases
        BY <2>2 DEF BeginsOperation, Begin, TypeOK, StillTorn
      <3> QED  BY <2>2, <3>1, <3>2 DEF BeginsOperation, Begin, TypeOK
    <2>3. CASE stopAll
      <3>1. op' \in StopOperation
        BY <2>3 DEF stopAll, TypeOK, StopOperation, StopSteps
      <3> QED  BY <2>3, <3>1 DEF stopAll, TypeOK, StillTorn, StillWanted
    <2>4. CASE Put
      <3>1. op \in RouteOperation
        BY <2>4, RouteStep DEF Put, At, RouteSteps
      <3>2. op' \in RouteOperation \cup {Idle}
        BY <2>4, <3>1, GoToRoute DEF Put, Release, RouteSteps
      <3>3. <<op.family, op.alias>> \in Refs /\ op.family \in Contents
        BY <3>1 DEF RouteOperation, Refs, Contents, Families
      <3>4. secrets' \in [Refs -> Contents]
        BY <2>4, <3>3, PutTargetType DEF Put, TypeOK
      <3> QED  BY <2>4, <3>2, <3>4 DEF Put, TypeOK, history
    <2>5. CASE Upsert
      <3>1. op \in RouteOperation
        BY <2>5, RouteStep DEF Upsert, At, RouteSteps
      <3>2. op' \in RouteOperation \cup {Idle}
        BY <2>5, <3>1, GoToRoute DEF Upsert, Release, RouteSteps
      <3>3. reg' \in Tables
        BY <2>5, <3>1, InstallType DEF Upsert, TypeOK, RouteOperation
      <3> QED  BY <2>5, <3>2, <3>3 DEF Upsert, TypeOK, history
    <2>6. CASE SaveRoutes
      <3>1. op \in RouteOperation
        BY <2>6, RouteStep DEF SaveRoutes, At, RouteSteps
      <3>2. op' \in RouteOperation \cup {Idle}
        BY <2>6, <3>1, GoToRoute DEF SaveRoutes, Release, RouteSteps
      <3>3. file' \in Tables
        BY <2>6, <3>1, SaveType DEF SaveRoutes, TypeOK, RouteOperation, Tables
      <3>4. torn' \subseteq Families \X Aliases /\ unsynced' \subseteq Families /\ wanted' \subseteq Aliases
        BY <2>6, <3>1, HistoryType DEF SaveRoutes, TypeOK, RouteOperation
      <3> QED  BY <2>6, <3>2, <3>3, <3>4 DEF SaveRoutes, TypeOK
    <2>7. CASE Undo
      <3>1. op \in RouteOperation
        BY <2>7, RouteStep DEF Undo, At, RouteSteps
      <3>2. op' \in RouteOperation \cup {Idle}
        BY <2>7, <3>1, GoToRoute DEF Undo, Release, RouteSteps
      <3>3. reg' \in Tables
        BY <2>7, <3>1, InstallType DEF Undo, TypeOK, RouteOperation, Tables, Table
      <3> QED  BY <2>7, <3>2, <3>3 DEF Undo, TypeOK, history
    <2>8. CASE Unput \/ Unlink
      <3>1. op \in RouteOperation
        BY <2>8, RouteStep DEF Unput, Unlink, At, RouteSteps
      <3>2. <<op.family, op.alias>> \in Refs /\ "none" \in Contents
        BY <3>1 DEF RouteOperation, Refs, Contents
      <3>3. secrets' \in [Refs -> Contents]
        BY <2>8, <3>2, PutTargetType DEF Unput, Unlink, DeleteTarget, TypeOK
      <3>4. wanted' \subseteq Aliases
        BY <2>8, HistoryType DEF Unput, Unlink, TypeOK, history, Families
      <3> QED  BY <2>8, <3>3, <3>4 DEF Unput, Unlink, Release, TypeOK, history
    <2>9. CASE StopHTTP \/ StopSSH
      <3>1. op' \in StopOperation
        BY <2>9, StopStep, GoToStop DEF StopHTTP, StopSSH, At, StopSteps
      <3>2. reg' \in Tables
        BY <2>9, DisableAllType DEF StopHTTP, StopSSH, TypeOK, Tables, Families
      <3> QED  BY <2>9, <3>1, <3>2 DEF StopHTTP, StopSSH, TypeOK, history
    <2>10. CASE StopSaveHTTP
      <3>1. op' \in StopOperation
        BY <2>10, StopStep, GoToStop DEF StopSaveHTTP, At, StopSteps
      <3>2. file' \in Tables
        BY <2>10, SaveType DEF StopSaveHTTP, TypeOK, Tables, Families
      <3>3. unsynced' \subseteq Families
        BY <2>10, HistoryType DEF StopSaveHTTP, Families
      <3> QED  BY <2>10, <3>1, <3>2, <3>3 DEF StopSaveHTTP, TypeOK
    <2>11. CASE StopUndoHTTP
      <3>1. op \in StopOperation
        BY <2>11, StopStep DEF StopUndoHTTP, At, StopSteps
      <3>2. reg' \in Tables
        BY <2>11, <3>1, RestoreEnabledType DEF StopUndoHTTP, TypeOK, Tables, Families, StopOperation
      <3> QED  BY <2>11, <3>2 DEF StopUndoHTTP, Release, TypeOK, history
    <2>12. CASE StopSaveSSH
      <3>1. op' \in StopOperation \cup {Idle}
        BY <2>12, StopStep, GoToStop DEF StopSaveSSH, At, StopSteps, Release
      <3>2. file' \in Tables
        BY <2>12, SaveType DEF StopSaveSSH, TypeOK, Tables, Families
      <3>3. unsynced' \subseteq Families /\ wanted' \subseteq Aliases
        BY <2>12, HistoryType DEF StopSaveSSH, Families, TypeOK
      <3> QED  BY <2>12, <3>1, <3>2, <3>3 DEF StopSaveSSH, TypeOK
    <2>13. CASE StopUndoBoth
      <3>1. op \in StopOperation
        BY <2>13, StopStep DEF StopUndoBoth, At, StopSteps
      <3>2. op' \in StopOperation
        BY <2>13, <3>1, GoToStop DEF StopUndoBoth, StopSteps
      <3>3. reg' \in Tables
        BY <2>13, <3>1, RestoreEnabledType DEF StopUndoBoth, TypeOK, Tables, StopOperation
      <3> QED  BY <2>13, <3>2, <3>3 DEF StopUndoBoth, TypeOK, history
    <2>14. CASE StopResave
      <3>1. op \in StopOperation
        BY <2>14, StopStep DEF StopResave, At, StopSteps
      <3>2. file' \in Tables
        BY <2>14, <3>1, SaveType DEF StopResave, TypeOK, Tables, Families, StopOperation
      <3> QED  BY <2>14, <3>2 DEF StopResave, Release, TypeOK, Families
    <2>15. CASE Crash
      BY <2>15 DEF Crash, TypeOK, Empty, NoRoutes, Tables, Table
    <2>16. CASE Start
      <3>1. HostRef \in Refs /\ "identity" \in Contents
        BY DEF HostRef, Refs, Families, Contents
      <3>2. secrets' \in [Refs -> Contents]
        BY <2>16, <3>1, PutTargetType DEF Start, LoadOrCreateHostSigner, TypeOK
      <3> QED  BY <2>16, <3>2 DEF Start, TypeOK, history
    <2> QED
      BY <2>1, <2>2, <2>3, <2>4, <2>5, <2>6, <2>7, <2>8, <2>9, <2>10, <2>11, <2>12, <2>13,
         <2>14, <2>15, <2>16, RequestBegins DEF Next, Work
  <1> QED  BY <1>1, <1>2, PTL DEF Spec

-----------------------------------------------------------------------------
(* Aliases and user names.                                                 *)

\* Nobody holds mutationMu while the process is down.
LockOnlyWhenUp == status # "up" => op = Idle

\* While an operation works on an alias, the other family does not have it: the
\* check made under the lock stays true until the lock is released.
OtherFamilyFree ==
    op.step \in RouteSteps => \A f \in Families \ {op.family} : reg[f][op.alias] = NoRoute

\* What the operation saw when it took the lock had distinct user names, and is
\* still what the SSH registry holds for every other alias.
OthersAsBefore ==
    op.step \in RouteSteps =>
        /\ DistinctUsers(op.prev["ssh"])
        /\ \A b \in Aliases \ {op.alias} : reg["ssh"][b] = op.prev["ssh"][b]

LockInv == LockOnlyWhenUp /\ OtherFamilyFree /\ OthersAsBefore

\* The steps of stopAll change neither aliases nor user names.
SameAliasesAndUsers ==
    \A f \in Families, a \in Aliases :
        /\ reg'[f][a] = NoRoute <=> reg[f][a] = NoRoute
        /\ reg[f][a] # NoRoute => reg'[f][a].user = reg[f][a].user

Stopping ==
    \/ StopHTTP \/ StopSSH \/ StopSaveHTTP \/ StopUndoHTTP
    \/ StopSaveSSH \/ StopUndoBoth \/ StopResave

\* Every step of stopAll leaves aliases and users alone, in memory and, what it
\* saves of the SSH routes, on disk.
LEMMA StoppingKeeps ==
    ASSUME TypeOK, Stopping
    PROVE  /\ SameAliasesAndUsers
           /\ op'.step \notin RouteSteps
           /\ status = "up" /\ status' = "up"
           /\ file'["ssh"] = file["ssh"] \/ file'["ssh"] = reg["ssh"]
  <1>1. op \in StopOperation
    BY StopStep DEF Stopping, StopHTTP, StopSSH, StopSaveHTTP, StopUndoHTTP, StopSaveSSH,
                    StopUndoBoth, StopResave, At, StopSteps
  <1>2. /\ reg["http"] \in Table /\ reg["ssh"] \in Table
        /\ op.prev["http"] \in Table /\ op.prev["ssh"] \in Table
    BY <1>1 DEF TypeOK, Tables, Families, StopOperation
  <1>3. CASE StopHTTP \/ StopSSH
    <2>1. SameAliasesAndUsers
      BY <1>2, <1>3, DisableAllType DEF StopHTTP, StopSSH, SameAliasesAndUsers, Families, TypeOK, Tables
    <2>2. op'.step \notin RouteSteps
      BY <1>1, <1>3 DEF StopHTTP, StopSSH, GoTo, StopOperation, RouteSteps
    <2> QED  BY <1>3, <2>1, <2>2 DEF StopHTTP, StopSSH, At
  <1>4. CASE StopSaveHTTP \/ StopSaveSSH \/ StopResave
    <2>1. SameAliasesAndUsers
      BY <1>4 DEF StopSaveHTTP, StopSaveSSH, StopResave, SameAliasesAndUsers
    <2>2. op'.step \notin RouteSteps
      BY <1>1, <1>4 DEF StopSaveHTTP, StopSaveSSH, StopResave, GoTo, Release, Idle,
                        StopOperation, RouteSteps
    <2>3. file'["ssh"] = file["ssh"] \/ file'["ssh"] = reg["ssh"]
      BY <1>4 DEF StopSaveHTTP, StopSaveSSH, StopResave, Save, TypeOK, Tables, Families
    <2> QED  BY <1>4, <2>1, <2>2, <2>3 DEF StopSaveHTTP, StopSaveSSH, StopResave, At
  <1>5. CASE StopUndoHTTP \/ StopUndoBoth
    <2>1. SameAliasesAndUsers
      BY <1>2, <1>5, RestoreEnabledType
         DEF StopUndoHTTP, StopUndoBoth, SameAliasesAndUsers, Families, TypeOK, Tables
    <2>2. op'.step \notin RouteSteps
      BY <1>1, <1>5 DEF StopUndoHTTP, StopUndoBoth, GoTo, Release, Idle, StopOperation, RouteSteps
    <2> QED  BY <1>5, <2>1, <2>2 DEF StopUndoHTTP, StopUndoBoth, At
  <1> QED  BY <1>3, <1>4, <1>5 DEF Stopping

\* The steps of an operation on one route keep its family, alias and what it saw,
\* change no registry entry but its own, and save nothing but a registry.
Working == Put \/ Upsert \/ SaveRoutes \/ Undo \/ Unput \/ Unlink

\* What those steps keep.
LEMMA WorkingKeeps ==
    ASSUME TypeOK, Working
    PROVE  /\ op \in RouteOperation /\ op.step \in RouteSteps
           /\ status = "up" /\ status' = "up"
           /\ op' = Idle \/ (op'.family = op.family /\ op'.alias = op.alias /\ op'.prev = op.prev)
           /\ \/ reg' = reg
              \/ reg' = Install(op.family, op.alias, op.prev[op.family][op.alias])
              \/ reg' = Install(op.family, op.alias, op.new) /\ ~Refused
           /\ file'["ssh"] = file["ssh"] \/ file'["ssh"] = reg["ssh"]
  <1>1. op \in RouteOperation /\ op.step \in RouteSteps
    BY RouteStep DEF Working, Put, Upsert, SaveRoutes, Undo, Unput, Unlink, At, RouteSteps
  <1>2. op' = Idle \/ (op'.family = op.family /\ op'.alias = op.alias /\ op'.prev = op.prev)
    BY <1>1, GoToRoute DEF Working, Put, Upsert, SaveRoutes, Undo, Unput, Unlink, Release, RouteSteps
  <1>3. file'["ssh"] = file["ssh"] \/ file'["ssh"] = reg["ssh"]
    BY <1>1 DEF Working, Put, Upsert, SaveRoutes, Undo, Unput, Unlink, Save, TypeOK, Tables,
                Families, RouteOperation
  <1> QED  BY <1>1, <1>2, <1>3 DEF Working, Put, Upsert, SaveRoutes, Undo, Unput, Unlink, At

\* Installing a route of a user that no other alias has keeps user names distinct.
LEMMA InstallUsers ==
    ASSUME TypeOK, op \in RouteOperation, DistinctUsers(reg["ssh"]),
           reg' = Install(op.family, op.alias, op.new), ~Refused
    PROVE  DistinctUsers(reg'["ssh"])
  <1>1. CASE op.family = "http"
    <2>1. reg'["ssh"] = reg["ssh"]
      BY <1>1 DEF Install, TypeOK, Tables, Families
    <2> QED  BY <2>1
  <1>2. CASE op.family = "ssh"
    <2>1. reg'["ssh"] = [reg["ssh"] EXCEPT ![op.alias] = op.new]
      BY <1>2 DEF Install, TypeOK, Tables, Families
    <2>2. reg["ssh"] \in Table /\ op.alias \in Aliases
      BY DEF TypeOK, Tables, Families, RouteOperation
    <2>3. op.new = NoRoute \/ \A b \in Aliases \ {op.alias} :
                                reg["ssh"][b] # NoRoute => reg["ssh"][b].user # op.new.user
      BY <1>2 DEF Refused, UserInUse
    <2> QED  BY <2>1, <2>2, <2>3 DEF DistinctUsers, Table
  <1> QED  BY <1>1, <1>2 DEF RouteOperation, Families

\* The lock invariant, disjoint aliases and distinct users are kept by every step.
LEMMA LockInduction ==
    ASSUME TypeOK, TypeOK', LockInv, AliasesDisjoint, UsersDistinct, [Next]_vars
    PROVE  LockInv' /\ AliasesDisjoint' /\ UsersDistinct'
  <1> USE DEF LockInv
  <1>1. CASE UNCHANGED vars
    BY <1>1 DEF vars, LockOnlyWhenUp, OtherFamilyFree, OthersAsBefore, AliasesDisjoint,
                UsersDistinct, Registered, DistinctUsers
  <1>2. CASE BeginsOperation
    <2>1. PICK name \in OperationNames, step \in RouteSteps, f \in Families, a \in Aliases,
               r \in Route \cup {NoRoute} :
            Begin(name, step, f, a, r) /\ (AliasFree(a) \/ Registered(f, a))
      BY <1>2 DEF BeginsOperation, Asked
    <2>2. op'.family = f /\ op'.alias = a /\ op'.prev = reg /\ reg' = reg /\ file' = file
          /\ status' = "up"
      BY <1>2, <2>1 DEF BeginsOperation, Begin, Free
    <2>3. \A g \in Families \ {f} : reg[g][a] = NoRoute
      BY <2>1 DEF AliasesDisjoint, AliasFree, Registered, Families
    <2>4. LockOnlyWhenUp'
      BY <2>2 DEF LockOnlyWhenUp
    <2>5. OtherFamilyFree'
      BY <2>2, <2>3 DEF OtherFamilyFree
    <2>6. OthersAsBefore'
      BY <2>2 DEF OthersAsBefore, UsersDistinct
    <2> QED  BY <2>2, <2>4, <2>5, <2>6 DEF AliasesDisjoint, UsersDistinct, Registered
  <1>3. CASE stopAll
    <2>1. op'.step \notin RouteSteps /\ reg' = reg /\ file' = file /\ status' = "up"
      BY <1>3 DEF stopAll, Free, RouteSteps
    <2> QED
      BY <2>1 DEF LockOnlyWhenUp, OtherFamilyFree, OthersAsBefore, AliasesDisjoint,
                  UsersDistinct, Registered
  <1>4. CASE Working
    <2>1. /\ op \in RouteOperation /\ op.step \in RouteSteps
          /\ status' = "up"
          /\ op' = Idle \/ (op'.family = op.family /\ op'.alias = op.alias /\ op'.prev = op.prev)
          /\ \/ reg' = reg
             \/ reg' = Install(op.family, op.alias, op.prev[op.family][op.alias])
             \/ reg' = Install(op.family, op.alias, op.new) /\ ~Refused
          /\ file'["ssh"] = file["ssh"] \/ file'["ssh"] = reg["ssh"]
      BY <1>4, WorkingKeeps
    <2>2. op.family \in Families /\ op.alias \in Aliases /\ op.prev \in Tables
      BY <2>1 DEF RouteOperation
    <2>3. \A f \in Families, b \in Aliases :
            f # op.family \/ b # op.alias => reg'[f][b] = reg[f][b]
      BY <2>1, <2>2 DEF Install, TypeOK, Tables, Table
    <2>4. \A f \in Families \ {op.family} : reg'[f][op.alias] = NoRoute
      BY <2>1, <2>2, <2>3 DEF OtherFamilyFree
    <2>5. AliasesDisjoint'
      BY <2>2, <2>3, <2>4 DEF AliasesDisjoint, Registered, Families
    <2>6. \A b \in Aliases \ {op.alias} : reg'["ssh"][b] = op.prev["ssh"][b]
      BY <2>1, <2>2, <2>3 DEF OthersAsBefore, Families
    <2>7. DistinctUsers(reg'["ssh"])
      <3>1. CASE reg' = reg
        BY <3>1 DEF UsersDistinct
      <3>2. CASE reg' = Install(op.family, op.alias, op.new) /\ ~Refused
        BY <2>1, <3>2, InstallUsers DEF UsersDistinct
      <3>3. CASE reg' = Install(op.family, op.alias, op.prev[op.family][op.alias])
        <4>1. CASE op.family = "http"
          BY <2>2, <3>3, <4>1 DEF Install, TypeOK, Tables, Families, UsersDistinct
        <4>2. CASE op.family = "ssh"
          <5>1. reg'["ssh"][op.alias] = op.prev["ssh"][op.alias]
            BY <2>2, <3>3, <4>2 DEF Install, TypeOK, Tables, Table
          <5>2. \A b \in Aliases : reg'["ssh"][b] = op.prev["ssh"][b]
            BY <2>6, <5>1
          <5> QED  BY <2>1, <5>2 DEF OthersAsBefore, DistinctUsers
        <4> QED  BY <2>2, <4>1, <4>2 DEF Families
      <3> QED  BY <2>1, <3>1, <3>2, <3>3
    <2>8. UsersDistinct'
      BY <2>1, <2>7 DEF UsersDistinct
    <2>9. LockOnlyWhenUp' /\ OtherFamilyFree' /\ OthersAsBefore'
      BY <2>1, <2>4, <2>6 DEF LockOnlyWhenUp, OtherFamilyFree, OthersAsBefore, Idle, RouteSteps
    <2> QED  BY <2>5, <2>8, <2>9
  <1>5. CASE Stopping
    <2>1. /\ SameAliasesAndUsers
          /\ op'.step \notin RouteSteps /\ status' = "up"
          /\ file'["ssh"] = file["ssh"] \/ file'["ssh"] = reg["ssh"]
      BY <1>5, StoppingKeeps
    <2>2. AliasesDisjoint'
      BY <2>1 DEF SameAliasesAndUsers, AliasesDisjoint, Registered, Families
    <2>3. DistinctUsers(reg'["ssh"])
      BY <2>1 DEF SameAliasesAndUsers, UsersDistinct, DistinctUsers, Families
    <2> QED
      BY <2>1, <2>2, <2>3 DEF LockOnlyWhenUp, OtherFamilyFree, OthersAsBefore, UsersDistinct
  <1>6. CASE Crash
    <2>1. op' = Idle /\ reg' = Empty /\ file' = file
      BY <1>6 DEF Crash
    <2>2. AliasesDisjoint' /\ DistinctUsers(reg'["ssh"])
      BY <2>1 DEF AliasesDisjoint, Registered, DistinctUsers, Empty, NoRoutes, Families
    <2> QED
      BY <2>1, <2>2 DEF LockOnlyWhenUp, OtherFamilyFree, OthersAsBefore, UsersDistinct, Idle,
                        RouteSteps
  <1>7. CASE Start
    <2>1. op' = Idle /\ file' = file
      BY <1>7 DEF Start, LockOnlyWhenUp
    <2>2. reg' = reg \/ (reg' = file /\ AliasesUnique)
      BY <1>7 DEF Start
    <2>3. AliasesDisjoint' /\ DistinctUsers(reg'["ssh"])
      BY <2>2 DEF AliasesDisjoint, AliasesUnique, Registered, UsersDistinct
    <2> QED
      BY <2>1, <2>3 DEF LockOnlyWhenUp, OtherFamilyFree, OthersAsBefore, UsersDistinct, Idle,
                        RouteSteps
  <1> QED
    BY <1>1, <1>2, <1>3, <1>4, <1>5, <1>6, <1>7, RequestBegins DEF Next, Work, Working, Stopping

\* At first nothing is registered and nobody holds the lock.
LEMMA LockInitial == Init => LockInv /\ AliasesDisjoint /\ UsersDistinct
  BY DEF Init, LockInv, LockOnlyWhenUp, OtherFamilyFree, OthersAsBefore, AliasesDisjoint,
         UsersDistinct, DistinctUsers, Registered, Empty, NoRoutes, Families, Idle, RouteSteps

\* No alias is ever registered as an HTTP and as an SSH route at once, whatever
\* write fails, wherever the process is killed and whatever is rolled back.
THEOREM AliasesStayDisjoint == Spec => []AliasesDisjoint
  <1>1. TypeOK /\ TypeOK' /\ (LockInv /\ AliasesDisjoint /\ UsersDistinct) /\ [Next]_vars
            => (LockInv /\ AliasesDisjoint /\ UsersDistinct)'
    BY LockInduction
  <1> QED  BY <1>1, LockInitial, TypeCorrect, PTL DEF Spec

\* No two SSH routes ever share a local user name, in the registry or in
\* ssh-routes.json.
THEOREM UsersStayDistinct == Spec => []UsersDistinct
  <1>1. TypeOK /\ TypeOK' /\ (LockInv /\ AliasesDisjoint /\ UsersDistinct) /\ [Next]_vars
            => (LockInv /\ AliasesDisjoint /\ UsersDistinct)'
    BY LockInduction
  <1> QED  BY <1>1, LockInitial, TypeCorrect, PTL DEF Spec

-----------------------------------------------------------------------------
(* Files, targets and enablement: the inductive invariant.                 *)

\* Memory is the file, up to routes that memory alone has switched off.
Near(saved, table) ==
    \A a \in Aliases :
        \/ saved[a] = table[a]
        \/ /\ saved[a] # NoRoute /\ saved[a].enabled
           /\ table[a] = [saved[a] EXCEPT !.enabled = FALSE]

\* What FilesMatchRegistries says of the routes in memory.
Match(tables) ==
    /\ "http" \notin unsynced => file["http"] = tables["http"]
    /\ "ssh" \notin unsynced => Near(file["ssh"], tables["ssh"])

\* What an operation on one route has done by the step it is at.
RouteOpInv ==
    op.step \in RouteSteps =>
        /\ \A g \in Families, b \in Aliases :
             g # op.family \/ b # op.alias => reg[g][b] = op.prev[g][b]
        /\ op.step \in {"put", "upsert", "unput"} => reg = op.prev
        /\ op.step \in {"save", "undo", "unlink"} => reg[op.family][op.alias] = op.new
        /\ op.name = "create" =>
             /\ op.step # "unlink"
             /\ \A g \in Families : op.prev[g][op.alias] = NoRoute
             /\ op.new # NoRoute => ~op.new.enabled
             /\ op.step \in {"save", "undo"} => op.new # NoRoute
        /\ op.name \in {"replace", "enable"} =>
             /\ op.step \in {"upsert", "save", "undo"}
             /\ op.new # NoRoute /\ op.prev[op.family][op.alias] # NoRoute
             /\ op.new.kind = op.prev[op.family][op.alias].kind
        /\ op.name = "retarget" => op.step = "put" /\ op.prev[op.family][op.alias] # NoRoute
        /\ op.name = "delete" =>
             /\ op.step \in {"upsert", "save", "undo", "unlink"}
             /\ op.new = NoRoute /\ op.prev[op.family][op.alias] # NoRoute

\* What stopAll has done.
StopInv ==
    op.step \in StopSteps =>
        /\ reg["http"] = IF op.step \in {"stopHTTP", "resave"} THEN op.prev["http"]
                         ELSE DisableAll(op.prev["http"])
        /\ reg["ssh"] = IF op.step \in {"stopHTTP", "stopSSH", "resave"} THEN op.prev["ssh"]
                        ELSE DisableAll(op.prev["ssh"])
        /\ op.step = "saveSSH" => file["http"] = reg["http"]

\* Until an operation has saved, the files match what it saw when it began.
MatchInv ==
    status = "up" =>
        IF op.step \in {"idle", "unput", "unlink"} THEN Match(reg)
        ELSE /\ op.step \notin {"saveSSH", "undoBoth", "resave"} /\ "http" \notin unsynced
                  => file["http"] = op.prev["http"]
             /\ "ssh" \notin unsynced => Near(file["ssh"], op.prev["ssh"])

\* The operation works on this route, and does so under this name.
Own(name, f, a) == op.name = name /\ op.family = f /\ op.alias = a

\* A file has a route that the registry has not only after a creation that failed
\* after the rename, or while a deletion is not saved.
TornInv ==
    status = "up" =>
        \A f \in Families, a \in Aliases :
            /\ file[f][a] # NoRoute
            /\ reg[f][a] = NoRoute \/ Own("create", f, a)
            /\ ~(Own("delete", f, a) /\ op.step \in {"save", "undo"})
            => <<f, a>> \in torn /\ ~file[f][a].enabled

\* Every route that is registered, saved, or may be put back, has its target.
TargetInv ==
    /\ \A f \in Families, a \in Aliases :
         (file[f][a] # NoRoute \/ reg[f][a] # NoRoute) /\ <<f, a>> \notin torn => secrets[<<f, a>>] = f
    /\ op.step \in {"put", "upsert", "save", "undo"} =>
         /\ op.prev[op.family][op.alias] # NoRoute /\ <<op.family, op.alias>> \notin torn
              => secrets[<<op.family, op.alias>>] = op.family
         /\ op.name = "create" /\ op.step # "put" => secrets[<<op.family, op.alias>>] = op.family

\* Every enabled route that is registered, saved, being installed or may be put back
\* was enabled on request.
WantedInv ==
    /\ NeverEnabledUnasked
    /\ op.step \in RouteSteps /\ op.new # NoRoute => (op.new.enabled => op.alias \in wanted)
    /\ op # Idle => \A f \in Families, a \in Aliases :
                       op.prev[f][a] # NoRoute => (op.prev[f][a].enabled => a \in wanted)

\* When nobody serves, the files are as the last server left them.
DownInv == status # "up" => ClashOnlyAfterTornSave

StoreInv ==
    /\ RouteOpInv
    /\ StopInv
    /\ MatchInv
    /\ TornInv
    /\ DownInv
    /\ TargetInv
    /\ WantedInv

IInv == TypeOK /\ LockInv /\ AliasesDisjoint /\ UsersDistinct /\ StoreInv

-----------------------------------------------------------------------------
(* What the invariant rests on.                                            *)

\* What an operation on one route carries.
LEMMA RouteFields ==
    ASSUME TypeOK, op.step \in RouteSteps
    PROVE  /\ op \in RouteOperation /\ op # Idle /\ op.name \in OperationNames
           /\ op.family \in Families /\ op.alias \in Aliases
           /\ op.new \in Route \cup {NoRoute} /\ op.prev \in Tables
           /\ op.step \notin StopSteps /\ op.step # "idle"
<1>1. op \in RouteOperation
  BY RouteStep
<1>2. op # Idle
  BY DEF RouteSteps, Idle
<1> QED BY <1>1, <1>2 DEF RouteOperation, OperationNames, RouteSteps, StopSteps

\* What stopAll carries.
LEMMA StopFields ==
    ASSUME TypeOK, op.step \in StopSteps
    PROVE  /\ op \in StopOperation /\ op # Idle /\ op.name = "stopAll" /\ op.prev \in Tables
           /\ op.step \notin RouteSteps /\ op.step # "idle"
<1>1. op \in StopOperation
  BY StopStep
<1>2. op # Idle
  BY DEF StopSteps, Idle
<1> QED BY <1>1, <1>2 DEF StopOperation, RouteSteps, StopSteps

\* Nothing is under way.
LEMMA IdleFields ==
    ASSUME op = Idle
    PROVE  op.step = "idle" /\ op.name = "none" /\ op.step \notin RouteSteps /\ op.step \notin StopSteps
BY DEF Idle, RouteSteps, StopSteps

\* An operation that moves on keeps all but its step.
LEMMA RouteGoes ==
    ASSUME op \in RouteOperation, NEW s \in RouteSteps, GoTo(s)
    PROVE  /\ op' \in RouteOperation /\ op' # Idle /\ op'.step = s /\ op'.name = op.name
           /\ op'.family = op.family /\ op'.alias = op.alias /\ op'.new = op.new /\ op'.prev = op.prev
<1>1. op' \in RouteOperation /\ op'.step = s
  BY DEF GoTo, RouteOperation
<1>2. op' # Idle
  BY <1>1 DEF RouteSteps, Idle
<1> QED BY <1>1, <1>2, GoToRoute

\* stopAll, moving on, keeps what it saw.
LEMMA StopGoes ==
    ASSUME op \in StopOperation, NEW s \in StopSteps, GoTo(s)
    PROVE  op' \in StopOperation /\ op' # Idle /\ op'.step = s /\ op'.name = op.name /\ op'.prev = op.prev
<1>1. op' \in StopOperation /\ op'.step = s /\ op'.name = op.name /\ op'.prev = op.prev
  BY DEF GoTo, StopOperation
<1>2. op' # Idle
  BY <1>1 DEF StopSteps, Idle
<1> QED BY <1>1, <1>2

\* Releasing the lock ends the operation.
LEMMA LockEnds ==
    ASSUME Release
    PROVE  op' = Idle /\ op'.step = "idle" /\ op'.name = "none"
           /\ op'.step \notin RouteSteps /\ op'.step \notin StopSteps
BY DEF Release, Idle, RouteSteps, StopSteps

\* Switching a route off and back on again gives the route.
LEMMA StopUndone ==
    ASSUME NEW t \in Table
    PROVE  RestoreEnabled(DisableAll(t), t) = t
<1>1. ASSUME NEW r \in Route
      PROVE  /\ [r EXCEPT !.enabled = FALSE] \in Route
             /\ [[r EXCEPT !.enabled = FALSE] EXCEPT !.enabled = r.enabled] = r
  BY DEF Route
<1>2. ASSUME NEW a \in Aliases PROVE RestoreEnabled(DisableAll(t), t)[a] = t[a]
  <2>1. CASE t[a] = NoRoute
    BY <2>1 DEF RestoreEnabled, DisableAll
  <2>2. CASE t[a] # NoRoute
    <3>1. PICK r \in Route : r = t[a]
      BY <2>2 DEF Table
    <3>2. DisableAll(t)[a] = [r EXCEPT !.enabled = FALSE] /\ DisableAll(t)[a] # NoRoute
      BY <1>1, <2>2, <3>1, NoRouteAssumption DEF DisableAll
    <3>3. RestoreEnabled(DisableAll(t), t)[a] = [[r EXCEPT !.enabled = FALSE] EXCEPT !.enabled = r.enabled]
      BY <2>2, <3>1, <3>2 DEF RestoreEnabled
    <3> QED BY <1>1, <3>1, <3>3
  <2> QED BY <2>1, <2>2
<1>3. RestoreEnabled(DisableAll(t), t) = [a \in Aliases |-> RestoreEnabled(DisableAll(t), t)[a]]
  BY DEF RestoreEnabled
<1> QED BY <1>2, <1>3 DEF Table

\* Nothing is enabled after it.
LEMMA AllDisabled ==
    ASSUME NEW t \in Table
    PROVE  \A a \in Aliases : DisableAll(t)[a] # NoRoute => DisableAll(t)[a].enabled = FALSE
<1>1. ASSUME NEW r \in Route PROVE [r EXCEPT !.enabled = FALSE].enabled = FALSE
  BY DEF Route
<1> QED BY <1>1 DEF DisableAll, Table

\* A file that is near the routes stays so when they are switched off in memory.
LEMMA NearStopped ==
    ASSUME NEW saved \in Table, NEW t \in Table, Near(saved, t)
    PROVE  Near(saved, DisableAll(t))
<1>1. SUFFICES ASSUME NEW a \in Aliases
               PROVE  \/ saved[a] = DisableAll(t)[a]
                      \/ /\ saved[a] # NoRoute /\ saved[a].enabled
                         /\ DisableAll(t)[a] = [saved[a] EXCEPT !.enabled = FALSE]
  BY DEF Near
<1>2. ASSUME NEW r \in Route
      PROVE  /\ r.enabled \in BOOLEAN
             /\ ~r.enabled => [r EXCEPT !.enabled = FALSE] = r
             /\ [[r EXCEPT !.enabled = FALSE] EXCEPT !.enabled = FALSE] = [r EXCEPT !.enabled = FALSE]
             /\ [r EXCEPT !.enabled = FALSE] \in Route
  BY DEF Route
<1>3. CASE saved[a] = NoRoute
  BY <1>3 DEF DisableAll, Near
<1>4. CASE saved[a] # NoRoute
  <2>1. PICK r \in Route : r = saved[a]
    BY <1>4 DEF Table
  <2>2. CASE t[a] = saved[a]
    <3>1. DisableAll(t)[a] = [r EXCEPT !.enabled = FALSE]
      BY <1>4, <2>1, <2>2 DEF DisableAll
    <3> QED BY <1>2, <1>4, <2>1, <3>1
  <2>3. CASE t[a] # saved[a]
    <3>3. saved[a].enabled /\ t[a] = [saved[a] EXCEPT !.enabled = FALSE]
      BY <2>3 DEF Near
    <3>4. t[a] = [r EXCEPT !.enabled = FALSE] /\ [r EXCEPT !.enabled = FALSE] \in Route
      BY <1>2, <2>1, <3>3
    <3>1. saved[a].enabled /\ t[a] = [r EXCEPT !.enabled = FALSE] /\ t[a] # NoRoute
      BY <3>3, <3>4, NoRouteAssumption
    <3>2. DisableAll(t)[a] = [[r EXCEPT !.enabled = FALSE] EXCEPT !.enabled = FALSE]
      BY <3>1 DEF DisableAll
    <3> QED BY <1>2, <1>4, <2>1, <3>1, <3>2
  <2> QED BY <2>2, <2>3
<1> QED BY <1>3, <1>4

\* A table is near itself.
LEMMA NearSame ==
    ASSUME NEW t
    PROVE  Near(t, t)
BY DEF Near

\* What Install does, entry by entry.
LEMMA Installed ==
    ASSUME TypeOK, NEW f \in Families, NEW a \in Aliases, NEW r \in Route \cup {NoRoute},
           reg' = Install(f, a, r)
    PROVE  /\ reg'[f][a] = r /\ reg' \in Tables
           /\ \A g \in Families, b \in Aliases : g # f \/ b # a => reg'[g][b] = reg[g][b]
           /\ \A g \in Families : g # f => reg'[g] = reg[g]
BY DEF Install, TypeOK, Tables, Table

\* Two registries that agree on every entry are the same.
LEMMA SameTables ==
    ASSUME NEW s \in Tables, NEW t \in Tables,
           \A f \in Families, a \in Aliases : s[f][a] = t[f][a]
    PROVE  s = t
<1>1. ASSUME NEW f \in Families PROVE s[f] = t[f]
  <2>1. s[f] \in Table /\ t[f] \in Table
    BY DEF Tables
  <2> QED BY <2>1 DEF Table
<1> QED BY <1>1 DEF Tables

-----------------------------------------------------------------------------
(* Taking the lock.                                                        *)

\* What a request drops from the history is in no registry and no file.
LEMMA StillThere ==
    ASSUME TypeOK, NEW f \in Families, NEW a \in Aliases, file[f][a] # NoRoute \/ reg[f][a] # NoRoute
    PROVE  <<f, a>> \in torn => <<f, a>> \in StillTorn
BY DEF StillTorn

\* An enabled alias stays in the history when a request trims it.
LEMMA StillOn ==
    ASSUME NeverEnabledUnasked, NEW f \in Families, NEW a \in Aliases, NEW r \in {reg[f][a], file[f][a]},
           r # NoRoute, r.enabled
    PROVE  a \in StillWanted
<1>1. a \in wanted
  BY DEF NeverEnabledUnasked
<1>2. Enabled(reg, a) \/ Enabled(file, a)
  BY DEF Enabled
<1> QED BY <1>1, <1>2 DEF StillWanted

\* Taking the lock for one route keeps the invariant: what the operation saw is what
\* is registered.
LEMMA BeginKeeps ==
    ASSUME IInv, BeginsOperation
    PROVE  StoreInv'
<1>1. /\ status = "up" /\ op.step = "idle" /\ op.name = "none"
      /\ StillWanted \subseteq wanted' /\ wanted' \subseteq Aliases
  BY IdleFields DEF BeginsOperation, Free
<1>2. PICK name \in OperationNames, step \in RouteSteps, f \in Families, a \in Aliases,
           r \in Route \cup {NoRoute} : Begin(name, step, f, a, r) /\ Asked(name, step, f, a, r)
  BY DEF BeginsOperation
<1>3. /\ op'.name = name /\ op'.step = step /\ op'.family = f /\ op'.alias = a /\ op'.new = r /\ op'.prev = reg
      /\ torn' = StillTorn /\ UNCHANGED <<status, reg, file, secrets, unsynced>>
  BY <1>2 DEF Begin
<1>4. TypeOK /\ StoreInv
  BY DEF IInv
<1>5. /\ name = "create" => step = "put" /\ (\A g \in Families : reg[g][a] = NoRoute) /\ (r # NoRoute => ~r.enabled)
      /\ name \in {"replace", "enable"} => /\ step = "upsert" /\ reg[f][a] # NoRoute /\ r # NoRoute
                                           /\ r.kind = reg[f][a].kind
                                           /\ r.enabled => a \in wanted' \/ reg[f][a].enabled
      /\ name = "retarget" => step = "put" /\ reg[f][a] # NoRoute /\ r = reg[f][a]
      /\ name = "delete" => step = "upsert" /\ reg[f][a] # NoRoute /\ r = NoRoute
  BY <1>2, NoRouteAssumption DEF Asked, AliasFree, Registered, Families
<1>6. step \in {"put", "upsert"} /\ step \notin StopSteps
  BY <1>2, <1>5 DEF OperationNames, StopSteps
<1>7. RouteOpInv'
  BY <1>3, <1>5, <1>6 DEF RouteOpInv
<1>8. StopInv' /\ DownInv'
  BY <1>1, <1>3, <1>6 DEF StopInv, DownInv
<1>9. MatchInv'
  BY <1>1, <1>3, <1>4, <1>6 DEF StoreInv, MatchInv, Match, Near
<1>10. TornInv'
  <2>1. SUFFICES ASSUME NEW g \in Families, NEW b \in Aliases, file[g][b] # NoRoute,
                        reg[g][b] = NoRoute \/ Own("create", g, b)'
                 PROVE  <<g, b>> \in torn' /\ ~file[g][b].enabled
    BY <1>3 DEF TornInv
  <2>2. reg[g][b] = NoRoute
    BY <1>3, <1>5, <2>1 DEF Own
  <2>3. <<g, b>> \in torn /\ ~file[g][b].enabled
    BY <1>1, <1>4, <2>1, <2>2 DEF StoreInv, TornInv, Own
  <2> QED BY <1>3, <1>4, <2>1, <2>3, StillThere
<1>11. TargetInv'
  <2>1. ASSUME NEW g \in Families, NEW b \in Aliases, file[g][b] # NoRoute \/ reg[g][b] # NoRoute,
               <<g, b>> \notin torn'
        PROVE  secrets[<<g, b>>] = g
    <3>1. <<g, b>> \notin torn
      BY <1>3, <1>4, <2>1, StillThere
    <3> QED BY <1>4, <2>1, <3>1 DEF StoreInv, TargetInv
  <2>2. reg[f][a] # NoRoute /\ <<f, a>> \notin torn' => secrets[<<f, a>>] = f
    BY <2>1
  <2> QED BY <1>3, <1>5, <1>6, <2>1, <2>2 DEF TargetInv
<1>12. WantedInv'
  <2>1. NeverEnabledUnasked
    BY <1>4 DEF StoreInv, WantedInv
  <2>2. ASSUME NEW g \in Families, NEW b \in Aliases, NEW q \in {reg[g][b], file[g][b]},
               q # NoRoute, q.enabled
        PROVE  b \in wanted'
    BY <1>1, <2>1, <2>2, StillOn
  <2>3. r # NoRoute /\ r.enabled => a \in wanted'
    <3>1. SUFFICES ASSUME r # NoRoute, r.enabled, a \notin wanted' PROVE FALSE
      OBVIOUS
    <3>2. reg[f][a] # NoRoute /\ reg[f][a].enabled
      BY <1>2, <1>5, <3>1 DEF OperationNames
    <3> QED BY <2>2, <3>1, <3>2
  <2>4. NeverEnabledUnasked'
    BY <1>3, <2>2 DEF NeverEnabledUnasked
  <2> QED BY <1>3, <2>2, <2>3, <2>4 DEF WantedInv
<1> QED BY <1>7, <1>8, <1>9, <1>10, <1>11, <1>12 DEF StoreInv

\* So does taking it for stopAll.
LEMMA StopAllKeeps ==
    ASSUME IInv, stopAll
    PROVE  StoreInv'
<1>1. /\ status = "up" /\ op.step = "idle" /\ op.name = "none" /\ wanted' = StillWanted
  BY IdleFields DEF stopAll, Free
<1>2. /\ op'.name = "stopAll" /\ op'.step = "stopHTTP" /\ op'.prev = reg
      /\ torn' = StillTorn /\ UNCHANGED <<status, reg, file, secrets, unsynced>>
  BY DEF stopAll
<1>3. TypeOK /\ StoreInv
  BY DEF IInv
<1>4. RouteOpInv' /\ StopInv' /\ DownInv'
  BY <1>1, <1>2 DEF RouteOpInv, StopInv, DownInv, RouteSteps
<1>5. MatchInv'
  BY <1>1, <1>2, <1>3 DEF StoreInv, MatchInv, Match, Near
<1>6. TornInv'
  <2>1. SUFFICES ASSUME NEW g \in Families, NEW b \in Aliases, file[g][b] # NoRoute, reg[g][b] = NoRoute
                 PROVE  <<g, b>> \in torn' /\ ~file[g][b].enabled
    BY <1>2 DEF TornInv, Own
  <2>2. <<g, b>> \in torn /\ ~file[g][b].enabled
    BY <1>1, <1>3, <2>1 DEF StoreInv, TornInv, Own
  <2> QED BY <1>2, <1>3, <2>1, <2>2, StillThere
<1>7. TargetInv'
  <2>1. ASSUME NEW g \in Families, NEW b \in Aliases, file[g][b] # NoRoute \/ reg[g][b] # NoRoute,
               <<g, b>> \notin torn'
        PROVE  secrets[<<g, b>>] = g
    <3>1. <<g, b>> \notin torn
      BY <1>2, <1>3, <2>1, StillThere
    <3> QED BY <1>3, <2>1, <3>1 DEF StoreInv, TargetInv
  <2> QED BY <1>2, <2>1 DEF TargetInv
<1>8. WantedInv'
  <2>1. NeverEnabledUnasked
    BY <1>3 DEF StoreInv, WantedInv
  <2>2. ASSUME NEW g \in Families, NEW b \in Aliases, NEW q \in {reg[g][b], file[g][b]},
               q # NoRoute, q.enabled
        PROVE  b \in wanted'
    BY <1>1, <2>1, <2>2, StillOn
  <2>3. NeverEnabledUnasked'
    BY <1>2, <2>2 DEF NeverEnabledUnasked
  <2> QED BY <1>2, <2>2, <2>3 DEF WantedInv, RouteSteps
<1> QED BY <1>4, <1>5, <1>6, <1>7, <1>8 DEF StoreInv

-----------------------------------------------------------------------------
(* The writes of an operation on one route.                                *)

\* A write to the secret store touches one reference.
LEMMA TargetWritten ==
    ASSUME TypeOK, NEW f \in Families, NEW a \in Aliases, NEW content, NEW outcome,
           PutTarget(<<f, a>>, content, outcome)
    PROVE  /\ secrets'[<<f, a>>] = IF outcome = "before" THEN secrets[<<f, a>>] ELSE content
           /\ \A g \in Families, b \in Aliases : g # f \/ b # a => secrets'[<<g, b>>] = secrets[<<g, b>>]
<1>1. secrets \in [Refs -> Contents] /\ \A g \in Families, b \in Aliases : <<g, b>> \in Refs
  BY DEF TypeOK, Refs
<1> QED BY <1>1 DEF PutTarget

\* Which operations take the steps of one route.
LEMMA RouteOpFacts ==
    ASSUME IInv, op.step \in RouteSteps
    PROVE  /\ op.family \in Families /\ op.alias \in Aliases /\ op.new \in Route \cup {NoRoute} /\ op.prev \in Tables
           /\ op \in RouteOperation /\ op # Idle /\ op.step \notin StopSteps
           /\ op.step = "put" => op.name \in {"create", "retarget"}
           /\ op.step = "upsert" => op.name \in {"create", "replace", "enable", "delete"}
           /\ op.step \in {"save", "undo"} => op.name \in {"create", "replace", "enable", "delete"}
           /\ op.step = "unput" => op.name = "create"
           /\ op.step = "unlink" => op.name = "delete"
<1>1. /\ op.family \in Families /\ op.alias \in Aliases /\ op.new \in Route \cup {NoRoute} /\ op.prev \in Tables
      /\ op \in RouteOperation /\ op # Idle /\ op.step \notin StopSteps /\ op.name \in OperationNames
  BY RouteFields DEF IInv
<1> QED BY <1>1 DEF IInv, StoreInv, RouteOpInv, OperationNames

\* Storing a protected target only adds one.
LEMMA PutKeeps ==
    ASSUME IInv, Put
    PROVE  StoreInv'
<1>1. status = "up" /\ op.step = "put" /\ UNCHANGED <<status, reg, file, wanted, torn, unsynced>>
  BY DEF Put, At, history
<1>2. PICK f \in Families, a \in Aliases : f = op.family /\ a = op.alias
  BY <1>1, RouteOpFacts DEF RouteSteps
<1>3. op \in RouteOperation /\ op # Idle /\ op.name \in {"create", "retarget"} /\ op.step \in RouteSteps
  BY <1>1, RouteOpFacts DEF RouteSteps
<1>4. TypeOK /\ StoreInv
  BY DEF IInv
<1>5. reg = op.prev
  BY <1>1, <1>3, <1>4 DEF StoreInv, RouteOpInv
<1>6. PICK outcome \in Outcomes :
        /\ PutTarget(<<f, a>>, f, outcome)
        /\ IF outcome # "ok" THEN Release
           ELSE IF op.name = "create" THEN GoTo("upsert") ELSE Release
  BY <1>2 DEF Put
<1>7. \A g \in Families, b \in Aliases : secrets[<<g, b>>] = g => secrets'[<<g, b>>] = g
  <2>1. SUFFICES ASSUME NEW g \in Families, NEW b \in Aliases, secrets[<<g, b>>] = g
                 PROVE  secrets'[<<g, b>>] = g
    OBVIOUS
  <2> QED BY <1>4, <1>6, <2>1, TargetWritten
<1>8. CASE op' = Idle
  <2>1. op'.step = "idle" /\ op'.name = "none" /\ op'.step \notin RouteSteps /\ op'.step \notin StopSteps
    BY <1>8, LockEnds DEF Release
  <2>2. RouteOpInv' /\ StopInv' /\ DownInv'
    BY <1>1, <2>1 DEF RouteOpInv, StopInv, DownInv
  <2>3. MatchInv'
    BY <1>1, <1>4, <1>5, <2>1 DEF StoreInv, MatchInv, Match, Near
  <2>4. TornInv'
    BY <1>1, <1>3, <1>4, <2>1 DEF StoreInv, TornInv, Own
  <2>5. TargetInv'
    BY <1>1, <1>4, <1>7, <2>1 DEF StoreInv, TargetInv
  <2>6. WantedInv'
    BY <1>1, <1>4, <1>8, <2>1 DEF StoreInv, WantedInv, NeverEnabledUnasked
  <2> QED BY <2>2, <2>3, <2>4, <2>5, <2>6 DEF StoreInv
<1>9. CASE GoTo("upsert") /\ op.name = "create" /\ outcome = "ok"
  <2>1. /\ op' # Idle /\ op'.step = "upsert" /\ op'.name = op.name
        /\ op'.family = f /\ op'.alias = a /\ op'.new = op.new /\ op'.prev = op.prev
    BY <1>2, <1>3, <1>9, RouteGoes DEF RouteSteps
  <2>2. secrets'[<<f, a>>] = f
    BY <1>4, <1>6, <1>9, TargetWritten
  <2>3. RouteOpInv'
    BY <1>1, <1>2, <1>3, <1>4, <1>5, <1>9, <2>1 DEF StoreInv, RouteOpInv
  <2>4. StopInv' /\ DownInv'
    BY <1>1, <2>1 DEF StopInv, DownInv, StopSteps
  <2>5. MatchInv'
    BY <1>1, <1>4, <2>1 DEF StoreInv, MatchInv, Near
  <2>6. TornInv'
    BY <1>1, <1>2, <1>3, <1>4, <1>9, <2>1 DEF StoreInv, TornInv, Own
  <2>7. TargetInv'
    BY <1>1, <1>4, <1>7, <2>1, <2>2 DEF StoreInv, TargetInv
  <2>8. WantedInv'
    BY <1>1, <1>2, <1>3, <1>4, <2>1 DEF StoreInv, WantedInv, NeverEnabledUnasked
  <2> QED BY <2>3, <2>4, <2>5, <2>6, <2>7, <2>8 DEF StoreInv
<1> QED BY <1>3, <1>6, <1>8, <1>9 DEF Release

\* Installing, replacing or deleting the route, or being refused.
LEMMA UpsertKeeps ==
    ASSUME IInv, Upsert
    PROVE  StoreInv'
<1>1. status = "up" /\ op.step = "upsert" /\ UNCHANGED <<status, file, secrets, wanted, torn, unsynced>>
  BY DEF Upsert, At, history
<1>2. PICK f \in Families, a \in Aliases, new \in Route \cup {NoRoute} :
        f = op.family /\ a = op.alias /\ new = op.new
  BY <1>1, RouteOpFacts DEF RouteSteps
<1>3. /\ op \in RouteOperation /\ op # Idle /\ op.name \in {"create", "replace", "enable", "delete"}
      /\ op.step \in RouteSteps
  BY <1>1, RouteOpFacts DEF RouteSteps
<1>4. TypeOK /\ StoreInv
  BY DEF IInv
<1>5. reg = op.prev
  BY <1>1, <1>3, <1>4 DEF StoreInv, RouteOpInv
<1>6. CASE Refused
  <2>1. reg' = reg
    BY <1>6 DEF Upsert
  <2>2. CASE op.name = "create"
    <3>1. GoTo("unput")
      BY <1>6, <2>2 DEF Upsert
    <3>2. /\ op' # Idle /\ op'.step = "unput" /\ op'.name = op.name
          /\ op'.family = f /\ op'.alias = a /\ op'.new = op.new /\ op'.prev = op.prev
      BY <1>2, <1>3, <3>1, RouteGoes DEF RouteSteps
    <3>3. RouteOpInv'
      BY <1>1, <1>2, <1>3, <1>4, <1>5, <2>1, <2>2, <3>2 DEF StoreInv, RouteOpInv
    <3>4. StopInv' /\ DownInv'
      BY <1>1, <3>2 DEF StopInv, DownInv, StopSteps
    <3>5. MatchInv'
      BY <1>1, <1>4, <1>5, <2>1, <3>2 DEF StoreInv, MatchInv, Match, Near
    <3>6. TornInv'
      BY <1>1, <1>2, <1>4, <2>1, <2>2, <3>2 DEF StoreInv, TornInv, Own
    <3>7. TargetInv'
      BY <1>1, <1>4, <2>1, <3>2 DEF StoreInv, TargetInv
    <3>8. WantedInv'
      BY <1>1, <1>2, <1>3, <1>4, <2>1, <3>2 DEF StoreInv, WantedInv, NeverEnabledUnasked
    <3> QED BY <3>3, <3>4, <3>5, <3>6, <3>7, <3>8 DEF StoreInv
  <2>3. CASE op.name # "create"
    <3>1. op' = Idle /\ op'.step = "idle" /\ op'.name = "none"
          /\ op'.step \notin RouteSteps /\ op'.step \notin StopSteps
      BY <1>6, <2>3, LockEnds DEF Upsert
    <3>2. RouteOpInv' /\ StopInv' /\ DownInv'
      BY <1>1, <3>1 DEF RouteOpInv, StopInv, DownInv
    <3>3. MatchInv'
      BY <1>1, <1>4, <1>5, <2>1, <3>1 DEF StoreInv, MatchInv, Match, Near
    <3>4. TornInv'
      BY <1>1, <1>4, <2>1, <3>1 DEF StoreInv, TornInv, Own
    <3>5. TargetInv'
      BY <1>1, <1>4, <2>1, <3>1 DEF StoreInv, TargetInv
    <3>6. WantedInv'
      BY <1>1, <1>4, <2>1, <3>1 DEF StoreInv, WantedInv, NeverEnabledUnasked
    <3> QED BY <3>2, <3>3, <3>4, <3>5, <3>6 DEF StoreInv
  <2> QED BY <2>2, <2>3
<1>7. CASE ~Refused
  <2>1. reg' = Install(f, a, new) /\ GoTo("save")
    BY <1>2, <1>7 DEF Upsert
  <2>2. /\ op' # Idle /\ op'.step = "save" /\ op'.name = op.name
        /\ op'.family = f /\ op'.alias = a /\ op'.new = new /\ op'.prev = op.prev
    BY <1>2, <1>3, <2>1, RouteGoes DEF RouteSteps
  <2>3. reg'[f][a] = new /\ \A g \in Families, b \in Aliases : g # f \/ b # a => reg'[g][b] = reg[g][b]
    BY <1>4, <2>1, Installed
  <2>4. op.name = "create" => new # NoRoute
    BY <1>2, <1>7 DEF Refused
  <2>5. /\ op.name = "create" => /\ secrets[<<f, a>>] = f /\ (new # NoRoute => ~new.enabled)
                                 /\ \A g \in Families : op.prev[g][a] = NoRoute
        /\ op.name \in {"replace", "enable"} => /\ new # NoRoute /\ op.prev[f][a] # NoRoute
                                                /\ new.kind = op.prev[f][a].kind
        /\ op.name = "delete" => new = NoRoute /\ op.prev[f][a] # NoRoute
    BY <1>1, <1>2, <1>3, <1>4 DEF StoreInv, RouteOpInv, TargetInv
  <2>6. RouteOpInv'
    BY <1>3, <1>5, <2>2, <2>3, <2>4, <2>5 DEF RouteOpInv
  <2>7. StopInv' /\ DownInv'
    BY <1>1, <2>2 DEF StopInv, DownInv, StopSteps
  <2>8. MatchInv'
    BY <1>1, <1>4, <2>2 DEF StoreInv, MatchInv, Near
  <2>9. TornInv'
    <3>1. SUFFICES ASSUME NEW g \in Families, NEW b \in Aliases, file[g][b] # NoRoute,
                          reg'[g][b] = NoRoute \/ Own("create", g, b)',
                          ~(Own("delete", g, b)' /\ op'.step \in {"save", "undo"})
                   PROVE  <<g, b>> \in torn /\ ~file[g][b].enabled
      BY <1>1 DEF TornInv
    <3>2. CASE g = f /\ b = a
      <4>1. op.name # "delete"
        BY <2>2, <3>1, <3>2 DEF Own
      <4>2. op.name = "create"
        BY <1>3, <2>2, <2>3, <2>5, <3>1, <3>2, <4>1 DEF Own
      <4>3. Own("create", g, b) /\ ~Own("delete", g, b)
        BY <1>2, <3>2, <4>2 DEF Own
      <4> QED BY <1>1, <1>4, <3>1, <4>3 DEF StoreInv, TornInv
    <3>3. CASE ~(g = f /\ b = a)
      <4>1. reg[g][b] = NoRoute /\ ~(Own("delete", g, b) /\ op.step \in {"save", "undo"})
        BY <1>1, <2>2, <2>3, <3>1, <3>3 DEF Own
      <4> QED BY <1>1, <1>4, <3>1, <4>1 DEF StoreInv, TornInv
    <3> QED BY <3>2, <3>3
  <2>10. TargetInv'
    <3>1. ASSUME NEW g \in Families, NEW b \in Aliases, file[g][b] # NoRoute \/ reg'[g][b] # NoRoute,
                 <<g, b>> \notin torn
          PROVE  secrets[<<g, b>>] = g
      <4>1. CASE g = f /\ b = a
        BY <1>3, <1>4, <1>5, <2>3, <2>5, <3>1, <4>1 DEF StoreInv, TargetInv
      <4>2. CASE ~(g = f /\ b = a)
        BY <1>4, <2>3, <3>1, <4>2 DEF StoreInv, TargetInv
      <4> QED BY <4>1, <4>2
    <3>2. op.prev[f][a] # NoRoute /\ <<f, a>> \notin torn => secrets[<<f, a>>] = f
      BY <1>1, <1>2, <1>4 DEF StoreInv, TargetInv
    <3> QED BY <1>1, <2>2, <2>5, <3>1, <3>2 DEF TargetInv
  <2>11. WantedInv'
    <3>1. ASSUME NEW g \in Families, NEW b \in Aliases, NEW r \in {reg'[g][b], file[g][b]}, r # NoRoute, r.enabled
          PROVE  b \in wanted
      <4>1. CASE r = new /\ g = f /\ b = a
        BY <1>2, <1>3, <1>4, <3>1, <4>1 DEF StoreInv, WantedInv
      <4>2. CASE ~(r = new /\ g = f /\ b = a)
        BY <1>4, <2>3, <3>1, <4>2 DEF StoreInv, WantedInv, NeverEnabledUnasked
      <4> QED BY <4>1, <4>2
    <3>2. NeverEnabledUnasked'
      BY <1>1, <3>1 DEF NeverEnabledUnasked
    <3> QED BY <1>1, <1>2, <1>3, <1>4, <2>2, <3>2 DEF StoreInv, WantedInv
  <2> QED BY <2>6, <2>7, <2>8, <2>9, <2>10, <2>11 DEF StoreInv
<1> QED BY <1>6, <1>7

\* What the Save of one family changes.
LEMMA Saved ==
    ASSUME TypeOK, NEW f \in Families, NEW t \in Table, NEW outcome, Save(f, t, outcome)
    PROVE  /\ outcome = "before" => file' = file
           /\ outcome # "before" => file' = [file EXCEPT ![f] = t] /\ file'[f] = t
           /\ \A g \in Families : g # f => file'[g] = file[g]
BY DEF Save, TypeOK, Tables

\* Outside the operation's own route, the registries are what it saw.
LEMMA OtherFamilyAsBefore ==
    ASSUME IInv, op.step \in RouteSteps, NEW g \in Families, g # op.family
    PROVE  reg[g] = op.prev[g]
<1>1. reg[g] \in Table /\ op.prev[g] \in Table
  BY RouteOpFacts DEF IInv, TypeOK, Tables
<1>2. \A b \in Aliases : reg[g][b] = op.prev[g][b]
  BY DEF IInv, StoreInv, RouteOpInv
<1> QED BY <1>1, <1>2 DEF Table

\* When a new, disabled or deleted route is acknowledged no file and no registry has it
\* enabled, in its own family or, left over from a torn save, in the other one.
LEMMA AcknowledgedOff ==
    ASSUME IInv, op.step \in RouteSteps, status = "up", NEW g \in Families, g # op.family
    PROVE  /\ reg[g][op.alias] = NoRoute
           /\ file[g][op.alias] # NoRoute => ~file[g][op.alias].enabled
<1>1. reg[g][op.alias] = NoRoute /\ op.alias \in Aliases
  BY RouteOpFacts DEF IInv, LockInv, OtherFamilyFree
<1>2. ~Own("delete", g, op.alias)
  BY DEF Own
<1> QED BY <1>1, <1>2 DEF IInv, StoreInv, TornInv

\* Saving the family, with success, before the rename or after it.
LEMMA SaveKeeps ==
    ASSUME IInv, SaveRoutes
    PROVE  StoreInv'
<1>1. status = "up" /\ op.step = "save" /\ UNCHANGED <<status, reg, secrets>>
  BY DEF SaveRoutes, At
<1>2. PICK f \in Families, a \in Aliases, new \in Route \cup {NoRoute} :
        f = op.family /\ a = op.alias /\ new = op.new
  BY <1>1, RouteOpFacts DEF RouteSteps
<1>3. /\ op \in RouteOperation /\ op # Idle /\ op.name \in {"create", "replace", "enable", "delete"}
      /\ op.step \in RouteSteps
  BY <1>1, RouteOpFacts DEF RouteSteps
<1>4. TypeOK /\ StoreInv /\ reg[f] \in Table
  BY DEF IInv, TypeOK, Tables
<1>5. /\ reg[f][a] = new
      /\ op.name = "create" => new # NoRoute /\ ~new.enabled /\ secrets[<<f, a>>] = f
      /\ op.name = "delete" => new = NoRoute
  BY <1>1, <1>2, <1>3, <1>4 DEF StoreInv, RouteOpInv, TargetInv
<1>6. PICK outcome \in Outcomes :
        /\ Save(f, reg[f], outcome)
        /\ torn' = TornBy(outcome)
        /\ unsynced' = UnsyncedBy(f, outcome)
        /\ IF outcome # "ok" THEN GoTo("undo") /\ UNCHANGED wanted
           ELSE IF op.name = "delete" THEN GoTo("unlink") /\ UNCHANGED wanted
           ELSE Release /\ wanted' = Acknowledged
  BY <1>2 DEF SaveRoutes
<1>7. outcome \in {"ok", "before", "after"}
  BY ConstantsAssumption DEF Outcomes
<1>8. /\ outcome = "before" => file' = file
      /\ outcome # "before" => file'[f] = reg[f]
      /\ \A g \in Families : g # f => file'[g] = file[g]
  BY <1>4, <1>6, Saved
<1>9. /\ outcome = "before" => unsynced' = unsynced
      /\ outcome = "after" => unsynced' = unsynced \cup {f}
      /\ outcome = "ok" => unsynced' = unsynced \ {f}
  BY <1>6 DEF UnsyncedBy
<1>10. /\ outcome = "before" => torn' = torn
       /\ outcome = "after" => torn \subseteq torn' /\ (op.name = "create" => <<f, a>> \in torn')
       /\ outcome = "ok" => /\ torn \ {<<f, a>>} \subseteq torn' /\ torn' \subseteq torn
                            /\ op.name \in {"replace", "enable"} => torn' = torn
  BY <1>2, <1>3, <1>6 DEF TornBy
<1>11. CASE outcome # "ok"
  <2>1. GoTo("undo") /\ wanted' = wanted
    BY <1>6, <1>11
  <2>2. /\ op' # Idle /\ op'.step = "undo" /\ op'.name = op.name
        /\ op'.family = f /\ op'.alias = a /\ op'.new = new /\ op'.prev = op.prev
    BY <1>2, <1>3, <2>1, RouteGoes DEF RouteSteps
  <2>3. RouteOpInv'
    BY <1>1, <1>2, <1>3, <1>4, <2>2 DEF StoreInv, RouteOpInv
  <2>4. StopInv' /\ DownInv'
    BY <1>1, <2>2 DEF StopInv, DownInv, StopSteps
  <2>5. MatchInv'
    <3>1. /\ "http" \notin unsynced' => file'["http"] = op.prev["http"]
          /\ "ssh" \notin unsynced' => Near(file'["ssh"], op.prev["ssh"])
      BY <1>1, <1>4, <1>7, <1>8, <1>9, <1>11 DEF StoreInv, MatchInv, Families
    <3> QED BY <2>2, <3>1 DEF MatchInv, Near
  <2>6. TornInv'
    <3>1. SUFFICES ASSUME NEW g \in Families, NEW b \in Aliases, file'[g][b] # NoRoute,
                          reg[g][b] = NoRoute \/ Own("create", g, b)',
                          ~(Own("delete", g, b)' /\ op'.step \in {"save", "undo"})
                   PROVE  <<g, b>> \in torn' /\ ~file'[g][b].enabled
      BY <1>1 DEF TornInv
    <3>2. /\ Own("create", g, b)' => Own("create", g, b)
          /\ Own("delete", g, b) => Own("delete", g, b)'
      BY <1>2, <2>2 DEF Own
    <3>3. CASE outcome = "before" \/ g # f
      <4>1. file'[g] = file[g] /\ torn \subseteq torn'
        BY <1>7, <1>8, <1>10, <1>11, <3>3
      <4>2. <<g, b>> \in torn /\ ~file[g][b].enabled
        BY <1>1, <1>4, <2>2, <3>1, <3>2, <4>1 DEF StoreInv, TornInv
      <4> QED BY <4>1, <4>2
    <3>4. CASE outcome = "after" /\ g = f
      <4>1. file'[f][b] = reg[f][b]
        BY <1>8, <3>4
      <4>2. b = a /\ op.name = "create"
        BY <1>2, <3>1, <3>2, <3>4, <4>1 DEF Own
      <4> QED BY <1>5, <1>10, <3>4, <4>1, <4>2
    <3> QED BY <1>7, <1>11, <3>3, <3>4
  <2>7. TargetInv'
    <3>1. torn \subseteq torn'
      BY <1>7, <1>10, <1>11
    <3>2. ASSUME NEW g \in Families, NEW b \in Aliases, file'[g][b] # NoRoute \/ reg[g][b] # NoRoute,
                 <<g, b>> \notin torn
          PROVE  secrets[<<g, b>>] = g
      <4>1. file[g][b] # NoRoute \/ reg[g][b] # NoRoute
        BY <1>8, <3>2
      <4> QED BY <1>4, <3>2, <4>1 DEF StoreInv, TargetInv
    <3>3. op.prev[f][a] # NoRoute /\ <<f, a>> \notin torn => secrets[<<f, a>>] = f
      BY <1>1, <1>2, <1>4 DEF StoreInv, TargetInv
    <3> QED BY <1>1, <1>5, <2>2, <3>1, <3>2, <3>3 DEF TargetInv
  <2>8. WantedInv'
    <3>1. NeverEnabledUnasked'
      BY <1>1, <1>4, <1>8, <2>1 DEF StoreInv, WantedInv, NeverEnabledUnasked
    <3> QED BY <1>1, <1>2, <1>3, <1>4, <2>1, <2>2, <3>1 DEF StoreInv, WantedInv
  <2> QED BY <2>3, <2>4, <2>5, <2>6, <2>7, <2>8 DEF StoreInv
<1>12. CASE outcome = "ok"
  <2>1. file'[f] = reg[f] /\ unsynced' = unsynced \ {f}
    BY <1>8, <1>9, <1>12
  <2>2. /\ op.name = "delete" => /\ op' # Idle /\ op'.step = "unlink" /\ op'.name = op.name
                                 /\ op'.family = f /\ op'.alias = a /\ op'.new = new /\ op'.prev = op.prev
        /\ op.name # "delete" => op' = Idle /\ op'.step = "idle" /\ op'.name = "none"
    <3>1. ASSUME op.name = "delete"
          PROVE  /\ op' # Idle /\ op'.step = "unlink" /\ op'.name = op.name
                 /\ op'.family = f /\ op'.alias = a /\ op'.new = new /\ op'.prev = op.prev
      BY <1>2, <1>3, <1>6, <1>12, <3>1, RouteGoes DEF RouteSteps
    <3>2. ASSUME op.name # "delete" PROVE op' = Idle /\ op'.step = "idle" /\ op'.name = "none"
      BY <1>6, <1>12, <3>2, LockEnds
    <3> QED BY <3>1, <3>2
  <2>3. RouteOpInv'
    <3>1. CASE op.name = "delete"
      BY <1>1, <1>2, <1>3, <1>4, <1>5, <2>2, <3>1 DEF StoreInv, RouteOpInv
    <3>2. CASE op.name # "delete"
      BY <2>2, <3>2 DEF RouteOpInv, RouteSteps
    <3> QED BY <3>1, <3>2
  <2>4. StopInv' /\ DownInv'
    BY <1>1, <2>2 DEF StopInv, DownInv, StopSteps
  <2>5. MatchInv'
    <3>1. ASSUME NEW g \in Families, g # f
          PROVE  file'[g] = file[g] /\ reg[g] = op.prev[g] /\ (g \in unsynced' <=> g \in unsynced)
      BY <1>2, <1>3, <1>8, <2>1, <3>1, OtherFamilyAsBefore
    <3>2. /\ "http" \notin unsynced => file["http"] = op.prev["http"]
          /\ "ssh" \notin unsynced => Near(file["ssh"], op.prev["ssh"])
      BY <1>1, <1>4 DEF StoreInv, MatchInv
    <3>3. /\ "http" \notin unsynced' => file'["http"] = reg["http"]
          /\ "ssh" \notin unsynced' => Near(file'["ssh"], reg["ssh"])
      <4>1. CASE f = "http"
        BY <2>1, <3>1, <3>2, <4>1 DEF Families
      <4>2. CASE f = "ssh"
        BY <2>1, <3>1, <3>2, <4>2, NearSame DEF Families
      <4> QED BY <4>1, <4>2 DEF Families
    <3> QED BY <1>1, <2>2, <3>3 DEF MatchInv, Match, Near
  <2>6. TornInv'
    <3>1. SUFFICES ASSUME NEW g \in Families, NEW b \in Aliases, file'[g][b] # NoRoute, reg[g][b] = NoRoute
                   PROVE  <<g, b>> \in torn' /\ ~file'[g][b].enabled
      BY <1>1, <2>2 DEF TornInv, Own
    <3>2. g # f /\ file'[g] = file[g]
      BY <1>8, <2>1, <3>1
    <3>3. <<g, b>> \in torn /\ ~file[g][b].enabled
      BY <1>1, <1>2, <1>4, <3>1, <3>2 DEF StoreInv, TornInv, Own
    <3> QED BY <1>10, <1>12, <3>2, <3>3
  <2>7. TargetInv'
    <3>1. ASSUME NEW g \in Families, NEW b \in Aliases, file'[g][b] # NoRoute \/ reg[g][b] # NoRoute,
                 <<g, b>> \notin torn'
          PROVE  secrets[<<g, b>>] = g
      <4>1. file[g][b] # NoRoute \/ reg[g][b] # NoRoute
        BY <1>8, <2>1, <3>1
      <4>2. CASE <<g, b>> \notin torn
        BY <1>4, <4>1, <4>2 DEF StoreInv, TargetInv
      <4>3. CASE <<g, b>> \in torn
        <5>1. g = f /\ b = a /\ op.name \in {"create", "delete"}
          BY <1>3, <1>10, <1>12, <3>1, <4>3
        <5> QED BY <1>5, <2>1, <3>1, <5>1
      <4> QED BY <4>2, <4>3
    <3> QED BY <1>1, <2>2, <3>1 DEF TargetInv
  <2>8. WantedInv'
    <3>1. ASSUME NEW g \in Families, NEW b \in Aliases, NEW r \in {reg[g][b], file'[g][b]}, r # NoRoute, r.enabled
          PROVE  b \in wanted'
      <4>1. b \in wanted
        BY <1>4, <1>8, <2>1, <3>1 DEF StoreInv, WantedInv, NeverEnabledUnasked
      <4>2. CASE b # a
        BY <1>2, <1>3, <1>6, <1>12, <4>1, <4>2 DEF Acknowledged
      <4>3. CASE b = a
        <5>1. g = f
          <6>1. ASSUME g # f PROVE FALSE
            <7>1. /\ reg[g][a] = NoRoute /\ (file[g][a] # NoRoute => ~file[g][a].enabled) /\ file'[g] = file[g]
              BY <1>1, <1>2, <1>3, <1>8, <6>1, AcknowledgedOff
            <7> QED BY <3>1, <4>3, <7>1
          <6> QED BY <6>1
        <5>2. new # NoRoute /\ new.enabled
          BY <1>5, <2>1, <3>1, <4>3, <5>1
        <5>3. op.name \in {"replace", "enable"}
          BY <1>3, <1>5, <5>2
        <5> QED BY <1>2, <1>6, <1>12, <4>1, <5>2, <5>3 DEF Acknowledged
      <4> QED BY <4>2, <4>3
    <3>2. NeverEnabledUnasked'
      BY <1>1, <3>1 DEF NeverEnabledUnasked
    <3>3. CASE op.name = "delete"
      <4>1. wanted' = wanted
        BY <1>6, <1>12, <3>3
      <4> QED BY <1>3, <1>4, <1>5, <2>2, <3>2, <3>3, <4>1 DEF StoreInv, WantedInv
    <3>4. CASE op.name # "delete"
      BY <2>2, <3>2, <3>4 DEF WantedInv, RouteSteps
    <3> QED BY <3>3, <3>4
  <2> QED BY <2>3, <2>4, <2>5, <2>6, <2>7, <2>8 DEF StoreInv
<1> QED BY <1>11, <1>12

\* A rollback leaves the registries as the operation found them.
LEMMA UndoneAsBefore ==
    ASSUME IInv, Undo
    PROVE  reg' = op.prev
<1>1. op.step = "undo" /\ op.step \in RouteSteps /\ TypeOK
  BY DEF Undo, At, RouteSteps, IInv
<1>2. PICK f \in Families, a \in Aliases, before \in Tables :
        f = op.family /\ a = op.alias /\ before = op.prev
  BY <1>1, RouteOpFacts
<1>3. before[f][a] \in Route \cup {NoRoute}
  BY DEF Tables, Table
<1>4. reg' = Install(f, a, before[f][a])
  BY <1>2 DEF Undo
<1>5. /\ reg'[f][a] = before[f][a] /\ reg' \in Tables
      /\ \A g \in Families, b \in Aliases : g # f \/ b # a => reg'[g][b] = reg[g][b]
  BY <1>1, <1>3, <1>4, Installed
<1>6. \A g \in Families, b \in Aliases : g # f \/ b # a => reg[g][b] = before[g][b]
  BY <1>1, <1>2 DEF IInv, StoreInv, RouteOpInv
<1>7. \A g \in Families, b \in Aliases : reg'[g][b] = before[g][b]
  BY <1>5, <1>6
<1> QED BY <1>2, <1>5, <1>7, SameTables

\* Rolling back.
LEMMA UndoKeeps ==
    ASSUME IInv, Undo
    PROVE  StoreInv'
<1>1. status = "up" /\ op.step = "undo" /\ UNCHANGED <<status, file, secrets, wanted, torn, unsynced>>
  BY DEF Undo, At, history
<1>2. PICK f \in Families, a \in Aliases, before \in Tables :
        f = op.family /\ a = op.alias /\ before = op.prev
  BY <1>1, RouteOpFacts DEF RouteSteps
<1>3. /\ op \in RouteOperation /\ op # Idle /\ op.name \in {"create", "replace", "enable", "delete"}
      /\ op.step \in RouteSteps
  BY <1>1, RouteOpFacts DEF RouteSteps
<1>4. TypeOK /\ StoreInv
  BY DEF IInv
<1>5. reg' = before
  BY <1>2, UndoneAsBefore
<1>6. /\ \A g \in Families, b \in Aliases : g # f \/ b # a => before[g][b] = reg[g][b]
      /\ op.name = "create" => before[f][a] = NoRoute /\ (op.new # NoRoute => ~op.new.enabled)
      /\ op.name # "create" => before[f][a] # NoRoute
  BY <1>1, <1>2, <1>3, <1>4 DEF StoreInv, RouteOpInv
<1>7. /\ "http" \notin unsynced => file["http"] = before["http"]
      /\ "ssh" \notin unsynced => Near(file["ssh"], before["ssh"])
  BY <1>1, <1>2, <1>4 DEF StoreInv, MatchInv
<1>8. ASSUME NEW g \in Families, NEW b \in Aliases, file[g][b] # NoRoute, before[g][b] = NoRoute
      PROVE  <<g, b>> \in torn /\ ~file[g][b].enabled
  <2>1. (reg[g][b] = NoRoute \/ Own("create", g, b)) /\ ~Own("delete", g, b)
    BY <1>2, <1>3, <1>6, <1>8 DEF Own
  <2> QED BY <1>1, <1>4, <1>8, <2>1 DEF StoreInv, TornInv
<1>9. ASSUME NEW g \in Families, NEW b \in Aliases, file[g][b] # NoRoute \/ before[g][b] # NoRoute,
             <<g, b>> \notin torn
      PROVE  secrets[<<g, b>>] = g
  <2>1. CASE g = f /\ b = a /\ before[f][a] # NoRoute
    BY <1>1, <1>2, <1>4, <1>9, <2>1 DEF StoreInv, TargetInv
  <2>2. CASE ~(g = f /\ b = a /\ before[f][a] # NoRoute)
    BY <1>4, <1>6, <1>9, <2>2 DEF StoreInv, TargetInv
  <2> QED BY <2>1, <2>2
<1>10. \A g \in Families, b \in Aliases : before[g][b] # NoRoute => (before[g][b].enabled => b \in wanted)
  BY <1>2, <1>3, <1>4 DEF StoreInv, WantedInv
<1>11. NeverEnabledUnasked'
  BY <1>1, <1>4, <1>5, <1>10 DEF StoreInv, WantedInv, NeverEnabledUnasked
<1>12. CASE op.name = "create"
  <2>1. GoTo("unput")
    BY <1>12 DEF Undo
  <2>2. /\ op' # Idle /\ op'.step = "unput" /\ op'.name = op.name
        /\ op'.family = f /\ op'.alias = a /\ op'.new = op.new /\ op'.prev = before
    BY <1>2, <1>3, <2>1, RouteGoes DEF RouteSteps
  <2>3. RouteOpInv'
    BY <1>1, <1>2, <1>3, <1>4, <1>5, <1>12, <2>2 DEF StoreInv, RouteOpInv
  <2>4. StopInv' /\ DownInv'
    BY <1>1, <2>2 DEF StopInv, DownInv, StopSteps
  <2>5. MatchInv'
    BY <1>1, <1>5, <1>7, <2>2 DEF MatchInv, Match, Near
  <2>6. TornInv'
    <3>1. SUFFICES ASSUME NEW g \in Families, NEW b \in Aliases, file[g][b] # NoRoute,
                          before[g][b] = NoRoute \/ Own("create", g, b)'
                   PROVE  <<g, b>> \in torn /\ ~file[g][b].enabled
      BY <1>1, <1>5 DEF TornInv
    <3>2. before[g][b] = NoRoute
      BY <1>6, <1>12, <2>2, <3>1 DEF Own
    <3> QED BY <1>8, <3>1, <3>2
  <2>7. TargetInv'
    BY <1>1, <1>5, <1>9, <2>2 DEF TargetInv
  <2>8. WantedInv'
    BY <1>1, <1>2, <1>6, <1>10, <1>11, <1>12, <2>2 DEF WantedInv
  <2> QED BY <2>3, <2>4, <2>5, <2>6, <2>7, <2>8 DEF StoreInv
<1>13. CASE op.name # "create"
  <2>1. op' = Idle /\ op'.step = "idle" /\ op'.name = "none"
        /\ op'.step \notin RouteSteps /\ op'.step \notin StopSteps
    BY <1>13, LockEnds DEF Undo
  <2>2. RouteOpInv' /\ StopInv' /\ DownInv'
    BY <1>1, <2>1 DEF RouteOpInv, StopInv, DownInv
  <2>3. MatchInv'
    BY <1>1, <1>5, <1>7, <2>1 DEF MatchInv, Match, Near
  <2>4. TornInv'
    BY <1>1, <1>5, <1>8, <2>1 DEF TornInv, Own
  <2>5. TargetInv'
    BY <1>1, <1>5, <1>9, <2>1 DEF TargetInv
  <2>6. WantedInv'
    BY <1>11, <2>1 DEF WantedInv
  <2> QED BY <2>2, <2>3, <2>4, <2>5, <2>6 DEF StoreInv
<1> QED BY <1>12, <1>13

\* Taking back a target, or deleting that of a deleted route, takes it from no
\* route that is registered or saved, unless its creation was torn.
LEMMA TargetTaken ==
    ASSUME IInv, op.step \in {"unput", "unlink"}, status = "up", NEW outcome,
           DeleteTarget(<<op.family, op.alias>>, outcome)
    PROVE  \A g \in Families, b \in Aliases :
              (file[g][b] # NoRoute \/ reg[g][b] # NoRoute) /\ <<g, b>> \notin torn => secrets'[<<g, b>>] = g
<1>1. TypeOK /\ StoreInv /\ op.step \in RouteSteps
  BY DEF IInv, RouteSteps
<1>2. PICK f \in Families, a \in Aliases : f = op.family /\ a = op.alias
  BY <1>1, RouteOpFacts
<1>3. op.name \in {"create", "delete"} /\ reg[f][a] = NoRoute
  <2>1. CASE op.step = "unput"
    BY <1>1, <1>2, <2>1, RouteOpFacts DEF StoreInv, RouteOpInv
  <2>2. CASE op.step = "unlink"
    BY <1>1, <1>2, <2>2, RouteOpFacts DEF StoreInv, RouteOpInv
  <2> QED BY <2>1, <2>2
<1>4. file[f][a] # NoRoute => <<f, a>> \in torn
  BY <1>1, <1>2, <1>3 DEF StoreInv, TornInv
<1>5. PutTarget(<<f, a>>, "none", outcome)
  BY <1>2 DEF DeleteTarget
<1>6. \A g \in Families, b \in Aliases : g # f \/ b # a => secrets'[<<g, b>>] = secrets[<<g, b>>]
  BY <1>1, <1>5, TargetWritten
<1> QED BY <1>1, <1>3, <1>4, <1>6 DEF StoreInv, TargetInv

\* Taking back the target of a refused or failed creation.
LEMMA UnputKeeps ==
    ASSUME IInv, Unput
    PROVE  StoreInv'
<1>1. /\ status = "up" /\ op.step = "unput" /\ op.step \in RouteSteps
      /\ UNCHANGED <<status, reg, file, wanted, torn, unsynced>>
  BY DEF Unput, At, history, RouteSteps
<1>2. TypeOK /\ StoreInv /\ op.name = "create" /\ op # Idle
  BY <1>1, RouteOpFacts DEF IInv
<1>3. op' = Idle /\ op'.step = "idle" /\ op'.name = "none"
      /\ op'.step \notin RouteSteps /\ op'.step \notin StopSteps
  BY LockEnds DEF Unput
<1>4. \A g \in Families, b \in Aliases :
        (file[g][b] # NoRoute \/ reg[g][b] # NoRoute) /\ <<g, b>> \notin torn => secrets'[<<g, b>>] = g
  <2>1. PICK outcome \in Outcomes : DeleteTarget(<<op.family, op.alias>>, outcome)
    BY DEF Unput
  <2> QED BY <1>1, <2>1, TargetTaken
<1>5. RouteOpInv' /\ StopInv' /\ DownInv'
  BY <1>1, <1>3 DEF RouteOpInv, StopInv, DownInv
<1>6. MatchInv'
  BY <1>1, <1>2, <1>3 DEF StoreInv, MatchInv, Match, Near
<1>7. TornInv'
  BY <1>1, <1>2, <1>3 DEF StoreInv, TornInv, Own
<1>8. TargetInv'
  BY <1>1, <1>3, <1>4 DEF TargetInv
<1>9. WantedInv'
  BY <1>1, <1>2, <1>3 DEF StoreInv, WantedInv, NeverEnabledUnasked
<1> QED BY <1>5, <1>6, <1>7, <1>8, <1>9 DEF StoreInv

\* Deleting the target of a deleted route.
LEMMA UnlinkKeeps ==
    ASSUME IInv, Unlink
    PROVE  StoreInv'
<1>1. /\ status = "up" /\ op.step = "unlink" /\ op.step \in RouteSteps
      /\ UNCHANGED <<status, reg, file, torn, unsynced>> /\ wanted' = Acknowledged
  BY DEF Unlink, At, RouteSteps
<1>2. TypeOK /\ StoreInv /\ op.name = "delete" /\ op # Idle
  BY <1>1, RouteOpFacts DEF IInv
<1>3. op' = Idle /\ op'.step = "idle" /\ op'.name = "none"
      /\ op'.step \notin RouteSteps /\ op'.step \notin StopSteps
  BY LockEnds DEF Unlink
<1>4. \A g \in Families, b \in Aliases :
        (file[g][b] # NoRoute \/ reg[g][b] # NoRoute) /\ <<g, b>> \notin torn => secrets'[<<g, b>>] = g
  <2>1. PICK outcome \in Outcomes : DeleteTarget(<<op.family, op.alias>>, outcome)
    BY DEF Unlink
  <2> QED BY <1>1, <2>1, TargetTaken
<1>5. RouteOpInv' /\ StopInv' /\ DownInv'
  BY <1>1, <1>3 DEF RouteOpInv, StopInv, DownInv
<1>6. MatchInv'
  BY <1>1, <1>2, <1>3 DEF StoreInv, MatchInv, Match, Near
<1>7. TornInv'
  BY <1>1, <1>2, <1>3 DEF StoreInv, TornInv, Own
<1>8. TargetInv'
  BY <1>1, <1>3, <1>4 DEF TargetInv
<1>9. WantedInv'
  <2>1. wanted' = wanted \ {op.alias}
    BY <1>1, <1>2 DEF Acknowledged
  <2>2. PICK f \in Families, a \in Aliases : f = op.family /\ a = op.alias
    BY <1>1, RouteOpFacts
  <2>3. reg[f][a] = NoRoute /\ (file[f][a] # NoRoute => ~file[f][a].enabled)
    <3>1. reg[f][a] = NoRoute
      BY <1>1, <1>2, <2>2 DEF StoreInv, RouteOpInv
    <3> QED BY <1>1, <1>2, <3>1 DEF StoreInv, TornInv
  <2>4. ASSUME NEW g \in Families, NEW r \in {reg[g][a], file[g][a]}, r # NoRoute, r.enabled
        PROVE  FALSE
    <3>1. CASE g = f
      BY <2>3, <2>4, <3>1
    <3>2. CASE g # f
      BY <1>1, <2>2, <2>4, <3>2, AcknowledgedOff
    <3> QED BY <3>1, <3>2
  <2>5. ASSUME NEW g \in Families, NEW b \in Aliases, NEW r \in {reg[g][b], file[g][b]}, r # NoRoute, r.enabled
        PROVE  b \in wanted'
    <3>1. b # a
      BY <2>4, <2>5
    <3>2. b \in wanted
      BY <1>2, <2>5 DEF StoreInv, WantedInv, NeverEnabledUnasked
    <3> QED BY <2>1, <2>2, <3>1, <3>2
  <2>6. NeverEnabledUnasked'
    BY <1>1, <2>5 DEF NeverEnabledUnasked
  <2> QED BY <1>3, <2>6 DEF WantedInv
<1> QED BY <1>5, <1>6, <1>7, <1>8, <1>9 DEF StoreInv

-----------------------------------------------------------------------------
(* The writes of stopAll.                                                  *)

\* The steps of stopAll, and what each finds.
LEMMA StopFinds ==
    ASSUME IInv, NEW s \in StopSteps, At(s)
    PROVE  /\ TypeOK /\ StoreInv /\ status = "up" /\ op \in StopOperation /\ op # Idle
           /\ op.name = "stopAll" /\ op.step = s
           /\ reg["http"] \in Table /\ reg["ssh"] \in Table /\ file["ssh"] \in Table
           /\ op.prev \in Tables /\ op.prev["http"] \in Table /\ op.prev["ssh"] \in Table
           /\ \A g \in Families, b \in Aliases : op.prev[g][b] = NoRoute <=> reg[g][b] = NoRoute
<1>1. TypeOK /\ StoreInv /\ status = "up" /\ op.step = s /\ op.step \in StopSteps
  BY DEF IInv, At
<1>2. op \in StopOperation /\ op # Idle /\ op.name = "stopAll" /\ op.prev \in Tables
  BY <1>1, StopFields
<1>3. /\ reg["http"] \in Table /\ reg["ssh"] \in Table /\ file["ssh"] \in Table
      /\ op.prev["http"] \in Table /\ op.prev["ssh"] \in Table
  BY <1>1, <1>2 DEF TypeOK, Tables, Families
<1>4. /\ reg["http"] = op.prev["http"] \/ reg["http"] = DisableAll(op.prev["http"])
      /\ reg["ssh"] = op.prev["ssh"] \/ reg["ssh"] = DisableAll(op.prev["ssh"])
  BY <1>1 DEF StoreInv, StopInv
<1>5. \A g \in Families, b \in Aliases : op.prev[g][b] = NoRoute <=> reg[g][b] = NoRoute
  <2>1. \A b \in Aliases : op.prev["http"][b] = NoRoute <=> reg["http"][b] = NoRoute
    BY <1>3, <1>4, DisableAllType
  <2>2. \A b \in Aliases : op.prev["ssh"][b] = NoRoute <=> reg["ssh"][b] = NoRoute
    BY <1>3, <1>4, DisableAllType
  <2> QED BY <2>1, <2>2 DEF Families
<1> QED BY <1>1, <1>2, <1>3, <1>5

\* A step of stopAll that saves nothing but routes there are, disabled or as they
\* were, keeps every invariant that does not tell enabled from disabled.
LEMMA StopFrame ==
    ASSUME IInv, status = "up", op.name = "stopAll", SameAliasesAndUsers,
           UNCHANGED <<status, secrets, torn>>, op'.step \notin RouteSteps, op'.name \in {"none", "stopAll"},
           \A g \in Families, b \in Aliases :
              file'[g][b] = file[g][b] \/ (file'[g][b] = NoRoute <=> reg[g][b] = NoRoute)
    PROVE  RouteOpInv' /\ DownInv' /\ TornInv' /\ TargetInv'
<1>1. StoreInv
  BY DEF IInv
<1>2. RouteOpInv' /\ DownInv'
  BY DEF RouteOpInv, DownInv
<1>3. TornInv'
  <2>1. SUFFICES ASSUME NEW g \in Families, NEW b \in Aliases, file'[g][b] # NoRoute, reg'[g][b] = NoRoute
                 PROVE  <<g, b>> \in torn /\ ~file'[g][b].enabled
    BY DEF TornInv, Own
  <2>2. reg[g][b] = NoRoute /\ file'[g][b] = file[g][b]
    BY <2>1 DEF SameAliasesAndUsers
  <2> QED BY <1>1, <2>1, <2>2 DEF StoreInv, TornInv, Own
<1>4. TargetInv'
  <2>1. ASSUME NEW g \in Families, NEW b \in Aliases, file'[g][b] # NoRoute \/ reg'[g][b] # NoRoute,
               <<g, b>> \notin torn
        PROVE  secrets[<<g, b>>] = g
    <3>1. file[g][b] # NoRoute \/ reg[g][b] # NoRoute
      BY <2>1 DEF SameAliasesAndUsers
    <3> QED BY <1>1, <2>1, <3>1 DEF StoreInv, TargetInv
  <2> QED BY <2>1 DEF TargetInv, RouteSteps
<1> QED BY <1>2, <1>3, <1>4

\* Enabled routes stay asked for while stopAll only disables routes or puts back
\* what there was.
LEMMA StopWanted ==
    ASSUME IInv, op # Idle, wanted' = wanted, op'.step \notin RouteSteps,
           op' = Idle \/ op'.prev = op.prev,
           \A g \in Families, b \in Aliases :
              /\ \/ reg'[g][b] \in {reg[g][b], op.prev[g][b]}
                 \/ reg'[g][b] # NoRoute => reg'[g][b].enabled = FALSE
              /\ file'[g][b] \in {file[g][b], reg[g][b], op.prev[g][b]}
    PROVE  WantedInv'
<1>1. /\ NeverEnabledUnasked
      /\ \A g \in Families, b \in Aliases : op.prev[g][b] # NoRoute => (op.prev[g][b].enabled => b \in wanted)
  BY DEF IInv, StoreInv, WantedInv
<1>2. ASSUME NEW g \in Families, NEW b \in Aliases, NEW r \in {reg'[g][b], file'[g][b]}, r # NoRoute, r.enabled
      PROVE  b \in wanted
  <2>1. r \in {reg[g][b], file[g][b], op.prev[g][b]}
    BY <1>2
  <2> QED BY <1>1, <1>2, <2>1 DEF NeverEnabledUnasked
<1>3. NeverEnabledUnasked'
  BY <1>2 DEF NeverEnabledUnasked
<1> QED BY <1>1, <1>3 DEF WantedInv

\* stopAll switches off the HTTP registry.
LEMMA StopHTTPKeeps ==
    ASSUME IInv, StopHTTP
    PROVE  StoreInv'
<1>1. At("stopHTTP") /\ UNCHANGED <<status, file, secrets, wanted, torn, unsynced>>
  BY DEF StopHTTP, history
<1>2. PICK h \in Table, s \in Table : h = op.prev["http"] /\ s = op.prev["ssh"]
  BY <1>1, StopFinds DEF StopSteps
<1>3. /\ TypeOK /\ StoreInv /\ status = "up" /\ op \in StopOperation /\ op # Idle
      /\ op.name = "stopAll" /\ op.step = "stopHTTP"
  BY <1>1, StopFinds DEF StopSteps
<1>4. SameAliasesAndUsers
  BY <1>3, StoppingKeeps DEF Stopping
<1>5. op' # Idle /\ op'.step = "stopSSH" /\ op'.name = "stopAll" /\ op'.prev = op.prev
  BY <1>3, StopGoes DEF StopHTTP, StopSteps
<1>6. reg["http"] = h /\ reg["ssh"] = s
  BY <1>2, <1>3 DEF StoreInv, StopInv, StopSteps
<1>7. reg'["http"] = DisableAll(h) /\ reg'["ssh"] = s
  BY <1>3, <1>6 DEF StopHTTP, TypeOK, Tables, Families
<1>8. RouteOpInv' /\ DownInv' /\ TornInv' /\ TargetInv'
  BY <1>1, <1>3, <1>4, <1>5, StopFrame DEF RouteSteps
<1>9. StopInv'
  BY <1>2, <1>5, <1>7 DEF StopInv
<1>10. MatchInv'
  BY <1>1, <1>3, <1>5 DEF StoreInv, MatchInv, Near
<1>11. WantedInv'
  <2>1. \A g \in Families, b \in Aliases :
          \/ reg'[g][b] \in {reg[g][b], op.prev[g][b]}
          \/ reg'[g][b] # NoRoute => reg'[g][b].enabled = FALSE
    BY <1>6, <1>7, AllDisabled DEF Families
  <2> QED BY <1>1, <1>3, <1>5, <2>1, StopWanted DEF RouteSteps
<1> QED BY <1>8, <1>9, <1>10, <1>11 DEF StoreInv

\* stopAll switches off the SSH registry.
LEMMA StopSSHKeeps ==
    ASSUME IInv, StopSSH
    PROVE  StoreInv'
<1>1. At("stopSSH") /\ UNCHANGED <<status, file, secrets, wanted, torn, unsynced>>
  BY DEF StopSSH, history
<1>2. PICK h \in Table, s \in Table : h = op.prev["http"] /\ s = op.prev["ssh"]
  BY <1>1, StopFinds DEF StopSteps
<1>3. /\ TypeOK /\ StoreInv /\ status = "up" /\ op \in StopOperation /\ op # Idle
      /\ op.name = "stopAll" /\ op.step = "stopSSH"
  BY <1>1, StopFinds DEF StopSteps
<1>4. SameAliasesAndUsers
  BY <1>3, StoppingKeeps DEF Stopping
<1>5. op' # Idle /\ op'.step = "saveHTTP" /\ op'.name = "stopAll" /\ op'.prev = op.prev
  BY <1>3, StopGoes DEF StopSSH, StopSteps
<1>6. reg["http"] = DisableAll(h) /\ reg["ssh"] = s
  BY <1>2, <1>3 DEF StoreInv, StopInv, StopSteps
<1>7. reg'["http"] = DisableAll(h) /\ reg'["ssh"] = DisableAll(s)
  BY <1>3, <1>6 DEF StopSSH, TypeOK, Tables, Families
<1>8. RouteOpInv' /\ DownInv' /\ TornInv' /\ TargetInv'
  BY <1>1, <1>3, <1>4, <1>5, StopFrame DEF RouteSteps
<1>9. StopInv'
  BY <1>2, <1>5, <1>7 DEF StopInv
<1>10. MatchInv'
  BY <1>1, <1>3, <1>5 DEF StoreInv, MatchInv, Near
<1>11. WantedInv'
  <2>1. \A g \in Families, b \in Aliases : reg'[g][b] # NoRoute => reg'[g][b].enabled = FALSE
    BY <1>7, AllDisabled DEF Families
  <2> QED BY <1>1, <1>3, <1>5, <2>1, StopWanted DEF RouteSteps
<1> QED BY <1>8, <1>9, <1>10, <1>11 DEF StoreInv

\* stopAll saves routes.json.
LEMMA StopSaveHTTPKeeps ==
    ASSUME IInv, StopSaveHTTP
    PROVE  StoreInv'
<1>1. At("saveHTTP") /\ UNCHANGED <<status, reg, secrets, wanted, torn>>
  BY DEF StopSaveHTTP
<1>2. PICK h \in Table, s \in Table : h = op.prev["http"] /\ s = op.prev["ssh"]
  BY <1>1, StopFinds DEF StopSteps
<1>3. /\ TypeOK /\ StoreInv /\ status = "up" /\ op \in StopOperation /\ op # Idle
      /\ op.name = "stopAll" /\ op.step = "saveHTTP" /\ reg["http"] \in Table
  BY <1>1, StopFinds DEF StopSteps
<1>4. SameAliasesAndUsers
  BY <1>3, StoppingKeeps DEF Stopping
<1>5. PICK outcome \in Outcomes :
        /\ Save("http", reg["http"], outcome)
        /\ unsynced' = UnsyncedBy("http", outcome)
        /\ GoTo(IF outcome = "ok" THEN "saveSSH" ELSE "undoHTTP")
  BY DEF StopSaveHTTP
<1>6. outcome \in {"ok", "before", "after"}
  BY ConstantsAssumption DEF Outcomes
<1>7. PICK next \in StopSteps : next = IF outcome = "ok" THEN "saveSSH" ELSE "undoHTTP"
  BY DEF StopSteps
<1>8. op' # Idle /\ op'.step = next /\ op'.name = "stopAll" /\ op'.prev = op.prev
  BY <1>3, <1>5, <1>7, StopGoes
<1>9. reg["http"] = DisableAll(h) /\ reg["ssh"] = DisableAll(s)
  BY <1>2, <1>3 DEF StoreInv, StopInv, StopSteps
<1>10. /\ outcome = "before" => file' = file
       /\ outcome # "before" => file'["http"] = reg["http"]
       /\ file'["ssh"] = file["ssh"]
  BY <1>3, <1>5, Saved DEF Families
<1>11. /\ outcome = "before" => unsynced' = unsynced
       /\ outcome = "after" => unsynced' = unsynced \cup {"http"}
       /\ outcome = "ok" => unsynced' = unsynced \ {"http"}
  BY <1>5 DEF UnsyncedBy
<1>12. RouteOpInv' /\ DownInv' /\ TornInv' /\ TargetInv'
  <2>1. \A g \in Families, b \in Aliases :
          file'[g][b] = file[g][b] \/ (file'[g][b] = NoRoute <=> reg[g][b] = NoRoute)
    BY <1>10 DEF Families
  <2>2. op'.step \notin RouteSteps
    BY <1>7, <1>8 DEF RouteSteps
  <2> QED BY <1>1, <1>3, <1>4, <1>8, <2>1, <2>2, StopFrame
<1>13. StopInv'
  BY <1>1, <1>2, <1>7, <1>8, <1>9, <1>10 DEF StopInv
<1>14. MatchInv'
  <2>1. /\ outcome # "ok" /\ "http" \notin unsynced' => file'["http"] = op.prev["http"]
        /\ "ssh" \notin unsynced' => Near(file'["ssh"], op.prev["ssh"])
    BY <1>3, <1>6, <1>10, <1>11 DEF StoreInv, MatchInv
  <2> QED BY <1>7, <1>8, <2>1 DEF MatchInv, Near
<1>15. WantedInv'
  <2>1. \A g \in Families, b \in Aliases : file'[g][b] \in {file[g][b], reg[g][b]}
    BY <1>10 DEF Families
  <2>2. op'.step \notin RouteSteps
    BY <1>7, <1>8 DEF RouteSteps
  <2> QED BY <1>1, <1>3, <1>8, <2>1, <2>2, StopWanted
<1> QED BY <1>12, <1>13, <1>14, <1>15 DEF StoreInv

\* stopAll gives up after routes.json: the SSH registry stays off, which Near allows.
LEMMA StopUndoHTTPKeeps ==
    ASSUME IInv, StopUndoHTTP
    PROVE  StoreInv'
<1>1. At("undoHTTP") /\ UNCHANGED <<status, file, secrets, wanted, torn, unsynced>>
  BY DEF StopUndoHTTP, history
<1>2. PICK h \in Table, s \in Table : h = op.prev["http"] /\ s = op.prev["ssh"]
  BY <1>1, StopFinds DEF StopSteps
<1>3. /\ TypeOK /\ StoreInv /\ status = "up" /\ op \in StopOperation /\ op # Idle
      /\ op.name = "stopAll" /\ op.step = "undoHTTP" /\ file["ssh"] \in Table
  BY <1>1, StopFinds DEF StopSteps
<1>4. SameAliasesAndUsers
  BY <1>3, StoppingKeeps DEF Stopping
<1>5. op' = Idle /\ op'.step = "idle" /\ op'.name = "none"
      /\ op'.step \notin RouteSteps /\ op'.step \notin StopSteps
  BY LockEnds DEF StopUndoHTTP
<1>6. reg["http"] = DisableAll(h) /\ reg["ssh"] = DisableAll(s)
  BY <1>2, <1>3 DEF StoreInv, StopInv, StopSteps
<1>7. reg'["http"] = h /\ reg'["ssh"] = DisableAll(s)
  <2>1. reg'["http"] = RestoreEnabled(DisableAll(h), h) /\ reg'["ssh"] = reg["ssh"]
    BY <1>2, <1>3, <1>6 DEF StopUndoHTTP, TypeOK, Tables, Families
  <2> QED BY <1>6, <2>1, StopUndone
<1>8. RouteOpInv' /\ DownInv' /\ TornInv' /\ TargetInv'
  BY <1>1, <1>3, <1>4, <1>5, StopFrame
<1>9. StopInv'
  BY <1>5 DEF StopInv
<1>10. MatchInv'
  <2>1. /\ "http" \notin unsynced => file["http"] = h
        /\ "ssh" \notin unsynced => Near(file["ssh"], s)
    BY <1>2, <1>3 DEF StoreInv, MatchInv
  <2>2. "ssh" \notin unsynced => Near(file["ssh"], DisableAll(s))
    BY <1>3, <2>1, NearStopped
  <2> QED BY <1>1, <1>5, <1>7, <2>1, <2>2 DEF MatchInv, Match, Near
<1>11. WantedInv'
  <2>1. \A g \in Families, b \in Aliases :
          \/ reg'[g][b] \in {reg[g][b], op.prev[g][b]}
          \/ reg'[g][b] # NoRoute => reg'[g][b].enabled = FALSE
    BY <1>2, <1>6, <1>7 DEF Families
  <2> QED BY <1>1, <1>3, <1>5, <2>1, StopWanted
<1> QED BY <1>8, <1>9, <1>10, <1>11 DEF StoreInv

\* stopAll saves ssh-routes.json; only now is everything known to be off.
LEMMA StopSaveSSHKeeps ==
    ASSUME IInv, StopSaveSSH
    PROVE  StoreInv'
<1>1. At("saveSSH") /\ UNCHANGED <<status, reg, secrets, torn>>
  BY DEF StopSaveSSH
<1>2. PICK h \in Table, s \in Table : h = op.prev["http"] /\ s = op.prev["ssh"]
  BY <1>1, StopFinds DEF StopSteps
<1>3. /\ TypeOK /\ StoreInv /\ status = "up" /\ op \in StopOperation /\ op # Idle
      /\ op.name = "stopAll" /\ op.step = "saveSSH" /\ reg["ssh"] \in Table
  BY <1>1, StopFinds DEF StopSteps
<1>4. SameAliasesAndUsers
  BY <1>3, StoppingKeeps DEF Stopping
<1>5. PICK outcome \in Outcomes :
        /\ Save("ssh", reg["ssh"], outcome)
        /\ unsynced' = UnsyncedBy("ssh", outcome)
        /\ IF outcome = "ok" THEN Release /\ wanted' = Acknowledged
           ELSE GoTo("undoBoth") /\ UNCHANGED wanted
  BY DEF StopSaveSSH
<1>6. outcome \in {"ok", "before", "after"}
  BY ConstantsAssumption DEF Outcomes
<1>7. reg["http"] = DisableAll(h) /\ reg["ssh"] = DisableAll(s) /\ file["http"] = reg["http"]
  BY <1>2, <1>3 DEF StoreInv, StopInv, StopSteps
<1>8. /\ outcome = "before" => file' = file
      /\ outcome # "before" => file'["ssh"] = reg["ssh"]
      /\ file'["http"] = file["http"]
  BY <1>3, <1>5, Saved DEF Families
<1>9. /\ outcome = "before" => unsynced' = unsynced
      /\ outcome = "after" => unsynced' = unsynced \cup {"ssh"}
  BY <1>5 DEF UnsyncedBy
<1>10. \A g \in Families, b \in Aliases :
         file'[g][b] = file[g][b] \/ (file'[g][b] = NoRoute <=> reg[g][b] = NoRoute)
  BY <1>8 DEF Families
<1>11. CASE outcome = "ok"
  <2>1. op' = Idle /\ op'.step = "idle" /\ op'.name = "none"
        /\ op'.step \notin RouteSteps /\ op'.step \notin StopSteps
    BY <1>5, <1>11, LockEnds
  <2>2. RouteOpInv' /\ DownInv' /\ TornInv' /\ TargetInv'
    BY <1>1, <1>3, <1>4, <1>10, <2>1, StopFrame
  <2>3. StopInv'
    BY <2>1 DEF StopInv
  <2>4. MatchInv'
    <3>1. file'["http"] = reg["http"] /\ Near(file'["ssh"], reg["ssh"])
      BY <1>7, <1>8, <1>11, NearSame
    <3> QED BY <1>1, <2>1, <3>1 DEF MatchInv, Match, Near
  <2>5. WantedInv'
    <3>1. \A g \in Families, b \in Aliases :
            file'[g][b] = reg[g][b] /\ (reg[g][b] # NoRoute => reg[g][b].enabled = FALSE)
      BY <1>7, <1>8, <1>11, AllDisabled DEF Families
    <3>2. NeverEnabledUnasked'
      BY <1>1, <3>1 DEF NeverEnabledUnasked
    <3> QED BY <2>1, <3>2 DEF WantedInv
  <2> QED BY <2>2, <2>3, <2>4, <2>5 DEF StoreInv
<1>12. CASE outcome # "ok"
  <2>1. op' # Idle /\ op'.step = "undoBoth" /\ op'.name = "stopAll" /\ op'.prev = op.prev /\ wanted' = wanted
    BY <1>3, <1>5, <1>12, StopGoes DEF StopSteps
  <2>2. RouteOpInv' /\ DownInv' /\ TornInv' /\ TargetInv'
    BY <1>1, <1>3, <1>4, <1>10, <2>1, StopFrame DEF RouteSteps
  <2>3. StopInv'
    BY <1>1, <1>2, <1>7, <2>1 DEF StopInv
  <2>4. MatchInv'
    <3>1. "ssh" \notin unsynced' => Near(file'["ssh"], op.prev["ssh"])
      BY <1>3, <1>6, <1>8, <1>9, <1>12 DEF StoreInv, MatchInv
    <3> QED BY <2>1, <3>1 DEF MatchInv, Near
  <2>5. WantedInv'
    <3>1. \A g \in Families, b \in Aliases : file'[g][b] \in {file[g][b], reg[g][b]}
      BY <1>8 DEF Families
    <3> QED BY <1>1, <1>3, <2>1, <3>1, StopWanted DEF RouteSteps
  <2> QED BY <2>2, <2>3, <2>4, <2>5 DEF StoreInv
<1> QED BY <1>11, <1>12

\* The rollback of a stop that failed on the SSH file puts back both registries.
LEMMA StopUndoneBoth ==
    ASSUME IInv, StopUndoBoth
    PROVE  reg' = op.prev
<1>1. At("undoBoth") /\ reg' = [f \in Families |-> RestoreEnabled(reg[f], op.prev[f])]
  BY DEF StopUndoBoth
<1>2. PICK h \in Table, s \in Table : h = op.prev["http"] /\ s = op.prev["ssh"]
  BY <1>1, StopFinds DEF StopSteps
<1>3. StoreInv /\ op.step = "undoBoth" /\ op.prev \in Tables
  BY <1>1, StopFinds DEF StopSteps
<1>4. reg["http"] = DisableAll(h) /\ reg["ssh"] = DisableAll(s)
  BY <1>2, <1>3 DEF StoreInv, StopInv, StopSteps
<1>5. reg'["http"] = RestoreEnabled(DisableAll(h), h) /\ reg'["ssh"] = RestoreEnabled(DisableAll(s), s)
  BY <1>1, <1>2, <1>4 DEF Families
<1>6. reg'["http"] = h /\ reg'["ssh"] = s
  BY <1>5, StopUndone
<1>7. reg' = [f \in Families |-> reg'[f]]
  BY <1>1
<1> QED BY <1>2, <1>3, <1>6, <1>7 DEF Tables, Families

\* stopAll gives up after ssh-routes.json and restores both registries.
LEMMA StopUndoBothKeeps ==
    ASSUME IInv, StopUndoBoth
    PROVE  StoreInv'
<1>1. At("undoBoth") /\ UNCHANGED <<status, file, secrets, wanted, torn, unsynced>>
  BY DEF StopUndoBoth, history
<1>2. /\ TypeOK /\ StoreInv /\ status = "up" /\ op \in StopOperation /\ op # Idle
      /\ op.name = "stopAll" /\ op.step = "undoBoth"
  BY <1>1, StopFinds DEF StopSteps
<1>3. SameAliasesAndUsers
  BY <1>2, StoppingKeeps DEF Stopping
<1>4. op' # Idle /\ op'.step = "resave" /\ op'.name = "stopAll" /\ op'.prev = op.prev
  BY <1>2, StopGoes DEF StopUndoBoth, StopSteps
<1>5. reg' = op.prev
  BY StopUndoneBoth
<1>6. RouteOpInv' /\ DownInv' /\ TornInv' /\ TargetInv'
  BY <1>1, <1>2, <1>3, <1>4, StopFrame DEF RouteSteps
<1>7. StopInv'
  BY <1>4, <1>5 DEF StopInv
<1>8. MatchInv'
  BY <1>1, <1>2, <1>4 DEF StoreInv, MatchInv, Near
<1>9. WantedInv'
  BY <1>1, <1>2, <1>4, <1>5, StopWanted DEF RouteSteps
<1> QED BY <1>6, <1>7, <1>8, <1>9 DEF StoreInv

\* stopAll writes routes.json back, or marks it unsynced.
LEMMA StopResaveKeeps ==
    ASSUME IInv, StopResave
    PROVE  StoreInv'
<1>1. At("resave") /\ UNCHANGED <<status, reg, secrets, wanted, torn>>
  BY DEF StopResave
<1>2. PICK h \in Table, s \in Table : h = op.prev["http"] /\ s = op.prev["ssh"]
  BY <1>1, StopFinds DEF StopSteps
<1>3. /\ TypeOK /\ StoreInv /\ status = "up" /\ op \in StopOperation /\ op # Idle
      /\ op.name = "stopAll" /\ op.step = "resave"
  BY <1>1, StopFinds DEF StopSteps
<1>4. SameAliasesAndUsers
  BY <1>3, StoppingKeeps DEF Stopping
<1>5. op' = Idle /\ op'.step = "idle" /\ op'.name = "none"
      /\ op'.step \notin RouteSteps /\ op'.step \notin StopSteps
  BY LockEnds DEF StopResave
<1>6. PICK outcome \in Outcomes :
        /\ Save("http", h, outcome)
        /\ unsynced' = IF outcome = "before" THEN unsynced \cup {"http"} ELSE unsynced \ {"http"}
  BY <1>2 DEF StopResave
<1>7. reg["http"] = h /\ reg["ssh"] = s
  BY <1>2, <1>3 DEF StoreInv, StopInv, StopSteps
<1>8. /\ outcome = "before" => file' = file
      /\ outcome # "before" => file'["http"] = h
      /\ file'["ssh"] = file["ssh"]
  BY <1>3, <1>6, Saved DEF Families
<1>9. \A g \in Families, b \in Aliases : file'[g][b] \in {file[g][b], reg[g][b]}
  BY <1>7, <1>8 DEF Families
<1>10. RouteOpInv' /\ DownInv' /\ TornInv' /\ TargetInv'
  BY <1>1, <1>3, <1>4, <1>5, <1>9, StopFrame
<1>11. StopInv'
  BY <1>5 DEF StopInv
<1>12. MatchInv'
  <2>1. /\ "http" \notin unsynced' => file'["http"] = reg["http"]
        /\ "ssh" \notin unsynced' => Near(file'["ssh"], reg["ssh"])
    BY <1>2, <1>3, <1>6, <1>7, <1>8 DEF StoreInv, MatchInv
  <2> QED BY <1>1, <1>5, <2>1 DEF MatchInv, Match, Near
<1>13. WantedInv'
  BY <1>1, <1>3, <1>5, <1>9, StopWanted
<1> QED BY <1>10, <1>11, <1>12, <1>13 DEF StoreInv

-----------------------------------------------------------------------------
(* The process.                                                            *)

\* While the server runs, an alias is in both files only after a torn creation: one
\* of the registries has not the alias, and a deletion that is not saved leaves it
\* in one family only.
LEMMA ClashWhenUp ==
    ASSUME IInv, status = "up"
    PROVE  ClashOnlyAfterTornSave
<1>1. SUFFICES ASSUME NEW a \in Aliases, file["http"][a] # NoRoute, file["ssh"][a] # NoRoute
               PROVE  \E g \in Families : <<g, a>> \in torn
  BY DEF ClashOnlyAfterTornSave, Families
<1>2. PICK g \in Families : reg[g][a] = NoRoute
  BY DEF IInv, AliasesDisjoint, Registered, Families
<1>3. \A f \in Families : file[f][a] # NoRoute
  BY <1>1 DEF Families
<1>4. CASE ~(Own("delete", g, a) /\ op.step \in {"save", "undo"})
  BY <1>2, <1>3, <1>4 DEF IInv, StoreInv, TornInv
<1>5. CASE Own("delete", g, a) /\ op.step \in {"save", "undo"}
  <2>1. PICK f \in Families : f # g
    BY DEF Families
  <2>2. reg[f][a] = NoRoute /\ ~Own("delete", f, a)
    BY <1>5, <2>1 DEF Own, IInv, LockInv, OtherFamilyFree, RouteSteps
  <2> QED BY <1>3, <2>2 DEF IInv, StoreInv, TornInv
<1> QED BY <1>4, <1>5

\* A crash leaves the files and forgets the registries.
LEMMA CrashKeeps ==
    ASSUME IInv, Crash
    PROVE  StoreInv'
<1>1. /\ status = "up" /\ status' = "down" /\ reg' = Empty /\ UNCHANGED <<file, secrets>>
      /\ op' = Idle /\ wanted' = {a \in wanted : Enabled(file, a)}
      /\ torn' = {t \in torn : file[t[1]][t[2]] # NoRoute}
  BY DEF Crash
<1>2. op'.step = "idle" /\ op'.step \notin RouteSteps /\ op'.step \notin StopSteps
  BY <1>1 DEF Idle, RouteSteps, StopSteps
<1>3. TypeOK /\ StoreInv /\ ClashOnlyAfterTornSave
  BY <1>1, ClashWhenUp DEF IInv
<1>4. RouteOpInv' /\ StopInv' /\ MatchInv' /\ TornInv'
  BY <1>1, <1>2 DEF RouteOpInv, StopInv, MatchInv, TornInv
<1>5. \A f \in Families, a \in Aliases : file[f][a] # NoRoute /\ <<f, a>> \in torn => <<f, a>> \in torn'
  BY <1>1
<1>6. DownInv'
  BY <1>1, <1>3, <1>5 DEF DownInv, ClashOnlyAfterTornSave, Families
<1>7. \A f \in Families, a \in Aliases : reg'[f][a] = NoRoute
  BY <1>1 DEF Empty, NoRoutes
<1>8. TargetInv'
  BY <1>1, <1>2, <1>3, <1>5, <1>7 DEF StoreInv, TargetInv
<1>9. WantedInv'
  <2>1. ASSUME NEW f \in Families, NEW a \in Aliases, file[f][a] # NoRoute, file[f][a].enabled
        PROVE  a \in wanted'
    BY <1>1, <1>3, <2>1 DEF StoreInv, WantedInv, NeverEnabledUnasked, Enabled
  <2>2. NeverEnabledUnasked'
    BY <1>1, <1>7, <2>1 DEF NeverEnabledUnasked
  <2> QED BY <1>1, <1>2, <2>2 DEF WantedInv
<1> QED BY <1>4, <1>6, <1>8, <1>9 DEF StoreInv

\* A start reads the registries from the files and may create the host identity, over
\* no target.
LEMMA StartKeeps ==
    ASSUME IInv, Start
    PROVE  StoreInv'
<1>1. status # "up" /\ UNCHANGED <<file, op, wanted, torn, unsynced>>
  BY DEF Start, history
<1>2. TypeOK /\ StoreInv /\ op = Idle /\ op' = Idle
  BY <1>1 DEF IInv, LockInv, LockOnlyWhenUp
<1>3. /\ op'.step = "idle" /\ op'.name = "none" /\ op'.step \notin RouteSteps /\ op'.step \notin StopSteps
  BY <1>2 DEF Idle, RouteSteps, StopSteps
<1>4. (status' # "up" /\ reg' = reg) \/ (status' = "up" /\ reg' = file)
  BY <1>1 DEF Start
<1>5. \A g \in Families, b \in Aliases : secrets[<<g, b>>] = g => secrets'[<<g, b>>] = g
  <2>1. CASE secrets' = secrets
    BY <2>1
  <2>2. CASE secrets' # secrets
    <3>1. IdentityLoads /\ secrets' = [secrets EXCEPT ![HostRef] = "identity"]
      BY <2>2 DEF Start, LoadOrCreateHostSigner, PutTarget
    <3>2. SUFFICES ASSUME NEW g \in Families, NEW b \in Aliases, secrets[<<g, b>>] = g
                   PROVE  secrets'[<<g, b>>] = g
      OBVIOUS
    <3>3. <<g, b>> \in Refs /\ secrets \in [Refs -> Contents]
      BY <1>2 DEF Refs, TypeOK
    <3>4. <<g, b>> # HostRef
      BY <3>1, <3>2 DEF IdentityLoads, Families
    <3> QED BY <3>1, <3>2, <3>3, <3>4
  <2> QED BY <2>1, <2>2
<1>6. RouteOpInv' /\ StopInv'
  BY <1>3 DEF RouteOpInv, StopInv
<1>7. MatchInv'
  <2>1. CASE status' = "up"
    <3>1. file' = reg' /\ Near(file'["ssh"], reg'["ssh"])
      BY <1>1, <1>4, <2>1, NearSame
    <3> QED BY <1>3, <3>1 DEF MatchInv, Match, Near
  <2>2. CASE status' # "up"
    BY <2>2 DEF MatchInv
  <2> QED BY <2>1, <2>2
<1>8. TornInv'
  BY <1>1, <1>3, <1>4 DEF TornInv, Own
<1>9. DownInv'
  BY <1>1, <1>2 DEF StoreInv, DownInv, ClashOnlyAfterTornSave
<1>10. TargetInv'
  BY <1>1, <1>2, <1>3, <1>4, <1>5 DEF StoreInv, TargetInv
<1>11. WantedInv'
  <2>1. NeverEnabledUnasked'
    BY <1>1, <1>2, <1>4 DEF StoreInv, WantedInv, NeverEnabledUnasked
  <2> QED BY <1>2, <1>3, <2>1 DEF WantedInv
<1> QED BY <1>6, <1>7, <1>8, <1>9, <1>10, <1>11 DEF StoreInv

-----------------------------------------------------------------------------
(* The theorems about files, targets and enablement.                       *)

\* At first there is nothing, in memory, on disk or under way.
LEMMA StoreInitial == Init => StoreInv
<1>1. SUFFICES ASSUME Init PROVE StoreInv
  OBVIOUS
<1>2. /\ status = "down" /\ op = Idle /\ wanted = {}
      /\ \A f \in Families, a \in Aliases : reg[f][a] = NoRoute /\ file[f][a] = NoRoute
  BY <1>1 DEF Init, Empty, NoRoutes
<1>3. op.step \notin RouteSteps /\ op.step \notin StopSteps /\ op.step = "idle"
  BY <1>2, IdleFields
<1>4. RouteOpInv /\ StopInv /\ MatchInv /\ TornInv
  BY <1>2, <1>3 DEF RouteOpInv, StopInv, MatchInv, TornInv
<1>5. DownInv /\ TargetInv
  BY <1>2, <1>3 DEF DownInv, ClashOnlyAfterTornSave, TargetInv, Families
<1>6. WantedInv
  BY <1>2, <1>3 DEF WantedInv, NeverEnabledUnasked
<1> QED BY <1>4, <1>5, <1>6 DEF StoreInv

\* A step that changes nothing.
LEMMA StoreStutters ==
    ASSUME StoreInv, UNCHANGED vars
    PROVE  StoreInv'
<1>1. UNCHANGED <<status, reg, file, secrets, op, wanted, torn, unsynced>>
  BY DEF vars
<1>2. RouteOpInv' /\ StopInv'
  BY <1>1 DEF StoreInv, RouteOpInv, StopInv
<1>3. MatchInv'
  BY <1>1 DEF StoreInv, MatchInv, Match, Near
<1>4. TornInv' /\ DownInv'
  BY <1>1 DEF StoreInv, TornInv, Own, DownInv, ClashOnlyAfterTornSave
<1>5. TargetInv' /\ WantedInv'
  BY <1>1 DEF StoreInv, TargetInv, WantedInv, NeverEnabledUnasked
<1> QED BY <1>2, <1>3, <1>4, <1>5 DEF StoreInv

\* Every step keeps the invariant: one lemma per action above.
LEMMA StoreInduction ==
    ASSUME IInv, [Next]_vars
    PROVE  StoreInv'
<1>1. CASE UNCHANGED vars
  BY <1>1, StoreStutters DEF IInv
<1>2. CASE Request
  <2>1. stopAll \/ BeginsOperation
    BY <1>2, RequestBegins DEF IInv
  <2> QED BY <2>1, StopAllKeeps, BeginKeeps
<1>3. CASE Work
  BY <1>3, PutKeeps, UpsertKeeps, SaveKeeps, UndoKeeps, UnputKeeps, UnlinkKeeps, StopHTTPKeeps,
     StopSSHKeeps, StopSaveHTTPKeeps, StopUndoHTTPKeeps, StopSaveSSHKeeps, StopUndoBothKeeps,
     StopResaveKeeps DEF Work
<1>4. CASE Crash
  BY <1>4, CrashKeeps
<1>5. CASE Start
  BY <1>5, StartKeeps
<1> QED BY <1>1, <1>2, <1>3, <1>4, <1>5 DEF Next

\* The inductive invariant holds of every state the control server reaches.
LEMMA Invariance == Spec => []IInv
<1>1. Init /\ TypeOK => IInv
  BY LockInitial, StoreInitial DEF IInv
<1>2. TypeOK' /\ IInv /\ [Next]_vars => IInv'
  BY LockInduction, StoreInduction DEF IInv
<1> QED BY <1>1, <1>2, TypeCorrect, PTL DEF Spec

\* Between operations each route file is its registry, up to SSH routes a failed
\* stop_all left disabled in memory, unless the last Save of the file reported an
\* error: whatever failed, was rolled back or was interrupted before.
THEOREM FilesFollowRegistries == Spec => []FilesMatchRegistries
<1>1. IInv => FilesMatchRegistries
  <2>1. SUFFICES ASSUME IInv, Free PROVE Match(reg)
    BY DEF FilesMatchRegistries, Match, Near
  <2>2. op.step = "idle" /\ status = "up"
    BY <2>1, IdleFields DEF Free
  <2> QED BY <2>1, <2>2 DEF IInv, StoreInv, MatchInv
<1> QED BY <1>1, Invariance, PTL

\* Every route a file names has its protected target, of the kind its gateway
\* decodes, after any crash and any failed write, save when its own creation failed
\* after the rename.
THEOREM PersistedRoutesKeepTargets == Spec => []PersistedRoutesHaveTargets
<1>1. IInv => PersistedRoutesHaveTargets
  BY DEF IInv, StoreInv, TargetInv, PersistedRoutesHaveTargets
<1> QED BY <1>1, Invariance, PTL

\* An alias is in routes.json and in ssh-routes.json at once only if a creation of it
\* failed after the rename, whether the server runs or not.
THEOREM ClashesComeFromTornSaves == Spec => []ClashOnlyAfterTornSave
<1>1. IInv => ClashOnlyAfterTornSave
  <2>1. IInv /\ status # "up" => ClashOnlyAfterTornSave
    BY DEF IInv, StoreInv, DownInv
  <2> QED BY <2>1, ClashWhenUp
<1> QED BY <1>1, Invariance, PTL

\* No route is ever enabled, in memory or on disk, that the operator did not enable
\* or has since disabled, deleted or stopped with success: no crash, restart or
\* rollback brings it back.
THEOREM OffStaysOff == Spec => []NeverEnabledUnasked
<1>1. IInv => NeverEnabledUnasked
  BY DEF IInv, StoreInv, WantedInv
<1> QED BY <1>1, Invariance, PTL

-----------------------------------------------------------------------------
(* The stores implement the catalogue of routes.                           *)

\* What the answers promise is what is registered between operations, and what was
\* registered at the start of an operation that has not saved.
LEMMA PromisedNow ==
    ASSUME status = "up"
    PROVE  /\ op = Idle \/ op.step \in {"unput", "unlink"} => Promised = reg
           /\ op # Idle /\ op.step \notin {"unput", "unlink"} => Promised = op.prev
BY DEF Promised

\* The same of the next state.
LEMMA PromisedNext ==
    ASSUME status' = "up"
    PROVE  /\ op' = Idle \/ op'.step \in {"unput", "unlink"} => Promised' = reg'
           /\ op' # Idle /\ op'.step \notin {"unput", "unlink"} => Promised' = op'.prev
BY DEF Promised

\* A step the catalogue does not see.
LEMMA Unseen ==
    ASSUME status' = status, Promised' = Promised, file' = file
    PROVE  UNCHANGED Catalogue!vars
BY DEF Catalogue!vars

\* Requests.
LEMMA RequestUnseen ==
    ASSUME IInv, Request
    PROVE  UNCHANGED Catalogue!vars
<1>1. stopAll \/ BeginsOperation
  BY RequestBegins DEF IInv
<1>2. CASE stopAll
  <2>1. /\ status = "up" /\ op = Idle /\ status' = status /\ file' = file
        /\ op'.step = "stopHTTP" /\ op'.prev = reg
    BY <1>2 DEF stopAll, Free
  <2>2. op' # Idle
    BY <2>1 DEF Idle
  <2> QED BY <2>1, <2>2, PromisedNow, PromisedNext, Unseen
<1>3. CASE BeginsOperation
  <2>1. PICK name \in OperationNames, step \in RouteSteps, f \in Families, a \in Aliases,
             r \in Route \cup {NoRoute} : Begin(name, step, f, a, r) /\ Asked(name, step, f, a, r)
    BY <1>3 DEF BeginsOperation
  <2>2. /\ status = "up" /\ op = Idle /\ status' = status /\ file' = file
        /\ op'.step \in {"put", "upsert"} /\ op'.prev = reg
    BY <1>3, <2>1 DEF BeginsOperation, Free, Begin, Asked
  <2>3. op' # Idle
    BY <2>2 DEF Idle
  <2> QED BY <2>2, <2>3, PromisedNow, PromisedNext, Unseen
<1> QED BY <1>1, <1>2, <1>3

\* The writes before and after the Save of an operation on one route.
LEMMA WritesUnseen ==
    ASSUME IInv, Put \/ Upsert \/ Undo \/ Unput \/ Unlink
    PROVE  UNCHANGED Catalogue!vars
<1>1. status = "up" /\ status' = status /\ file' = file
  BY DEF Put, Upsert, Undo, Unput, Unlink, At
<1>2. op.step \in RouteSteps /\ StoreInv
  BY DEF Put, Upsert, Undo, Unput, Unlink, At, RouteSteps, IInv
<1>3. op \in RouteOperation /\ op # Idle
  BY <1>2, RouteOpFacts
<1>4. ASSUME NEW s \in RouteSteps, GoTo(s)
      PROVE  op' # Idle /\ op'.step = s /\ op'.prev = op.prev
  BY <1>3, <1>4, RouteGoes
<1>5. CASE Put \/ Upsert
  <2>1. reg = op.prev /\ Promised = op.prev
    BY <1>1, <1>2, <1>3, <1>5, PromisedNow DEF Put, Upsert, At, StoreInv, RouteOpInv
  <2>2. \/ op' = Idle /\ reg' = reg
        \/ GoTo("upsert")
        \/ GoTo("unput") /\ reg' = reg
        \/ GoTo("save")
    BY <1>5 DEF Put, Upsert, Release
  <2>3. Promised' = op.prev
    BY <1>1, <1>4, <2>1, <2>2, PromisedNext DEF RouteSteps
  <2> QED BY <1>1, <2>1, <2>3, Unseen
<1>6. CASE Undo
  <2>1. reg' = op.prev /\ Promised = op.prev
    BY <1>1, <1>3, <1>6, UndoneAsBefore, PromisedNow DEF Undo, At
  <2>2. op' = Idle \/ GoTo("unput")
    BY <1>6 DEF Undo, Release
  <2>3. Promised' = op.prev
    BY <1>1, <1>4, <2>1, <2>2, PromisedNext DEF RouteSteps
  <2> QED BY <1>1, <2>1, <2>3, Unseen
<1>7. CASE Unput \/ Unlink
  <2>1. op' = Idle /\ reg' = reg /\ op.step \in {"unput", "unlink"}
    BY <1>7 DEF Unput, Unlink, Release, At
  <2> QED BY <1>1, <2>1, PromisedNow, PromisedNext, Unseen
<1> QED BY <1>5, <1>6, <1>7

\* What an operation saves is a change the catalogue allows.
LEMMA SavesAllowedChange ==
    ASSUME IInv, op.step = "save", status = "up"
    PROVE  Catalogue!MayBecome(op.family, op.alias, op.new)
<1>1. op.step \in RouteSteps /\ StoreInv /\ DistinctUsers(reg["ssh"])
  BY DEF RouteSteps, IInv, UsersDistinct
<1>2. PICK f \in Families, a \in Aliases, new \in Route \cup {NoRoute}, before \in Tables :
        f = op.family /\ a = op.alias /\ new = op.new /\ before = op.prev
  BY <1>1, RouteOpFacts
<1>3. op.name \in {"create", "replace", "enable", "delete"} /\ op # Idle
  BY <1>1, RouteOpFacts
<1>4. Promised = before
  BY <1>2, <1>3, PromisedNow
<1>5. /\ \A g \in Families, b \in Aliases : g # f \/ b # a => reg[g][b] = before[g][b]
      /\ reg[f][a] = new
      /\ op.name = "create" => new # NoRoute /\ ~new.enabled /\ \A g \in Families : before[g][a] = NoRoute
      /\ op.name \in {"replace", "enable"} => new # NoRoute /\ before[f][a] # NoRoute /\ new.kind = before[f][a].kind
      /\ op.name = "delete" => new = NoRoute /\ before[f][a] # NoRoute
  BY <1>1, <1>2 DEF StoreInv, RouteOpInv
<1>6. ASSUME new # NoRoute PROVE Catalogue!UserFree(f, a, new)
  <2>1. SUFFICES ASSUME f = "ssh", NEW b \in Aliases \ {a}, before["ssh"][b] # NoRoute
                 PROVE  before["ssh"][b].user # new.user
    BY <1>4 DEF Catalogue!UserFree
  <2>2. reg["ssh"][a] = new /\ reg["ssh"][b] = before["ssh"][b]
    BY <1>5, <2>1
  <2> QED BY <1>1, <1>6, <2>1, <2>2 DEF DistinctUsers
<1>7. CASE op.name = "create"
  <2>1. new \in Route /\ ~new.enabled /\ \A g \in Families : before[g][a] = NoRoute
    BY <1>5, <1>7
  <2>2. Catalogue!MayBecome(f, a, new)
    BY <1>4, <1>5, <1>6, <1>7, <2>1 DEF Catalogue!MayBecome, Catalogue!Families, Catalogue!Route, Families, Route
  <2> QED BY <1>2, <2>2
<1>8. CASE op.name \in {"replace", "enable"}
  <2>1. new \in Route /\ before[f][a] # NoRoute /\ new.kind = before[f][a].kind
    BY <1>5, <1>8
  <2>2. Catalogue!MayBecome(f, a, new)
    BY <1>4, <1>5, <1>6, <1>8, <2>1 DEF Catalogue!MayBecome, Catalogue!Route, Route
  <2> QED BY <1>2, <2>2
<1>9. CASE op.name = "delete"
  <2>1. Catalogue!MayBecome(f, a, new)
    BY <1>4, <1>5, <1>9 DEF Catalogue!MayBecome
  <2> QED BY <1>2, <2>1
<1> QED BY <1>3, <1>7, <1>8, <1>9

\* The Save of an operation on one route is where it takes effect.
LEMMA SaveSeen ==
    ASSUME IInv, SaveRoutes
    PROVE  Catalogue!Next \/ UNCHANGED Catalogue!vars
<1>1. status = "up" /\ op.step = "save" /\ UNCHANGED <<status, reg, secrets>> /\ op.step \in RouteSteps
  BY DEF SaveRoutes, At, RouteSteps
<1>2. PICK f \in Families, a \in Aliases, new \in Route \cup {NoRoute}, before \in Tables :
        f = op.family /\ a = op.alias /\ new = op.new /\ before = op.prev
  BY <1>1, RouteOpFacts
<1>3. op \in RouteOperation /\ op # Idle
  BY <1>1, RouteOpFacts
<1>4. TypeOK /\ StoreInv /\ reg \in Tables /\ reg[f] \in Table /\ file \in Tables
  BY DEF IInv, TypeOK, Tables
<1>5. PICK outcome \in Outcomes :
        /\ Save(f, reg[f], outcome)
        /\ IF outcome # "ok" THEN GoTo("undo") ELSE IF op.name = "delete" THEN GoTo("unlink") ELSE Release
  BY <1>2 DEF SaveRoutes
<1>6. /\ outcome = "before" => file' = file
      /\ outcome # "before" => file' = [file EXCEPT ![f] = reg[f]] /\ file'[f] = reg[f]
  BY <1>4, <1>5, Saved
<1>7. Promised = before /\ Catalogue!MayBecome(f, a, new)
  BY <1>1, <1>2, <1>3, PromisedNow, SavesAllowedChange
<1>8. /\ reg[f][a] = new
      /\ \A g \in Families, b \in Aliases : g # f \/ b # a => reg[g][b] = before[g][b]
  BY <1>1, <1>2, <1>4 DEF StoreInv, RouteOpInv
<1>9. reg = Catalogue!With(before, f, a, new)
  <2>1. PICK after : after = Catalogue!With(before, f, a, new)
    OBVIOUS
  <2>2. after \in Tables /\ \A g \in Families, b \in Aliases : after[g][b] = reg[g][b]
    BY <1>8, <2>1 DEF Catalogue!With, Tables, Table
  <2> QED BY <1>4, <2>1, <2>2, SameTables
<1>10. f \in Catalogue!Families /\ (status = "up") = TRUE /\ (status' = "up") = (status = "up")
  BY <1>1 DEF Catalogue!Families, Families
<1>11. CASE outcome # "ok"
  <2>1. op' # Idle /\ op'.step = "undo" /\ op'.prev = op.prev
    BY <1>3, <1>5, <1>11, RouteGoes DEF RouteSteps
  <2>2. Promised' = before
    BY <1>1, <1>2, <2>1, PromisedNext
  <2>3. CASE outcome = "before"
    BY <1>1, <1>6, <1>7, <2>2, <2>3, Unseen
  <2>4. CASE outcome # "before"
    <3>1. file'[f][a] = new /\ file' = [file EXCEPT ![f] = Catalogue!With(before, f, a, new)[f]]
      BY <1>6, <1>8, <1>9, <2>4
    <3>2. Catalogue!Linger(f, a)
      BY <1>1, <1>7, <1>10, <2>2, <3>1 DEF Catalogue!Linger
    <3> QED BY <1>10, <3>2 DEF Catalogue!Next
  <2> QED BY <2>3, <2>4
<1>12. CASE outcome = "ok"
  <2>1. op' = Idle \/ op'.step = "unlink"
    BY <1>3, <1>5, <1>12, RouteGoes DEF RouteSteps, Release
  <2>2. Promised' = reg
    BY <1>1, <2>1, PromisedNext
  <2>3. Promised'[f][a] = new /\ file' = [file EXCEPT ![f] = Promised'[f]]
    BY <1>6, <1>8, <1>12, <2>2
  <2>4. Promised' = Catalogue!With(Promised, f, a, Promised'[f][a])
    BY <1>7, <1>9, <2>2, <2>3
  <2>5. Catalogue!Succeed(f, a)
    BY <1>1, <1>7, <1>10, <2>3, <2>4 DEF Catalogue!Succeed
  <2> QED BY <1>10, <2>5 DEF Catalogue!Next
<1> QED BY <1>11, <1>12

\* Switching every route off is the same in both specifications.
LEMMA AllOffIsDisableAll ==
    ASSUME NEW t
    PROVE  Catalogue!AllOff(t) = DisableAll(t)
BY DEF Catalogue!AllOff, DisableAll

\* The steps of stopAll: routes.json alone, ssh-routes.json alone, both, neither.
LEMMA StopSeen ==
    ASSUME IInv, Stopping
    PROVE  Catalogue!Next \/ UNCHANGED Catalogue!vars
<1>1. status = "up" /\ status' = "up" /\ status' = status
  BY StoppingKeeps DEF IInv
<1>2. PICK now \in StopSteps : At(now)
  BY DEF Stopping, StopHTTP, StopSSH, StopSaveHTTP, StopUndoHTTP, StopSaveSSH, StopUndoBoth,
         StopResave, StopSteps
<1>3. /\ TypeOK /\ StoreInv /\ op \in StopOperation /\ op # Idle /\ op.step = now
      /\ reg["http"] \in Table /\ reg["ssh"] \in Table /\ op.prev \in Tables
  BY <1>2, StopFinds
<1>4. PICK before \in Tables, h \in Table, s \in Table :
        before = op.prev /\ h = before["http"] /\ s = before["ssh"]
  BY <1>3 DEF Tables, Families
<1>5. Promised = before
  BY <1>1, <1>3, <1>4, PromisedNow DEF StopSteps
<1>6. ASSUME NEW next \in StopSteps, GoTo(next)
      PROVE  Promised' = before
  <2>1. op' # Idle /\ op'.step = next /\ op'.prev = op.prev
    BY <1>3, <1>6, StopGoes
  <2> QED BY <1>1, <1>4, <2>1, PromisedNext DEF StopSteps
<1>7. ASSUME Release PROVE Promised' = reg'
  BY <1>1, <1>7, PromisedNext DEF Release
<1>8. "http" \in Catalogue!Families /\ "ssh" \in Catalogue!Families /\ (status = "up") = TRUE
      /\ (status' = "up") = (status = "up")
  BY <1>1 DEF Catalogue!Families
<1>9. reg = [f \in Families |-> reg[f]] /\ reg' = [f \in Families |-> reg'[f]] /\ file = [f \in Families |-> file[f]]
  <2>1. reg \in Tables /\ file \in Tables
    BY <1>3 DEF TypeOK
  <2>2. reg' \in [Families -> {reg'["http"], reg'["ssh"]}]
    BY <2>1 DEF Stopping, StopHTTP, StopSSH, StopSaveHTTP, StopUndoHTTP, StopSaveSSH, StopUndoBoth,
                StopResave, Tables, Families
  <2> QED BY <2>1, <2>2 DEF Tables
<1>10. CASE StopHTTP \/ StopSSH \/ StopUndoBoth
  <2>1. file' = file /\ (GoTo("stopSSH") \/ GoTo("saveHTTP") \/ GoTo("resave"))
    BY <1>10 DEF StopHTTP, StopSSH, StopUndoBoth
  <2> QED BY <1>1, <1>5, <1>6, <2>1, Unseen DEF StopSteps
<1>11. CASE StopSaveHTTP
  <2>1. PICK outcome \in Outcomes : Save("http", reg["http"], outcome) /\ GoTo(IF outcome = "ok" THEN "saveSSH" ELSE "undoHTTP")
    BY <1>11 DEF StopSaveHTTP
  <2>2. PICK next \in StopSteps : next = IF outcome = "ok" THEN "saveSSH" ELSE "undoHTTP"
    BY DEF StopSteps
  <2>3. Promised' = before
    BY <1>6, <2>1, <2>2
  <2>4. reg["http"] = DisableAll(h)
    BY <1>3, <1>4, <1>11 DEF StopSaveHTTP, At, StoreInv, StopInv
  <2>5. file' = file \/ file' = [file EXCEPT !["http"] = Catalogue!AllOff(h)]
    BY <1>3, <2>1, <2>4, Saved, AllOffIsDisableAll DEF Families
  <2>6. CASE file' = file
    BY <1>1, <1>5, <2>3, <2>6, Unseen
  <2>7. CASE file' = [file EXCEPT !["http"] = Catalogue!AllOff(h)]
    <3>1. Catalogue!StopPart("http")
      BY <1>4, <1>5, <1>8, <2>3, <2>7 DEF Catalogue!StopPart
    <3> QED BY <1>8, <3>1 DEF Catalogue!Next
  <2> QED BY <2>5, <2>6, <2>7
<1>12. CASE StopUndoHTTP
  <2>1. reg["http"] = DisableAll(h) /\ reg["ssh"] = DisableAll(s) /\ file' = file
    BY <1>3, <1>4, <1>12 DEF StopUndoHTTP, At, StoreInv, StopInv
  <2>2. reg'["http"] = RestoreEnabled(DisableAll(h), h) /\ reg'["ssh"] = DisableAll(s)
    BY <1>3, <1>4, <1>12, <2>1 DEF StopUndoHTTP, TypeOK, Tables, Families
  <2>3. reg'["http"] = h /\ reg'["ssh"] = Catalogue!AllOff(s)
    BY <2>2, StopUndone, AllOffIsDisableAll
  <2>4. Promised' = reg'
    BY <1>7, <1>12 DEF StopUndoHTTP
  <2>5. reg' = [before EXCEPT !["ssh"] = Catalogue!AllOff(s)]
    BY <1>4, <1>9, <2>3 DEF Tables, Families
  <2>6. Catalogue!StopSSHOnly
    BY <1>4, <1>5, <1>8, <2>1, <2>4, <2>5 DEF Catalogue!StopSSHOnly
  <2> QED BY <2>6 DEF Catalogue!Next
<1>13. CASE StopSaveSSH
  <2>1. PICK outcome \in Outcomes :
          Save("ssh", reg["ssh"], outcome) /\ IF outcome = "ok" THEN Release ELSE GoTo("undoBoth")
    BY <1>13 DEF StopSaveSSH
  <2>2. reg["http"] = DisableAll(h) /\ reg["ssh"] = DisableAll(s) /\ file["http"] = reg["http"] /\ reg' = reg
    BY <1>3, <1>4, <1>13 DEF StopSaveSSH, At, StoreInv, StopInv
  <2>3. /\ outcome = "before" => file' = file
        /\ outcome # "before" => file' = [file EXCEPT !["ssh"] = reg["ssh"]]
    BY <1>3, <2>1, Saved DEF Families
  <2>4. CASE outcome = "ok"
    <3>1. Promised' = reg
      BY <1>7, <2>1, <2>2, <2>4
    <3>2. file' = reg
      BY <1>9, <2>2, <2>3, <2>4 DEF Families
    <3>3. reg = [f \in Catalogue!Families |-> Catalogue!AllOff(before[f])]
      BY <1>4, <1>9, <2>2, AllOffIsDisableAll DEF Families, Catalogue!Families
    <3>4. Catalogue!StopAll
      BY <1>5, <1>8, <3>1, <3>2, <3>3 DEF Catalogue!StopAll
    <3> QED BY <3>4 DEF Catalogue!Next
  <2>5. CASE outcome # "ok"
    <3>1. Promised' = before
      BY <1>6, <2>1, <2>5 DEF StopSteps
    <3>2. CASE outcome = "before"
      BY <1>1, <1>5, <2>3, <3>1, <3>2, Unseen
    <3>3. CASE outcome # "before"
      <4>1. file' = [file EXCEPT !["ssh"] = Catalogue!AllOff(s)]
        BY <2>2, <2>3, <3>3, AllOffIsDisableAll
      <4>2. Catalogue!StopPart("ssh")
        BY <1>4, <1>5, <1>8, <3>1, <4>1 DEF Catalogue!StopPart
      <4> QED BY <1>8, <4>2 DEF Catalogue!Next
    <3> QED BY <3>2, <3>3
  <2> QED BY <2>4, <2>5
<1>14. CASE StopResave
  <2>1. PICK outcome \in Outcomes : Save("http", h, outcome)
    BY <1>4, <1>14 DEF StopResave
  <2>2. reg["http"] = h /\ reg["ssh"] = s /\ reg' = reg
    BY <1>3, <1>4, <1>14 DEF StopResave, At, StoreInv, StopInv, StopSteps
  <2>3. reg = before
    BY <1>4, <1>9, <2>2 DEF Tables, Families
  <2>4. Promised' = before
    BY <1>7, <1>14, <2>2, <2>3 DEF StopResave
  <2>5. file' = file \/ file' = [file EXCEPT !["http"] = h]
    BY <1>3, <2>1, Saved DEF Families
  <2>6. CASE file' = file
    BY <1>1, <1>5, <2>4, <2>6, Unseen
  <2>7. CASE file' = [file EXCEPT !["http"] = h]
    <3>1. Catalogue!StopPart("http")
      BY <1>4, <1>5, <1>8, <2>4, <2>7 DEF Catalogue!StopPart
    <3> QED BY <1>8, <3>1 DEF Catalogue!Next
  <2> QED BY <2>5, <2>6, <2>7
<1> QED BY <1>10, <1>11, <1>12, <1>13, <1>14 DEF Stopping

\* Crash and start.
LEMMA ProcessSeen ==
    ASSUME IInv, Crash \/ Start
    PROVE  Catalogue!Next \/ UNCHANGED Catalogue!vars
<1>1. CASE Crash
  <2>1. status = "up" /\ status' = "down" /\ file' = file
    BY <1>1 DEF Crash
  <2>2. Promised' = Catalogue!Empty
    BY <2>1 DEF Promised, Empty, NoRoutes, Families, Catalogue!Empty, Catalogue!Families
  <2>3. Catalogue!Fall
    BY <2>1, <2>2 DEF Catalogue!Fall
  <2> QED BY <2>3 DEF Catalogue!Next
<1>2. CASE Start
  <2>1. status # "up" /\ file' = file /\ op' = Idle /\ Promised = Empty
    BY <1>2 DEF Start, IInv, LockInv, LockOnlyWhenUp, Promised
  <2>2. CASE status' = "up"
    <3>1. reg' = file /\ SSHRoutesLoad /\ AliasesUnique
      BY <1>2, <2>1, <2>2 DEF Start
    <3>2. Promised' = file
      BY <2>1, <2>2, <3>1, PromisedNext
    <3>3. Catalogue!Rise
      BY <2>1, <2>2, <3>1, <3>2 DEF Catalogue!Rise, SSHRoutesLoad, DistinctUsers, AliasesUnique
    <3> QED BY <3>3 DEF Catalogue!Next
  <2>3. CASE status' # "up"
    <3>1. Promised' = Promised
      BY <2>1, <2>3 DEF Promised, Empty
    <3> QED BY <2>1, <2>3, <3>1 DEF Catalogue!vars
  <2> QED BY <2>2, <2>3
<1> QED BY <1>1, <1>2

\* The registries, the files and the target store, with their writes, rollbacks,
\* crashes and starts, implement the catalogue of routes: a change takes effect when
\* its file is saved, and nothing else is seen.
THEOREM StoresImplementCatalogue == Spec => ImplementsCatalogue
<1>1. Init => Catalogue!Init
  BY DEF Init, Catalogue!Init, Promised, Empty, NoRoutes, Families, Catalogue!Empty, Catalogue!Families
<1>2. IInv /\ [Next]_vars => [Catalogue!Next]_(Catalogue!vars)
  <2>1. SUFFICES ASSUME IInv, [Next]_vars PROVE Catalogue!Next \/ UNCHANGED Catalogue!vars
    OBVIOUS
  <2>2. CASE UNCHANGED vars
    BY <2>2 DEF vars, Promised, Catalogue!vars, Empty
  <2>3. CASE Request
    BY <2>1, <2>3, RequestUnseen
  <2>4. CASE Work
    BY <2>1, <2>4, WritesUnseen, SaveSeen, StopSeen DEF Work, Stopping
  <2>5. CASE Crash \/ Start
    BY <2>1, <2>5, ProcessSeen
  <2> QED BY <2>1, <2>2, <2>3, <2>4, <2>5 DEF Next
<1> QED BY <1>1, <1>2, Invariance, PTL DEF Spec, ImplementsCatalogue, Catalogue!Spec

-----------------------------------------------------------------------------
(* Why a start is refused.                                                 *)

\* What is stored under the host identity's reference, and why airlockd stays down.
CauseInv ==
    /\ secrets[HostRef] \in {"none", "identity"} \/ (secrets[HostRef] = "ssh" /\ HostAlias \in Aliases)
    /\ status = "refused" => ~(SSHRoutesLoad /\ AliasesUnique /\ IdentityLoads)

\* A record written for a route is under the host identity's reference only if the
\* route is an SSH route of that alias.
LEMMA CauseOfPut ==
    ASSUME TypeOK, CauseInv, op \in RouteOperation, status' = "up",
           NEW content, content \in {"none", op.family}, NEW outcome,
           PutTarget(<<op.family, op.alias>>, content, outcome)
    PROVE  CauseInv'
<1>1. PICK f \in Families, a \in Aliases : f = op.family /\ a = op.alias
  BY DEF RouteOperation
<1>2. HostRef \in Refs /\ secrets \in [Refs -> Contents] /\ <<f, a>> \in Refs
  BY DEF HostRef, Refs, Families, TypeOK
<1>3. secrets' = secrets \/ secrets' = [secrets EXCEPT ![<<f, a>>] = content]
  BY <1>1 DEF PutTarget
<1>4. CASE secrets'[HostRef] = secrets[HostRef]
  BY <1>4 DEF CauseInv
<1>5. CASE secrets'[HostRef] # secrets[HostRef]
  <2>1. HostRef = <<f, a>> /\ secrets'[HostRef] = content
    BY <1>2, <1>3, <1>5
  <2>2. f = "ssh" /\ a = HostAlias
    BY <2>1 DEF HostRef
  <2> QED BY <1>1, <2>1, <2>2 DEF CauseInv
<1> QED BY <1>4, <1>5

\* Every step keeps it.
LEMMA CauseInduction ==
    ASSUME TypeOK, CauseInv, [Next]_vars
    PROVE  CauseInv'
<1>1. CASE UNCHANGED vars
  BY <1>1 DEF vars, CauseInv, SSHRoutesLoad, AliasesUnique, IdentityLoads
<1>2. CASE Request
  <2>1. status' = "up" /\ secrets' = secrets
    <3>1. stopAll \/ BeginsOperation
      BY <1>2, RequestBegins
    <3>2. CASE stopAll
      BY <3>2 DEF stopAll, Free
    <3>3. CASE BeginsOperation
      BY <3>3 DEF BeginsOperation, Free, Begin
    <3> QED BY <3>1, <3>2, <3>3
  <2> QED BY <2>1 DEF CauseInv
<1>3. CASE Put
  <2>1. op \in RouteOperation /\ status' = "up"
    BY <1>3, WorkingKeeps DEF Working
  <2>2. PICK outcome \in Outcomes : PutTarget(<<op.family, op.alias>>, op.family, outcome)
    BY <1>3 DEF Put
  <2> QED BY <2>1, <2>2, CauseOfPut
<1>4. CASE Unput \/ Unlink
  <2>1. op \in RouteOperation /\ status' = "up"
    BY <1>4, WorkingKeeps DEF Working
  <2>2. PICK outcome \in Outcomes : PutTarget(<<op.family, op.alias>>, "none", outcome)
    BY <1>4 DEF Unput, Unlink, DeleteTarget
  <2> QED BY <2>1, <2>2, CauseOfPut
<1>5. CASE Upsert \/ SaveRoutes \/ Undo \/ Stopping
  <2>1. status' = "up" /\ secrets' = secrets
    BY <1>5 DEF Upsert, SaveRoutes, Undo, Stopping, StopHTTP, StopSSH, StopSaveHTTP, StopUndoHTTP,
                StopSaveSSH, StopUndoBoth, StopResave, At
  <2> QED BY <2>1 DEF CauseInv
<1>6. CASE Crash
  BY <1>6 DEF Crash, CauseInv
<1>7. CASE Start
  <2>1. HostRef \in Refs /\ secrets \in [Refs -> Contents] /\ file' = file
    BY <1>7 DEF HostRef, Refs, Families, TypeOK, Start
  <2>2. CASE SSHRoutesLoad /\ AliasesUnique /\ IdentityLoads
    <3>1. status' # "refused"
      BY <1>7, <2>2 DEF Start, CauseInv
    <3>2. secrets' = secrets \/ secrets' = [secrets EXCEPT ![HostRef] = "identity"]
      BY <1>7, <2>2 DEF Start, LoadOrCreateHostSigner, PutTarget
    <3>3. secrets'[HostRef] = secrets[HostRef] \/ secrets'[HostRef] = "identity"
      BY <2>1, <3>2
    <3> QED BY <3>1, <3>3 DEF CauseInv
  <2>3. CASE ~(SSHRoutesLoad /\ AliasesUnique /\ IdentityLoads)
    <3>1. secrets' = secrets
      BY <1>7, <2>3 DEF Start
    <3> QED BY <2>1, <2>3, <3>1 DEF CauseInv, SSHRoutesLoad, AliasesUnique, IdentityLoads
  <2> QED BY <2>2, <2>3
<1> QED BY <1>1, <1>2, <1>3, <1>4, <1>5, <1>6, <1>7 DEF Next, Work, Stopping

\* runWithConfig refuses to start only after a creation that failed after the rename,
\* or when an SSH route has the alias of the host identity: whatever else fails, tears
\* or is killed leaves files that load.
THEOREM RefusalsHaveACause == Spec => []RefusedForCause
<1>1. Init => CauseInv
  BY DEF Init, CauseInv, HostRef, Refs, Families
<1>2. TypeOK /\ CauseInv /\ [Next]_vars => CauseInv'
  BY CauseInduction
<1>3. IInv /\ CauseInv => RefusedForCause
  <2>1. SUFFICES ASSUME IInv, CauseInv, status = "refused", AliasesUnique
                 PROVE  HostAlias \in Aliases /\ secrets[HostRef] = "ssh"
    <3>1. ASSUME IInv, status = "refused", ~AliasesUnique
          PROVE  \E a \in Aliases : /\ \A f \in Families : file[f][a] # NoRoute
                                    /\ \E f \in Families : <<f, a>> \in torn
      <4>1. ClashOnlyAfterTornSave
        BY <3>1 DEF IInv, StoreInv, DownInv
      <4> QED BY <3>1, <4>1 DEF AliasesUnique, ClashOnlyAfterTornSave, Families
    <3> QED BY <3>1 DEF RefusedForCause
  <2>2. SSHRoutesLoad
    BY <2>1 DEF IInv, UsersDistinct, SSHRoutesLoad
  <2> QED BY <2>1, <2>2 DEF CauseInv, IdentityLoads
<1> QED BY <1>1, <1>2, <1>3, Invariance, TypeCorrect, PTL DEF Spec

=============================================================================
