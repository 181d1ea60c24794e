----------------------------- MODULE SSHGateway -----------------------------
(***************************************************************************)
(* The SSH gateway: internal/sshgw/server.go.  One goroutine serves each   *)
(* connection (serveConnection), one handles each session channel          *)
(* (handleSession), and one does the work a channel asked for (execute,    *)
(* executeSFTP or interactiveShell).  Connections and channels hold a slot *)
(* of a bounded channel each; the control server edits the registry at any *)
(* time.                                                                   *)
(*                                                                         *)
(* The mux of golang.org/x/crypto/ssh, one goroutine for each connection,  *)
(* hands the client's messages to the channels.  It waits where a channel's *)
(* queue of requests is full, and then hands on nothing, not even the end  *)
(* of the connection.                                                      *)
(***************************************************************************)
EXTENDS Naturals, FiniteSets

CONSTANTS
    Conns,            \* client connections; each is served once
    Chans,            \* session channels; each is opened once
    Aliases,          \* route aliases
    Users,            \* local user names
    Policies,         \* records [sftp, shell]: what a route allows
    NoRoute,          \* an alias that is not registered
    None,             \* no login, connection or channel
    MaxConnections,   \* capacity of Server.connections
    MaxSessions       \* capacity of Server.sessions

ASSUME FiniteAssumption == IsFiniteSet(Conns) /\ IsFiniteSet(Chans)
ASSUME BoundsAssumption == MaxConnections \in Nat /\ MaxSessions \in Nat
ASSUME NoneAssumption == None \notin Conns /\ None \notin Chans

\* shell: "interactive", "single" (run the one command of the route) or "none".
Policy == [sftp: BOOLEAN, shell: {"interactive", "single", "none"}]
Route == [user: Users, policy: Policies, enabled: BOOLEAN]

\* The user name a connection authenticated with, and the route it authenticated for.
Login == [user: Users, alias: Aliases]

ASSUME PoliciesAssumption == Policies \subseteq Policy
ASSUME NoRouteAssumption == NoRoute \notin Route
ASSUME NoLoginAssumption == None \notin Login

VARIABLES
    routes,      \* sshgw.Registry
    conn,        \* serveConnection: "none", "handshake", "open", "left" (the client has
                 \* gone, the mux has yet to find out), "dropped" (it has), "closed"
    login,       \* who a connection is, once it is authenticated
    connections, \* tokens in Server.connections
    chan,        \* handleSession: "none", "serving", "working", "shell", "ended"
    caller,      \* the login of the connection, as handleSession has it for requests
    mux,         \* the connection whose mux has yet to close a channel's requests
    stuck,       \* the channel that the mux of a connection waits for
    sessions,    \* tokens in Server.sessions
    work,        \* the work goroutine: "none", "dialing", "starting", "running", "finished"
    kind         \* what it does: "shell", which handleSession waits for, or "detached"
                 \* (execute and executeSFTP), which it does not

connVars == <<conn, login, connections>>
chanVars == <<chan, caller, mux, stuck, sessions>>
workVars == <<work, kind>>
vars == <<routes, connVars, chanVars, workVars>>

TypeOK ==
    /\ routes \in [Aliases -> Route \cup {NoRoute}]
    /\ conn \in [Conns -> {"none", "handshake", "open", "left", "dropped", "closed"}]
    /\ login \in [Conns -> Login \cup {None}]
    /\ connections \in Nat
    /\ chan \in [Chans -> {"none", "serving", "working", "shell", "ended"}]
    /\ caller \in [Chans -> Login \cup {None}]
    /\ mux \in [Chans -> Conns \cup {None}]
    /\ stuck \in [Conns -> Chans \cup {None}]
    /\ sessions \in Nat
    /\ work \in [Chans -> {"none", "dialing", "starting", "running", "finished"}]
    /\ kind \in [Chans -> {"none", "detached", "shell"}]

\* Upsert refuses a local user name that another alias has.
UsersUnique(table) ==
    \A a, b \in Aliases :
        a # b /\ table[a] # NoRoute /\ table[b] # NoRoute => table[a].user # table[b].user

Init ==
    /\ routes \in {t \in [Aliases -> Route \cup {NoRoute}] : UsersUnique(t)}
    /\ conn = [c \in Conns |-> "none"]
    /\ login = [c \in Conns |-> None]
    /\ connections = 0
    /\ chan = [s \in Chans |-> "none"]
    /\ caller = [s \in Chans |-> None]
    /\ mux = [s \in Chans |-> None]
    /\ stuck = [c \in Conns |-> None]
    /\ sessions = 0
    /\ work = [s \in Chans |-> "none"]
    /\ kind = [s \in Chans |-> "none"]

-----------------------------------------------------------------------------
(* Slots: a full channel refuses at once, an empty one has nothing to take. *)

Released(slots) == IF slots > 0 THEN slots - 1 ELSE slots

-----------------------------------------------------------------------------
(* Serve and serveConnection.                                              *)

Accept(c) ==
    /\ conn[c] = "none"
    /\ IF connections < MaxConnections
       THEN conn' = [conn EXCEPT ![c] = "handshake"] /\ connections' = connections + 1
       ELSE conn' = [conn EXCEPT ![c] = "closed"] /\ UNCHANGED connections
    /\ UNCHANGED <<routes, login, chanVars, workVars>>

\* Enabled routes only; the user name is unique.
LookupByUsername(u) == {a \in Aliases : routes[a] # NoRoute /\ routes[a].enabled /\ routes[a].user = u}

\* authenticatePassword or authenticatePublicKey.  A rejected attempt leaves the
\* connection in its handshake.
Authenticate(c, u, a) ==
    /\ conn[c] = "handshake"
    /\ a \in LookupByUsername(u)
    /\ conn' = [conn EXCEPT ![c] = "open"]
    /\ login' = [login EXCEPT ![c] = [user |-> u, alias |-> a]]
    /\ UNCHANGED <<routes, connections, chanVars, workVars>>

\* serveConnection returns; sessions that are still handled keep the login.
Leave(c) ==
    /\ conn' = [conn EXCEPT ![c] = "closed"]
    /\ login' = [login EXCEPT ![c] = None]
    /\ connections' = Released(connections)
    /\ UNCHANGED <<routes, chanVars, workVars>>

\* Mutant: the handshake has no deadline, only the client ends it.
HandshakeFails_NoDeadline(c) == conn[c] = "handshake" /\ UNCHANGED vars

\* Too many attempts, a broken connection, or the handshake deadline.
HandshakeFails(c) ==
    /\ conn[c] = "handshake"
    /\ Leave(c)

\* The client's connection goes away.
Drop(c) ==
    /\ conn[c] = "open"
    /\ conn' = [conn EXCEPT ![c] = "left"]
    /\ UNCHANGED <<routes, login, connections, chanVars, workVars>>

\* The mux reads the end of the connection, and closes the requests of every channel
\* and the queue of new ones.
MuxEnds(c) ==
    /\ conn[c] = "left" /\ stuck[c] = None
    /\ conn' = [conn EXCEPT ![c] = "dropped"]
    /\ mux' = [s \in Chans |-> IF mux[s] = c THEN None ELSE mux[s]]
    /\ UNCHANGED <<routes, login, connections, chan, caller, stuck, sessions, workVars>>

\* The loop over the connection's channels ends.
ChannelsEnd(c) ==
    /\ conn[c] = "dropped"
    /\ Leave(c)

\* handleSession starts on a channel.  One that was still in the queue when the mux
\* ended has no requests.
BeginSession(c, s) ==
    /\ chan' = [chan EXCEPT ![s] = "serving"]
    /\ caller' = [caller EXCEPT ![s] = login[c]]
    /\ mux' = [mux EXCEPT ![s] = IF conn[c] = "dropped" THEN None ELSE c]
    /\ sessions' = sessions + 1

\* Mutant: a channel that cannot be accepted keeps its slot.
OpenSession_KeepSlot(c, s, accepted) ==
    /\ conn[c] \in {"open", "left", "dropped"} /\ chan[s] = "none"
    /\ IF sessions < MaxSessions /\ accepted THEN BeginSession(c, s)
       ELSE /\ chan' = [chan EXCEPT ![s] = "ended"]
            /\ sessions' = IF sessions < MaxSessions THEN sessions + 1 ELSE sessions
            /\ UNCHANGED <<caller, mux>>
    /\ UNCHANGED <<routes, connVars, stuck, workVars>>

\* A session channel needs a slot, which a failing channel.Accept gives back.
OpenSession(c, s, accepted) ==
    /\ conn[c] \in {"open", "left", "dropped"} /\ chan[s] = "none"
    /\ IF sessions < MaxSessions /\ accepted THEN BeginSession(c, s)
       ELSE chan' = [chan EXCEPT ![s] = "ended"] /\ UNCHANGED <<caller, mux, sessions>>
    /\ UNCHANGED <<routes, connVars, stuck, workVars>>

\* The client closes the channel, or answers that the gateway closed it.
ClientCloses(s) ==
    /\ mux[s] # None /\ stuck[mux[s]] = None
    /\ mux' = [mux EXCEPT ![s] = None]
    /\ UNCHANGED <<routes, connVars, chan, caller, stuck, sessions, workVars>>

\* The goroutine that forwards a shell's requests: it reads them from the start of the
\* shell on, also when the shell is over.
Forwarded(s) == kind[s] = "shell" /\ work[s] \in {"running", "finished"}

\* The client sends more requests than the channel queues, and nobody reads them: the
\* shell is being set up, the forwarder waits for the upstream to take an earlier
\* request, or the session has ended.
Stall(s) ==
    /\ mux[s] # None /\ stuck[mux[s]] = None
    /\ chan[s] = "shell" \/ (chan[s] = "ended" /\ ~Forwarded(s))
    /\ stuck' = [stuck EXCEPT ![mux[s]] = s]
    /\ UNCHANGED <<routes, connVars, chan, caller, mux, sessions, workVars>>

\* The forwarder reads on.
Deliver(s) ==
    /\ mux[s] # None /\ stuck[mux[s]] = s /\ Forwarded(s)
    /\ stuck' = [stuck EXCEPT ![mux[s]] = None]
    /\ UNCHANGED <<routes, connVars, chan, caller, mux, sessions, workVars>>

-----------------------------------------------------------------------------
(* handleSession.                                                          *)

\* Mutant: the route the connection authenticated for, whatever became of it.
Usable_AtLogin(as) == routes[as.alias] # NoRoute

\* Every request looks the route up again: it must be enabled and still have the
\* user name of the connection.
Usable(as) ==
    LET route == routes[as.alias] IN route # NoRoute /\ route.enabled /\ route.user = as.user

\* The goroutine returns and its slot is released.  local.Close only tells the client:
\* the mux has the channel until the client answers.
EndSession(s) ==
    /\ chan' = [chan EXCEPT ![s] = "ended"]
    /\ caller' = [caller EXCEPT ![s] = None]
    /\ sessions' = Released(sessions)
    /\ UNCHANGED <<mux, stuck>>

\* Once there is work the handler looks no route up.
StartWork(s, what, handler) ==
    /\ chan' = [chan EXCEPT ![s] = handler]
    /\ caller' = [caller EXCEPT ![s] = None]
    /\ work' = [work EXCEPT ![s] = "dialing"]
    /\ kind' = [kind EXCEPT ![s] = what]
    /\ UNCHANGED <<mux, stuck, sessions>>

\* A request that reaches the policy: the channel waits for one, which may have been
\* queued when the channel was closed, and the route is usable.  Any other request is
\* only answered.
Requested(s) == chan[s] = "serving" /\ Usable(caller[s])
Allowed(s) == routes[caller[s].alias].policy

\* AllowsCommand allows the command or not; a command that it does not allow ends
\* the session.
RequestExec(s, allows) ==
    /\ Requested(s)
    /\ IF allows THEN StartWork(s, "detached", "working")
       ELSE EndSession(s) /\ UNCHANGED workVars
    /\ UNCHANGED <<routes, connVars>>

\* An interactive shell is waited for; a single-command route runs its command;
\* any other route explains itself and ends the session.
RequestShell(s) ==
    /\ Requested(s)
    /\ \/ Allowed(s).shell = "interactive" /\ StartWork(s, "shell", "shell")
       \/ Allowed(s).shell = "single" /\ StartWork(s, "detached", "working")
       \/ Allowed(s).shell = "none" /\ EndSession(s) /\ UNCHANGED workVars
    /\ UNCHANGED <<routes, connVars>>

\* Mutant: the work is labelled with the type of the request.
RequestSFTP_Label(s) ==
    /\ Requested(s)
    /\ Allowed(s).sftp
    /\ StartWork(s, "subsystem", "working")
    /\ UNCHANGED <<routes, connVars>>

\* A refused subsystem leaves the session as it is.
RequestSFTP(s) ==
    /\ Requested(s)
    /\ Allowed(s).sftp
    /\ StartWork(s, "detached", "working")
    /\ UNCHANGED <<routes, connVars>>

\* Mutant: the loop waits for the work only.
RequestsEnd_Ignored(s) ==
    /\ chan[s] = "serving" /\ mux[s] = None
    /\ EndSession(s)
    /\ UNCHANGED <<routes, connVars, workVars>>

\* The request channel is closed: handleSession returns, whether or not execute or
\* executeSFTP has finished.
RequestsEnd(s) ==
    /\ chan[s] \in {"serving", "working"} /\ mux[s] = None
    /\ EndSession(s)
    /\ UNCHANGED <<routes, connVars, workVars>>

\* Mutant: a shell is not waited for either.
WorkDone_ShellToo(s) ==
    /\ \/ chan[s] \in {"working", "shell"} /\ work[s] = "finished"
       \/ chan[s] = "shell" /\ mux[s] = None
    /\ EndSession(s)
    /\ UNCHANGED <<routes, connVars, workVars>>

\* done is closed; for a shell it is the only thing that is waited for.
WorkDone(s) ==
    /\ chan[s] \in {"working", "shell"} /\ work[s] = "finished"
    /\ EndSession(s)
    /\ UNCHANGED <<routes, connVars, workVars>>

-----------------------------------------------------------------------------
(* execute, executeSFTP and interactiveShell.                              *)

Finish(s, what) ==
    /\ work' = [work EXCEPT ![s] = "finished"]
    /\ kind' = [kind EXCEPT ![s] = what]
    /\ UNCHANGED <<routes, connVars, chanVars>>

\* ResolveSSHTarget and dialUpstream, which have a deadline.
Dial(s, succeeds) ==
    /\ work[s] = "dialing"
    /\ IF succeeds
       THEN /\ work' = [work EXCEPT ![s] = "starting"]
            /\ UNCHANGED <<routes, connVars, chanVars, kind>>
       ELSE Finish(s, "none")

\* The upstream accepts or refuses the session, the terminal, the command.
StartUpstream(s, succeeds) ==
    /\ work[s] = "starting"
    /\ IF succeeds
       THEN /\ work' = [work EXCEPT ![s] = "running"]
            /\ UNCHANGED <<routes, connVars, chanVars, kind>>
       ELSE Finish(s, "none")

\* The upstream ends the command, the shell or the SFTP session; executeSFTP also
\* waits for the client's side of the copy.  A shell ends no sooner when its client has
\* gone: the forwarder's session.Close asks the upstream to end it, and session.Wait
\* returns when the upstream has.
UpstreamEnds(s) ==
    /\ work[s] = "running"
    /\ Finish(s, IF kind[s] = "shell" THEN "shell" ELSE "none")

-----------------------------------------------------------------------------

\* What a registered route may be replaced by: SetEnabled and DisableAll switch it,
\* set_ssh_policy changes its user name and its policy.
Edited(old) ==
    {[old EXCEPT !.enabled = ~@]} \cup
    {[old EXCEPT !.user = u, !.policy = p] : u \in Users, p \in Policies}

\* Delete, SetEnabled or DisableAll of a route that is there; Upsert of an edited one,
\* of a new one, or of the one a failed deletion puts back.
Configure(a, route) ==
    LET table == [routes EXCEPT ![a] = route] IN
    /\ IF routes[a] = NoRoute THEN route # NoRoute
       ELSE route \in (Edited(routes[a]) \ {routes[a]}) \cup {NoRoute}
    /\ UsersUnique(table)
    /\ routes' = table
    /\ UNCHANGED <<connVars, chanVars, workVars>>

\* What the goroutines do by themselves, the deadline of the handshake included.
Server(c) == HandshakeFails(c) \/ MuxEnds(c) \/ ChannelsEnd(c)
Session(s) == RequestsEnd(s)

\* What clients and upstreams do, if they do, or may hold up.
Peer ==
    \/ \E c \in Conns :
        \/ Accept(c) \/ Drop(c)
        \/ \E u \in Users, a \in Aliases : Authenticate(c, u, a)
        \/ \E s \in Chans, accepted \in BOOLEAN : OpenSession(c, s, accepted)
    \/ \E s \in Chans :
        \/ ClientCloses(s) \/ Stall(s) \/ Deliver(s)
        \/ RequestShell(s) \/ RequestSFTP(s)
        \/ UpstreamEnds(s) \/ WorkDone(s)
        \/ \E ok \in BOOLEAN : RequestExec(s, ok) \/ Dial(s, ok) \/ StartUpstream(s, ok)

Next ==
    \/ \E c \in Conns : Server(c)
    \/ \E s \in Chans : Session(s)
    \/ Peer
    \/ \E a \in Aliases, route \in Route \cup {NoRoute} : Configure(a, route)

Spec == Init /\ [][Next]_vars

\* Goroutines that wait for nobody run and the handshake's deadline expires; clients
\* and upstreams may stall for ever.
FairSpec == Spec /\ (\A c \in Conns : WF_vars(Server(c))) /\ (\A s \in Chans : WF_vars(Session(s)))

-----------------------------------------------------------------------------
(* Properties.                                                             *)

\* Every token of the two bounded channels belongs to a connection that is being
\* served or to a session that is being handled, on every way out of either.
SlotsMatchHolders ==
    /\ connections = Cardinality({c \in Conns : conn[c] \in {"handshake", "open", "left", "dropped"}})
    /\ connections <= MaxConnections
    /\ sessions = Cardinality({s \in Chans : chan[s] \in {"serving", "working", "shell"}})
    /\ sessions <= MaxSessions

\* An interactive shell keeps its session's slot until the shell itself is over,
\* also when the client left first.
ShellsHoldSlots ==
    \A s \in Chans :
        kind[s] = "shell" /\ work[s] \in {"dialing", "starting", "running"} => chan[s] = "shell"

\* Work starts only on a route that is enabled and has the connection's user name
\* at that moment: a route that was disabled, deleted or moved to another user after
\* the login takes no new request of an old connection.
NoWorkOnRevokedRoute ==
    [][\A s \in Chans : work[s] = "none" /\ work'[s] # "none" =>
        \E a \in Aliases :
            /\ a = caller[s].alias /\ routes[a] # NoRoute
            /\ routes[a].enabled /\ routes[a].user = caller[s].user]_vars

\* The mux of the connection waits for a channel whose requests nobody reads.
Jammed(c) == stuck[c] # None

\* A client that is not authenticated in time, or has gone, gives its connection slot
\* back, whatever its sessions and their upstreams are doing, unless the mux is jammed.
ConnectionsEnd ==
    \A c \in Conns :
        /\ conn[c] = "handshake" ~> conn[c] # "handshake"
        /\ conn[c] \in {"left", "dropped"} ~> conn[c] = "closed" \/ Jammed(c)

\* A session whose client has closed it or gone gives its slot back, whatever the
\* upstream does, unless the mux is jammed.  An interactive shell does not: it waits
\* for the upstream.
AbandonedSessionsEnd ==
    \A s \in Chans :
        /\ chan[s] \in {"serving", "working"}
        /\ mux[s] = None \/ conn[mux[s]] # "open"
        ~> chan[s] \in {"ended", "shell"} \/ \E c \in Conns : mux[s] = c /\ Jammed(c)

\* WithResourceLimits bounds the work the gateway does for its clients: no more
\* upstream executions than sessions.
WorkBounded ==
    Cardinality({s \in Chans : work[s] \in {"dialing", "starting", "running"}}) <= MaxSessions

=============================================================================
