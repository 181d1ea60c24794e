-------------------------- MODULE SSHGatewayProofs --------------------------
(***************************************************************************)
(* Proofs about SSHGateway: the slots of connections and sessions, and the *)
(* route a session works on, for any number of connections, channels and   *)
(* routes and any edits of the registry.                                   *)
(***************************************************************************)
EXTENDS SSHGateway, Counting

Served == {"handshake", "open", "left", "dropped"}
Handled == {"serving", "working", "shell"}

ConnSlots == connections = Cardinality(Holders(Conns, conn, Served)) /\ connections <= MaxConnections
ChanSlots == sessions = Cardinality(Holders(Chans, chan, Handled)) /\ sessions <= MaxSessions

\* Who a connection is, while it has channels, and a session, while it takes requests.
LoginInv ==
    /\ \A c \in Conns : conn[c] \in {"open", "left", "dropped"} => login[c] \in Login
    /\ \A s \in Chans : chan[s] = "serving" => caller[s] \in Login

\* The goroutine that works for a channel, and the one that handles the channel.
WorkInv ==
    \A s \in Chans :
        /\ kind[s] = "shell" /\ work[s] # "finished" => chan[s] = "shell"
        /\ chan[s] \in {"none", "serving"} => work[s] = "none" /\ kind[s] = "none"

IInv == TypeOK /\ ConnSlots /\ ChanSlots /\ LoginInv /\ WorkInv

-----------------------------------------------------------------------------

\* The invariant holds at first.
LEMMA Initial == Init => IInv
<1> SUFFICES ASSUME Init PROVE IInv
  OBVIOUS
<1>1. TypeOK
  BY DEF Init, TypeOK
<1>2. ConnSlots
  BY NoHolders, BoundsAssumption DEF Init, ConnSlots, Served
<1>3. ChanSlots
  BY NoHolders, BoundsAssumption DEF Init, ChanSlots, Handled
<1>4. LoginInv /\ WorkInv
  BY DEF Init, LoginInv, WorkInv
<1> QED BY <1>1, <1>2, <1>3, <1>4 DEF IInv

\* Nothing about the channels and their work changes.
LEMMA ChannelsUntouched ==
    ASSUME IInv, UNCHANGED <<chanVars, workVars>> PROVE ChanSlots' /\ WorkInv'
BY DEF IInv, ChanSlots, WorkInv, chanVars, workVars

\* A connection takes a slot or is turned away.
LEMMA AcceptKeeps == ASSUME IInv, NEW c \in Conns, Accept(c) PROVE IInv'
<1>1. TypeOK'
  BY DEF Accept, IInv, TypeOK, chanVars, workVars
<1>2. ConnSlots'
  <2>1. conn[c] \notin Served /\ \A d \in Conns \ {c} : conn'[d] = conn[d]
    BY DEF Accept, IInv, TypeOK, Served
  <2>2. CASE connections < MaxConnections
    <3>1. conn'[c] \in Served /\ connections' = connections + 1
      BY <2>2 DEF Accept, IInv, TypeOK, Served
    <3>2. Cardinality(Holders(Conns, conn', Served)) = Cardinality(Holders(Conns, conn, Served)) + 1
      BY <2>1, <3>1, FiniteAssumption, HoldersFollow
    <3> QED BY <2>2, <3>1, <3>2, BoundsAssumption DEF IInv, TypeOK, ConnSlots
  <2>3. CASE ~(connections < MaxConnections)
    <3>1. conn'[c] \notin Served /\ connections' = connections
      BY <2>3 DEF Accept, IInv, TypeOK, Served
    <3>2. Holders(Conns, conn', Served) = Holders(Conns, conn, Served)
      BY <2>1, <3>1, FiniteAssumption, HoldersFollow
    <3> QED BY <3>1, <3>2 DEF IInv, ConnSlots
  <2> QED BY <2>2, <2>3
<1>3. LoginInv'
  BY DEF Accept, IInv, TypeOK, LoginInv, chanVars
<1> QED BY <1>1, <1>2, <1>3, ChannelsUntouched DEF Accept, IInv

\* A connection authenticates or fails to.
LEMMA AuthenticateKeeps ==
    ASSUME IInv, NEW c \in Conns, NEW u \in Users, NEW a \in Aliases, Authenticate(c, u, a) PROVE IInv'
<1>0. [user |-> u, alias |-> a] \in Login
  BY DEF Login
<1>1. TypeOK'
  BY <1>0 DEF Authenticate, IInv, TypeOK, chanVars, workVars
<1>2. ConnSlots'
  <2>1. /\ conn[c] \in Served /\ conn'[c] \in Served /\ UNCHANGED connections
        /\ \A d \in Conns \ {c} : conn'[d] = conn[d]
    BY DEF Authenticate, IInv, TypeOK, Served
  <2>2. Holders(Conns, conn', Served) = Holders(Conns, conn, Served)
    BY <2>1, FiniteAssumption, HoldersFollow
  <2> QED BY <2>1, <2>2 DEF IInv, ConnSlots
<1>3. LoginInv'
  BY <1>0 DEF Authenticate, IInv, TypeOK, LoginInv, chanVars
<1> QED BY <1>1, <1>2, <1>3, ChannelsUntouched DEF Authenticate, IInv

\* A connection gives its slot back.
LEMMA LeaveKeeps ==
    ASSUME IInv, NEW c \in Conns, conn[c] \in {"handshake", "dropped"}, Leave(c) PROVE IInv'
<1>1. TypeOK'
  BY DEF Leave, Released, IInv, TypeOK, chanVars, workVars
<1>2. ConnSlots'
  <2>1. /\ conn[c] \in Served /\ conn'[c] \notin Served
        /\ \A d \in Conns \ {c} : conn'[d] = conn[d]
    BY DEF Leave, IInv, TypeOK, Served
  <2>2. /\ Cardinality(Holders(Conns, conn, Served)) > 0
        /\ Cardinality(Holders(Conns, conn', Served)) = Cardinality(Holders(Conns, conn, Served)) - 1
    BY <2>1, FiniteAssumption, HoldersFollow
  <2> QED BY <2>2, BoundsAssumption DEF Leave, Released, IInv, TypeOK, ConnSlots
<1>3. LoginInv'
  BY DEF Leave, IInv, TypeOK, LoginInv, chanVars
<1> QED BY <1>1, <1>2, <1>3, ChannelsUntouched DEF Leave, IInv

\* A connection is lost, and its mux finds out.
LEMMA DropKeeps == ASSUME IInv, NEW c \in Conns, Drop(c) \/ MuxEnds(c) PROVE IInv'
<1>1. TypeOK'
  BY DEF Drop, MuxEnds, IInv, TypeOK, chanVars, workVars
<1>2. ConnSlots'
  <2>1. /\ conn[c] \in Served /\ conn'[c] \in Served /\ UNCHANGED connections
        /\ \A d \in Conns \ {c} : conn'[d] = conn[d]
    BY DEF Drop, MuxEnds, IInv, TypeOK, Served
  <2>2. Holders(Conns, conn', Served) = Holders(Conns, conn, Served)
    BY <2>1, FiniteAssumption, HoldersFollow
  <2> QED BY <2>1, <2>2 DEF IInv, ConnSlots
<1>3. ChanSlots' /\ WorkInv'
  BY DEF Drop, MuxEnds, IInv, ChanSlots, WorkInv, chanVars, workVars
<1>4. LoginInv'
  BY DEF Drop, MuxEnds, IInv, TypeOK, LoginInv, chanVars
<1> QED BY <1>1, <1>2, <1>3, <1>4 DEF IInv

\* The server gives a connection up: the handshake failed, or the mux and then the
\* channels ended.
LEMMA ServerKeeps == ASSUME IInv, NEW c \in Conns, Server(c) PROVE IInv'
BY LeaveKeeps, DropKeeps DEF Server, HandshakeFails, ChannelsEnd

-----------------------------------------------------------------------------

\* A session is opened or rejected.
LEMMA OpenSessionKeeps ==
    ASSUME IInv, NEW c \in Conns, NEW s \in Chans, NEW accepted \in BOOLEAN, OpenSession(c, s, accepted)
    PROVE  IInv'
<1> USE DEF OpenSession, BeginSession, connVars, workVars
<1>1. TypeOK'
  BY DEF IInv, TypeOK
<1>2. ConnSlots'
  BY DEF IInv, ConnSlots
<1>3. ChanSlots'
  <2>1. chan[s] \notin Handled /\ \A t \in Chans \ {s} : chan'[t] = chan[t]
    BY DEF IInv, TypeOK, Handled
  <2>2. CASE sessions < MaxSessions /\ accepted
    <3>1. chan'[s] \in Handled /\ sessions' = sessions + 1
      BY <2>2 DEF IInv, TypeOK, Handled
    <3>2. Cardinality(Holders(Chans, chan', Handled)) = Cardinality(Holders(Chans, chan, Handled)) + 1
      BY <2>1, <3>1, FiniteAssumption, HoldersFollow
    <3> QED BY <2>2, <3>1, <3>2, BoundsAssumption DEF IInv, TypeOK, ChanSlots
  <2>3. CASE ~(sessions < MaxSessions /\ accepted)
    <3>1. chan'[s] \notin Handled /\ sessions' = sessions
      BY <2>3 DEF IInv, TypeOK, Handled
    <3>2. Holders(Chans, chan', Handled) = Holders(Chans, chan, Handled)
      BY <2>1, <3>1, FiniteAssumption, HoldersFollow
    <3> QED BY <3>1, <3>2 DEF IInv, ChanSlots
  <2> QED BY <2>2, <2>3
<1>4. LoginInv'
  BY DEF IInv, TypeOK, LoginInv
<1>5. WorkInv'
  BY DEF IInv, TypeOK, WorkInv
<1> QED BY <1>1, <1>2, <1>3, <1>4, <1>5 DEF IInv

\* The client closes a session, or the mux waits for a channel's requests to be read.
LEMMA ChannelKeeps ==
    ASSUME IInv, NEW s \in Chans, ClientCloses(s) \/ Stall(s) \/ Deliver(s) PROVE IInv'
BY DEF ClientCloses, Stall, Deliver, connVars, workVars, IInv, TypeOK, ConnSlots, ChanSlots, LoginInv, WorkInv

\* A session that is handled ends, in any of the ways out of handleSession.
LEMMA EndSessionKeeps ==
    ASSUME IInv, NEW s \in Chans, chan[s] \in Handled, kind[s] # "shell" \/ work[s] = "finished",
           EndSession(s), UNCHANGED <<routes, connVars, workVars>>
    PROVE  IInv'
<1> USE DEF EndSession, connVars, workVars
<1>1. TypeOK'
  BY DEF IInv, TypeOK, Released
<1>2. ConnSlots'
  BY DEF IInv, ConnSlots
<1>3. ChanSlots'
  <2>1. chan'[s] \notin Handled /\ \A t \in Chans \ {s} : chan'[t] = chan[t]
    BY DEF IInv, TypeOK, Handled
  <2>2. /\ Cardinality(Holders(Chans, chan, Handled)) > 0
        /\ Cardinality(Holders(Chans, chan', Handled)) = Cardinality(Holders(Chans, chan, Handled)) - 1
    BY <2>1, FiniteAssumption, HoldersFollow, ZenonT(40)
  <2> QED BY <2>2, BoundsAssumption DEF Released, IInv, TypeOK, ChanSlots
<1>4. LoginInv'
  BY DEF IInv, TypeOK, LoginInv
<1>5. WorkInv'
  BY DEF IInv, TypeOK, WorkInv
<1> QED BY <1>1, <1>2, <1>3, <1>4, <1>5 DEF IInv

\* A session starts its work.
LEMMA StartWorkKeeps ==
    ASSUME IInv, NEW s \in Chans, chan[s] = "serving",
           StartWork(s, "detached", "working") \/ StartWork(s, "shell", "shell"),
           UNCHANGED <<routes, connVars>>
    PROVE  IInv'
<1> USE DEF StartWork, connVars
<1>1. TypeOK'
  BY DEF IInv, TypeOK
<1>2. ConnSlots' /\ LoginInv'
  BY DEF IInv, TypeOK, ConnSlots, LoginInv
<1>3. ChanSlots'
  <2>1. /\ chan[s] \in Handled /\ chan'[s] \in Handled /\ UNCHANGED sessions
        /\ \A t \in Chans \ {s} : chan'[t] = chan[t]
    BY DEF IInv, TypeOK, Handled
  <2>2. Holders(Chans, chan', Handled) = Holders(Chans, chan, Handled)
    BY <2>1, FiniteAssumption, HoldersFollow
  <2> QED BY <2>1, <2>2 DEF IInv, ChanSlots
<1>4. WorkInv'
  BY DEF IInv, TypeOK, WorkInv
<1> QED BY <1>1, <1>2, <1>3, <1>4 DEF IInv

\* A session asks for a shell or a command.
LEMMA RequestKeeps ==
    ASSUME IInv, NEW s \in Chans,
           RequestShell(s) \/ RequestSFTP(s) \/ \E allows \in BOOLEAN : RequestExec(s, allows)
    PROVE  IInv'
<1>1. chan[s] = "serving" /\ kind[s] # "shell" /\ UNCHANGED <<routes, connVars>>
  BY DEF RequestShell, RequestSFTP, RequestExec, Requested, IInv, WorkInv
<1>2. \/ StartWork(s, "detached", "working") \/ StartWork(s, "shell", "shell")
      \/ (EndSession(s) /\ UNCHANGED workVars)
  BY DEF RequestShell, RequestSFTP, RequestExec
<1> QED BY <1>1, <1>2, StartWorkKeeps, EndSessionKeeps DEF Handled

\* Work ends, and what it held is given back.
LEMMA FinishKeeps ==
    ASSUME IInv, NEW s \in Chans, work[s] # "none", NEW what \in {"none", "shell"}, Finish(s, what)
    PROVE  IInv'
<1> USE DEF Finish, connVars, chanVars
<1>1. TypeOK'
  BY DEF IInv, TypeOK
<1>2. ConnSlots' /\ ChanSlots' /\ LoginInv'
  BY DEF IInv, ConnSlots, ChanSlots, LoginInv
<1>3. WorkInv'
  BY DEF IInv, TypeOK, WorkInv
<1> QED BY <1>1, <1>2, <1>3 DEF IInv

\* The work gets on, without an end.
LEMMA ProceedKeeps ==
    ASSUME IInv, NEW s \in Chans, work[s] \notin {"none", "finished"}, NEW w \in {"starting", "running"},
           work' = [work EXCEPT ![s] = w], UNCHANGED <<routes, connVars, chanVars, kind>>
    PROVE  IInv'
<1> USE DEF connVars, chanVars
<1>1. TypeOK'
  BY DEF IInv, TypeOK
<1>2. ConnSlots' /\ ChanSlots' /\ LoginInv'
  BY DEF IInv, ConnSlots, ChanSlots, LoginInv
<1>3. WorkInv'
  BY DEF IInv, TypeOK, WorkInv
<1> QED BY <1>1, <1>2, <1>3 DEF IInv

\* The steps of work under way.
LEMMA WorkKeeps ==
    ASSUME IInv, NEW s \in Chans,
           UpstreamEnds(s) \/ \E ok \in BOOLEAN : Dial(s, ok) \/ StartUpstream(s, ok)
    PROVE  IInv'
BY FinishKeeps, ProceedKeeps DEF UpstreamEnds, Dial, StartUpstream

\* A session ends with its requests or with its work.
LEMMA SessionKeeps == ASSUME IInv, NEW s \in Chans, RequestsEnd(s) \/ WorkDone(s) PROVE IInv'
<1>1. CASE RequestsEnd(s)
  BY <1>1, EndSessionKeeps DEF RequestsEnd, Handled, IInv, WorkInv
<1>2. CASE WorkDone(s)
  BY <1>2, EndSessionKeeps DEF WorkDone, Handled
<1> QED BY <1>1, <1>2

\* The route changes under the connections.
LEMMA ConfigureKeeps ==
    ASSUME IInv, NEW a \in Aliases, NEW route \in Route \cup {NoRoute}, Configure(a, route) PROVE IInv'
BY DEF Configure, connVars, chanVars, workVars, IInv, TypeOK, ConnSlots, ChanSlots, LoginInv, WorkInv

\* Every step keeps the invariant.
LEMMA Induction == IInv /\ [Next]_vars => IInv'
<1> SUFFICES ASSUME IInv, [Next]_vars PROVE IInv'
  OBVIOUS
<1>1. CASE UNCHANGED vars
  BY <1>1 DEF vars, connVars, chanVars, workVars, IInv, TypeOK, ConnSlots, ChanSlots, LoginInv, WorkInv
<1>2. CASE Peer
  BY <1>2, AcceptKeeps, DropKeeps, AuthenticateKeeps, OpenSessionKeeps, ChannelKeeps,
     RequestKeeps, WorkKeeps, SessionKeeps DEF Peer
<1> QED BY <1>1, <1>2, ServerKeeps, SessionKeeps, ConfigureKeeps DEF Next, Session

\* The invariant holds of every reachable state.
LEMMA Invariance == Spec => []IInv
BY Initial, Induction, PTL DEF Spec

-----------------------------------------------------------------------------

\* The registry, the connections, the channels and their work stay of their kinds.
THEOREM TypeCorrect == Spec => []TypeOK
<1>1. IInv => TypeOK
  BY DEF IInv
<1> QED BY <1>1, Invariance, PTL

\* serveConnection and handleSession give their slot back on every way out, exactly
\* once, so that the bounded channels count what is being served.
THEOREM SlotsAreExact == Spec => []SlotsMatchHolders
<1>1. IInv => SlotsMatchHolders
  BY DEF IInv, ConnSlots, ChanSlots, Holders, Served, Handled, SlotsMatchHolders
<1> QED BY <1>1, Invariance, PTL

\* handleSession waits for an interactive shell before it releases the session's slot.
THEOREM ShellsKeepTheirSlots == Spec => []ShellsHoldSlots
<1>1. IInv => ShellsHoldSlots
  BY DEF IInv, WorkInv, ShellsHoldSlots
<1> QED BY <1>1, Invariance, PTL

\* Only a request that is granted gives a channel its work.
LEMMA WorkIsRequested ==
    ASSUME IInv, Next, NEW s \in Chans, work[s] = "none", work'[s] # "none"
    PROVE  Requested(s)
<1>1. work # work'
  OBVIOUS
<1>2. ASSUME NEW t \in Chans, NEW w, work' = [work EXCEPT ![t] = w] PROVE t = s
  BY <1>2 DEF IInv, TypeOK
<1>3. ASSUME NEW t \in Chans, \/ RequestShell(t) \/ RequestSFTP(t)
                              \/ \E allows \in BOOLEAN : RequestExec(t, allows)
      PROVE  Requested(s)
  <2>1. Requested(t)
    BY <1>3 DEF RequestShell, RequestSFTP, RequestExec
  <2>2. work' = work \/ work' = [work EXCEPT ![t] = "dialing"]
    BY <1>3 DEF RequestSFTP, RequestExec, RequestShell, StartWork, workVars
  <2> QED BY <1>1, <1>2, <2>1, <2>2
<1>4. ASSUME NEW t \in Chans,
             UpstreamEnds(t) \/ \E ok \in BOOLEAN : Dial(t, ok) \/ StartUpstream(t, ok)
      PROVE  FALSE
  <2>1. work[t] # "none" /\ \E w \in {"starting", "running", "finished"} : work' = [work EXCEPT ![t] = w]
    BY <1>4 DEF UpstreamEnds, Dial, StartUpstream, Finish
  <2> QED BY <1>2, <2>1
<1> QED
  BY <1>1, <1>3, <1>4
  DEF Next, Server, HandshakeFails, MuxEnds, ChannelsEnd, Leave, Session, RequestsEnd, WorkDone, Peer,
      Accept, Drop, Authenticate, OpenSession, ClientCloses, Stall, Deliver, Configure, workVars

\* Every exec, shell and SFTP request looks the route up again: work begins only on a
\* route that is enabled and belongs to the user who logged in.
THEOREM RevokedRoutesTakeNoWork == Spec => NoWorkOnRevokedRoute
<1> DEFINE UsableNow(s) ==
               \E a \in Aliases :
                   /\ a = caller[s].alias /\ routes[a] # NoRoute
                   /\ routes[a].enabled /\ routes[a].user = caller[s].user
           Step == \A s \in Chans : work[s] = "none" /\ work'[s] # "none" => UsableNow(s)
<1>1. IInv /\ [Next]_vars => [Step]_vars
  <2> SUFFICES ASSUME IInv, Next, NEW s \in Chans, work[s] = "none", work'[s] # "none"
               PROVE  UsableNow(s)
    OBVIOUS
  <2>1. chan[s] = "serving" /\ Usable(caller[s])
    BY WorkIsRequested DEF Requested
  <2>2. caller[s].alias \in Aliases
    BY <2>1 DEF IInv, LoginInv, Login
  <2> QED BY <2>1, <2>2 DEF Usable
<1>2. [][Step]_vars => NoWorkOnRevokedRoute
  BY PTL DEF NoWorkOnRevokedRoute
<1> QED BY <1>1, <1>2, Invariance, PTL DEF Spec

=============================================================================
