---------------------------- MODULE EgressProofs ----------------------------
(***************************************************************************)
(* Proofs about Egress: however flows, the control server, failing writes  *)
(* and restarts interleave, every invariant of the egress run holds, for   *)
(* any number of flows and proxies.                                        *)
(***************************************************************************)
EXTENDS Egress, TLAPS

\* A flow: what it may have touched and sent by the time it is at a step, and why it
\* got there.
FlowInv(f) ==
    /\ step[f] = "none" => touched[f] = {} /\ copies[f] = 0 /\ inForce[f] = {}
    /\ step[f] # "none" => /\ call[f] \in Call
                           /\ {current} \ {NoProxy} \subseteq inForce[f]
    /\ step[f] = "direct" => call[f].policy # "Proxy" /\ touched[f] \subseteq {"direct"}
    /\ step[f] = "configured" => call[f].policy = "Auto" /\ touched[f] \subseteq {"direct"}
    /\ step[f] \in {"proxy", "tunnel"} =>
        /\ call[f].policy # "Direct"
        /\ touched[f] \subseteq inForce[f] \cup {"direct"}
        /\ call[f].policy = "Proxy" => "direct" \notin touched[f]
    /\ step[f] \in {"direct", "configured", "proxy", "tunnel"} /\ ~call[f].replayable => copies[f] = 0
    /\ step[f] = "tunnel" => held[f] \in inForce[f]
    /\ step[f] = "done" =>
        /\ call[f].policy = "Proxy" => "direct" \notin touched[f]
        /\ call[f].policy = "Direct" => touched[f] \subseteq {"direct"}
    /\ step[f] = "done" /\ ~call[f].replayable => copies[f] \in {0, 1}
    /\ touched[f] \subseteq inForce[f] \cup {"direct"}

\* The manager, the store and the operation that is between the two.
ManagerInv ==
    /\ transport = current /\ proxyURL = current
    /\ status = "down" => /\ current = NoProxy /\ op = Idle /\ ~parted
                          /\ \A f \in Flows : step[f] = "none"
    /\ op # Idle => (op.name = "configure" => op.to \in wanted) /\ (op.name = "clear" => op.to = NoProxy)
    /\ op # Idle /\ op.step = "apply" => stored = op.to
    /\ status = "up" /\ ~parted /\ ~(op # Idle /\ op.step = "apply") => stored = current
    /\ current \in wanted \cup {NoProxy} /\ stored \in wanted \cup {NoProxy}

IInv == TypeOK /\ (\A f \in Flows : FlowInv(f)) /\ ManagerInv

-----------------------------------------------------------------------------

\* The invariant holds at first.
LEMMA Initial == Init => IInv
<1> SUFFICES ASSUME Init PROVE IInv
  OBVIOUS
<1>1. TypeOK
  <2>1. call \in [Flows -> Call \cup {NoCall}] /\ op \in {Idle}
    BY DEF Init
  <2>2. touched \in [Flows -> SUBSET (Proxies \cup {"direct"})] /\ inForce \in [Flows -> SUBSET Proxies]
    BY DEF Init
  <2>3. step \in [Flows -> {"none"}] /\ held \in [Flows -> {NoProxy}] /\ copies \in [Flows -> {0}]
    BY DEF Init
  <2>4. {transport, proxyURL, stored, current} \subseteq Proxies \cup {NoProxy}
    BY DEF Init
  <2>5. parted \in BOOLEAN /\ wanted \subseteq Proxies /\ status \in {"down", "up"}
    BY DEF Init
  <2> QED BY <2>1, <2>2, <2>3, <2>4, <2>5 DEF TypeOK
<1>2. ASSUME NEW f \in Flows PROVE FlowInv(f)
  BY <1>2 DEF Init, FlowInv
<1>3. ManagerInv
  BY DEF Init, ManagerInv
<1> QED BY <1>1, <1>2, <1>3 DEF IInv

\* What a step of flow f has to be shown to do, since it touches nothing else.
FlowStep(f) ==
    /\ UNCHANGED <<status, manager, stored, op, current, wanted, parted>>
    /\ \A g \in Flows \ {f} :
        /\ step'[g] = step[g] /\ call'[g] = call[g] /\ held'[g] = held[g]
        /\ touched'[g] = touched[g] /\ copies'[g] = copies[g] /\ inForce'[g] = inForce[g]

\* A step of one flow leaves the others as they were.
LEMMA OtherFlows ==
    ASSUME NEW f \in Flows, IInv, FlowStep(f), TypeOK', FlowInv(f)', status = "up"
    PROVE  IInv'
<1>1. ASSUME NEW g \in Flows PROVE FlowInv(g)'
  <2>1. CASE g = f
    BY <2>1
  <2>2. CASE g # f
    BY <2>2, <1>1 DEF IInv, FlowInv, FlowStep
  <2> QED BY <2>1, <2>2
<1>2. ManagerInv'
  BY DEF IInv, ManagerInv, FlowStep, manager
<1> QED BY <1>1, <1>2 DEF IInv

\* A flow begins.
LEMMA EnterKeeps ==
    ASSUME IInv, NEW f \in Flows, NEW c \in Call, Enter(f, c) PROVE IInv'
<1> USE DEF IInv, Enter, GoTo
<1>1. TypeOK'
  BY DEF TypeOK, manager
<1>2. FlowInv(f)'
  BY DEF TypeOK, FlowInv, Call
<1>3. FlowStep(f)
  BY DEF TypeOK, FlowStep
<1> QED BY <1>1, <1>2, <1>3, OtherFlows

\* A flow dials directly.
LEMMA DirectKeeps ==
    ASSUME IInv, NEW f \in Flows, Direct(f) PROVE IInv'
<1> USE DEF IInv, Direct, GoTo, Touch, Send
<1>1. status = "up"
  BY DEF ManagerInv, TypeOK
<1>2. ASSUME NEW retryable \in BOOLEAN
      PROVE  /\ AfterError(f, retryable) \in {"configured", "proxy", "done"}
             /\ AfterError(f, retryable) # "done" => call[f].policy = "Auto"
             /\ AfterError(f, retryable) = "done" \/ retryable
  <2>1. call[f].safe \in BOOLEAN
    BY DEF FlowInv, Call
  <2> QED BY <2>1 DEF AfterError
<1>3. PICK e \in {"direct", "configured", "proxy", "done"} :
        /\ GoTo(f, e)
        /\ copies' = copies \/ Send(f)
        /\ e \in {"configured", "proxy"} => call[f].policy = "Auto" /\ UNCHANGED copies
        /\ e = "direct" => call[f].replayable
  <2>1. CASE GoTo(f, "done") /\ Send(f)
    BY <2>1
  <2>2. CASE \E retryable \in BOOLEAN : GoTo(f, AfterError(f, retryable)) /\ UNCHANGED copies
    BY <1>2, <2>2
  <2>3. CASE GoTo(f, AfterError(f, FALSE)) /\ Send(f)
    <3>1. AfterError(f, FALSE) = "done"
      BY <1>2
    <3> QED BY <2>3, <3>1
  <2>4. CASE call[f].replayable /\ Send(f) /\ UNCHANGED step
    <3>1. step' = [step EXCEPT ![f] = "direct"]
      BY <2>4 DEF TypeOK
    <3> QED BY <2>4, <3>1
  <2> QED BY <2>1, <2>2, <2>3, <2>4 DEF Direct
<1>4. touched' = [touched EXCEPT ![f] = {"direct"}]
  BY DEF TypeOK, FlowInv
<1>5. TypeOK'
  BY <1>3, <1>4 DEF TypeOK, FlowInv, manager
<1>6. FlowInv(f)'
  BY <1>3, <1>4, DirectAssumption DEF TypeOK, FlowInv, Call
<1>7. FlowStep(f)
  BY <1>3 DEF TypeOK, FlowStep
<1> QED BY <1>1, <1>5, <1>6, <1>7, OtherFlows

\* A flow looks whether a proxy is configured.
LEMMA ConfiguredKeeps ==
    ASSUME IInv, NEW f \in Flows, Configured(f) PROVE IInv'
<1> USE DEF IInv, Configured, GoTo
<1>1. status = "up"
  BY DEF ManagerInv, TypeOK
<1>2. TypeOK'
  BY DEF TypeOK, manager
<1>3. FlowInv(f)'
  BY DEF TypeOK, FlowInv, Call
<1>4. FlowStep(f)
  BY DEF TypeOK, FlowStep
<1> QED BY <1>1, <1>2, <1>3, <1>4, OtherFlows

\* A flow reads the proxy it will use, which is in force then.
LEMMA ReadProxyKeeps ==
    ASSUME IInv, NEW f \in Flows, ReadProxy(f) PROVE IInv'
<1> USE DEF IInv, ReadProxy, GoTo
<1>1. status = "up" /\ Read(f) = current
  BY DEF ManagerInv, TypeOK, Read
<1>2. TypeOK'
  BY <1>1 DEF TypeOK, manager
<1>3. FlowInv(f)'
  BY <1>1 DEF TypeOK, FlowInv, Call
<1>4. FlowStep(f)
  BY DEF TypeOK, FlowStep
<1> QED BY <1>1, <1>2, <1>3, <1>4, OtherFlows

\* A flow goes through the proxy it read.
LEMMA TunnelKeeps ==
    ASSUME IInv, NEW f \in Flows, Tunnel(f) PROVE IInv'
<1> USE DEF IInv, Tunnel, GoTo, Touch, Send
<1>1. status = "up"
  BY DEF ManagerInv, TypeOK
<1>2. TypeOK'
  BY DEF TypeOK, FlowInv, manager
<1>3. FlowInv(f)'
  BY DirectAssumption DEF TypeOK, FlowInv, Call
<1>4. FlowStep(f)
  BY DEF TypeOK, FlowStep
<1> QED BY <1>1, <1>2, <1>3, <1>4, OtherFlows

\* A flow ends.
LEMMA ReturnKeeps ==
    ASSUME IInv, NEW f \in Flows, Return(f) PROVE IInv'
<1> USE DEF IInv, Return, GoTo
<1>1. status = "up"
  BY DEF ManagerInv, TypeOK
<1>2. TypeOK'
  BY DEF TypeOK, manager
<1>3. FlowInv(f)'
  BY DEF TypeOK, FlowInv
<1>4. FlowStep(f)
  BY DEF TypeOK, FlowStep
<1> QED BY <1>1, <1>2, <1>3, <1>4, OtherFlows

-----------------------------------------------------------------------------

\* A step that leaves the flows and what is in force alone.
LEMMA FlowsUntouched ==
    ASSUME IInv, UNCHANGED <<flows, current>>
    PROVE  \A f \in Flows : FlowInv(f)'
BY DEF IInv, FlowInv, flows

\* configureProxy or clearProxy takes the lock.
LEMMA BeginKeeps ==
    ASSUME IInv, (\E p \in Proxies : configureProxy(p)) \/ clearProxy PROVE IInv'
<1> USE DEF configureProxy, clearProxy, Free
<1>1. TypeOK'
  BY DEF IInv, TypeOK, flows, manager
<1>2. \A f \in Flows : FlowInv(f)'
  BY FlowsUntouched
<1>3. ManagerInv'
  BY NoProxyAssumption DEF IInv, TypeOK, ManagerInv, Idle, flows, manager
<1> QED BY <1>1, <1>2, <1>3 DEF IInv

\* The store is written.
LEMMA StoreKeeps == ASSUME IInv, Store PROVE IInv'
<1>1. PICK outcome \in {"ok", "before", "after"} : Store!2!(outcome)
  BY FaultsAssumption DEF Store
<1>2. TypeOK'
  BY <1>1, ZenonT(40) DEF Store, IInv, TypeOK, flows, manager
<1>3. \A f \in Flows : FlowInv(f)'
  BY FlowsUntouched DEF Store
<1>4. ManagerInv'
  BY <1>1 DEF Store, IInv, TypeOK, ManagerInv, Idle, flows, manager
<1> QED BY <1>2, <1>3, <1>4 DEF IInv

\* The history of proxies in force stays one.
LEMMA InForceType ==
    ASSUME TypeOK, NEW p \in Proxies \cup {NoProxy}, InForce(p)
    PROVE  inForce' \in [Flows -> SUBSET Proxies] /\ current' \in Proxies \cup {NoProxy}
BY DEF TypeOK, InForce

\* The manager follows the store.
LEMMA ApplyKeeps == ASSUME IInv, Apply PROVE IInv'
<1>0. op.to \in Proxies \cup {NoProxy} /\ Set(op.to)
  BY DEF Apply, Configure, Clear, IInv, TypeOK, ManagerInv
<1>1. TypeOK'
  BY <1>0, InForceType DEF Apply, Set, IInv, TypeOK
<1>2. ASSUME NEW f \in Flows PROVE FlowInv(f)'
  BY <1>0, <1>2 DEF Apply, InForce, IInv, TypeOK, FlowInv, Call
<1>3. ManagerInv'
  <2>1. current' = op.to /\ transport' = op.to /\ proxyURL' = op.to /\ stored' = op.to
    BY <1>0 DEF Apply, InForce, Set, IInv, ManagerInv
  <2>2. op.to \in wanted' \cup {NoProxy} /\ op' = Idle /\ status' = "up"
    BY <1>0 DEF Apply
  <2> QED BY <2>1, <2>2 DEF ManagerInv
<1> QED BY <1>1, <1>2, <1>3 DEF IInv

\* The daemon is killed.
LEMMA CrashKeeps == ASSUME IInv, Crash PROVE IInv'
<1>1. TypeOK'
  <2>1. step' \in [Flows -> {"none"}] /\ held' \in [Flows -> {NoProxy}] /\ copies' \in [Flows -> {0}]
    BY DEF Crash, NoFlows
  <2>2. /\ call' \in [Flows -> Call \cup {NoCall}]
        /\ touched' \in [Flows -> SUBSET (Proxies \cup {"direct"})]
        /\ inForce' \in [Flows -> SUBSET Proxies]
    BY DEF Crash, NoFlows
  <2>3. {transport', proxyURL', stored', current'} \subseteq Proxies \cup {NoProxy}
    BY DEF Crash, IInv, TypeOK
  <2>4. status' = "down" /\ op' = Idle /\ parted' = FALSE /\ wanted' \subseteq Proxies
    BY DEF Crash, IInv, TypeOK
  <2>5. /\ step' \in [Flows -> {"none", "direct", "configured", "proxy", "tunnel", "done"}]
        /\ copies' \in [Flows -> 0..2]
        /\ held' \in [Flows -> Proxies \cup {NoProxy}]
        /\ \A f \in Flows : step'[f] # "tunnel"
    BY <2>1
  <2> QED BY <2>2, <2>3, <2>4, <2>5 DEF TypeOK
<1>2. ASSUME NEW f \in Flows PROVE FlowInv(f)'
  BY <1>2 DEF Crash, NoFlows, FlowInv
<1>3. ManagerInv'
  BY DEF Crash, NoFlows, IInv, ManagerInv
<1> QED BY <1>1, <1>2, <1>3 DEF IInv

\* The manager is set from the store.
LEMMA StartKeeps == ASSUME IInv, Start PROVE IInv'
<1>0. stored \in Proxies \cup {NoProxy} /\ Set(stored) /\ \A f \in Flows : step[f] = "none"
  BY DEF Start, Configure, Set, IInv, TypeOK, ManagerInv, manager
<1>1. TypeOK'
  BY <1>0, InForceType DEF Start, Set, IInv, TypeOK
<1>2. ASSUME NEW f \in Flows PROVE FlowInv(f)'
  BY <1>0, <1>2 DEF Start, InForce, IInv, TypeOK, FlowInv
<1>3. ManagerInv'
  BY <1>0 DEF Start, InForce, Set, IInv, TypeOK, ManagerInv, Idle
<1> QED BY <1>1, <1>2, <1>3 DEF IInv

\* Every step keeps the invariant.
LEMMA Induction == IInv /\ [Next]_vars => IInv'
<1> SUFFICES ASSUME IInv, [Next]_vars PROVE IInv'
  OBVIOUS
<1>1. CASE UNCHANGED vars
  BY <1>1 DEF vars, flows, manager, IInv, TypeOK, FlowInv, ManagerInv
<1>2. CASE Next
  BY <1>2, EnterKeeps, DirectKeeps, ConfiguredKeeps, ReadProxyKeeps, TunnelKeeps, ReturnKeeps,
     BeginKeeps, StoreKeeps, ApplyKeeps, CrashKeeps, StartKeeps DEF Next
<1> QED BY <1>1, <1>2

-----------------------------------------------------------------------------

\* The invariant holds of every reachable state.
LEMMA Invariance == Spec => []IInv
BY Initial, Induction, PTL DEF Spec

\* What Manager, its flows and the control server hold is always of the right kind.
THEOREM TypeCorrect == Spec => []TypeOK
<1>1. IInv => TypeOK
  BY DEF IInv
<1> QED BY <1>1, Invariance, PTL

\* RoundTrip and DialContext keep to the policy of the route they were called with,
\* however the proxy is configured, cleared or lost in a restart meanwhile.
THEOREM PolicyIsKept == Spec => []PolicyDecidesTheWay
<1>1. IInv => PolicyDecidesTheWay
  BY DEF IInv, TypeOK, FlowInv, PolicyDecidesTheWay
<1> QED BY <1>1, Invariance, PTL

\* The retry of Auto never sends a second copy of a request that may have arrived.
THEOREM NothingIsReplayed == Spec => []SentAtMostOnce
<1>1. IInv => SentAtMostOnce
  BY DEF IInv, TypeOK, FlowInv, SentAtMostOnce
<1> QED BY <1>1, Invariance, PTL

\* The proxy RoundTrip or DialContext read, without a lock, before it was cleared or
\* replaced was still in force at some time since the flow began.
THEOREM ProxyWasInForce == Spec => []ProxyInForce
<1>1. IInv => ProxyInForce
  BY DEF IInv, FlowInv, ProxyInForce
<1> QED BY <1>1, Invariance, PTL

\* configureProxy and clearProxy, which write the store and then the manager, leave
\* the two equal whenever no write reported an error after it took effect.
THEOREM ManagerFollowsStore == Spec => []ManagerMatchesStore
<1>1. IInv => ManagerMatchesStore
  BY DEF IInv, ManagerInv, ManagerMatchesStore, Free
<1> QED BY <1>1, Invariance, PTL

\* clearProxy removes the stored proxy before it answers: a later start does not
\* configure it again.
THEOREM ClearedStaysCleared == Spec => []ProxyOnlyIfWanted
<1>1. IInv => ProxyOnlyIfWanted
  BY DEF IInv, ManagerInv, ProxyOnlyIfWanted
<1> QED BY <1>1, Invariance, PTL

-----------------------------------------------------------------------------
(* The setting as the clients see it.                                      *)

\* What the flows and the beginning of an operation do to it is nothing.
LEMMA UnseenSteps ==
    ASSUME IInv, UNCHANGED <<status, manager, stored>>,
           op' = op \/ (op = Idle /\ op' # Idle /\ op'.step = "store")
    PROVE  UNCHANGED Setting!vars
<1>1. Promised' = Promised
  BY DEF Promised, manager
<1> QED BY <1>1 DEF Setting!vars

\* The write of the store is the moment of success, or of an error that may linger.
LEMMA StoreSeen == ASSUME IInv, Store PROVE Setting!Next \/ UNCHANGED Setting!vars
<1>1. PICK outcome \in {"ok", "before", "after"} : Store!2!(outcome)
  BY FaultsAssumption DEF Store
<1>2. /\ status = "up" /\ status' = "up" /\ transport' = transport
      /\ op # Idle /\ op.step = "store" /\ op.to \in Proxies \cup {NoProxy}
      /\ op \in [name: {"configure", "clear"}, step: {"store", "apply"}, to: Proxies \cup {NoProxy}]
  BY DEF Store, manager, IInv, TypeOK
<1>3. Promised = transport
  BY <1>2 DEF Promised
<1>4. CASE outcome = "ok"
  <2>1. op' = [op EXCEPT !.step = "apply"] /\ stored' = op.to
    BY <1>1, <1>4
  <2>2. op'.step = "apply" /\ op'.to = op.to /\ op' # Idle
    BY <1>2, <2>1 DEF Idle
  <2>3. Promised' = op.to
    BY <2>2 DEF Promised
  <2>4. Setting!Succeed(op.to)
    BY <1>2, <2>1, <2>3 DEF Setting!Succeed
  <2> QED BY <1>2, <2>4 DEF Setting!Next
<1>5. CASE outcome # "ok"
  <2>1. op' = Idle /\ stored' \in {stored, op.to}
    BY <1>1, <1>5
  <2>2. Promised' = transport
    BY <1>2, <2>1 DEF Promised
  <2>3. CASE stored' = op.to
    <3>1. Setting!Linger(op.to)
      BY <1>2, <1>3, <2>2, <2>3 DEF Setting!Linger
    <3> QED BY <1>2, <3>1 DEF Setting!Next
  <2>4. CASE stored' = stored
    BY <1>2, <1>3, <2>2, <2>4 DEF Setting!vars
  <2> QED BY <2>1, <2>3, <2>4
<1> QED BY <1>4, <1>5

\* The manager then takes over what is promised already.
LEMMA ApplySeen == ASSUME IInv, Apply PROVE UNCHANGED Setting!vars
<1>1. op # Idle /\ op.step = "apply" /\ op' = Idle /\ UNCHANGED <<status, stored>>
  BY DEF Apply
<1>2. transport' = op.to
  BY DEF Apply, Configure, Clear, Set, IInv, TypeOK, ManagerInv
<1>3. Promised = op.to /\ Promised' = op.to
  BY <1>1, <1>2 DEF Promised
<1> QED BY <1>1, <1>3 DEF Setting!vars

\* The process ends and begins.
LEMMA ProcessSeen == ASSUME IInv, Crash \/ Start PROVE Setting!Next
<1>1. CASE Crash
  <2>1. status = "up" /\ status' = "down" /\ stored' = stored /\ Promised' = NoProxy
    BY <1>1 DEF Crash, Promised
  <2>2. Setting!Fall
    BY <2>1 DEF Setting!Fall
  <2> QED BY <2>2 DEF Setting!Next
<1>2. CASE Start
  <2>1. status = "down" /\ status' = "up" /\ stored' = stored /\ op = Idle /\ op' = Idle
    BY <1>2 DEF Start, IInv, ManagerInv
  <2>2. transport' = stored
    BY <1>2, <2>1 DEF Start, Configure, Set, manager, IInv, ManagerInv
  <2>3. Promised' = stored
    BY <2>1, <2>2 DEF Promised
  <2>4. Setting!Rise
    BY <2>1, <2>3 DEF Setting!Rise
  <2> QED BY <2>4 DEF Setting!Next
<1> QED BY <1>1, <1>2

\* configureProxy, clearProxy and the start of the daemon implement one durable
\* setting, changed at one moment, whatever flows read it meanwhile, whichever writes
\* fail and wherever the process dies.
THEOREM ProxyIsOneSetting == Spec => ImplementsProxySetting
<1>1. Init => Setting!Init
  BY DEF Init, Setting!Init, Promised
<1>2. IInv /\ [Next]_vars => [Setting!Next]_(Setting!vars)
  <2>1. SUFFICES ASSUME IInv, [Next]_vars PROVE Setting!Next \/ UNCHANGED Setting!vars
    OBVIOUS
  <2>2. CASE UNCHANGED vars
    BY <2>1, <2>2, UnseenSteps DEF vars
  <2>3. ASSUME NEW f \in Flows,
               \/ \E c \in Call : Enter(f, c)
               \/ Direct(f) \/ Configured(f) \/ ReadProxy(f) \/ Tunnel(f) \/ Return(f)
        PROVE  UNCHANGED Setting!vars
    <3>1. UNCHANGED <<status, manager, stored, op>>
      BY <2>3 DEF Enter, Direct, Configured, ReadProxy, Tunnel, Return
    <3> QED BY <2>1, <3>1, UnseenSteps
  <2>4. CASE (\E p \in Proxies : configureProxy(p)) \/ clearProxy
    <3>1. UNCHANGED <<status, manager, stored>> /\ op = Idle
      BY <2>4 DEF configureProxy, clearProxy, Free
    <3>2. op' # Idle /\ op'.step = "store"
      BY <2>4 DEF configureProxy, clearProxy, Idle
    <3> QED BY <2>1, <3>1, <3>2, UnseenSteps
  <2> QED BY <2>1, <2>2, <2>3, <2>4, StoreSeen, ApplySeen, ProcessSeen DEF Next
<1> QED BY <1>1, <1>2, Invariance, PTL DEF Spec, ImplementsProxySetting, Setting!Spec

=============================================================================
