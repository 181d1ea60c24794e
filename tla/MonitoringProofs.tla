-------------------------- MODULE MonitoringProofs --------------------------
(***************************************************************************)
(* Proofs about Monitoring, for any number of visitors and targets and any *)
(* limits of the two recorders.                                            *)
(***************************************************************************)
EXTENDS Monitoring, SequenceTheorems, TLAPS

-----------------------------------------------------------------------------
(* The inductive invariant.                                                *)

\* What a mutator has done by the step it is at.
OpInv ==
    /\ op.name = "create" =>
        /\ op.step \in {"put", "upsert", "save", "undo", "unput"}
        /\ op.prev = NoRoute /\ op.new \in Route
        /\ route = IF op.step \in {"save", "undo"} THEN op.new ELSE NoRoute
        /\ op.step = "put" => op.new.born = made + 1
        /\ op.step \in {"upsert", "save", "undo"} => op.new.born = made /\ target = made
        /\ saved # NoRoute => torn
    /\ op.name = "enable" =>
        /\ op.step \in {"upsert", "save", "undo"}
        /\ NoRoute \notin {op.prev, op.new, route}
    /\ op.name = "retarget" =>
        /\ op.step \in {"put", "clear"} /\ route # NoRoute
        /\ op.step = "put" => made < MaxTarget
    /\ op.name = "delete" =>
        /\ op.step \in {"upsert", "save", "undo", "clear", "unlink"}
        /\ op.new = NoRoute /\ op.prev # NoRoute
        /\ route = NoRoute <=> op.step # "upsert"
        /\ op.step \in {"clear", "unlink"} => saved = NoRoute
        /\ op.step \in {"save", "undo"} /\ target = 0 => torn

\* A route without a target is one whose creation failed after the rename, and so is
\* one that only the file still holds.
StoreInv ==
    /\ target = 0 /\ (route # NoRoute \/ saved # NoRoute) => torn
    /\ status = "up" /\ op = Idle /\ route = NoRoute /\ saved # NoRoute => torn
    /\ status = "down" => op = Idle /\ route = NoRoute /\ health = NoHealth

\* Targets come in order, and whoever was let in was let in under an earlier one.
OrderInv ==
    /\ target <= made /\ current <= made
    /\ target # 0 => current <= target
    /\ \A v \in Visitors : due[v] <= made /\ (target # 0 => due[v] <= target)

VisitInv(v) ==
    /\ visit[v].step \in {"resolve", "contact", "health", "record"} =>
        /\ visit[v] \in Visit
        /\ visit[v].target # 0 => visit[v].target >= due[v]
        /\ visit[v].result = "missing" => v \in orphaned
    /\ InFlight(v) => status = "up" /\ (route = NoRoute \/ target = 0 => v \in orphaned)
    /\ visit[v].step = "health" => visit[v].kind = "test"
    /\ InFlight(v) /\ visit[v].kind = "test" /\ v \notin doubtful =>
        route # NoRoute /\ visit[v].target \in {0, target}

HealthInv ==
    health # NoHealth /\ health.by \notin doubtful =>
        \/ op.step = "clear" /\ op.name = "retarget"
        \/ /\ health.of \in {0, target}
           /\ route # NoRoute \/ (op.name = "delete" /\ op.step \in {"save", "undo", "clear"})

\* A list has every acknowledged command, with no more commands after it than the log has.
TracksIn(list, entries) ==
    \A i \in DOMAIN entries : entries[i].acknowledged =>
        \E j \in DOMAIN list : list[j] = entries[i].by /\ Len(list) - j <= Len(entries) - i

Tracks(list) == TracksIn(list, log)

RecordInv ==
    /\ Len(log) <= AuditLimit
    /\ Tracks(auditFile)
    /\ status = "up" => Tracks(audit)
    /\ activity = told

IInv ==
    /\ TypeOK
    /\ OpInv
    /\ StoreInv
    /\ OrderInv
    /\ \A v \in Visitors : VisitInv(v)
    /\ HealthInv
    /\ RecordInv

-----------------------------------------------------------------------------
(* The records, and the steps taken in them.                               *)

Steps == {"put", "upsert", "save", "undo", "unput", "clear", "unlink"}

\* What the operation in progress carries.
LEMMA OpFields ==
    ASSUME op \in Operation \cup {Idle}
    PROVE  /\ op # Idle <=> op.step # "idle"
           /\ op # Idle <=> op.name # "none"
           /\ op # Idle => /\ op \in Operation /\ op.name \in {"create", "enable", "delete", "retarget"}
                           /\ op.step \in Steps
                           /\ op.new \in Route \cup {NoRoute} /\ op.prev \in Route \cup {NoRoute}
           /\ op = Idle => op.step = "idle" /\ op.name = "none"
BY DEF Operation, Idle, Steps

\* An operation at another step is one.
LEMMA OpStep ==
    ASSUME NEW c \in Operation, NEW s \in Steps
    PROVE  /\ [c EXCEPT !.step = s] \in Operation /\ [c EXCEPT !.step = s] # Idle
           /\ [c EXCEPT !.step = s].step = s /\ [c EXCEPT !.step = s].name = c.name
           /\ [c EXCEPT !.step = s].new = c.new /\ [c EXCEPT !.step = s].prev = c.prev
<1>1. /\ [c EXCEPT !.step = s] \in Operation
      /\ [c EXCEPT !.step = s].step = s /\ [c EXCEPT !.step = s].name = c.name
      /\ [c EXCEPT !.step = s].new = c.new /\ [c EXCEPT !.step = s].prev = c.prev
  BY DEF Operation, Steps
<1>2. Idle.step = "idle"
  BY DEF Idle
<1> QED BY <1>1, <1>2 DEF Steps

\* An operation that moves on keeps the rest.
LEMMA OpGoes ==
    ASSUME op \in Operation, NEW s \in Steps, GoTo(s)
    PROVE  /\ op' \in Operation /\ op' # Idle /\ op'.step = s
           /\ op'.name = op.name /\ op'.new = op.new /\ op'.prev = op.prev
BY OpStep DEF GoTo

\* Releasing the lock ends the operation.
LEMMA OpEnds ==
    ASSUME Release
    PROVE  op' = Idle /\ op'.name = "none" /\ op'.step = "idle"
BY DEF Release, Idle

\* What a visit carries, by its step.
LEMMA VisitFields ==
    ASSUME NEW x \in Visit \cup {NotYet, Gone}
    PROVE  /\ x = NotYet <=> x.step = "idle"
           /\ x = Gone <=> x.step = "done"
           /\ x \in Visit <=> x.step \in {"resolve", "contact", "health", "record"}
           /\ x.step \in {"idle", "done", "resolve", "contact", "health", "record"}
           /\ x \in Visit => /\ x.kind \in Kinds /\ x.target \in 0..MaxTarget
                             /\ x.result \in {"pending", "allowed", "failed", "missing"}
BY DEF Visit, NotYet, Gone

-----------------------------------------------------------------------------
(* The lists the recorders keep.                                           *)

\* x comes to the end of s, and its d oldest entries go.
Grown(r, s, x, d) ==
    /\ Len(r) = Len(s) + 1 - d
    /\ r[Len(r)] = x
    /\ \A j \in 1..(Len(r) - 1) : r[j] = s[j + d]

\* Both recorders keep a list the way the history does: the new entry goes to the end,
\* and once the limit is reached each older one moves up by one place.
LEMMA TrimmedList ==
    ASSUME NEW S, NEW s \in Seq(S), NEW x \in S, NEW limit \in Nat \ {0}, Len(s) <= limit,
           NEW r, r = Remember(s, x, limit)
    PROVE  /\ Newest(Append(s, x), limit) = r
           /\ r \in Seq(S) /\ Len(r) <= limit
           /\ Len(s) < limit => Grown(r, s, x, 0)
           /\ Len(s) = limit => Grown(r, s, x, 1)
<1>1. CASE Len(s) < limit
  <2>1. r = Append(s, x) /\ Newest(Append(s, x), limit) = r
    BY <1>1, AppendProperties DEF Remember, Newest
  <2>2. r \in Seq(S) /\ Len(r) = Len(s) + 1 /\ r[Len(r)] = x /\ \A j \in 1..Len(s) : r[j] = s[j]
    BY <2>1, AppendProperties
  <2>3. Len(s) \in Nat
    BY LenProperties
  <2>4. Grown(r, s, x, 0)
    BY <2>2, <2>3 DEF Grown
  <2> QED BY <1>1, <2>1, <2>2, <2>3, <2>4
<1>2. CASE Len(s) = limit
  <2>1. s # <<>> /\ Tail(s) \in Seq(S) /\ Len(Tail(s)) = limit - 1
        /\ \A j \in 1..(limit - 1) : Tail(s)[j] = s[j + 1]
    BY <1>2, HeadTailProperties
  <2>2. r = Append(Tail(s), x)
    BY <1>2 DEF Remember
  <2>3. /\ r \in Seq(S) /\ Len(r) = limit /\ r[limit] = x
        /\ \A j \in 1..(limit - 1) : r[j] = s[j + 1]
    BY <2>1, <2>2, AppendProperties
  <2>4. PICK t : t = Append(s, x)
    OBVIOUS
  <2>5. /\ t \in Seq(S) /\ Len(t) = limit + 1 /\ t[limit + 1] = x
        /\ \A j \in 1..limit : t[j] = s[j]
    BY <1>2, <2>4, AppendProperties
  <2>6. Newest(t, limit) = SubSeq(t, 2, limit + 1)
    BY <2>5 DEF Newest
  <2>7. PICK n : n = Newest(t, limit)
    OBVIOUS
  <2>8. n \in Seq(S) /\ Len(n) = limit /\ \A j \in 1..limit : n[j] = t[j + 1]
    BY <2>5, <2>6, <2>7, SubSeqProperties
  <2>9. ASSUME NEW j \in 1..limit PROVE n[j] = r[j]
    <3>1. n[j] = t[j + 1]
      BY <2>8
    <3>2. CASE j = limit
      BY <2>3, <2>5, <3>1, <3>2
    <3>3. CASE j # limit
      <4>1. j \in 1..(limit - 1) /\ j + 1 \in 1..limit
        BY <3>3
      <4> QED BY <2>3, <2>5, <3>1, <4>1
    <3> QED BY <3>2, <3>3
  <2>10. n = r
    BY <2>3, <2>8, <2>9, SeqEqual
  <2>11. Grown(r, s, x, 1)
    BY <1>2, <2>3 DEF Grown
  <2> QED BY <1>2, <2>3, <2>4, <2>7, <2>10, <2>11
<1>3. Len(s) \in Nat
  BY LenProperties
<1> QED BY <1>1, <1>2, <1>3

\* The places in two lists of at most L entries, before and after each gets one.
LEMMA Places ==
    ASSUME NEW L \in Nat \ {0}, NEW n \in 0..L, NEW m \in 0..L, NEW d \in {0, 1}, NEW c \in {0, 1},
           d = 1 <=> n = L, c = 1 <=> m = L
    PROVE  /\ n + 1 - d \in Nat \ {0} /\ m + 1 - c \in Nat \ {0}
           /\ \A i \in 1..(m - c) : i + c \in 1..m
           /\ \A i \in 1..(m - c), j \in 1..n : n - j <= m - (i + c) =>
                 /\ j - d \in 1..(n - d) /\ (j - d) + d = j
                 /\ (n + 1 - d) - (j - d) <= (m + 1 - c) - i
OBVIOUS

\* A list that gets the command the log gets goes on tracking it.
LEMMA TracksWithNew ==
    ASSUME NEW R, NEW list \in Seq(Visitors), Len(list) <= AuditLimit,
           NEW entries \in Seq(R), Len(entries) <= AuditLimit,
           TracksIn(list, entries), NEW e \in R, e.by \in Visitors
    PROVE  TracksIn(Newest(Append(list, e.by), AuditLimit), Remember(entries, e, AuditLimit))
<1>1. PICK new, more : new = Remember(list, e.by, AuditLimit) /\ more = Remember(entries, e, AuditLimit)
  OBVIOUS
<1>2. PICK L, n, m : L = AuditLimit /\ n = Len(list) /\ m = Len(entries)
  OBVIOUS
<1>3. L \in Nat \ {0} /\ n \in 0..L /\ m \in 0..L /\ e.by \in Visitors
  BY <1>2, LimitsAssumption, LenProperties
<1>4. PICK d \in {0, 1} : (d = 1 <=> n = L) /\ Grown(new, list, e.by, d)
  <2>1. Len(list) <= L /\ new = Remember(list, e.by, L)
    BY <1>1, <1>2
  <2>2. (Len(list) < L => Grown(new, list, e.by, 0)) /\ (Len(list) = L => Grown(new, list, e.by, 1))
    BY <1>3, <2>1, TrimmedList
  <2>3. (n < L => Grown(new, list, e.by, 0)) /\ (n = L => Grown(new, list, e.by, 1))
    BY <1>2, <2>2
  <2> QED BY <1>3, <2>3
<1>5. PICK c \in {0, 1} : (c = 1 <=> m = L) /\ Grown(more, entries, e, c)
  <2>1. Len(entries) <= L /\ more = Remember(entries, e, L)
    BY <1>1, <1>2
  <2>2. (Len(entries) < L => Grown(more, entries, e, 0)) /\ (Len(entries) = L => Grown(more, entries, e, 1))
    BY <1>3, <2>1, TrimmedList
  <2>3. (m < L => Grown(more, entries, e, 0)) /\ (m = L => Grown(more, entries, e, 1))
    BY <1>2, <2>2
  <2> QED BY <1>3, <2>3
<1>6. new = Newest(Append(list, e.by), AuditLimit) /\ new \in Seq(Visitors) /\ more \in Seq(R)
  <2>1. new = Newest(Append(list, e.by), AuditLimit) /\ new \in Seq(Visitors)
    BY <1>1, <1>2, <1>3, TrimmedList
  <2>2. more \in Seq(R)
    BY <1>1, <1>2, <1>3, TrimmedList
  <2> QED BY <2>1, <2>2
<1>7. Len(new) = n + 1 - d /\ Len(more) = m + 1 - c
  BY <1>2, <1>4, <1>5 DEF Grown
<1>8. /\ DOMAIN new = 1..(n + 1 - d) /\ DOMAIN list = 1..n
      /\ DOMAIN entries = 1..m /\ DOMAIN more = 1..(m + 1 - c)
  BY <1>2, <1>6, <1>7, LenProperties
<1>9. /\ n + 1 - d \in Nat \ {0} /\ m + 1 - c \in Nat \ {0}
      /\ (n + 1 - d) - 1 = n - d /\ (m + 1 - c) - 1 = m - c
  BY <1>3, <1>4, <1>5, Places
<1>10. ASSUME NEW i \in 1..(m + 1 - c), more[i].acknowledged
       PROVE  \E j \in 1..(n + 1 - d) : new[j] = more[i].by /\ (n + 1 - d) - j <= (m + 1 - c) - i
  <2>1. CASE i = m + 1 - c
    <3>1. n + 1 - d \in 1..(n + 1 - d) /\ (n + 1 - d) - (n + 1 - d) <= (m + 1 - c) - i
      BY <1>9, <2>1, SMTT(30)
    <3>2. new[n + 1 - d] = e.by /\ more[i] = e
      BY <1>4, <1>5, <1>7, <2>1 DEF Grown
    <3> QED BY <3>1, <3>2
  <2>2. CASE i # m + 1 - c
    <3>1. i \in 1..(m - c)
      BY <1>3, <1>5, <1>9, <2>2
    <3>2. i + c \in 1..m
      BY <1>3, <1>4, <1>5, <3>1, Places
    <3>3. more[i] = entries[i + c]
      BY <1>5, <1>7, <1>9, <3>1 DEF Grown
    <3>4. PICK j \in 1..n : list[j] = more[i].by /\ n - j <= m - (i + c)
      BY <1>2, <1>8, <1>10, <3>2, <3>3 DEF TracksIn
    <3>5. /\ j - d \in 1..(n - d) /\ (j - d) + d = j
          /\ (n + 1 - d) - (j - d) <= (m + 1 - c) - i
      BY <1>3, <1>4, <1>5, <3>1, <3>4, Places
    <3>6. new[j - d] = list[j]
      BY <1>4, <1>7, <1>9, <3>5 DEF Grown
    <3>7. j - d \in 1..(n + 1 - d)
      BY <1>3, <1>4, <1>9, <3>5
    <3> QED BY <3>4, <3>5, <3>6, <3>7
  <2> QED BY <2>1, <2>2
<1>11. TracksIn(new, more)
  BY <1>7, <1>8, <1>10 DEF TracksIn
<1> QED BY <1>1, <1>6, <1>11

\* A list that misses a command nobody was promised goes on tracking the log.
LEMMA TracksWithout ==
    ASSUME NEW R, NEW list \in Seq(Visitors), NEW entries \in Seq(R), Len(entries) <= AuditLimit,
           TracksIn(list, entries), NEW e \in R, e.acknowledged = FALSE
    PROVE  TracksIn(list, Remember(entries, e, AuditLimit))
<1>1. PICK more : more = Remember(entries, e, AuditLimit)
  OBVIOUS
<1>2. PICK L, n, m : L = AuditLimit /\ n = Len(list) /\ m = Len(entries)
  OBVIOUS
<1>3. L \in Nat \ {0} /\ n \in Nat /\ m \in 0..L
  BY <1>2, LimitsAssumption, LenProperties
<1>4. PICK c \in {0, 1} : (c = 1 <=> m = L) /\ Grown(more, entries, e, c)
  <2>1. Len(entries) <= L /\ more = Remember(entries, e, L)
    BY <1>1, <1>2
  <2>2. (Len(entries) < L => Grown(more, entries, e, 0)) /\ (Len(entries) = L => Grown(more, entries, e, 1))
    BY <1>3, <2>1, TrimmedList
  <2>3. (m < L => Grown(more, entries, e, 0)) /\ (m = L => Grown(more, entries, e, 1))
    BY <1>2, <2>2
  <2> QED BY <1>3, <2>3
<1>5. more \in Seq(R)
  BY <1>1, <1>2, <1>3, TrimmedList
<1>6. Len(more) = m + 1 - c
  BY <1>2, <1>4 DEF Grown
<1>7. DOMAIN list = 1..n /\ DOMAIN entries = 1..m /\ DOMAIN more = 1..(m + 1 - c)
  BY <1>2, <1>5, <1>6, LenProperties
<1>8. m + 1 - c \in Nat \ {0} /\ (m + 1 - c) - 1 = m - c
  BY <1>3, <1>4
<1>9. ASSUME NEW i \in 1..(m + 1 - c), more[i].acknowledged
      PROVE  \E j \in 1..n : list[j] = more[i].by /\ n - j <= (m + 1 - c) - i
  <2>1. i # m + 1 - c
    BY <1>4, <1>6, <1>9 DEF Grown
  <2>2. i \in 1..(m - c) /\ i + c \in 1..m
    BY <1>3, <1>4, <1>8, <2>1
  <2>3. more[i] = entries[i + c]
    BY <1>4, <1>6, <1>8, <2>2 DEF Grown
  <2>4. PICK j \in 1..n : list[j] = more[i].by /\ n - j <= m - (i + c)
    BY <1>2, <1>7, <1>9, <2>2, <2>3 DEF TracksIn
  <2>5. n - j <= (m + 1 - c) - i
    BY <1>3, <1>4, <2>2, <2>4, SMTT(30)
  <2> QED BY <2>4, <2>5
<1>10. TracksIn(list, more)
  BY <1>2, <1>6, <1>7, <1>9 DEF TracksIn
<1> QED BY <1>1, <1>10

-----------------------------------------------------------------------------
(* The mutators.                                                           *)

\* As long as nothing is recorded, the records keep the newest.
LEMMA RecordsStay ==
    ASSUME RecordInv, UNCHANGED <<status, activity, audit, auditFile, told, log>>
    PROVE  RecordInv'
BY DEF RecordInv, Tracks, TracksIn

\* As long as nothing of what they saw changes, so do the visitors.
LEMMA VisitsStay ==
    ASSUME \A v \in Visitors : VisitInv(v),
           UNCHANGED <<status, visit, target, route, due>>,
           orphaned \subseteq orphaned', doubtful \subseteq doubtful'
    PROVE  \A v \in Visitors : VisitInv(v)'
BY DEF VisitInv, InFlight

\* Whatever a mutator begins with, it has checked.
LEMMA BeginKeeps ==
    ASSUME IInv, NEW name \in {"create", "enable", "delete", "retarget"}, NEW step \in Steps,
           NEW new \in Route \cup {NoRoute}, Begin(name, step, new), OpInv'
    PROVE  IInv'
<1>1. /\ op = Idle /\ op.name = "none" /\ op.step = "idle" /\ status = "up"
      /\ UNCHANGED <<status, route, saved, target, made, visit, health, activity, audit, auditFile,
                     current, due, orphaned, doubtful, torn, told, log>>
  BY OpFields DEF IInv, TypeOK, Begin, records, history
<1>2. op' \in Operation /\ op' # Idle /\ op'.name = name
  <2>1. op' \in Operation /\ op'.name = name
    BY <1>1 DEF Begin, Operation, Steps, IInv, TypeOK
  <2> QED BY <2>1 DEF Idle
<1>3. TypeOK'
  BY <1>1, <1>2 DEF IInv, TypeOK
<1>4. StoreInv' /\ OrderInv' /\ HealthInv'
  BY <1>1, <1>2 DEF IInv, StoreInv, OrderInv, HealthInv
<1>5. RecordInv' /\ \A v \in Visitors : VisitInv(v)'
  BY <1>1, RecordsStay, VisitsStay DEF IInv
<1> QED BY <1>3, <1>4, <1>5 DEF IInv

\* A request takes the lock and changes nothing else.
LEMMA RequestsKeep ==
    ASSUME IInv, \/ \E f \in Families : createRoute(f)
                 \/ \E enabled \in BOOLEAN : setRouteEnabled(enabled)
                 \/ deleteRoute \/ updateSSHTarget
    PROVE  IInv'
<1>1. route \in Route \cup {NoRoute} /\ made \in Nat /\ MaxTarget \in Nat /\ saved \in Route \cup {NoRoute}
  BY LimitsAssumption DEF IInv, TypeOK
<1>2. ASSUME NEW f \in Families, createRoute(f) PROVE IInv'
  <2>1. PICK new : new = [family |-> f, born |-> made + 1, enabled |-> FALSE]
    OBVIOUS
  <2>2. new \in Route /\ new.born = made + 1 /\ Begin("create", "put", new) /\ route = NoRoute
    BY <1>1, <1>2, <2>1 DEF createRoute, Route
  <2>3. OpInv'
    BY <2>2 DEF OpInv, Begin, IInv, StoreInv, history
  <2> QED BY <2>2, <2>3, BeginKeeps DEF Steps
<1>3. ASSUME NEW enabled \in BOOLEAN, setRouteEnabled(enabled) PROVE IInv'
  <2>1. PICK new : new = [route EXCEPT !.enabled = enabled]
    OBVIOUS
  <2>2. new \in Route /\ Begin("enable", "upsert", new) /\ route \in Route
    BY <1>1, <1>3, <2>1 DEF setRouteEnabled, Route
  <2>3. OpInv'
    BY <2>2, MarkersAssumption DEF OpInv, Begin
  <2> QED BY <2>2, <2>3, BeginKeeps DEF Steps
<1>4. ASSUME deleteRoute PROVE IInv'
  <2>1. Begin("delete", "upsert", NoRoute) /\ route # NoRoute
    BY <1>4 DEF deleteRoute
  <2>2. OpInv'
    BY <2>1 DEF OpInv, Begin
  <2> QED BY <2>1, <2>2, BeginKeeps DEF Steps
<1>5. ASSUME updateSSHTarget PROVE IInv'
  <2>1. Begin("retarget", "put", route) /\ route # NoRoute /\ made < MaxTarget
    BY <1>5 DEF updateSSHTarget
  <2>2. OpInv'
    BY <2>1 DEF OpInv, Begin
  <2> QED BY <1>1, <2>1, <2>2, BeginKeeps DEF Steps
<1> QED BY <1>2, <1>3, <1>4, <1>5

\* Storing a target makes a newer one.
LEMMA PutKeeps ==
    ASSUME IInv, Put
    PROVE  IInv'
<1>1. /\ status = "up" /\ op.step = "put"
      /\ UNCHANGED <<status, route, saved, visit, health, activity, audit, auditFile,
                     current, due, orphaned, torn, told, log>>
  BY DEF Put, At, records
<1>2. /\ op \in Operation /\ op # Idle /\ op.name \in {"create", "retarget"}
      /\ op.name = "create" => /\ op.prev = NoRoute /\ op.new \in Route /\ route = NoRoute
                               /\ op.new.born = made + 1 /\ (saved # NoRoute => torn)
      /\ op.name = "retarget" => route # NoRoute /\ made < MaxTarget
  BY <1>1, OpFields DEF IInv, TypeOK, OpInv
<1>3. PICK outcome \in Outcomes :
        /\ IF outcome = "before" THEN UNCHANGED <<target, made, doubtful>>
           ELSE /\ target' = made + 1
                /\ made' = made + 1
                /\ doubtful' = doubtful \cup TestsInFlight
                                 \cup (IF outcome = "after" THEN Shown ELSE {})
        /\ IF outcome # "ok" THEN Release
           ELSE IF op.name = "create" THEN GoTo("upsert") ELSE GoTo("clear")
  BY DEF Put
<1>4. outcome \in {"ok", "before", "after"}
  BY LimitsAssumption DEF Outcomes
<1>5. made \in Nat /\ target \in Nat /\ current \in Nat /\ MaxTarget \in Nat /\ due \in [Visitors -> 0..MaxTarget]
      /\ doubtful \subseteq Visitors /\ health \in Health \cup {NoHealth}
  BY LimitsAssumption DEF IInv, TypeOK
<1>6. TestsInFlight \subseteq Visitors /\ Shown \subseteq Visitors
  BY <1>5, MarkersAssumption DEF TestsInFlight, Shown, Health
<1>7. CASE outcome = "before"
  <2>1. op' = Idle /\ UNCHANGED <<target, made, doubtful>> /\ op'.name = "none" /\ op'.step = "idle"
    BY <1>3, <1>7, OpEnds
  <2>2. TypeOK'
    BY <1>1, <2>1 DEF IInv, TypeOK
  <2>3. OpInv' /\ StoreInv' /\ OrderInv' /\ HealthInv'
    BY <1>1, <1>2, <2>1 DEF IInv, OpInv, StoreInv, OrderInv, HealthInv
  <2>4. RecordInv' /\ \A v \in Visitors : VisitInv(v)'
    BY <1>1, <2>1, RecordsStay, VisitsStay DEF IInv
  <2> QED BY <2>2, <2>3, <2>4 DEF IInv
<1>8. CASE outcome # "before"
  <2>1. /\ target' = made + 1 /\ made' = made + 1 /\ made + 1 \in 1..MaxTarget
        /\ doubtful' = doubtful \cup TestsInFlight \cup (IF outcome = "after" THEN Shown ELSE {})
    <3>1. op.name = "create" => op.new.born \in 1..MaxTarget
      BY <1>2 DEF Route
    <3>2. made + 1 \in 1..MaxTarget
      BY <1>2, <1>5, <3>1
    <3> QED BY <1>3, <1>8, <3>2
  <2>2. /\ op' \in Operation \cup {Idle}
        /\ outcome = "after" => op' = Idle /\ op'.name = "none" /\ op'.step = "idle"
        /\ outcome = "ok" => /\ op' # Idle /\ op'.name = op.name /\ op'.new = op.new /\ op'.prev = op.prev
                             /\ op'.step = IF op.name = "create" THEN "upsert" ELSE "clear"
    <3>1. CASE outcome = "after"
      BY <1>3, <3>1, OpEnds
    <3>2. CASE outcome = "ok" /\ op.name = "create"
      <4>1. GoTo("upsert")
        BY <1>3, <3>2
      <4>2. /\ op' \in Operation /\ op' # Idle /\ op'.step = "upsert"
            /\ op'.name = op.name /\ op'.new = op.new /\ op'.prev = op.prev
        BY <1>2, <4>1, OpGoes DEF Steps
      <4> QED BY <3>2, <4>2
    <3>3. CASE outcome = "ok" /\ op.name # "create"
      <4>1. GoTo("clear")
        BY <1>3, <3>3
      <4>2. /\ op' \in Operation /\ op' # Idle /\ op'.step = "clear"
            /\ op'.name = op.name /\ op'.new = op.new /\ op'.prev = op.prev
        BY <1>2, <4>1, OpGoes DEF Steps
      <4> QED BY <3>3, <4>2
    <3> QED BY <1>4, <1>8, <3>1, <3>2, <3>3
  <2>3. TypeOK'
    BY <1>1, <1>5, <1>6, <2>1, <2>2 DEF IInv, TypeOK
  <2>4. OpInv'
    BY <1>1, <1>2, <1>4, <1>8, <2>1, <2>2 DEF OpInv
  <2>5. StoreInv'
    BY <1>1, <1>2, <1>4, <1>5, <1>8, <2>1, <2>2 DEF IInv, StoreInv
  <2>6. OrderInv'
    BY <1>1, <1>5, <2>1 DEF IInv, OrderInv
  <2>7. HealthInv'
    BY <1>1, <1>2, <1>4, <1>8, <2>1, <2>2 DEF IInv, HealthInv, Shown
  <2>8. ASSUME NEW v \in Visitors PROVE VisitInv(v)'
    <3>1. VisitInv(v) /\ (InFlight(v)' <=> InFlight(v)) /\ target' # 0
      BY <1>1, <1>5, <2>1 DEF IInv, InFlight
    <3>2. InFlight(v) /\ visit[v].kind = "test" => v \in doubtful'
      BY <2>1 DEF TestsInFlight
    <3> QED BY <1>1, <3>1, <3>2 DEF VisitInv
  <2>9. RecordInv'
    BY <1>1, RecordsStay DEF IInv
  <2> QED BY <2>3, <2>4, <2>5, <2>6, <2>7, <2>8, <2>9 DEF IInv
<1> QED BY <1>7, <1>8

\* Installing or deleting the route.
LEMMA UpsertKeeps ==
    ASSUME IInv, Upsert
    PROVE  IInv'
<1>1. /\ status = "up" /\ op.step = "upsert" /\ route' = op.new
      /\ current' = IF op.name = "create" THEN op.new.born ELSE current
      /\ orphaned' = IF op.name = "delete" THEN orphaned \cup {v \in Visitors : InFlight(v)} ELSE orphaned
      /\ doubtful' = IF op.name = "delete" THEN doubtful \cup TestsInFlight ELSE doubtful
      /\ UNCHANGED <<status, saved, target, made, visit, health, activity, audit, auditFile,
                     due, torn, told, log>>
  BY DEF Upsert, At, records
<1>2. /\ op \in Operation /\ op # Idle /\ op.name \in {"create", "enable", "delete"}
      /\ op.new \in Route \cup {NoRoute}
      /\ op.name = "create" => /\ op.prev = NoRoute /\ op.new \in Route /\ route = NoRoute
                               /\ op.new.born = made /\ target = made /\ (saved # NoRoute => torn)
      /\ op.name = "enable" => NoRoute \notin {op.prev, op.new, route}
      /\ op.name = "delete" => op.new = NoRoute /\ op.prev # NoRoute /\ route # NoRoute
  BY <1>1, OpFields DEF IInv, TypeOK, OpInv
<1>3. /\ op' \in Operation /\ op' # Idle /\ op'.name = op.name /\ op'.new = op.new /\ op'.prev = op.prev
      /\ op'.step = "save"
  BY <1>2, OpGoes DEF Upsert, Steps
<1>4. /\ made \in Nat /\ target \in Nat /\ current \in Nat /\ MaxTarget \in Nat
      /\ op.name = "create" => op.new.born \in 1..MaxTarget /\ op.new # NoRoute
  BY <1>2, LimitsAssumption, MarkersAssumption DEF IInv, TypeOK, Route
<1>5. TestsInFlight \subseteq Visitors
  BY DEF TestsInFlight
<1>6. TypeOK'
  BY <1>1, <1>2, <1>3, <1>4, <1>5 DEF IInv, TypeOK
<1>7. OpInv'
  BY <1>1, <1>2, <1>3, <1>4 DEF IInv, OpInv, StoreInv
<1>8. StoreInv'
  BY <1>1, <1>2, <1>3, <1>4 DEF IInv, StoreInv
<1>9. OrderInv'
  BY <1>1, <1>2, <1>4 DEF IInv, OrderInv
<1>10. HealthInv'
  BY <1>1, <1>2, <1>3, <1>4 DEF IInv, HealthInv
<1>11. ASSUME NEW v \in Visitors PROVE VisitInv(v)'
  <2>1. VisitInv(v) /\ (InFlight(v)' <=> InFlight(v))
    BY <1>1 DEF IInv, InFlight
  <2>2. CASE op.name = "delete"
    <3>1. InFlight(v) => v \in orphaned' /\ (visit[v].kind = "test" => v \in doubtful')
      BY <1>1, <2>2 DEF TestsInFlight
    <3> QED BY <1>1, <2>1, <2>2, <3>1 DEF VisitInv
  <2>3. CASE op.name # "delete"
    <3>1. route' # NoRoute
      BY <1>1, <1>2, <1>4, <2>3
    <3> QED BY <1>1, <2>1, <2>3, <3>1 DEF VisitInv
  <2> QED BY <2>2, <2>3
<1>12. RecordInv'
  BY <1>1, RecordsStay DEF IInv
<1> QED BY <1>6, <1>7, <1>8, <1>9, <1>10, <1>11, <1>12 DEF IInv

\* Saving the route, or not.
LEMMA SaveKeeps ==
    ASSUME IInv, Save
    PROVE  IInv'
<1>1. /\ status = "up" /\ op.step = "save"
      /\ UNCHANGED <<status, route, target, made, visit, health, activity, audit, auditFile,
                     current, due, orphaned, doubtful, told, log>>
  BY DEF Save, At, records
<1>2. /\ op \in Operation /\ op # Idle /\ op.name \in {"create", "enable", "delete"}
      /\ op.new \in Route \cup {NoRoute} /\ route \in Route \cup {NoRoute} /\ saved \in Route \cup {NoRoute}
      /\ op.name = "create" => /\ op.prev = NoRoute /\ op.new \in Route /\ route = op.new
                               /\ op.new.born = made /\ target = made /\ (saved # NoRoute => torn)
      /\ op.name = "enable" => NoRoute \notin {op.prev, op.new, route}
      /\ op.name = "delete" => op.new = NoRoute /\ op.prev # NoRoute /\ route = NoRoute /\ (target = 0 => torn)
  BY <1>1, OpFields DEF IInv, TypeOK, OpInv
<1>3. PICK outcome \in Outcomes :
        /\ saved' = IF outcome = "before" THEN saved ELSE route
        /\ torn' = CASE op.name = "create" /\ outcome = "after" -> TRUE
                     [] op.name \in {"create", "delete"} /\ outcome = "ok" -> FALSE
                     [] OTHER -> torn
        /\ IF outcome # "ok" THEN GoTo("undo")
           ELSE IF op.name = "delete" THEN GoTo("clear") ELSE Release
  BY DEF Save
<1>4. outcome \in {"ok", "before", "after"}
  BY LimitsAssumption DEF Outcomes
<1>5. /\ op.name = "create" /\ outcome = "after" => torn' = TRUE
      /\ op.name \in {"create", "delete"} /\ outcome = "ok" => torn' = FALSE
      /\ op.name = "enable" \/ outcome = "before" \/ (op.name = "delete" /\ outcome = "after") => torn' = torn
  BY <1>3
<1>6. saved' = (IF outcome = "before" THEN saved ELSE route) /\ saved' \in Route \cup {NoRoute}
  BY <1>2, <1>3
<1>7. torn' \in BOOLEAN
  BY <1>2, <1>4, <1>5 DEF IInv, TypeOK
<1>8. /\ outcome # "ok" => /\ op' \in Operation /\ op' # Idle /\ op'.step = "undo"
                           /\ op'.name = op.name /\ op'.new = op.new /\ op'.prev = op.prev
      /\ outcome = "ok" /\ op.name = "delete" =>
                           /\ op' \in Operation /\ op' # Idle /\ op'.step = "clear"
                           /\ op'.name = op.name /\ op'.new = op.new /\ op'.prev = op.prev
      /\ outcome = "ok" /\ op.name # "delete" => op' = Idle /\ op'.name = "none" /\ op'.step = "idle"
  <2>1. ASSUME outcome # "ok"
        PROVE  /\ op' \in Operation /\ op' # Idle /\ op'.step = "undo"
               /\ op'.name = op.name /\ op'.new = op.new /\ op'.prev = op.prev
    BY <1>2, <1>3, <2>1, OpGoes DEF Steps
  <2>2. ASSUME outcome = "ok", op.name = "delete"
        PROVE  /\ op' \in Operation /\ op' # Idle /\ op'.step = "clear"
               /\ op'.name = op.name /\ op'.new = op.new /\ op'.prev = op.prev
    BY <1>2, <1>3, <2>2, OpGoes DEF Steps
  <2>3. ASSUME outcome = "ok", op.name # "delete" PROVE op' = Idle /\ op'.name = "none" /\ op'.step = "idle"
    BY <1>3, <2>3, OpEnds
  <2> QED BY <2>1, <2>2, <2>3
<1>9. made \in Nat /\ target \in Nat /\ (op.name = "create" => target # 0 /\ op.new # NoRoute)
  BY <1>2, LimitsAssumption, MarkersAssumption DEF IInv, TypeOK, Route
<1>10. TypeOK'
  BY <1>1, <1>4, <1>6, <1>7, <1>8 DEF IInv, TypeOK
<1>11. OpInv'
  <2>1. CASE op.name = "create"
    BY <1>1, <1>2, <1>4, <1>5, <1>6, <1>8, <1>9, <2>1 DEF OpInv
  <2>2. CASE op.name = "enable"
    BY <1>1, <1>2, <1>4, <1>5, <1>6, <1>8, <2>2 DEF OpInv
  <2>3. CASE op.name = "delete"
    BY <1>1, <1>2, <1>4, <1>5, <1>6, <1>8, <2>3 DEF OpInv
  <2> QED BY <1>2, <2>1, <2>2, <2>3
<1>12. StoreInv'
  <2>1. CASE op.name = "create"
    BY <1>1, <1>2, <1>4, <1>5, <1>6, <1>8, <1>9, <2>1 DEF IInv, StoreInv
  <2>2. CASE op.name = "enable"
    BY <1>1, <1>2, <1>4, <1>5, <1>6, <1>8, <2>2 DEF IInv, StoreInv
  <2>3. CASE op.name = "delete"
    BY <1>1, <1>2, <1>4, <1>5, <1>6, <1>8, <2>3 DEF IInv, StoreInv
  <2> QED BY <1>2, <2>1, <2>2, <2>3
<1>13. OrderInv'
  BY <1>1 DEF IInv, OrderInv
<1>14. HealthInv'
  BY <1>1, <1>2, <1>4, <1>8, <1>9 DEF IInv, HealthInv
<1>15. RecordInv' /\ \A v \in Visitors : VisitInv(v)'
  BY <1>1, RecordsStay, VisitsStay DEF IInv
<1> QED BY <1>10, <1>11, <1>12, <1>13, <1>14, <1>15 DEF IInv

\* Rolling back.
LEMMA UndoKeeps ==
    ASSUME IInv, Undo
    PROVE  IInv'
<1>1. /\ status = "up" /\ op.step = "undo" /\ route' = op.prev
      /\ UNCHANGED <<status, saved, target, made, visit, health, activity, audit, auditFile,
                     current, due, torn, told, log>>
  BY DEF Undo, At, records
<1>2. /\ op \in Operation /\ op # Idle /\ op.name \in {"create", "enable", "delete"}
      /\ op.prev \in Route \cup {NoRoute}
      /\ op.name = "create" => op.prev = NoRoute /\ op.new \in Route /\ (saved # NoRoute => torn)
      /\ op.name = "enable" => NoRoute \notin {op.prev, op.new, route}
      /\ op.name = "delete" => op.new = NoRoute /\ op.prev # NoRoute /\ route = NoRoute /\ (target = 0 => torn)
  BY <1>1, OpFields DEF IInv, TypeOK, OpInv
<1>3. TestsInFlight \subseteq Visitors /\ Shown \subseteq Visitors
  BY MarkersAssumption DEF TestsInFlight, Shown, Health, IInv, TypeOK
<1>4. RecordInv'
  BY <1>1, RecordsStay DEF IInv
<1>5. OrderInv'
  BY <1>1 DEF IInv, OrderInv
<1>6. CASE op.name = "create"
  <2>1. /\ op' \in Operation /\ op' # Idle /\ op'.step = "unput"
        /\ op'.name = op.name /\ op'.new = op.new /\ op'.prev = op.prev
    BY <1>2, <1>6, OpGoes DEF Undo, Steps
  <2>2. /\ orphaned' = orphaned \cup {v \in Visitors : InFlight(v)}
        /\ doubtful' = doubtful \cup TestsInFlight \cup Shown
    BY <1>6 DEF Undo
  <2>3. TypeOK'
    BY <1>1, <1>2, <1>3, <2>1, <2>2 DEF IInv, TypeOK
  <2>4. OpInv' /\ StoreInv'
    BY <1>1, <1>2, <1>6, <2>1 DEF IInv, OpInv, StoreInv
  <2>5. HealthInv'
    BY <1>1, <2>2 DEF HealthInv, Shown
  <2>6. ASSUME NEW v \in Visitors PROVE VisitInv(v)'
    <3>1. VisitInv(v) /\ (InFlight(v)' <=> InFlight(v))
      BY <1>1 DEF IInv, InFlight
    <3>2. InFlight(v) => v \in orphaned' /\ (visit[v].kind = "test" => v \in doubtful')
      BY <2>2 DEF TestsInFlight
    <3> QED BY <1>1, <2>2, <3>1, <3>2 DEF VisitInv
  <2> QED BY <1>4, <1>5, <2>3, <2>4, <2>5, <2>6 DEF IInv
<1>7. CASE op.name # "create"
  <2>1. op' = Idle /\ op'.name = "none" /\ op'.step = "idle"
    BY <1>7, OpEnds DEF Undo
  <2>2. UNCHANGED <<orphaned, doubtful>> /\ route' # NoRoute
    BY <1>1, <1>2, <1>7 DEF Undo
  <2>3. TypeOK'
    BY <1>1, <1>2, <2>1, <2>2 DEF IInv, TypeOK
  <2>4. OpInv' /\ StoreInv'
    BY <1>1, <1>2, <1>7, <2>1, <2>2 DEF IInv, OpInv, StoreInv
  <2>5. HealthInv'
    BY <1>1, <2>1, <2>2 DEF IInv, HealthInv
  <2>6. ASSUME NEW v \in Visitors PROVE VisitInv(v)'
    <3>1. VisitInv(v) /\ (InFlight(v)' <=> InFlight(v))
      BY <1>1 DEF IInv, InFlight
    <3> QED BY <1>1, <2>2, <3>1 DEF VisitInv
  <2> QED BY <1>4, <1>5, <2>3, <2>4, <2>5, <2>6 DEF IInv
<1> QED BY <1>6, <1>7

\* Deleting the target.
LEMMA RemoveTargetKeeps ==
    ASSUME IInv, RemoveTarget
    PROVE  IInv'
<1>1. /\ status = "up" /\ op.step \in {"unput", "unlink"}
      /\ UNCHANGED <<status, route, saved, made, visit, health, activity, audit, auditFile,
                     current, due, orphaned, doubtful, torn, told, log>>
  BY DEF RemoveTarget, At, records, history
<1>2. target' \in {target, 0} /\ op' = Idle /\ op'.name = "none" /\ op'.step = "idle"
  BY OpEnds DEF RemoveTarget, DeleteTarget
<1>3. /\ op # Idle /\ op.name \in {"create", "delete"} /\ route = NoRoute
      /\ op.name = "create" => (saved # NoRoute => torn)
      /\ op.name = "delete" => saved = NoRoute
  BY <1>1, OpFields DEF IInv, TypeOK, OpInv
<1>4. MaxTarget \in Nat /\ made \in Nat
  BY LimitsAssumption DEF IInv, TypeOK
<1>5. TypeOK'
  BY <1>1, <1>2, <1>4 DEF IInv, TypeOK
<1>6. OpInv' /\ StoreInv'
  BY <1>1, <1>2, <1>3 DEF IInv, OpInv, StoreInv
<1>7. OrderInv'
  BY <1>1, <1>2, <1>4 DEF IInv, OrderInv
<1>8. HealthInv'
  BY <1>1, <1>2, <1>3 DEF IInv, HealthInv
<1>9. ASSUME NEW v \in Visitors PROVE VisitInv(v)'
  <2>1. VisitInv(v) /\ (InFlight(v)' <=> InFlight(v))
    BY <1>1 DEF IInv, InFlight
  <2> QED BY <1>1, <1>3, <2>1 DEF VisitInv
<1>10. RecordInv'
  BY <1>1, RecordsStay DEF IInv
<1> QED BY <1>5, <1>6, <1>7, <1>8, <1>9, <1>10 DEF IInv

\* clearRouteHealth forgets the health before the lock is released.
LEMMA ClearKeeps ==
    ASSUME IInv, clearRouteHealth
    PROVE  IInv'
<1>1. /\ status = "up" /\ op.step = "clear" /\ health' = NoHealth
      /\ current' = IF op.name = "retarget" THEN target ELSE 0
      /\ doubtful' = TestsInFlight \cap doubtful
      /\ UNCHANGED <<status, route, saved, target, made, visit, activity, audit, auditFile,
                     due, orphaned, torn, told, log>>
  BY DEF clearRouteHealth, At
<1>2. /\ op \in Operation /\ op # Idle /\ op.name \in {"retarget", "delete"}
      /\ op.name = "retarget" => route # NoRoute
      /\ op.name = "delete" => op.new = NoRoute /\ op.prev # NoRoute /\ route = NoRoute /\ saved = NoRoute
  BY <1>1, OpFields DEF IInv, TypeOK, OpInv
<1>3. /\ op.name = "delete" => /\ op' \in Operation /\ op' # Idle /\ op'.step = "unlink"
                               /\ op'.name = op.name /\ op'.new = op.new /\ op'.prev = op.prev
      /\ op.name # "delete" => op' = Idle /\ op'.name = "none" /\ op'.step = "idle"
  <2>1. ASSUME op.name = "delete"
        PROVE  /\ op' \in Operation /\ op' # Idle /\ op'.step = "unlink"
               /\ op'.name = op.name /\ op'.new = op.new /\ op'.prev = op.prev
    BY <1>2, <2>1, OpGoes DEF clearRouteHealth, Steps
  <2>2. ASSUME op.name # "delete" PROVE op' = Idle /\ op'.name = "none" /\ op'.step = "idle"
    BY <2>2, OpEnds DEF clearRouteHealth
  <2> QED BY <2>1, <2>2
<1>4. MaxTarget \in Nat /\ made \in Nat /\ target \in Nat /\ current' \in 0..MaxTarget
  BY <1>1, LimitsAssumption DEF IInv, TypeOK
<1>5. TypeOK'
  BY <1>1, <1>3, <1>4 DEF IInv, TypeOK
<1>6. OpInv' /\ StoreInv'
  BY <1>1, <1>2, <1>3 DEF IInv, OpInv, StoreInv
<1>7. OrderInv'
  BY <1>1, <1>4 DEF IInv, OrderInv
<1>8. HealthInv'
  BY <1>1 DEF HealthInv
<1>9. ASSUME NEW v \in Visitors PROVE VisitInv(v)'
  <2>1. VisitInv(v) /\ (InFlight(v)' <=> InFlight(v))
    BY <1>1 DEF IInv, InFlight
  <2>2. InFlight(v) /\ visit[v].kind = "test" /\ v \notin doubtful' => v \notin doubtful
    BY <1>1 DEF TestsInFlight
  <2> QED BY <1>1, <2>1, <2>2 DEF VisitInv
<1>10. RecordInv'
  BY <1>1, RecordsStay DEF IInv
<1> QED BY <1>5, <1>6, <1>7, <1>8, <1>9, <1>10 DEF IInv

-----------------------------------------------------------------------------
(* The visitors.                                                           *)

RecordTypes ==
    /\ {activity, audit, auditFile, told} \subseteq Seq(Visitors)
    /\ {Len(audit), Len(auditFile)} \subseteq 0..AuditLimit /\ Len(activity) <= ActivityLimit
    /\ log \in Seq([by: Visitors, acknowledged: BOOLEAN])

\* A visitor's step is its own: the store and the other visitors stay as they are.
LEMMA VisitorKeeps ==
    ASSUME IInv, NEW v \in Visitors, NEW x \in Visit \cup {NotYet, Gone}, visit' = [visit EXCEPT ![v] = x],
           NEW k \in 0..MaxTarget, due' = [due EXCEPT ![v] = k], k <= made, target # 0 => k <= target,
           \A w \in Visitors \ {v} : w \in orphaned => w \in orphaned',
           \A w \in Visitors \ {v} : w \in doubtful => w \in doubtful',
           orphaned' \cup doubtful' \subseteq Visitors,
           UNCHANGED <<status, store, current, torn>>,
           health' \in Health \cup {NoHealth}, status = "up",
           visit'[v] = x /\ due'[v] = k => VisitInv(v)',
           HealthInv', RecordTypes', RecordInv'
    PROVE  IInv'
<1>1. visit \in [Visitors -> Visit \cup {NotYet, Gone}] /\ due \in [Visitors -> 0..MaxTarget]
  BY DEF IInv, TypeOK
<1>2. /\ visit' \in [Visitors -> Visit \cup {NotYet, Gone}] /\ visit'[v] = x
      /\ \A w \in Visitors \ {v} : visit'[w] = visit[w]
  BY <1>1
<1>3. /\ due' \in [Visitors -> 0..MaxTarget] /\ due'[v] = k
      /\ \A w \in Visitors \ {v} : due'[w] = due[w]
  BY <1>1
<1>4. UNCHANGED <<status, route, saved, target, made, op, current, torn>>
  BY DEF store
<1>5. TypeOK'
  BY <1>2, <1>3, <1>4, SMTT(30) DEF IInv, TypeOK, RecordTypes
<1>6. OpInv' /\ StoreInv'
  BY <1>4 DEF IInv, OpInv, StoreInv
<1>7. OrderInv'
  BY <1>3, <1>4 DEF IInv, OrderInv
<1>8. ASSUME NEW w \in Visitors PROVE VisitInv(w)'
  <2>1. CASE w = v
    BY <1>2, <1>3, <2>1
  <2>2. CASE w # v
    <3>1. VisitInv(w) /\ visit'[w] = visit[w] /\ due'[w] = due[w]
          /\ (w \in orphaned => w \in orphaned') /\ (w \in doubtful => w \in doubtful')
      BY <1>2, <1>3, <2>2 DEF IInv
    <3> QED BY <1>4, <3>1 DEF VisitInv, InFlight
  <2> QED BY <2>1, <2>2
<1> QED BY <1>5, <1>6, <1>7, <1>8 DEF IInv

\* As long as it is not recorded, the visitor leaves the lists alone.
LEMMA UnrecordedKeeps ==
    ASSUME IInv, NEW v \in Visitors, NEW x \in Visit, visit' = [visit EXCEPT ![v] = x], status = "up",
           UNCHANGED <<status, store, records, history>>, visit'[v] = x => VisitInv(v)'
    PROVE  IInv'
<1>1. /\ due \in [Visitors -> 0..MaxTarget] /\ orphaned \cup doubtful \subseteq Visitors
      /\ health \in Health \cup {NoHealth} /\ RecordTypes
  BY DEF IInv, TypeOK, RecordTypes
<1>2. /\ UNCHANGED <<status, store, current, torn>>
      /\ UNCHANGED <<activity, audit, auditFile, told, log>> /\ UNCHANGED <<op, route, target>>
      /\ UNCHANGED <<due, orphaned, doubtful, health>>
  BY DEF records, history, store
<1>3. PICK k : k = due[v]
  OBVIOUS
<1>4. k \in 0..MaxTarget /\ due' = [due EXCEPT ![v] = k] /\ k <= made /\ (target # 0 => k <= target)
  BY <1>1, <1>2, <1>3 DEF IInv, OrderInv
<1>5. HealthInv' /\ RecordTypes' /\ RecordInv'
  <2>1. RecordInv'
    BY <1>2, RecordsStay DEF IInv
  <2> QED BY <1>1, <1>2, <2>1 DEF IInv, HealthInv, RecordTypes
<1> QED BY <1>1, <1>2, <1>4, <1>5, VisitorKeeps

\* A visitor reads the route.
LEMMA LookupKeeps ==
    ASSUME IInv, NEW v \in Visitors, NEW kind \in Kinds, Lookup(v, kind)
    PROVE  IInv'
<1>1. PICK x : x = [kind |-> kind, step |-> "resolve", target |-> 0, result |-> "pending"]
  OBVIOUS
<1>2. /\ status = "up" /\ route # NoRoute
      /\ visit' = [visit EXCEPT ![v] = x]
      /\ due' = [due EXCEPT ![v] = current]
      /\ orphaned' = IF torn THEN orphaned \cup {v} ELSE orphaned
      /\ UNCHANGED <<status, store, current, torn>>
      /\ UNCHANGED <<activity, audit, auditFile, told, log>> /\ UNCHANGED <<op, route, target>>
      /\ UNCHANGED <<doubtful, health>>
  BY <1>1 DEF Lookup, records, store
<1>3. x \in Visit /\ x.step = "resolve" /\ x.target = 0 /\ x.result = "pending"
  BY <1>1, LimitsAssumption DEF Visit
<1>4. /\ orphaned \cup doubtful \subseteq Visitors
      /\ health \in Health \cup {NoHealth} /\ RecordTypes
      /\ current \in 0..MaxTarget /\ current <= made /\ (target # 0 => current <= target)
  BY DEF IInv, TypeOK, RecordTypes, OrderInv
<1>5. HealthInv' /\ RecordTypes' /\ RecordInv'
  <2>1. RecordInv'
    BY <1>2, RecordsStay DEF IInv
  <2> QED BY <1>2, <1>4, <2>1 DEF IInv, HealthInv, RecordTypes
<1>6. orphaned' \cup doubtful' \subseteq Visitors /\ orphaned \subseteq orphaned' /\ doubtful' = doubtful
  BY <1>2, <1>4
<1>7. ASSUME visit'[v] = x PROVE VisitInv(v)'
  <2>1. target = 0 => v \in orphaned'
    BY <1>2 DEF IInv, StoreInv
  <2> QED BY <1>2, <1>3, <1>7, <2>1 DEF VisitInv, InFlight
<1>8. PICK k \in 0..MaxTarget : k = current
  BY <1>4
<1>9. due' = [due EXCEPT ![v] = k] /\ k <= made /\ (target # 0 => k <= target)
  BY <1>2, <1>4, <1>8
<1> QED BY <1>2, <1>3, <1>4, <1>5, <1>6, <1>7, <1>9, VisitorKeeps

\* A visitor resolves its target and talks to it.
LEMMA TalksKeep ==
    ASSUME IInv, NEW v \in Visitors, testProxyHealth(v) \/ ResolveTarget(v) \/ Contact(v)
    PROVE  IInv'
<1>1. visit \in [Visitors -> Visit \cup {NotYet, Gone}] /\ VisitInv(v) /\ MaxTarget \in Nat
      /\ target \in 0..MaxTarget /\ (target # 0 => due[v] <= target)
  BY LimitsAssumption DEF IInv, TypeOK, OrderInv
<1>2. CASE testProxyHealth(v)
  <2>1. PICK result \in {"allowed", "failed"} :
          visit' = [visit EXCEPT ![v] = [kind |-> "proxy", step |-> "record", target |-> 0, result |-> result]]
    BY <1>2 DEF testProxyHealth
  <2>2. PICK x : x = [kind |-> "proxy", step |-> "record", target |-> 0, result |-> result]
    OBVIOUS
  <2>3. x \in Visit /\ x.step = "record" /\ x.target = 0 /\ x.result # "missing" /\ visit' = [visit EXCEPT ![v] = x]
    BY <1>1, <2>1, <2>2 DEF Visit, Kinds
  <2>4. ASSUME visit'[v] = x PROVE VisitInv(v)'
    BY <2>3, <2>4 DEF VisitInv, InFlight
  <2> QED BY <1>2, <2>3, <2>4, UnrecordedKeeps DEF testProxyHealth
<1>3. PICK y : y = visit[v]
  OBVIOUS
<1>4. CASE ResolveTarget(v)
  <2>1. y \in Visit /\ y.step = "resolve" /\ InFlight(v) /\ status = "up" /\ y.kind \in Kinds
        /\ UNCHANGED <<status, store, records, history>>
    BY <1>1, <1>3, <1>4, VisitFields DEF ResolveTarget, InFlight
  <2>2. UNCHANGED <<due, orphaned, doubtful, route, target, status>>
    BY <2>1 DEF store, history
  <2>3. PICK a \in {"health", "record"} : a = AfterContact(v) /\ (a = "health" => y.kind = "test")
    BY <1>3 DEF AfterContact
  <2>4. PICK readable \in BOOLEAN :
          visit' = [visit EXCEPT ![v] =
            IF target = 0 THEN [y EXCEPT !.step = a, !.result = "missing"]
            ELSE IF ~readable THEN [y EXCEPT !.step = a, !.result = "failed"]
            ELSE [y EXCEPT !.step = "contact", !.target = target]]
    BY <1>1, <1>3, <1>4, <2>3 DEF ResolveTarget
  <2>5. CASE target = 0
    <3>1. PICK x : x = [y EXCEPT !.step = a, !.result = "missing"]
      OBVIOUS
    <3>2. x \in Visit /\ x.step = a /\ x.result = "missing" /\ x.target = y.target /\ x.kind = y.kind
      BY <2>1, <3>1 DEF Visit
    <3>3. visit' = [visit EXCEPT ![v] = x]
      BY <2>4, <2>5, <3>1
    <3>4. v \in orphaned
      BY <1>1, <1>3, <2>1, <2>5 DEF VisitInv
    <3>5. ASSUME visit'[v] = x PROVE VisitInv(v)'
      BY <1>1, <1>3, <2>1, <2>2, <2>3, <2>5, <3>2, <3>4, <3>5 DEF VisitInv, InFlight
    <3> QED BY <2>1, <3>2, <3>3, <3>5, UnrecordedKeeps
  <2>6. CASE target # 0 /\ ~readable
    <3>1. PICK x : x = [y EXCEPT !.step = a, !.result = "failed"]
      OBVIOUS
    <3>2. x \in Visit /\ x.step = a /\ x.result = "failed" /\ x.target = y.target /\ x.kind = y.kind
      BY <2>1, <3>1 DEF Visit
    <3>3. visit' = [visit EXCEPT ![v] = x]
      BY <2>4, <2>6, <3>1
    <3>4. ASSUME visit'[v] = x PROVE VisitInv(v)'
      BY <1>1, <1>3, <2>1, <2>2, <2>3, <3>2, <3>4 DEF VisitInv, InFlight
    <3> QED BY <2>1, <3>2, <3>3, <3>4, UnrecordedKeeps
  <2>7. CASE target # 0 /\ readable
    <3>1. PICK x : x = [y EXCEPT !.step = "contact", !.target = target]
      OBVIOUS
    <3>2. x \in Visit /\ x.step = "contact" /\ x.result = y.result /\ x.target = target /\ x.kind = y.kind
      BY <1>1, <2>1, <3>1 DEF Visit
    <3>3. visit' = [visit EXCEPT ![v] = x]
      BY <2>4, <2>7, <3>1
    <3>4. ASSUME visit'[v] = x PROVE VisitInv(v)'
      BY <1>1, <1>3, <2>1, <2>2, <2>7, <3>2, <3>4 DEF VisitInv, InFlight
    <3> QED BY <2>1, <3>2, <3>3, <3>4, UnrecordedKeeps
  <2> QED BY <2>5, <2>6, <2>7
<1>5. CASE Contact(v)
  <2>1. y \in Visit /\ y.step = "contact" /\ InFlight(v) /\ status = "up"
        /\ UNCHANGED <<status, store, records, history>>
    BY <1>1, <1>3, <1>5, VisitFields DEF Contact, InFlight
  <2>2. UNCHANGED <<due, orphaned, doubtful, route, target, status>>
    BY <2>1 DEF store, history
  <2>3. PICK a \in {"health", "record"} : a = AfterContact(v) /\ (a = "health" => y.kind = "test")
    BY <1>3 DEF AfterContact
  <2>4. PICK result \in {"allowed", "failed"} : visit' = [visit EXCEPT ![v].step = a, ![v].result = result]
    BY <1>5, <2>3 DEF Contact
  <2>5. PICK x : x = [y EXCEPT !.step = a, !.result = result]
    OBVIOUS
  <2>6. x \in Visit /\ x.step = a /\ x.result = result /\ x.target = y.target /\ x.kind = y.kind
    BY <2>1, <2>5 DEF Visit
  <2>7. visit' = [visit EXCEPT ![v] = x]
    BY <1>1, <1>3, <2>4, <2>5
  <2>8. ASSUME visit'[v] = x PROVE VisitInv(v)'
    BY <1>1, <1>3, <2>1, <2>2, <2>3, <2>6, <2>8 DEF VisitInv, InFlight
  <2> QED BY <2>1, <2>6, <2>7, <2>8, UnrecordedKeeps
<1> QED BY <1>2, <1>4, <1>5

\* A test stores what it found.
LEMMA HealthKeeps ==
    ASSUME IInv, NEW v \in Visitors, setRouteHealth(v)
    PROVE  IInv'
<1>1. PICK y : y = visit[v]
  OBVIOUS
<1>2. visit \in [Visitors -> Visit \cup {NotYet, Gone}] /\ VisitInv(v) /\ due \in [Visitors -> 0..MaxTarget]
      /\ orphaned \cup doubtful \subseteq Visitors /\ RecordTypes
  BY DEF IInv, TypeOK, RecordTypes
<1>3. y \in Visit /\ y.step = "health" /\ InFlight(v) /\ status = "up" /\ y.target \in 0..MaxTarget
  BY <1>1, <1>2, VisitFields DEF setRouteHealth, InFlight
<1>4. /\ UNCHANGED <<status, store, current, torn>> /\ UNCHANGED <<op, route, target>>
      /\ UNCHANGED <<activity, audit, auditFile, told, log>> /\ UNCHANGED <<due, orphaned, doubtful>>
  BY DEF setRouteHealth, store, history
<1>5. health' \in Health /\ health'.of = y.target /\ health'.by = v
  BY <1>1, <1>3 DEF setRouteHealth, Health
<1>6. PICK x : x = [y EXCEPT !.step = "record"]
  OBVIOUS
<1>7. x \in Visit /\ x.step = "record" /\ x.result = y.result /\ x.target = y.target /\ x.kind = y.kind
  BY <1>3, <1>6 DEF Visit
<1>8. visit' = [visit EXCEPT ![v] = x]
  BY <1>1, <1>2, <1>6 DEF setRouteHealth
<1>9. ASSUME visit'[v] = x PROVE VisitInv(v)'
  BY <1>1, <1>2, <1>3, <1>4, <1>7, <1>9 DEF VisitInv, InFlight
<1>10. HealthInv'
  <2>1. v \notin doubtful => route # NoRoute /\ y.target \in {0, target}
    BY <1>1, <1>2, <1>3 DEF VisitInv
  <2> QED BY <1>4, <1>5, <2>1 DEF HealthInv
<1>11. RecordTypes' /\ RecordInv'
  <2>1. RecordInv'
    BY <1>4, RecordsStay DEF IInv
  <2> QED BY <1>2, <1>4, <2>1 DEF RecordTypes
<1>12. PICK k : k = due[v]
  OBVIOUS
<1>13. k \in 0..MaxTarget /\ due' = [due EXCEPT ![v] = k] /\ k <= made /\ (target # 0 => k <= target)
  BY <1>2, <1>4, <1>12 DEF IInv, OrderInv
<1> QED BY <1>2, <1>3, <1>4, <1>5, <1>7, <1>8, <1>9, <1>10, <1>11, <1>13, VisitorKeeps

\* A visitor that was recorded leaves nothing behind but what it reported.
LEMMA DoneKeeps ==
    ASSUME IInv, NEW v \in Visitors, Done(v), status = "up", RecordTypes', RecordInv',
           UNCHANGED <<status, store, health, current, torn>>
    PROVE  IInv'
<1>1. orphaned \cup doubtful \subseteq Visitors /\ made \in Nat /\ target \in Nat /\ health \in Health \cup {NoHealth}
      /\ MaxTarget \in Nat
  BY LimitsAssumption DEF IInv, TypeOK
<1>2. /\ visit' = [visit EXCEPT ![v] = Gone] /\ due' = [due EXCEPT ![v] = 0]
      /\ orphaned' = orphaned \ {v} /\ doubtful' = doubtful \ ({v} \ Shown)
  BY DEF Done
<1>3. HealthInv'
  <2>1. health # NoHealth /\ health.by \notin doubtful' => health.by \notin doubtful
    BY <1>2 DEF Shown
  <2>2. UNCHANGED <<health, op, route, target>>
    BY DEF store
  <2> QED BY <2>1, <2>2 DEF IInv, HealthInv
<1>4. ASSUME visit'[v] = Gone PROVE VisitInv(v)'
  <2>1. Gone.step = "done"
    BY DEF Gone
  <2> QED BY <1>4, <2>1 DEF VisitInv, InFlight
<1>5. /\ \A w \in Visitors \ {v} : w \in orphaned => w \in orphaned'
      /\ \A w \in Visitors \ {v} : w \in doubtful => w \in doubtful'
      /\ orphaned' \cup doubtful' \subseteq Visitors
  BY <1>1, <1>2
<1>6. 0 \in 0..MaxTarget /\ 0 <= made /\ (target # 0 => 0 <= target) /\ health' = health
  BY <1>1
<1> QED BY <1>1, <1>2, <1>3, <1>4, <1>5, <1>6, VisitorKeeps

\* An activity is recorded.
LEMMA ActivityKeeps ==
    ASSUME IInv, NEW v \in Visitors, RecordActivity(v)
    PROVE  IInv'
<1>1. /\ Done(v) /\ status = "up"
      /\ activity' = Newest(Append(activity, v), ActivityLimit)
      /\ told' = Remember(told, v, ActivityLimit)
      /\ UNCHANGED <<status, store, health, current, torn>> /\ UNCHANGED <<audit, auditFile, log>>
  BY DEF RecordActivity
<1>2. /\ activity \in Seq(Visitors) /\ Len(activity) <= ActivityLimit /\ activity = told
      /\ ActivityLimit \in Nat \ {0} /\ RecordTypes
  BY LimitsAssumption DEF IInv, TypeOK, RecordInv, RecordTypes
<1>3. PICK r : r = Remember(activity, v, ActivityLimit)
  OBVIOUS
<1>4. Newest(Append(activity, v), ActivityLimit) = r /\ r \in Seq(Visitors) /\ Len(r) <= ActivityLimit
  <2>1. PICK s \in Seq(Visitors) : s = activity
    BY <1>2
  <2>2. Newest(Append(s, v), ActivityLimit) = r /\ r \in Seq(Visitors) /\ Len(r) <= ActivityLimit
    BY <1>2, <1>3, <2>1, TrimmedList
  <2> QED BY <2>1, <2>2
<1>5. activity' = r /\ told' = r
  BY <1>1, <1>2, <1>3, <1>4
<1>6. RecordTypes'
  BY <1>1, <1>2, <1>4, <1>5 DEF RecordTypes
<1>7. RecordInv'
  BY <1>1, <1>5 DEF IInv, RecordInv, Tracks, TracksIn
<1> QED BY <1>1, <1>6, <1>7, DoneKeeps

\* A command is recorded in memory and on disk.
LEMMA CommandKeeps ==
    ASSUME IInv, NEW v \in Visitors, RecordCommand(v)
    PROVE  IInv'
<1> DEFINE R == [by: Visitors, acknowledged: BOOLEAN]
<1>1. PICK list : list = audit
  OBVIOUS
<1>2. PICK updated : updated = Newest(Append(list, v), AuditLimit)
  OBVIOUS
<1>3. PICK entries : entries = log
  OBVIOUS
<1>4. /\ Done(v) /\ status = "up"
      /\ UNCHANGED <<status, store, health, current, torn>> /\ UNCHANGED <<activity, told>>
  BY DEF RecordCommand
<1>5. /\ list \in Seq(Visitors) /\ Len(list) <= AuditLimit /\ AuditLimit \in Nat \ {0}
      /\ entries \in Seq(R) /\ Len(entries) <= AuditLimit /\ TracksIn(list, entries)
      /\ auditFile \in Seq(Visitors) /\ TracksIn(auditFile, log) /\ RecordTypes /\ activity = told
  BY <1>1, <1>3, <1>4, LimitsAssumption DEF IInv, TypeOK, RecordInv, RecordTypes, Tracks
<1>6. PICK outcome \in Outcomes :
        /\ auditFile' = IF outcome = "before" THEN auditFile ELSE updated
        /\ audit' = IF outcome = "ok" THEN updated ELSE audit
        /\ log' = IF outcome = "before" THEN log
                  ELSE Remember(log, [by |-> v, acknowledged |-> outcome = "ok"], AuditLimit)
  BY <1>1, <1>2 DEF RecordCommand
<1>7. outcome \in {"ok", "before", "after"}
  BY LimitsAssumption DEF Outcomes
<1>8. updated \in Seq(Visitors) /\ Len(updated) \in 0..AuditLimit
  <2>1. PICK r : r = Remember(list, v, AuditLimit)
    OBVIOUS
  <2>2. Newest(Append(list, v), AuditLimit) = r /\ r \in Seq(Visitors) /\ Len(r) <= AuditLimit
    BY <1>5, <2>1, TrimmedList
  <2>3. Len(r) \in Nat
    BY <2>2, LenProperties
  <2> QED BY <1>2, <1>5, <2>2, <2>3
<1>9. PICK ack \in BOOLEAN : ack = (outcome = "ok")
  OBVIOUS
<1>10. PICK e : e = [by |-> v, acknowledged |-> ack]
  OBVIOUS
<1>11. e \in R /\ e.by = v /\ e.acknowledged = ack
  BY <1>10
<1>12. PICK more : more = Remember(entries, e, AuditLimit)
  OBVIOUS
<1>13. more \in Seq(R) /\ Len(more) <= AuditLimit
  <2>1. PICK Q : Q = R
    OBVIOUS
  <2> HIDE DEF R
  <2>2. more \in Seq(Q) /\ Len(more) <= AuditLimit
    BY <1>5, <1>11, <1>12, <2>1, TrimmedList
  <2> QED BY <2>1, <2>2
<1>14. TracksIn(updated, more)
  <2>1. PICK Q : Q = R
    OBVIOUS
  <2>2. TracksIn(Newest(Append(list, e.by), AuditLimit), Remember(entries, e, AuditLimit))
    BY <1>5, <1>11, <2>1, TracksWithNew
  <2> QED BY <1>2, <1>11, <1>12, <2>2
<1>15. CASE outcome = "before"
  <2>1. UNCHANGED <<status, activity, audit, auditFile, told, log>>
    BY <1>4, <1>6, <1>15
  <2>2. RecordInv' /\ RecordTypes'
    BY <1>5, <2>1, RecordsStay DEF IInv, RecordTypes
  <2> QED BY <1>4, <2>2, DoneKeeps
<1>16. CASE outcome = "ok"
  <2>1. audit' = updated /\ auditFile' = updated
    BY <1>6, <1>16
  <2>2. log' = more
    <3>1. log' = Remember(log, [by |-> v, acknowledged |-> outcome = "ok"], AuditLimit)
      BY <1>6, <1>16
    <3> QED BY <1>3, <1>9, <1>10, <1>12, <3>1
  <2>3. RecordTypes'
    BY <1>4, <1>5, <1>8, <1>13, <2>1, <2>2 DEF RecordTypes
  <2>4. RecordInv'
    BY <1>4, <1>5, <1>13, <1>14, <2>1, <2>2 DEF RecordInv, Tracks
  <2> QED BY <1>4, <2>3, <2>4, DoneKeeps
<1>17. CASE outcome = "after"
  <2>1. audit' = list /\ auditFile' = updated
    BY <1>1, <1>6, <1>17
  <2>2. log' = more
    <3>1. log' = Remember(log, [by |-> v, acknowledged |-> outcome = "ok"], AuditLimit)
      BY <1>6, <1>17
    <3> QED BY <1>3, <1>9, <1>10, <1>12, <3>1
  <2>3. TracksIn(list, more)
    <3>1. PICK Q : Q = R
      OBVIOUS
    <3>2. e.acknowledged = FALSE
      BY <1>9, <1>11, <1>17
    <3> QED BY <1>5, <1>11, <1>12, <3>1, <3>2, TracksWithout
  <2>4. RecordTypes'
    BY <1>1, <1>4, <1>5, <1>8, <1>13, <2>1, <2>2 DEF RecordTypes
  <2>5. RecordInv'
    BY <1>4, <1>5, <1>13, <1>14, <2>1, <2>2, <2>3 DEF RecordInv, Tracks
  <2> QED BY <1>4, <2>4, <2>5, DoneKeeps
<1> QED BY <1>7, <1>15, <1>16, <1>17

-----------------------------------------------------------------------------
(* The process.                                                            *)

\* A crash forgets what is in memory.
LEMMA CrashKeeps ==
    ASSUME IInv, Crash
    PROVE  IInv'
<1>1. /\ status' = "down" /\ route' = NoRoute /\ op' = Idle
      /\ visit' = [v \in Visitors |-> IF visit[v] = NotYet THEN NotYet ELSE Gone]
      /\ due' = [v \in Visitors |-> 0]
      /\ orphaned' = {} /\ doubtful' = {} /\ health' = NoHealth
      /\ activity' = <<>> /\ told' = <<>> /\ audit' = <<>>
      /\ UNCHANGED <<saved, target, made, auditFile, current, torn, log>>
  BY DEF Crash
<1>2. op'.name = "none" /\ op'.step = "idle"
  BY <1>1 DEF Idle
<1>3. MaxTarget \in Nat /\ made \in Nat /\ target \in Nat /\ AuditLimit \in Nat /\ ActivityLimit \in Nat
  BY LimitsAssumption DEF IInv, TypeOK
<1>4. ASSUME NEW v \in Visitors PROVE visit'[v] \in {NotYet, Gone} /\ due'[v] = 0
  BY <1>1
<1>5. TypeOK'
  <2>1. visit' \in [Visitors -> Visit \cup {NotYet, Gone}] /\ due' \in [Visitors -> 0..MaxTarget]
    BY <1>1, <1>3
  <2>2. /\ {activity, audit, auditFile, told}' \subseteq Seq(Visitors)
        /\ {Len(audit), Len(auditFile)}' \subseteq 0..AuditLimit /\ Len(activity)' <= ActivityLimit
    BY <1>1, <1>3, EmptySeq DEF IInv, TypeOK
  <2>3. orphaned' \cup doubtful' \subseteq Visitors
    BY <1>1
  <2> QED BY <1>1, <2>1, <2>2, <2>3 DEF IInv, TypeOK
<1>6. OpInv' /\ StoreInv'
  BY <1>1, <1>2 DEF IInv, OpInv, StoreInv
<1>7. OrderInv'
  BY <1>1, <1>3, <1>4 DEF IInv, OrderInv
<1>8. ASSUME NEW v \in Visitors PROVE VisitInv(v)'
  <2>1. visit'[v].step \in {"idle", "done"}
    BY <1>4 DEF NotYet, Gone
  <2> QED BY <2>1 DEF VisitInv, InFlight
<1>9. HealthInv'
  BY <1>1 DEF HealthInv
<1>10. RecordInv'
  BY <1>1 DEF IInv, RecordInv, Tracks, TracksIn
<1> QED BY <1>5, <1>6, <1>7, <1>8, <1>9, <1>10 DEF IInv

\* A start reads the route and the audit file.
LEMMA StartKeeps ==
    ASSUME IInv, Start
    PROVE  IInv'
<1>1. /\ status = "down" /\ status' = "up" /\ route' = saved /\ audit' = auditFile
      /\ UNCHANGED <<saved, target, made, op, visit, health, activity, auditFile,
                     current, due, orphaned, doubtful, torn, told, log>>
  BY DEF Start, history
<1>2. op = Idle /\ op.name = "none" /\ op.step = "idle" /\ health = NoHealth
  BY <1>1 DEF IInv, StoreInv, Idle
<1>3. TypeOK'
  BY <1>1 DEF IInv, TypeOK
<1>4. OpInv' /\ StoreInv'
  BY <1>1, <1>2 DEF IInv, OpInv, StoreInv
<1>5. OrderInv' /\ HealthInv'
  BY <1>1, <1>2 DEF IInv, OrderInv, HealthInv
<1>6. ASSUME NEW v \in Visitors PROVE VisitInv(v)'
  <2>1. VisitInv(v) /\ ~InFlight(v) /\ ~InFlight(v)'
    BY <1>1 DEF IInv, VisitInv, InFlight
  <2> QED BY <1>1, <2>1 DEF VisitInv, InFlight
<1>7. RecordInv'
  BY <1>1 DEF IInv, RecordInv, Tracks, TracksIn
<1> QED BY <1>3, <1>4, <1>5, <1>6, <1>7 DEF IInv

\* The invariant holds at first.
LEMMA Initial ==
    ASSUME Init
    PROVE  IInv
<1>1. MaxTarget \in Nat /\ AuditLimit \in Nat /\ ActivityLimit \in Nat
  BY LimitsAssumption
<1>2. op.name = "none" /\ op.step = "idle" /\ op = Idle
  BY DEF Init, Idle
<1>3. TypeOK
  <2>1. visit \in [Visitors -> Visit \cup {NotYet, Gone}] /\ due \in [Visitors -> 0..MaxTarget]
    BY <1>1 DEF Init
  <2>2. /\ {activity, audit, auditFile, told} \subseteq Seq(Visitors)
        /\ {Len(audit), Len(auditFile)} \subseteq 0..AuditLimit /\ Len(activity) <= ActivityLimit
        /\ log \in Seq([by: Visitors, acknowledged: BOOLEAN])
    BY <1>1, EmptySeq DEF Init
  <2>3. orphaned \cup doubtful \subseteq Visitors /\ torn \in BOOLEAN
    BY DEF Init
  <2> QED BY <1>1, <2>1, <2>2, <2>3 DEF Init, TypeOK
<1>4. OpInv /\ StoreInv /\ HealthInv
  BY <1>2 DEF Init, OpInv, StoreInv, HealthInv
<1>5. OrderInv
  BY <1>1 DEF Init, OrderInv
<1>6. ASSUME NEW v \in Visitors PROVE VisitInv(v)
  <2>1. visit[v].step = "idle"
    BY DEF Init, NotYet
  <2> QED BY <2>1 DEF VisitInv, InFlight
<1>7. RecordInv
  BY <1>1 DEF Init, RecordInv, Tracks, TracksIn
<1> QED BY <1>3, <1>4, <1>5, <1>6, <1>7 DEF IInv

\* A step that changes nothing keeps it.
LEMMA StutterKeeps ==
    ASSUME IInv, UNCHANGED vars
    PROVE  IInv'
<1>1. UNCHANGED <<status, route, saved, target, made, op, visit, health, activity, audit, auditFile,
                  current, due, orphaned, doubtful, torn, told, log>>
  BY DEF vars, store, records, history
<1>2. TypeOK'
  BY <1>1 DEF IInv, TypeOK
<1>3. OpInv' /\ StoreInv' /\ OrderInv' /\ HealthInv'
  BY <1>1 DEF IInv, OpInv, StoreInv, OrderInv, HealthInv
<1>4. RecordInv' /\ \A v \in Visitors : VisitInv(v)'
  BY <1>1, RecordsStay, VisitsStay DEF IInv
<1> QED BY <1>2, <1>3, <1>4 DEF IInv

\* The invariant holds of every reachable state.
LEMMA Invariance == Spec => []IInv
<1>1. Init => IInv
  BY Initial
<1>2. IInv /\ [Next]_vars => IInv'
  <2>1. SUFFICES ASSUME IInv, Next \/ UNCHANGED vars PROVE IInv'
    OBVIOUS
  <2>2. CASE Mutate
    BY <2>1, <2>2, RequestsKeep, PutKeeps, UpsertKeeps, SaveKeeps, UndoKeeps, RemoveTargetKeeps,
       ClearKeeps DEF Mutate
  <2>3. ASSUME NEW v \in Visitors, Proceed(v) PROVE IInv'
    BY <2>1, <2>3, LookupKeeps, TalksKeep, HealthKeeps, ActivityKeeps, CommandKeeps DEF Proceed
  <2>4. CASE Crash \/ Start
    BY <2>1, <2>4, CrashKeeps, StartKeeps
  <2>5. CASE UNCHANGED vars
    BY <2>1, <2>5, StutterKeeps
  <2> QED BY <2>1, <2>2, <2>3, <2>4, <2>5 DEF Next
<1> QED BY <1>1, <1>2, PTL DEF Spec

-----------------------------------------------------------------------------
(* What the operator can rely on.                                          *)

\* Every variable keeps its type; in particular no list outgrows its limit and the
\* mutators never store more targets than the bound allows.
THEOREM TypeCorrect == Spec => []TypeOK
<1>1. IInv => TypeOK
  BY DEF IInv
<1> QED BY <1>1, Invariance, PTL

\* The health that the route list shows between operations is that of the present
\* target, or comes from a test the history calls doubtful: setRouteHealth stores late
\* results, but only of tests that ran while their route or target changed.
THEOREM HealthIsPresent == Spec => []HealthOfPresentTarget
<1>1. IInv => HealthOfPresentTarget
  <2>1. SUFFICES ASSUME IInv, op = Idle, health # NoHealth, health.by \notin doubtful
                 PROVE  route # NoRoute /\ health.of \in {0, target}
    BY DEF HealthOfPresentTarget
  <2>2. op.name = "none" /\ op.step = "idle"
    BY <2>1, OpFields DEF IInv, TypeOK
  <2> QED BY <2>1, <2>2 DEF IInv, HealthInv
<1> QED BY <1>1, Invariance, PTL

\* Nobody who was let in by the gateways reaches a target that had been replaced or
\* given up before, although the target is read by reference in a later step.
THEOREM TargetsAreNotOlder == Spec => []NeverAnOlderTarget
<1>1. IInv => NeverAnOlderTarget
  <2>1. SUFFICES ASSUME IInv, NEW v \in Visitors, visit[v] \notin {NotYet, Gone}
                 PROVE  /\ visit[v].target # 0 => visit[v].target >= due[v]
                        /\ visit[v].result = "missing" => v \in orphaned
    BY DEF NeverAnOlderTarget
  <2>2. visit[v].step \in {"resolve", "contact", "health", "record"}
    BY <2>1, VisitFields DEF IInv, TypeOK
  <2> QED BY <2>1, <2>2 DEF IInv, VisitInv
<1> QED BY <1>1, Invariance, PTL

\* FileCommandAudit.Record and the trimming lose no acknowledged command before
\* AuditLimit newer ones have reached the file, whatever saves fail and whenever
\* airlockd dies; the activity recorder has exactly the newest events since the start.
THEOREM NewestAreKept == Spec => []RecordsKeepTheNewest
<1>1. IInv => RecordsKeepTheNewest
  <2>1. SUFFICES ASSUME IInv PROVE RecordsKeepTheNewest
    OBVIOUS
  <2>2. TracksIn(auditFile, log) /\ (status = "up" => TracksIn(audit, log)) /\ activity = told
    BY <2>1 DEF IInv, RecordInv, Tracks
  <2>3. ASSUME NEW list, TracksIn(list, log), NEW i \in DOMAIN log, log[i].acknowledged
        PROVE  Holds(list, log[i].by)
    BY <2>3 DEF TracksIn, Holds
  <2>4. \A i \in DOMAIN told : Holds(activity, told[i])
    BY <2>2 DEF Holds
  <2> QED BY <2>2, <2>3, <2>4 DEF RecordsKeepTheNewest
<1> QED BY <1>1, Invariance, PTL

=============================================================================
