------------------------- MODULE HTTPGatewayProofs -------------------------
(***************************************************************************)
(* Proofs about HTTPGateway, for any number of requests, routes, slots and *)
(* limits: the slots and the limiters count exactly who holds them, a      *)
(* limiter keeps to its rate, and the activity log tells what happened.    *)
(***************************************************************************)
EXTENDS HTTPGateway, SequenceTheorems, Counting

-----------------------------------------------------------------------------
(* The rate of a limiter.                                                  *)

\* The admissions that the present window counts.
InWindow(l) == (Len(l.log) - l.requests + 1)..Len(l.log)

\* Of the admissions from the i-th on, those before the present window fill at most n
\* windows, of which the first was not over when the i-th request read the clock.
Windows(l, i, n) ==
    /\ Len(l.log) - l.requests - i + 1 <= n * l.policy.rpm
    /\ n * Minute < l.started - l.log[i].now + Minute

RateOK(l, t) ==
    /\ l.requests <= l.policy.rpm /\ l.requests <= Len(l.log)
    /\ l.started <= t
    /\ \A j \in InWindow(l) : l.started <= l.log[j].at
    /\ \A i \in 1..Len(l.log) : l.log[i].now <= t /\ \E n \in Nat : Windows(l, i, n)

\* The last k of n entries are k.
LEMMA LastOnes ==
    ASSUME NEW n \in Nat, NEW k \in Nat, k <= n
    PROVE  IsFiniteSet((n - k + 1)..n) /\ Cardinality((n - k + 1)..n) = k
<1>1. PICK a \in Int : a = n - k + 1
  OBVIOUS
<1>2. IsFiniteSet(a..n) /\ Cardinality(a..n) = IF a > n THEN 0 ELSE n - a + 1
  BY FS_Interval
<1> QED BY <1>1, <1>2

\* What a limiter carries.
LEMMA LogDomain ==
    ASSUME NEW l \in Limiter
    PROVE  /\ DOMAIN l.log = 1..Len(l.log) /\ Len(l.log) \in Nat
           /\ \A j \in 1..Len(l.log) : l.log[j].now \in Nat /\ l.log[j].at \in Nat
           /\ l.started \in Nat /\ l.requests \in Nat
           /\ l.policy.rpm \in Nat \ {0} /\ l.policy.max \in Nat \ {0}
<1>1. l.log \in Seq(Admission)
  BY DEF Limiter
<1>2. DOMAIN l.log = 1..Len(l.log) /\ Len(l.log) \in Nat /\ \A j \in 1..Len(l.log) : l.log[j] \in Admission
  BY <1>1, LenProperties, ElementOfSeq
<1>3. \A e \in Admission : e.now \in Nat /\ e.at \in Nat
  BY BoundsAssumption DEF Admission
<1> QED BY <1>2, <1>3, BoundsAssumption, PoliciesAssumption DEF Limiter

\* A limiter that admitted nothing keeps to its rate.
LEMMA RateOfFresh ==
    ASSUME NEW l \in Limiter, l.log = <<>>, l.requests = 0, NEW t \in Nat, l.started <= t
    PROVE  RateOK(l, t)
<1>1. l.policy.rpm \in Nat /\ Len(l.log) = 0
  BY LogDomain
<1>2. InWindow(l) = {} /\ 1..Len(l.log) = {}
  BY <1>1 DEF InWindow
<1> QED BY <1>1, <1>2 DEF RateOK

\* The clock goes on.
LEMMA RateLater ==
    ASSUME NEW l \in Limiter, NEW t \in Nat, NEW later \in Nat, t <= later, RateOK(l, t)
    PROVE  RateOK(l, later)
<1>1. l.started \in Nat /\ \A i \in 1..Len(l.log) : l.log[i].now \in Nat
  BY LogDomain
<1> QED BY <1>1 DEF RateOK

\* One window more, a minute later at least.
LEMMA OneWindowMore ==
    ASSUME NEW n \in Nat, NEW rpm \in Nat, NEW k \in Int, NEW requests \in Nat, NEW minute \in Nat,
           NEW d \in Int, NEW e \in Int,
           k - requests <= n * rpm, requests <= rpm, n * minute < d, d + minute <= e
    PROVE  k <= (n + 1) * rpm /\ (n + 1) * minute < e
<1>1. (n + 1) * rpm = n * rpm + rpm /\ (n + 1) * minute = n * minute + minute
  OBVIOUS
<1>2. n * rpm \in Nat /\ n * minute \in Nat
  OBVIOUS
<1>3. PICK x \in Nat, y \in Nat : x = n * rpm /\ y = n * minute
  BY <1>2
<1>4. k <= x + rpm /\ y + minute < e
  BY <1>3
<1> QED BY <1>1, <1>3, <1>4

\* A new window: the one that is over is one more to count.
LEMMA RateOfNewWindow ==
    ASSUME NEW l \in Limiter, NEW t \in Nat, RateOK(l, t), NEW read \in Nat, read <= t,
           read - l.started >= Minute,
           NEW m \in Limiter, m.log = l.log, m.policy = l.policy, m.started = read, m.requests = 0
    PROVE  RateOK(m, t)
<1>1. /\ Len(l.log) \in Nat /\ l.requests \in Nat /\ l.started \in Nat /\ l.policy.rpm \in Nat
      /\ Minute \in Nat /\ l.requests <= l.policy.rpm
      /\ \A j \in 1..Len(l.log) : l.log[j].now \in Nat
  BY LogDomain, BoundsAssumption DEF RateOK
<1>2. InWindow(m) = {}
  BY <1>1 DEF InWindow
<1>3. ASSUME NEW i \in 1..Len(m.log) PROVE \E n \in Nat : Windows(m, i, n)
  <2>1. PICK n \in Nat : Windows(l, i, n)
    BY <1>3 DEF RateOK
  <2>2. i \in Nat /\ l.log[i].now \in Nat
    BY <1>1
  <2>3. PICK len \in Nat, q \in Nat, s \in Nat, a \in Nat, x \in Nat :
            len = Len(l.log) /\ q = l.requests /\ s = l.started /\ a = l.log[i].now /\ x = i
    BY <1>1, <2>2
  <2>4. len - q - x + 1 <= n * l.policy.rpm /\ n * Minute < s - a + Minute /\ read - s >= Minute
    BY <2>1, <2>3 DEF Windows
  <2>5. PICK k \in Int, d \in Int, e \in Int :
            k = len - x + 1 /\ d = s - a + Minute /\ e = read - a + Minute
    <3>1. len - x + 1 \in Int /\ s - a + Minute \in Int /\ read - a + Minute \in Int
      BY <1>1
    <3> QED BY <3>1
  <2>6. k - l.requests <= n * l.policy.rpm /\ n * Minute < d
    <3>1. len - q - x + 1 = k - q
      BY <2>5
    <3> QED BY <2>3, <2>4, <2>5, <3>1
  <2>7. d + Minute <= e
    BY <1>1, <2>4, <2>5
  <2>8. k <= (n + 1) * l.policy.rpm /\ (n + 1) * Minute < e
    BY <1>1, <2>6, <2>7, OneWindowMore
  <2>9. Len(m.log) - m.requests - i + 1 = k /\ m.started - m.log[i].now + Minute = e
    <3>1. len - 0 - x + 1 = k
      BY <2>5
    <3> QED BY <2>3, <2>5, <3>1
  <2>10. Windows(m, i, n + 1)
    BY <2>8, <2>9 DEF Windows
  <2> QED BY <2>10
<1>4. m.requests <= m.policy.rpm /\ m.requests <= Len(m.log) /\ m.started <= t
  BY <1>1
<1>5. \A i \in 1..Len(m.log) : m.log[i].now <= t
  BY DEF RateOK
<1> QED BY <1>2, <1>3, <1>4, <1>5 DEF RateOK

\* The log grows by one.
Longer(new, old, x) ==
    /\ Len(new) = Len(old) + 1 /\ new[Len(old) + 1] = x
    /\ \A j \in 1..Len(old) : new[j] = old[j]

\* Admitting one more keeps to the rate, in a window that is not full and that was not
\* over when the request read the clock.
LEMMA RateOfAdmission ==
    ASSUME NEW l \in Limiter, NEW t \in Nat, RateOK(l, t), NEW e, e.at = t,
           e.now \in Nat, e.now <= t, e.now - l.started < Minute,
           l.requests < l.policy.rpm,
           NEW m \in Limiter, m.policy = l.policy, m.started = l.started,
           m.requests = l.requests + 1, Longer(m.log, l.log, e)
    PROVE  RateOK(m, t)
<1> DEFINE k == Len(l.log)
<1>1. /\ k \in Nat /\ l.requests \in Nat /\ l.started \in Nat /\ l.policy.rpm \in Nat
      /\ Minute \in Nat /\ l.requests <= k /\ l.started <= t
  BY LogDomain, BoundsAssumption DEF RateOK
<1>2. Len(m.log) = k + 1 /\ m.log[k + 1] = e /\ \A j \in 1..k : m.log[j] = l.log[j]
  BY DEF Longer
<1> HIDE DEF k
<1>3. \A j \in InWindow(m) : m.started <= m.log[j].at
  <2>1. SUFFICES ASSUME NEW j \in InWindow(m) PROVE m.started <= m.log[j].at
    OBVIOUS
  <2>2. InWindow(m) = ((k + 1) - (l.requests + 1) + 1)..(k + 1) /\ InWindow(l) = (k - l.requests + 1)..k
    BY <1>2 DEF InWindow, k
  <2>3. j = k + 1 \/ (j \in InWindow(l) /\ j \in 1..k)
    BY <1>1, <2>1, <2>2
  <2>4. CASE j = k + 1
    BY <1>1, <1>2, <2>4
  <2>5. CASE j \in InWindow(l) /\ j \in 1..k
    BY <1>2, <2>5 DEF RateOK
  <2> QED BY <2>3, <2>4, <2>5
<1>4. ASSUME NEW i \in 1..Len(m.log) PROVE \E n \in Nat : Windows(m, i, n)
  <2>0. i \in 1..(k + 1)
    BY <1>2
  <2>1. i \in Nat /\ (i = k + 1 \/ i \in 1..k)
    BY <1>1, <2>0
  <2>1a. Len(m.log) - m.requests - i + 1 = k - l.requests - i + 1
    <3>1. PICK q \in Nat, x \in Nat : q = l.requests /\ x = i
      BY <1>1, <2>1
    <3>2. (k + 1) - (q + 1) - x + 1 = k - q - x + 1
      BY <1>1
    <3> QED BY <1>2, <3>1, <3>2
  <2>2. CASE i = k + 1
    <3>1. k - l.requests - i + 1 <= 0 /\ 0 < l.started - e.now + Minute
      BY <1>1, <2>2
    <3>2. 0 * m.policy.rpm = 0 /\ 0 * Minute = 0
      BY <1>1
    <3>3. Windows(m, i, 0)
      BY <1>2, <2>1a, <2>2, <3>1, <3>2 DEF Windows
    <3> QED BY <3>3
  <2>3. CASE i \in 1..k
    <3>1. PICK n \in Nat : Windows(l, i, n)
      BY <2>3 DEF RateOK, k
    <3>2. Windows(m, i, n)
      BY <1>2, <2>1a, <2>3, <3>1 DEF Windows, k
    <3> QED BY <3>2
  <2> QED BY <2>1, <2>2, <2>3
<1>5. m.requests <= m.policy.rpm /\ m.requests <= Len(m.log) /\ m.started <= t
  BY <1>1, <1>2
<1>6. ASSUME NEW i \in 1..Len(m.log) PROVE m.log[i].now <= t
  <2>1. i = k + 1 \/ i \in 1..k
    BY <1>1, <1>2, <1>6
  <2> QED BY <1>2, <2>1 DEF RateOK, k
<1> QED BY <1>3, <1>4, <1>5, <1>6 DEF RateOK

\* A release changes neither the log nor the window.
LEMMA RateOfRelease ==
    ASSUME NEW l, NEW m, NEW t, RateOK(l, t), m.log = l.log, m.policy = l.policy,
           m.started = l.started, m.requests = l.requests
    PROVE  RateOK(m, t)
<1>1. InWindow(m) = InWindow(l) /\ \A i, n : Windows(m, i, n) <=> Windows(l, i, n)
  BY DEF InWindow, Windows
<1> QED BY <1>1 DEF RateOK

\* As many windows as meet a stretch of d ticks.
LEMMA WindowsIn ==
    ASSUME NEW n \in Nat, NEW rpm \in Nat, NEW k \in Int, NEW requests \in Nat, NEW minute \in Nat \ {0},
           NEW d \in Nat, k - requests <= n * rpm, requests <= rpm, n * minute < d + minute
    PROVE  k <= rpm * (2 + d \div minute)
<1>1. PICK q \in Nat : q = d \div minute
  OBVIOUS
<1>2. d < minute * q + minute
  BY <1>1
<1>3. n <= q + 1
  <2>1. CASE n >= q + 2
    <3>1. PICK j \in Nat : n = q + 2 + j
      BY <2>1
    <3>2. n * minute = minute * q + 2 * minute + j * minute
      BY <3>1
    <3>3. j * minute \in Nat /\ minute * q \in Nat
      OBVIOUS
    <3>4. PICK x \in Nat, y \in Nat : x = j * minute /\ y = minute * q
      BY <3>3
    <3> QED BY <1>2, <3>2, <3>4
  <2> QED BY <2>1
<1>4. PICK j \in Nat : q + 1 = n + j
  BY <1>3
<1>5. rpm * (2 + q) = n * rpm + rpm + j * rpm
  <2>1. 2 + q = n + 1 + j
    BY <1>4
  <2> QED BY <2>1
<1>6. PICK x \in Nat, y \in Nat : x = n * rpm /\ y = j * rpm
  <2>1. n * rpm \in Nat /\ j * rpm \in Nat
    OBVIOUS
  <2> QED BY <2>1
<1>7. k <= x + rpm + y
  BY <1>6
<1> QED BY <1>1, <1>5, <1>6, <1>7

\* What keeping to the rate comes to at time t.
LEMMA RateFollows ==
    ASSUME NEW l \in Limiter, NEW t \in Nat, RateOK(l, t), NEW i \in 1..Len(l.log)
    PROVE  Len(l.log) - i + 1 <= l.policy.rpm * (2 + (t - l.log[i].now) \div Minute)
<1>1. /\ Len(l.log) \in Nat /\ l.requests \in Nat /\ l.started \in Nat /\ l.policy.rpm \in Nat
      /\ Minute \in Nat \ {0} /\ l.requests <= l.policy.rpm /\ l.started <= t
      /\ l.log[i].now \in Nat /\ i \in Nat /\ l.log[i].now <= t
  BY LogDomain, BoundsAssumption DEF RateOK
<1>2. PICK n \in Nat : Windows(l, i, n)
  BY DEF RateOK
<1>3. PICK len \in Nat, q \in Nat, s \in Nat, a \in Nat, x \in Nat :
        len = Len(l.log) /\ q = l.requests /\ s = l.started /\ a = l.log[i].now /\ x = i
  BY <1>1
<1>4. len - q - x + 1 <= n * l.policy.rpm /\ n * Minute < s - a + Minute /\ s <= t /\ a <= t
  BY <1>1, <1>2, <1>3 DEF Windows
<1>5. PICK k \in Int, d \in Nat : k = len - x + 1 /\ d = t - a
  <2>1. len - x + 1 \in Int /\ t - a \in Nat
    BY <1>4
  <2> QED BY <2>1
<1>6. k - q <= n * l.policy.rpm /\ n * Minute < d + Minute
  <2>1. len - q - x + 1 = k - q /\ s - a + Minute <= d + Minute
    BY <1>1, <1>4, <1>5
  <2>2. n * Minute \in Int
    BY <1>1
  <2> QED BY <1>1, <1>4, <1>5, <2>1, <2>2
<1>7. k <= l.policy.rpm * (2 + d \div Minute)
  BY <1>1, <1>3, <1>6, WindowsIn
<1> QED BY <1>3, <1>5, <1>7

-----------------------------------------------------------------------------
(* The inductive invariant.                                                *)

Admitted == {"prepare", "upstream", "stream", "unlimit"}
Holding == Admitted \cup {"limit", "acquire", "unslot"}

\* What the locals of a request are, by the step it is at: the snapshot it will still
\* use, the closure it will still run, and the result it will record.
RequestInv(r) ==
    /\ step[r] \in {"slot", "limit", "acquire", "prepare"} => snap[r] \in Route
    /\ step[r] = "acquire" => IsLLM(snap[r])
    /\ now[r] <= clock
    /\ step[r] \notin {"new", "done"} => alias[r] \in Aliases
    /\ via[r] # None => step[r] \in Admitted /\ limiter[via[r]] # None
    /\ step[r] \in {"new", "miss", "slot", "limit", "acquire", "prepare", "upstream"} =>
        sent[r] = "no" /\ result[r] \in {"none", "failed"}
    /\ step[r] = "stream" => result[r] = "allowed" /\ sent[r] = "answered"
    /\ step[r] \in {"unlimit", "unslot", "record"} =>
        /\ result[r] = "blocked" => sent[r] = "no"
        /\ result[r] = "allowed" <=> sent[r] = "answered"

\* A limiter is the work of a request that is past acquireLLMRequest, its counter is
\* that of the closures that hold it, and it keeps to its rate.
LimiterInv(s) ==
    limiter[s] # None =>
        /\ step[s] \notin {"new", "miss", "slot", "limit", "acquire"}
        /\ limiter[s].current = Cardinality(Holders(Requests, via, {s}))
        /\ limiter[s].current <= limiter[s].policy.max
        /\ RateOK(limiter[s], clock)

MapInv(a) == limits[a] # None => limiter[limits[a]] # None

SlotInv == slots = Cardinality(Holders(Requests, step, Holding)) /\ slots <= MaxInFlight

IInv ==
    /\ TypeOK
    /\ SlotInv
    /\ \A r \in Requests : RequestInv(r)
    /\ \A s \in Requests : LimiterInv(s)
    /\ \A a \in Aliases : MapInv(a)

-----------------------------------------------------------------------------
(* What acquireLLMRequest finds and leaves.                                *)

Key(r) == IF Fresh(r) THEN r ELSE limits[alias[r]]

\* The updates of a limiter give a limiter.
LEMMA LimiterUpdates ==
    ASSUME NEW l \in Limiter, NEW t \in 0..MaxClock, NEW q \in Nat, NEW c \in Nat, NEW g \in Seq(Admission)
    PROVE  /\ [l EXCEPT !.started = t, !.requests = q] \in Limiter
           /\ [l EXCEPT !.requests = q, !.current = c, !.log = g] \in Limiter
           /\ [l EXCEPT !.current = c] \in Limiter
BY DEF Limiter

\* The limiter is one of its kind, keeps to its rate, is in a window that is not over
\* and counts the closures that hold it.
LEMMA FoundLimiter ==
    ASSUME IInv, NEW r \in Requests, step[r] = "acquire"
    PROVE  /\ Key(r) \in Requests
           /\ Found(r) \in Limiter
           /\ RateOK(Found(r), clock)
           /\ now[r] - Found(r).started < Minute /\ now[r] \in Nat /\ now[r] <= clock
           /\ Found(r).current = Cardinality(Holders(Requests, via, {Key(r)}))
           /\ Found(r).current <= Found(r).policy.max
           /\ Key(r) = r \/ step[Key(r)] \notin {"new", "miss", "slot", "limit", "acquire"}
<1>1. /\ snap[r] \in Route /\ alias[r] \in Aliases /\ limits[alias[r]] \in Requests \cup {None}
      /\ clock \in 0..MaxClock /\ Minute \in Nat \ {0} /\ clock \in Nat /\ None \notin Requests
      /\ now[r] \in 0..MaxClock /\ now[r] \in Nat /\ now[r] <= clock /\ IsLLM(snap[r])
  BY BoundsAssumption, NoneAssumption DEF IInv, RequestInv, TypeOK
<1>2. CASE Fresh(r)
  <2>1. Key(r) = r /\ limiter[r] = None
    BY <1>2 DEF Key, IInv, LimiterInv
  <2>2. Found(r) = [cred |-> snap[r].cred, policy |-> snap[r].policy, started |-> now[r],
                    requests |-> 0, current |-> 0, log |-> <<>>]
    BY <1>2 DEF Found
  <2>3. snap[r].cred \in Creds /\ snap[r].policy \in Policies
    BY <1>1 DEF Route, IsLLM
  <2>4. <<>> \in Seq(Admission)
    BY EmptySeq
  <2>5. Found(r) \in Limiter
    BY <1>1, <2>2, <2>3, <2>4 DEF Limiter
  <2>6. RateOK(Found(r), clock)
    BY <1>1, <2>2, <2>5, RateOfFresh
  <2>7. Cardinality(Holders(Requests, via, {r})) = 0
    <3>1. \A q \in Requests : via[q] \notin {r}
      BY <1>1, <2>1 DEF IInv, RequestInv
    <3> QED BY <3>1, NoHolders
  <2>8. 0 <= snap[r].policy.max
    BY <2>3, PoliciesAssumption
  <2> QED BY <1>1, <2>1, <2>2, <2>5, <2>6, <2>7, <2>8
<1>3. CASE ~Fresh(r)
  <2> DEFINE k == limits[alias[r]]
             l == limiter[k]
  <2>1. Key(r) = k /\ k \in Requests /\ l \in Limiter /\ l # None
    BY <1>1, <1>3 DEF Key, Fresh, IInv, MapInv, TypeOK
  <2>2. /\ l.current = Cardinality(Holders(Requests, via, {k})) /\ l.current <= l.policy.max
        /\ RateOK(l, clock) /\ step[k] \notin {"new", "miss", "slot", "limit", "acquire"}
    BY <2>1 DEF IInv, LimiterInv
  <2>3. l.started \in Nat
    BY <2>1, LogDomain
  <2> HIDE DEF l, k
  <2>4. CASE WindowOver(l, r)
    <3>1. Found(r) = [l EXCEPT !.started = now[r], !.requests = 0]
      BY <1>3, <2>4 DEF Found, l, k
    <3>2. Found(r) \in Limiter
      <4>1. 0 \in Nat /\ <<>> \in Seq(Admission)
        BY EmptySeq
      <4>2. [l EXCEPT !.started = now[r], !.requests = 0] \in Limiter
        BY <1>1, <2>1, <4>1, LimiterUpdates
      <4> QED BY <3>1, <4>2
    <3>3. /\ Found(r).log = l.log /\ Found(r).policy = l.policy /\ Found(r).started = now[r]
          /\ Found(r).requests = 0 /\ Found(r).current = l.current
      BY <2>1, <3>1 DEF Limiter
    <3>4. now[r] - l.started >= Minute
      BY <2>4 DEF WindowOver
    <3>5. RateOK(Found(r), clock)
      BY <1>1, <2>1, <2>2, <3>2, <3>3, <3>4, RateOfNewWindow
    <3> QED BY <1>1, <2>1, <2>2, <3>2, <3>3, <3>5
  <2>5. CASE ~WindowOver(l, r)
    <3>1. Found(r) = l
      BY <1>3, <2>5 DEF Found, l, k
    <3>2. now[r] - l.started < Minute
      BY <1>1, <2>3, <2>5 DEF WindowOver
    <3> QED BY <1>1, <2>1, <2>2, <3>1, <3>2
  <2> QED BY <2>4, <2>5
<1> QED BY <1>2, <1>3

\* What admitting a request makes of its limiter.
LEMMA AdmittedLimiter ==
    ASSUME clock \in 0..MaxClock, NEW r \in Requests, now[r] \in 0..MaxClock, now[r] <= clock,
           NEW l \in Limiter, RateOK(l, clock), now[r] - l.started < Minute,
           l.requests < l.policy.rpm, l.current < l.policy.max
    PROVE  /\ Admit(l, r) \in Limiter
           /\ RateOK(Admit(l, r), clock)
           /\ Admit(l, r).current = l.current + 1
           /\ Admit(l, r).current <= Admit(l, r).policy.max
<1> DEFINE m == Admit(l, r)
           e == [now |-> now[r], at |-> clock]
<1>1. /\ l.log \in Seq(Admission) /\ l.requests \in Nat /\ l.current \in Nat
      /\ l.policy.max \in Nat
  BY LogDomain DEF Limiter
<1>2. e \in Admission /\ e.now = now[r] /\ e.at = clock /\ clock \in Nat /\ e.now \in Nat
  BY BoundsAssumption DEF Admission
<1>3. /\ m.log = Append(l.log, e) /\ m.requests = l.requests + 1 /\ m.current = l.current + 1
      /\ m.policy = l.policy /\ m.started = l.started
  BY DEF Admit, Limiter
<1>4. m = [l EXCEPT !.requests = l.requests + 1, !.current = l.current + 1, !.log = Append(l.log, e)]
  BY DEF Admit
<1> HIDE DEF e
<1>5. /\ Append(l.log, e) \in Seq(Admission)
      /\ Len(Append(l.log, e)) = Len(l.log) + 1
      /\ \A j \in 1..Len(l.log) : Append(l.log, e)[j] = l.log[j]
      /\ Append(l.log, e)[Len(l.log) + 1] = e
  BY <1>1, <1>2, AppendProperties
<1>6. m \in Limiter
  <2>1. l.requests + 1 \in Nat /\ l.current + 1 \in Nat
    BY <1>1
  <2>2. BoundsAssumption /\ 0 \in 0..MaxClock
    BY BoundsAssumption
  <2>3. [l EXCEPT !.requests = l.requests + 1, !.current = l.current + 1, !.log = Append(l.log, e)] \in Limiter
    BY <1>5, <2>1, <2>2, LimiterUpdates
  <2> QED BY <1>4, <2>3
<1>7. Longer(m.log, l.log, e)
  BY <1>3, <1>5 DEF Longer
<1> HIDE DEF m
<1>8. RateOK(m, clock)
  BY <1>2, <1>3, <1>6, <1>7, RateOfAdmission
<1> QED BY <1>1, <1>3, <1>6, <1>8 DEF m

\* The count of a limiter's closures changes only by the request that captures or drops it.
LEMMA CapturesFollow ==
    ASSUME IInv, NEW r \in Requests, NEW v \in Requests \cup {None},
           via' = [via EXCEPT ![r] = v], NEW s \in Requests
    PROVE  /\ via[r] # s /\ v = s => Cardinality(Holders(Requests, via', {s}))
                                       = Cardinality(Holders(Requests, via, {s})) + 1
           /\ via[r] = s /\ v # s => /\ Cardinality(Holders(Requests, via, {s})) > 0
                                     /\ Cardinality(Holders(Requests, via', {s}))
                                          = Cardinality(Holders(Requests, via, {s})) - 1
           /\ (via[r] = s <=> v = s) => Holders(Requests, via', {s}) = Holders(Requests, via, {s})
<1>1. via \in [Requests -> Requests \cup {None}]
  BY DEF IInv, TypeOK
<1>2. via'[r] = v /\ \A y \in Requests \ {r} : via'[y] = via[y]
  BY <1>1
<1>3. PICK h : h = {s}
  OBVIOUS
<1>4. /\ via[r] \notin h /\ via'[r] \in h =>
            Cardinality(Holders(Requests, via', h)) = Cardinality(Holders(Requests, via, h)) + 1
      /\ via[r] \in h /\ via'[r] \notin h =>
            /\ Cardinality(Holders(Requests, via, h)) > 0
            /\ Cardinality(Holders(Requests, via', h)) = Cardinality(Holders(Requests, via, h)) - 1
      /\ (via[r] \in h <=> via'[r] \in h) =>
            Holders(Requests, via', h) = Holders(Requests, via, h)
  <2> HIDE <1>3
  <2> QED BY <1>2, RequestsAssumption, HoldersFollow
<1>5. (via[r] \in h <=> via[r] = s) /\ (via'[r] \in h <=> v = s)
  BY <1>2, <1>3
<1> QED BY <1>3, <1>4, <1>5

\* A step from a state with the slot to one with it, or from one without to another.
LEMMA SlotsFollow ==
    ASSUME IInv, NEW r \in Requests, NEW s \in Steps, GoTo(r, s)
    PROVE  /\ step[r] \notin Holding /\ s \in Holding =>
                Cardinality(Holders(Requests, step', Holding)) = Cardinality(Holders(Requests, step, Holding)) + 1
           /\ step[r] \in Holding /\ s \notin Holding =>
                /\ Cardinality(Holders(Requests, step, Holding)) > 0
                /\ Cardinality(Holders(Requests, step', Holding)) = Cardinality(Holders(Requests, step, Holding)) - 1
           /\ (step[r] \in Holding <=> s \in Holding) =>
                Holders(Requests, step', Holding) = Holders(Requests, step, Holding)
<1>1. step \in [Requests -> Steps]
  BY DEF IInv, TypeOK
<1>2. step'[r] = s /\ \A y \in Requests \ {r} : step'[y] = step[y]
  BY <1>1 DEF GoTo
<1> QED BY <1>2, RequestsAssumption, HoldersFollow

-----------------------------------------------------------------------------
(* The steps.                                                              *)

\* What is pointed to is kept, what is not is gone.
LEMMA CollectKeeps ==
    ASSUME NEW all \in [Requests -> Limiter \cup {None}], NEW map, NEW captured
    PROVE  /\ Collect(all, map, captured) \in [Requests -> Limiter \cup {None}]
           /\ \A s \in Requests : Collect(all, map, captured)[s] \in {all[s], None}
           /\ \A a \in Aliases : map[a] \in Requests =>
                Collect(all, map, captured)[map[a]] = all[map[a]]
           /\ \A r \in Requests : captured[r] \in Requests =>
                Collect(all, map, captured)[captured[r]] = all[captured[r]]
BY DEF Collect

\* The request captures its limiter or nothing, and the limiter is now l.
Acquired(r, v, l, t) ==
    /\ via' = [via EXCEPT ![r] = v] /\ v \in {Key(r), None} /\ GoTo(r, t)
    /\ RateOK(l, clock) /\ l.current <= l.policy.max
    /\ IF v = None THEN l.current = Cardinality(Holders(Requests, via, {Key(r)}))
       ELSE l.current = Cardinality(Holders(Requests, via, {Key(r)})) + 1
    /\ v # None => t = "prepare"
    /\ t = "unslot" => Result(r, "blocked")
    /\ t = "prepare" => UNCHANGED result
    /\ limiter'[Key(r)] = l
    /\ \A s \in Requests \ {Key(r)} : limiter'[s] \in {limiter[s], None}

\* acquireLLMRequest, in terms of the limiter it finds.
LEMMA AcquireEffect ==
    ASSUME IInv, NEW r \in Requests, acquireLLMRequest(r)
    PROVE  /\ limits' \in [Aliases -> Requests \cup {None}] /\ limits' = [limits EXCEPT ![alias[r]] = Key(r)]
           /\ limiter' \in [Requests -> Limiter \cup {None}]
           /\ \E v \in Requests \cup {None}, l \in Limiter, t \in {"prepare", "unslot"} : Acquired(r, v, l, t)
           /\ \A a \in Aliases : limits'[a] # None => limiter'[limits'[a]] # None
           /\ \A q \in Requests : via'[q] # None => limiter'[via'[q]] # None
<1> DEFINE k == Key(r)
           l == Found(r)
<1>1. step[r] = "acquire"
  BY DEF acquireLLMRequest
<1>2. /\ k \in Requests /\ l \in Limiter /\ RateOK(l, clock)
      /\ now[r] - l.started < Minute /\ now[r] <= clock
      /\ l.current = Cardinality(Holders(Requests, via, {k})) /\ l.current <= l.policy.max
  BY <1>1, FoundLimiter
<1>3. /\ alias[r] \in Aliases /\ limits \in [Aliases -> Requests \cup {None}] /\ clock \in 0..MaxClock
      /\ via \in [Requests -> Requests \cup {None}] /\ limiter \in [Requests -> Limiter \cup {None}]
      /\ None \notin Requests /\ None \notin Limiter /\ now[r] \in 0..MaxClock
  BY <1>1, NoneAssumption, NoLimiterAssumption DEF IInv, RequestInv, TypeOK
<1>4. via[r] = None /\ via = [via EXCEPT ![r] = None]
  <2>1. via[r] = None
    BY <1>1 DEF IInv, RequestInv, Admitted
  <2> QED BY <1>3, <2>1
<1>5. limits' = [limits EXCEPT ![alias[r]] = k]
  BY DEF acquireLLMRequest, Key
<1>6. limits' \in [Aliases -> Requests \cup {None}] /\ limits'[alias[r]] = k
  BY <1>2, <1>3, <1>5
<1>7. ASSUME NEW m \in Limiter, NEW v \in {k, None}, via' = [via EXCEPT ![r] = v],
             limiter' = Collect([limiter EXCEPT ![k] = m], limits', via')
      PROVE  /\ limiter' \in [Requests -> Limiter \cup {None}]
             /\ limiter'[k] = m
             /\ \A s \in Requests \ {k} : limiter'[s] \in {limiter[s], None}
             /\ \A a \in Aliases : limits'[a] # None => limiter'[limits'[a]] # None
             /\ \A q \in Requests : via'[q] # None => limiter'[via'[q]] # None
  <2> DEFINE all == [limiter EXCEPT ![k] = m]
  <2>1. all \in [Requests -> Limiter \cup {None}] /\ all[k] = m /\ \A s \in Requests \ {k} : all[s] = limiter[s]
    BY <1>2, <1>3
  <2>2. via' \in [Requests -> Requests \cup {None}]
    BY <1>2, <1>3, <1>7
  <2>3. ASSUME NEW s \in Requests, limiter[s] # None \/ s = k PROVE all[s] # None
    BY <1>3, <2>1, <2>3
  <2>4. limiter' = Collect(all, limits', via')
    BY <1>7
  <2> HIDE DEF all, k
  <2>5. /\ limiter' \in [Requests -> Limiter \cup {None}]
        /\ \A s \in Requests : limiter'[s] \in {all[s], None}
        /\ \A a \in Aliases : limits'[a] \in Requests => limiter'[limits'[a]] = all[limits'[a]]
        /\ \A q \in Requests : via'[q] \in Requests => limiter'[via'[q]] = all[via'[q]]
    BY <2>1, <2>4, CollectKeeps
  <2>6. \A a \in Aliases : limits'[a] # None => limits'[a] \in Requests /\ (limiter[limits'[a]] # None \/ limits'[a] = k)
    BY <1>3, <1>5, <1>6 DEF IInv, MapInv
  <2>7. \A q \in Requests : via'[q] # None => via'[q] \in Requests /\ (limiter[via'[q]] # None \/ via'[q] = k)
    BY <1>3, <1>7, <2>2 DEF IInv, RequestInv
  <2> QED BY <1>2, <1>3, <1>6, <2>1, <2>3, <2>5, <2>6, <2>7
<1>8. CASE l.current >= l.policy.max \/ l.requests >= l.policy.rpm
  <2>1. /\ limiter' = Collect([limiter EXCEPT ![k] = l], limits', via)
        /\ Result(r, "blocked") /\ GoTo(r, "unslot") /\ via' = via
    BY <1>8 DEF acquireLLMRequest, Key
  <2> HIDE DEF k, l
  <2>2. via' = [via EXCEPT ![r] = None] /\ limiter' = Collect([limiter EXCEPT ![k] = l], limits', via')
    BY <1>4, <2>1
  <2>3. None \in {k, None} /\ "unslot" \in {"prepare", "unslot"} /\ None \in Requests \cup {None}
    OBVIOUS
  <2>4. /\ limiter' \in [Requests -> Limiter \cup {None}]
        /\ limiter'[k] = l
        /\ \A s \in Requests \ {k} : limiter'[s] \in {limiter[s], None}
        /\ \A a \in Aliases : limits'[a] # None => limiter'[limits'[a]] # None
        /\ \A q \in Requests : via'[q] # None => limiter'[via'[q]] # None
    BY <1>2, <1>7, <2>2, <2>3
  <2>5. \E v \in Requests \cup {None}, l1 \in Limiter, t \in {"prepare", "unslot"} : Acquired(r, v, l1, t)
    <3>1. Acquired(r, None, l, "unslot")
      BY <1>2, <2>1, <2>2, <2>4 DEF Acquired, k
    <3> QED BY <1>2, <2>3, <3>1
  <2> QED BY <1>5, <1>6, <2>4, <2>5 DEF k
<1>9. CASE ~(l.current >= l.policy.max \/ l.requests >= l.policy.rpm)
  <2>1. /\ via' = [via EXCEPT ![r] = k]
        /\ limiter' = Collect([limiter EXCEPT ![k] = Admit(l, r)], limits', via')
        /\ GoTo(r, "prepare") /\ result' = result
    BY <1>9 DEF acquireLLMRequest, Key
  <2> DEFINE m == Admit(l, r)
  <2>2. l.requests < l.policy.rpm /\ l.current < l.policy.max
    <3>1. l.requests \in Nat /\ l.current \in Nat /\ l.policy.rpm \in Nat /\ l.policy.max \in Nat
      <4> HIDE DEF l
      <4> QED BY <1>2, LogDomain DEF Limiter
    <3> QED BY <1>9, <3>1
  <2>3. m \in Limiter /\ RateOK(m, clock) /\ m.current = l.current + 1 /\ m.current <= m.policy.max
    BY <1>2, <1>3, <2>2, AdmittedLimiter
  <2> HIDE DEF k, m, l
  <2>4. /\ limiter' \in [Requests -> Limiter \cup {None}]
        /\ limiter'[k] = m
        /\ \A s \in Requests \ {k} : limiter'[s] \in {limiter[s], None}
        /\ \A a \in Aliases : limits'[a] # None => limiter'[limits'[a]] # None
        /\ \A q \in Requests : via'[q] # None => limiter'[via'[q]] # None
    <3>1. k \in {k, None} /\ limiter' = Collect([limiter EXCEPT ![k] = m], limits', via')
      BY <2>1 DEF m
    <3> QED BY <1>7, <2>1, <2>3, <3>1
  <2>5. \E v \in Requests \cup {None}, l1 \in Limiter, t \in {"prepare", "unslot"} : Acquired(r, v, l1, t)
    <3>1. k \in Requests \cup {None} /\ k # None
      BY <1>2, <1>3
    <3>2. Acquired(r, k, m, "prepare")
      BY <1>2, <2>1, <2>3, <2>4, <3>1 DEF Acquired, k
    <3> QED BY <2>3, <3>1, <3>2
  <2> QED BY <1>5, <1>6, <2>4, <2>5 DEF k
<1> QED BY <1>8, <1>9

\* release, in terms of the closure's limiter.
LEMMA ReleaseEffect ==
    ASSUME IInv, NEW r \in Requests, release(r)
    PROVE  /\ via' = [via EXCEPT ![r] = None]
           /\ limiter' \in [Requests -> Limiter \cup {None}]
           /\ \A s \in Requests : limiter'[s] # None =>
                /\ limiter[s] # None
                /\ limiter'[s].policy = limiter[s].policy
                /\ limiter'[s].current = Cardinality(Holders(Requests, via', {s}))
                /\ limiter'[s].current <= limiter[s].current
                /\ RateOK(limiter'[s], clock)
           /\ \A a \in Aliases : limits'[a] # None => limiter'[limits'[a]] # None
           /\ \A q \in Requests : via'[q] # None => limiter'[via'[q]] # None
<1> DEFINE all == IF via[r] # None THEN Leave(via[r]) ELSE limiter
<1>1. via' = [via EXCEPT ![r] = None] /\ limiter' = Collect(all, limits, via') /\ limits' = limits
  BY DEF release
<1>2. /\ limits \in [Aliases -> Requests \cup {None}] /\ None \notin Requests /\ None \notin Limiter
      /\ via \in [Requests -> Requests \cup {None}] /\ limiter \in [Requests -> Limiter \cup {None}]
  BY NoneAssumption, NoLimiterAssumption DEF IInv, TypeOK
<1>3. /\ all \in [Requests -> Limiter \cup {None}]
      /\ \A s \in Requests : limiter[s] # None <=> all[s] # None
      /\ \A s \in Requests : limiter[s] # None =>
            /\ all[s].policy = limiter[s].policy
            /\ all[s].current = Cardinality(Holders(Requests, via', {s}))
            /\ all[s].current <= limiter[s].current
            /\ RateOK(all[s], clock)
  <2>1. CASE via[r] = None
    <3>1. all = limiter /\ via' = via
      BY <1>1, <1>2, <2>1
    <3>2. ASSUME NEW s \in Requests, limiter[s] # None
          PROVE  limiter[s].current = Cardinality(Holders(Requests, via', {s})) /\ RateOK(limiter[s], clock)
                 /\ limiter[s].current \in Nat
      BY <1>2, <3>1, <3>2 DEF IInv, LimiterInv, Limiter
    <3> HIDE DEF all
    <3> QED BY <1>2, <3>1, <3>2
  <2>2. CASE via[r] # None
    <3> DEFINE k == via[r]
               l == limiter[k]
               m == [l EXCEPT !.current = @ - 1]
    <3>1. k \in Requests /\ l # None /\ l \in Limiter
      BY <1>2, <2>2 DEF IInv, RequestInv
    <3>2. /\ l.current = Cardinality(Holders(Requests, via, {k})) /\ RateOK(l, clock) /\ l.current \in Nat
      BY <3>1 DEF IInv, LimiterInv, Limiter
    <3>3. l.current > 0 /\ Cardinality(Holders(Requests, via', {k})) = l.current - 1
      <4>1. via[r] = k /\ None # k /\ None \in Requests \cup {None} /\ via' = [via EXCEPT ![r] = None]
        BY <1>1, <2>2
      <4> HIDE DEF k, l
      <4>2. /\ Cardinality(Holders(Requests, via, {k})) > 0
            /\ Cardinality(Holders(Requests, via', {k})) = Cardinality(Holders(Requests, via, {k})) - 1
        BY <3>1, <4>1, CapturesFollow
      <4> QED BY <3>2, <4>2
    <3>4. all = [limiter EXCEPT ![k] = m]
      BY <2>2, <3>3 DEF Leave
    <3> HIDE DEF all, k
    <3>5. m \in Limiter /\ m.current = l.current - 1
      <4>1. l.current - 1 \in Nat /\ 0 \in 0..MaxClock /\ <<>> \in Seq(Admission)
        BY <3>2, <3>3, EmptySeq, BoundsAssumption
      <4> HIDE DEF l
      <4>2. m \in Limiter
        BY <3>1, <4>1, LimiterUpdates
      <4> QED BY <3>1, <4>2 DEF Limiter
    <3>6. m.log = l.log /\ m.policy = l.policy /\ m.started = l.started /\ m.requests = l.requests
      <4> HIDE DEF l
      <4> QED BY <3>1 DEF Limiter
    <3> HIDE DEF m, l
    <3>7. RateOK(m, clock)
      BY <3>2, <3>6, RateOfRelease
    <3>8. all \in [Requests -> Limiter \cup {None}] /\ all[k] = m /\ \A s \in Requests \ {k} : all[s] = limiter[s]
      BY <1>2, <3>1, <3>4, <3>5
    <3>9. ASSUME NEW s \in Requests \ {k}, limiter[s] # None
          PROVE  limiter[s].current = Cardinality(Holders(Requests, via', {s})) /\ RateOK(limiter[s], clock)
                 /\ limiter[s].current \in Nat
      <4>1. limiter[s].current = Cardinality(Holders(Requests, via, {s})) /\ RateOK(limiter[s], clock)
            /\ limiter[s].current \in Nat
        BY <1>2, <3>9 DEF IInv, LimiterInv, Limiter
      <4>2. via[r] # s /\ None # s
        BY <1>2 DEF k
      <4>3. Holders(Requests, via', {s}) = Holders(Requests, via, {s})
        BY <1>1, <4>2, CapturesFollow
      <4> QED BY <4>1, <4>3
    <3>10. limiter[k] # None /\ all[k] # None
      BY <1>2, <3>1, <3>5, <3>8 DEF l
    <3>11. /\ all[k].policy = limiter[k].policy
           /\ all[k].current = Cardinality(Holders(Requests, via', {k}))
           /\ all[k].current <= limiter[k].current
           /\ RateOK(all[k], clock)
      BY <3>2, <3>3, <3>5, <3>6, <3>7, <3>8 DEF l
    <3>12. ASSUME NEW s \in Requests
           PROVE  /\ limiter[s] # None <=> all[s] # None
                  /\ limiter[s] # None =>
                        /\ all[s].policy = limiter[s].policy
                        /\ all[s].current = Cardinality(Holders(Requests, via', {s}))
                        /\ all[s].current <= limiter[s].current
                        /\ RateOK(all[s], clock)
      <4>1. CASE s = k
        BY <3>10, <3>11, <4>1
      <4>2. CASE s # k
        BY <3>8, <3>9, <4>2
      <4> QED BY <4>1, <4>2
    <3> QED BY <3>8, <3>12
  <2> QED BY <2>1, <2>2
<1> HIDE DEF all
<1>4. /\ limiter' \in [Requests -> Limiter \cup {None}]
      /\ \A s \in Requests : limiter'[s] \in {all[s], None}
      /\ \A a \in Aliases : limits[a] \in Requests => limiter'[limits[a]] = all[limits[a]]
      /\ \A q \in Requests : via'[q] \in Requests => limiter'[via'[q]] = all[via'[q]]
  <2>1. all \in [Requests -> Limiter \cup {None}]
    BY <1>3
  <2>2. limiter' = Collect(all, limits, via')
    BY <1>1
  <2> QED BY <2>1, <2>2, CollectKeeps
<1>5. \A a \in Aliases : limits'[a] # None => limits[a] \in Requests /\ limits'[a] = limits[a] /\ limiter[limits[a]] # None
  BY <1>1, <1>2 DEF IInv, MapInv
<1>6. \A q \in Requests : via'[q] # None => via'[q] \in Requests /\ limiter[via'[q]] # None
  BY <1>1, <1>2 DEF IInv, RequestInv
<1>7. \A a \in Aliases : limits'[a] # None => limiter'[limits'[a]] # None
  BY <1>3, <1>4, <1>5
<1>8. \A q \in Requests : via'[q] # None => limiter'[via'[q]] # None
  BY <1>3, <1>4, <1>6
<1>9. ASSUME NEW s \in Requests, limiter'[s] # None PROVE limiter'[s] = all[s] /\ limiter[s] # None
  BY <1>3, <1>4, <1>9
<1>10. ASSUME NEW s \in Requests, limiter'[s] # None
       PROVE  /\ limiter[s] # None
              /\ limiter'[s].policy = limiter[s].policy
              /\ limiter'[s].current = Cardinality(Holders(Requests, via', {s}))
              /\ limiter'[s].current <= limiter[s].current
              /\ RateOK(limiter'[s], clock)
  <2>1. limiter'[s] = all[s] /\ limiter[s] # None
    BY <1>9, <1>10
  <2>2. /\ all[s].policy = limiter[s].policy
        /\ all[s].current = Cardinality(Holders(Requests, via', {s}))
        /\ all[s].current <= limiter[s].current
        /\ RateOK(all[s], clock)
    BY <1>3, <2>1
  <2> QED BY <2>1, <2>2
<1> QED BY <1>1, <1>4, <1>7, <1>8, <1>10

\* The steps that touch no limiter.
Plain(r) ==
    \/ GetDisabled(r) \/ tryAcquireRequest(r) \/ acquireUnlimited(r) \/ readClock(r)
    \/ releaseRequest(r) \/ recordActivity(r)
    \/ \E a \in Aliases, presented \in Creds \cup {None}, conforms \in BOOLEAN :
        Lookup(r, a, presented, conforms)
    \/ parseRoutePath(r) \/ Prepare(r) \/ RoundTrip(r) \/ Stream(r)

\* The steps, by what they touch.
LEMMA StepCases ==
    ASSUME [Next]_vars
    PROVE  \/ \E r \in Requests : Plain(r)
           \/ \E r \in Requests : acquireLLMRequest(r)
           \/ \E r \in Requests : release(r)
           \/ \E a \in Aliases, route \in Route \cup {NoRoute} : Configure(a, route)
           \/ Tick
           \/ UNCHANGED vars
BY DEF Next, Handle, Await, Plain

\* A plain step touches no route and no limiter.
LEMMA PlainTouchesNoLimiter ==
    ASSUME NEW r \in Requests, Plain(r)
    PROVE  UNCHANGED <<routes, limits, limiter, via, clock>>
BY DEF Plain, GetDisabled, End, tryAcquireRequest, acquireUnlimited, readClock, releaseRequest, recordActivity,
       parseRoutePath, Lookup, Prepare, RoundTrip, Stream

\* A plain step moves its own request, forward, and sets only its own locals.
LEMMA PlainMoves ==
    ASSUME IInv, NEW r \in Requests, Plain(r)
    PROVE  /\ \E t \in Steps :
                /\ GoTo(r, t)
                /\ step[r] \in {"new", "miss", "slot", "limit", "acquire"} \/ t \notin {"new", "miss", "slot", "limit", "acquire"}
                /\ step[r] \in Admitted => t \in Admitted
                /\ IF step[r] = "slot" /\ slots < MaxInFlight THEN t = "limit" /\ slots' = slots + 1
                   ELSE IF step[r] = "unslot" THEN t \notin Holding /\ slots' = IF slots > 0 THEN slots - 1 ELSE slots
                   ELSE (step[r] \in Holding <=> t \in Holding) /\ slots' = slots
           /\ alias' \in [Requests -> Aliases \cup {None}]
           /\ snap' \in [Requests -> Route \cup {NoRoute}]
           /\ result' \in [Requests -> {"none", "failed", "blocked", "allowed"}]
           /\ sent' \in [Requests -> {"no", "sent", "answered"}]
           /\ now' \in [Requests -> 0..MaxClock]
           /\ \A q \in Requests \ {r} :
                /\ alias'[q] = alias[q] /\ snap'[q] = snap[q] /\ result'[q] = result[q]
                /\ sent'[q] = sent[q] /\ now'[q] = now[q]
<1>1. /\ alias \in [Requests -> Aliases \cup {None}]
      /\ snap \in [Requests -> Route \cup {NoRoute}]
      /\ result \in [Requests -> {"none", "failed", "blocked", "allowed"}]
      /\ sent \in [Requests -> {"no", "sent", "answered"}]
      /\ step \in [Requests -> Steps]
      /\ routes \in [Aliases -> Route \cup {NoRoute}]
      /\ now \in [Requests -> 0..MaxClock] /\ clock \in 0..MaxClock
  BY DEF IInv, TypeOK
<1> USE <1>1 DEF Steps, Holding, Admitted
<1>2. CASE GetDisabled(r)
  BY <1>2 DEF GetDisabled, End, GoTo, Result
<1>3. CASE tryAcquireRequest(r)
  BY <1>3 DEF tryAcquireRequest, GoTo, Result
<1>4. CASE acquireUnlimited(r)
  BY <1>4 DEF acquireUnlimited, GoTo, Result
<1>5. CASE releaseRequest(r)
  BY <1>5 DEF releaseRequest, End, GoTo, Result
<1>6. CASE recordActivity(r)
  BY <1>6 DEF recordActivity, End, GoTo, Result
<1>7. CASE \E a \in Aliases, presented \in Creds \cup {None}, conforms \in BOOLEAN :
        Lookup(r, a, presented, conforms)
  BY <1>7 DEF Lookup, GoTo, Result
<1>8. CASE Prepare(r)
  BY <1>8 DEF Prepare, Fail, Refuse, buildUpstreamURL, prepareLLMRequest, GoTo, Result
<1>9. CASE RoundTrip(r)
  BY <1>9 DEF RoundTrip, rewriteLocation, Fail, GoTo, Result
<1>10. CASE Stream(r)
  BY <1>10 DEF Stream, GoTo, Result
<1>11. CASE readClock(r)
  BY <1>11 DEF readClock, GoTo, Result
<1>12. CASE parseRoutePath(r)
  BY <1>12 DEF parseRoutePath, End, GoTo, Result
<1> QED BY <1>2, <1>3, <1>4, <1>5, <1>6, <1>7, <1>8, <1>9, <1>10, <1>11, <1>12 DEF Plain

\* What a plain step leaves its own request with.
LEMMA PlainResult ==
    ASSUME IInv, NEW r \in Requests, Plain(r)
    PROVE  RequestInv(r)'
<1>1. /\ alias \in [Requests -> Aliases \cup {None}]
      /\ snap \in [Requests -> Route \cup {NoRoute}]
      /\ result \in [Requests -> {"none", "failed", "blocked", "allowed"}]
      /\ sent \in [Requests -> {"no", "sent", "answered"}]
      /\ step \in [Requests -> Steps]
      /\ routes \in [Aliases -> Route \cup {NoRoute}]
      /\ now \in [Requests -> 0..MaxClock] /\ clock \in 0..MaxClock
  BY DEF IInv, TypeOK
<1>2. RequestInv(r)
  BY DEF IInv
<1>3. via' = via /\ limiter' = limiter /\ clock' = clock
  BY PlainTouchesNoLimiter
<1> USE <1>1, <1>2, <1>3 DEF Admitted, RequestInv
<1>4. CASE GetDisabled(r)
  BY <1>4 DEF GetDisabled, End, GoTo, Result
<1>5. CASE tryAcquireRequest(r)
  BY <1>5 DEF tryAcquireRequest, GoTo, Result
<1>6. CASE acquireUnlimited(r)
  BY <1>6 DEF acquireUnlimited, GoTo, Result
<1>7. CASE releaseRequest(r)
  BY <1>7 DEF releaseRequest, End, GoTo, Result
<1>8. CASE recordActivity(r)
  BY <1>8 DEF recordActivity, End, GoTo, Result
<1>9. CASE \E a \in Aliases, presented \in Creds \cup {None}, conforms \in BOOLEAN :
        Lookup(r, a, presented, conforms)
  BY <1>9 DEF Lookup, GoTo, Result
<1>10. CASE Prepare(r)
  BY <1>10 DEF Prepare, Fail, Refuse, buildUpstreamURL, prepareLLMRequest, GoTo, Result
<1>11. CASE RoundTrip(r)
  BY <1>11 DEF RoundTrip, rewriteLocation, Fail, GoTo, Result
<1>12. CASE Stream(r)
  BY <1>12 DEF Stream, GoTo, Result
<1>13. CASE readClock(r)
  <2>1. now'[r] = clock /\ clock' = clock /\ clock \in Int
    BY <1>13, BoundsAssumption DEF readClock
  <2> QED BY <1>13, <2>1 DEF readClock, GoTo, Result
<1>14. CASE parseRoutePath(r)
  BY <1>14 DEF parseRoutePath, End, GoTo, Result
<1> QED BY <1>4, <1>5, <1>6, <1>7, <1>8, <1>9, <1>10, <1>11, <1>12, <1>13, <1>14 DEF Plain

\* The steps of a request that touch no limiter keep the invariant.
LEMMA PlainKeeps ==
    ASSUME IInv, NEW r \in Requests, Plain(r)
    PROVE  IInv'
<1>1. PICK t \in Steps :
        /\ GoTo(r, t)
        /\ step[r] \in {"new", "miss", "slot", "limit", "acquire"} \/ t \notin {"new", "miss", "slot", "limit", "acquire"}
        /\ step[r] \in Admitted => t \in Admitted
        /\ IF step[r] = "slot" /\ slots < MaxInFlight THEN t = "limit" /\ slots' = slots + 1
           ELSE IF step[r] = "unslot" THEN t \notin Holding /\ slots' = IF slots > 0 THEN slots - 1 ELSE slots
           ELSE (step[r] \in Holding <=> t \in Holding) /\ slots' = slots
  BY PlainMoves
<1>2. UNCHANGED <<routes, limits, limiter, via, clock>>
  BY PlainTouchesNoLimiter
<1>3. /\ alias' \in [Requests -> Aliases \cup {None}]
      /\ snap' \in [Requests -> Route \cup {NoRoute}]
      /\ result' \in [Requests -> {"none", "failed", "blocked", "allowed"}]
      /\ sent' \in [Requests -> {"no", "sent", "answered"}]
      /\ now' \in [Requests -> 0..MaxClock]
      /\ \A q \in Requests \ {r} :
            /\ alias'[q] = alias[q] /\ snap'[q] = snap[q] /\ result'[q] = result[q]
            /\ sent'[q] = sent[q] /\ now'[q] = now[q]
  BY PlainMoves
<1>4. step' \in [Requests -> Steps] /\ step'[r] = t /\ \A q \in Requests \ {r} : step'[q] = step[q]
  BY <1>1 DEF GoTo, IInv, TypeOK
<1>5. SlotInv'
  <2>1. /\ slots \in Nat /\ MaxInFlight \in Nat
        /\ slots = Cardinality(Holders(Requests, step, Holding)) /\ slots <= MaxInFlight
    BY BoundsAssumption DEF IInv, TypeOK, SlotInv
  <2>2. CASE step[r] = "slot" /\ slots < MaxInFlight
    <3>1. slots' = slots + 1 /\ step[r] \notin Holding /\ t \in Holding
      BY <1>1, <2>2 DEF Holding, Admitted
    <3>2. Cardinality(Holders(Requests, step', Holding)) = Cardinality(Holders(Requests, step, Holding)) + 1
      BY <1>1, <3>1, SlotsFollow
    <3> QED BY <2>1, <2>2, <3>1, <3>2 DEF SlotInv
  <2>3. CASE step[r] = "unslot"
    <3>1. slots' = (IF slots > 0 THEN slots - 1 ELSE slots) /\ step[r] \in Holding /\ t \notin Holding
      BY <1>1, <2>3 DEF Holding, Admitted
    <3>2. /\ Cardinality(Holders(Requests, step, Holding)) > 0
          /\ Cardinality(Holders(Requests, step', Holding)) = Cardinality(Holders(Requests, step, Holding)) - 1
      BY <1>1, <3>1, SlotsFollow
    <3> QED BY <2>1, <3>1, <3>2 DEF SlotInv
  <2>4. CASE ~(step[r] = "slot" /\ slots < MaxInFlight) /\ step[r] # "unslot"
    <3>1. slots' = slots /\ (step[r] \in Holding <=> t \in Holding)
      BY <1>1, <2>4
    <3>2. Holders(Requests, step', Holding) = Holders(Requests, step, Holding)
      BY <1>1, <3>1, SlotsFollow
    <3> QED BY <2>1, <3>1, <3>2 DEF SlotInv
  <2> QED BY <2>2, <2>3, <2>4
<1>6. TypeOK'
  <2>1. slots \in Nat
    BY DEF IInv, TypeOK
  <2>2. slots' \in Nat
    BY <1>1, <2>1
  <2> QED BY <1>2, <1>3, <1>4, <2>2 DEF IInv, TypeOK
<1>7. ASSUME NEW q \in Requests PROVE RequestInv(q)'
  <2>1. CASE q = r
    BY <2>1, PlainResult
  <2>2. CASE q # r
    <3>1. RequestInv(q)
      BY DEF IInv
    <3> QED BY <1>2, <1>3, <1>4, <2>2, <3>1 DEF RequestInv
  <2> QED BY <2>1, <2>2
<1>8. ASSUME NEW s \in Requests PROVE LimiterInv(s)'
  <2>1. LimiterInv(s) /\ limiter' = limiter /\ via' = via /\ clock' = clock
    BY <1>2 DEF IInv
  <2>2. step[s] \notin {"new", "miss", "slot", "limit", "acquire"} => step'[s] \notin {"new", "miss", "slot", "limit", "acquire"}
    BY <1>1, <1>4
  <2> QED BY <2>1, <2>2 DEF LimiterInv
<1>9. ASSUME NEW a \in Aliases PROVE MapInv(a)'
  BY <1>2 DEF IInv, MapInv
<1> QED BY <1>5, <1>6, <1>7, <1>8, <1>9 DEF IInv

\* acquireLLMRequest keeps it, whether it admits, refuses, or makes a new limiter.
LEMMA AcquireKeeps ==
    ASSUME IInv, NEW r \in Requests, acquireLLMRequest(r)
    PROVE  IInv'
<1>0. /\ step[r] = "acquire" /\ UNCHANGED <<routes, alias, snap, slots, clock, sent>>
      /\ now' = [now EXCEPT ![r] = 0]
  BY DEF acquireLLMRequest
<1> DEFINE k == Key(r)
<1>1. /\ limits' \in [Aliases -> Requests \cup {None}] /\ limits' = [limits EXCEPT ![alias[r]] = k]
      /\ limiter' \in [Requests -> Limiter \cup {None}]
      /\ \A a \in Aliases : limits'[a] # None => limiter'[limits'[a]] # None
      /\ \A q \in Requests : via'[q] # None => limiter'[via'[q]] # None
  BY AcquireEffect
<1>2. PICK v \in Requests \cup {None}, l \in Limiter, t \in {"prepare", "unslot"} : Acquired(r, v, l, t)
  BY AcquireEffect
<1>3. k \in Requests /\ (k = r \/ step[k] \notin {"new", "miss", "slot", "limit", "acquire"})
  BY <1>0, FoundLimiter
<1> HIDE DEF k
<1>4. /\ via' = [via EXCEPT ![r] = v] /\ v \in {k, None} /\ GoTo(r, t)
      /\ RateOK(l, clock) /\ l.current <= l.policy.max
      /\ v = None => l.current = Cardinality(Holders(Requests, via, {k}))
      /\ v # None => l.current = Cardinality(Holders(Requests, via, {k})) + 1
      /\ v # None => t = "prepare"
      /\ t = "unslot" => Result(r, "blocked")
      /\ t = "prepare" => result' = result
      /\ limiter'[k] = l
      /\ \A s \in Requests \ {k} : limiter'[s] \in {limiter[s], None}
  BY <1>2 DEF Acquired, k
<1>5. /\ step \in [Requests -> Steps] /\ result \in [Requests -> {"none", "failed", "blocked", "allowed"}]
      /\ via \in [Requests -> Requests \cup {None}] /\ None \notin Requests /\ via[r] = None
      /\ now \in [Requests -> 0..MaxClock] /\ clock \in 0..MaxClock
  BY <1>0, NoneAssumption DEF IInv, TypeOK, RequestInv, Admitted
<1>6. /\ step' \in [Requests -> Steps] /\ step'[r] = t /\ \A q \in Requests \ {r} : step'[q] = step[q]
      /\ via' \in [Requests -> Requests \cup {None}] /\ via'[r] = v /\ \A q \in Requests \ {r} : via'[q] = via[q]
      /\ result' \in [Requests -> {"none", "failed", "blocked", "allowed"}]
      /\ \A q \in Requests \ {r} : result'[q] = result[q]
      /\ t = "unslot" => result'[r] = "blocked"
  BY <1>4, <1>5 DEF GoTo, Result, Steps
<1>6a. /\ now' \in [Requests -> 0..MaxClock] /\ now'[r] = 0 /\ 0 <= clock'
       /\ \A q \in Requests \ {r} : now'[q] = now[q]
  BY <1>0, <1>5, BoundsAssumption
<1>7. TypeOK'
  BY <1>0, <1>1, <1>6, <1>6a DEF IInv, TypeOK
<1>8. SlotInv'
  <2>1. t \in Steps /\ step[r] \in Holding /\ t \in Holding
    BY <1>0 DEF Holding, Admitted, Steps
  <2>2. Holders(Requests, step', Holding) = Holders(Requests, step, Holding)
    BY <1>4, <2>1, SlotsFollow
  <2> QED BY <1>0, <2>2 DEF IInv, SlotInv
<1>9. ASSUME NEW q \in Requests PROVE RequestInv(q)'
  <2>1. RequestInv(q) /\ (via'[q] # None => limiter'[via'[q]] # None)
    BY <1>1 DEF IInv
  <2>2. CASE q = r
    <3>1. RequestInv(r)
      BY DEF IInv
    <3> QED BY <1>0, <1>4, <1>6, <1>6a, <2>1, <2>2, <3>1 DEF RequestInv, Admitted
  <2>3. CASE q # r
    BY <1>0, <1>6, <1>6a, <2>1, <2>3 DEF RequestInv
  <2> QED BY <2>2, <2>3
<1>10. ASSUME NEW s \in Requests PROVE LimiterInv(s)'
  <2>1. SUFFICES ASSUME limiter'[s] # None
                 PROVE  /\ step'[s] \notin {"new", "miss", "slot", "limit", "acquire"}
                        /\ limiter'[s].current = Cardinality(Holders(Requests, via', {s}))
                        /\ limiter'[s].current <= limiter'[s].policy.max
                        /\ RateOK(limiter'[s], clock)
    BY <1>0 DEF LimiterInv
  <2>2. CASE s = k
    <3>1. step'[s] \notin {"new", "miss", "slot", "limit", "acquire"}
      BY <1>3, <1>6, <2>2
    <3>2. l.current = Cardinality(Holders(Requests, via', {k}))
      <4>1. CASE v = None
        <5>1. Holders(Requests, via', {k}) = Holders(Requests, via, {k})
          BY <1>3, <1>4, <1>5, <4>1, CapturesFollow
        <5> QED BY <1>4, <4>1, <5>1
      <4>2. CASE v # None
        <5>1. v = k /\ via[r] # k
          BY <1>3, <1>4, <1>5, <4>2
        <5>2. Cardinality(Holders(Requests, via', {k})) = Cardinality(Holders(Requests, via, {k})) + 1
          BY <1>3, <1>4, <5>1, CapturesFollow
        <5> QED BY <1>4, <4>2, <5>2
      <4> QED BY <4>1, <4>2
    <3> QED BY <1>4, <2>2, <3>1, <3>2
  <2>3. CASE s # k
    <3>1. limiter'[s] = limiter[s] /\ limiter[s] # None /\ LimiterInv(s)
      BY <1>4, <2>1, <2>3 DEF IInv
    <3>2. s # r /\ step'[s] = step[s]
      BY <1>0, <1>6, <3>1 DEF LimiterInv
    <3>3. via[r] # s /\ v # s
      BY <1>4, <1>5, <2>3
    <3>4. Holders(Requests, via', {s}) = Holders(Requests, via, {s})
      BY <1>4, <3>3, CapturesFollow
    <3> QED BY <3>1, <3>2, <3>4 DEF LimiterInv
  <2> QED BY <2>2, <2>3
<1>11. ASSUME NEW a \in Aliases PROVE MapInv(a)'
  BY <1>1 DEF MapInv
<1> QED BY <1>7, <1>8, <1>9, <1>10, <1>11 DEF IInv

\* Giving back a place in a limiter keeps it, the limiter being current or replaced.
LEMMA ReleaseKeeps ==
    ASSUME IInv, NEW r \in Requests, release(r)
    PROVE  IInv'
<1>1. /\ step[r] = "unlimit" /\ GoTo(r, "unslot")
      /\ UNCHANGED <<routes, alias, snap, result, slots, limits, clock, now, sent>>
  BY DEF release
<1>2. /\ via' = [via EXCEPT ![r] = None]
      /\ limiter' \in [Requests -> Limiter \cup {None}]
      /\ \A a \in Aliases : limits'[a] # None => limiter'[limits'[a]] # None
      /\ \A q \in Requests : via'[q] # None => limiter'[via'[q]] # None
  BY ReleaseEffect
<1>3. /\ step' \in [Requests -> Steps] /\ step'[r] = "unslot" /\ \A q \in Requests \ {r} : step'[q] = step[q]
      /\ via' \in [Requests -> Requests \cup {None}] /\ via'[r] = None /\ \A q \in Requests \ {r} : via'[q] = via[q]
  BY <1>1, <1>2 DEF IInv, TypeOK, GoTo, Steps
<1>4. TypeOK'
  BY <1>1, <1>2, <1>3 DEF IInv, TypeOK
<1>5. SlotInv'
  <2>1. "unslot" \in Steps /\ step[r] \in Holding /\ "unslot" \in Holding
    BY <1>1 DEF Holding, Admitted, Steps
  <2>2. Holders(Requests, step', Holding) = Holders(Requests, step, Holding)
    BY <1>1, <2>1, SlotsFollow
  <2> QED BY <1>1, <2>2 DEF IInv, SlotInv
<1>6. ASSUME NEW q \in Requests PROVE RequestInv(q)'
  <2>1. RequestInv(q) /\ (via'[q] # None => limiter'[via'[q]] # None)
    BY <1>2 DEF IInv
  <2> QED BY <1>1, <1>3, <2>1 DEF RequestInv
<1>7. ASSUME NEW s \in Requests PROVE LimiterInv(s)'
  <2>1. SUFFICES ASSUME limiter'[s] # None
                 PROVE  /\ step'[s] \notin {"new", "miss", "slot", "limit", "acquire"}
                        /\ limiter'[s].current = Cardinality(Holders(Requests, via', {s}))
                        /\ limiter'[s].current <= limiter'[s].policy.max
                        /\ RateOK(limiter'[s], clock)
    BY <1>1 DEF LimiterInv
  <2>2. /\ limiter[s] # None
        /\ limiter'[s].policy = limiter[s].policy
        /\ limiter'[s].current = Cardinality(Holders(Requests, via', {s}))
        /\ limiter'[s].current <= limiter[s].current
        /\ RateOK(limiter'[s], clock)
    BY <2>1, ReleaseEffect
  <2>3. step[s] \notin {"new", "miss", "slot", "limit", "acquire"} /\ limiter[s].current <= limiter[s].policy.max
    BY <2>2 DEF IInv, LimiterInv
  <2>4. step'[s] \notin {"new", "miss", "slot", "limit", "acquire"}
    BY <1>3, <2>3
  <2>5. /\ limiter'[s].current \in Nat /\ limiter[s].current \in Nat /\ limiter[s].policy.max \in Nat
    <3>1. limiter'[s] \in Limiter /\ limiter[s] \in Limiter
      BY <1>2, <2>1, <2>2 DEF IInv, TypeOK
    <3> QED BY <3>1, LogDomain DEF Limiter
  <2> QED BY <2>2, <2>3, <2>4, <2>5
<1>8. ASSUME NEW a \in Aliases PROVE MapInv(a)'
  BY <1>2 DEF MapInv
<1> QED BY <1>4, <1>5, <1>6, <1>7, <1>8 DEF IInv

\* An edit of the registry touches no request: each goes on with its snapshot.
LEMMA ConfigureKeeps ==
    ASSUME IInv, NEW a \in Aliases, NEW route \in Route \cup {NoRoute}, Configure(a, route)
    PROVE  IInv'
<1>1. /\ routes' = [routes EXCEPT ![a] = route]
      /\ UNCHANGED <<step, alias, snap, result, slots, limits, limiter, via, clock, now, sent>>
  BY DEF Configure, served
<1>2. TypeOK'
  BY <1>1 DEF IInv, TypeOK
<1> QED BY <1>1, <1>2 DEF IInv, SlotInv, RequestInv, LimiterInv, MapInv

\* Time passing keeps it.
LEMMA TickKeeps ==
    ASSUME IInv, Tick
    PROVE  IInv'
<1>1. /\ clock < MaxClock /\ clock' = clock + 1
      /\ UNCHANGED <<routes, step, alias, snap, result, slots, limits, limiter, via, now, sent>>
  BY DEF Tick, served
<1>2. clock \in Nat /\ clock' \in Nat /\ clock <= clock' /\ clock' \in 0..MaxClock
  BY <1>1, BoundsAssumption DEF IInv, TypeOK
<1>3. TypeOK'
  BY <1>1, <1>2 DEF IInv, TypeOK
<1>4. ASSUME NEW s \in Requests PROVE LimiterInv(s)'
  <2>1. LimiterInv(s) /\ (limiter[s] # None => limiter[s] \in Limiter)
    BY DEF IInv, TypeOK
  <2>2. limiter[s] # None => RateOK(limiter[s], clock')
    BY <1>2, <2>1, RateLater DEF LimiterInv
  <2> QED BY <1>1, <2>1, <2>2 DEF LimiterInv
<1>5. ASSUME NEW r \in Requests PROVE RequestInv(r)'
  <2>1. RequestInv(r) /\ now[r] \in Int /\ now[r] <= clock
    BY BoundsAssumption DEF IInv, TypeOK, RequestInv
  <2> QED BY <1>1, <1>2, <2>1 DEF RequestInv, Admitted
<1> QED BY <1>1, <1>3, <1>4, <1>5 DEF IInv, SlotInv, MapInv

\* The invariant holds at first.
LEMMA InitialInvariant ==
    ASSUME Init
    PROVE  IInv
<1>1. TypeOK
  <2>1. step \in [Requests -> Steps] /\ result \in [Requests -> {"none", "failed", "blocked", "allowed"}]
    BY DEF Init, Steps
  <2>2. alias \in [Requests -> Aliases \cup {None}] /\ snap \in [Requests -> Route \cup {NoRoute}]
    BY DEF Init
  <2>3. /\ limits \in [Aliases -> Requests \cup {None}] /\ limiter \in [Requests -> Limiter \cup {None}]
        /\ via \in [Requests -> Requests \cup {None}]
    BY DEF Init
  <2>4. sent \in [Requests -> {"no", "sent", "answered"}] /\ clock \in 0..MaxClock /\ slots \in Nat
        /\ now \in [Requests -> 0..MaxClock]
    BY BoundsAssumption DEF Init
  <2> QED BY <2>1, <2>2, <2>3, <2>4 DEF Init, TypeOK
<1>2. SlotInv
  <2>1. \A r \in Requests : step[r] \notin Holding
    BY DEF Init, Holding, Admitted
  <2>2. Cardinality(Holders(Requests, step, Holding)) = 0
    BY <2>1, NoHolders
  <2> QED BY <2>2, BoundsAssumption DEF Init, SlotInv
<1>3. \A r \in Requests : RequestInv(r)
  BY DEF Init, RequestInv, Admitted
<1>4. \A s \in Requests : LimiterInv(s)
  BY DEF Init, LimiterInv
<1>5. \A a \in Aliases : MapInv(a)
  BY DEF Init, MapInv
<1> QED BY <1>1, <1>2, <1>3, <1>4, <1>5 DEF IInv

\* Every step keeps the invariant.
LEMMA Induction ==
    ASSUME IInv, [Next]_vars
    PROVE  IInv'
<1>1. CASE UNCHANGED vars
  BY <1>1 DEF vars, served, IInv, TypeOK, SlotInv, RequestInv, LimiterInv, MapInv
<1> QED BY <1>1, StepCases, PlainKeeps, AcquireKeeps, ReleaseKeeps, ConfigureKeeps, TickKeeps

-----------------------------------------------------------------------------
(* The theorems.                                                           *)

\* ServeHTTP, the control server's edits and the clock keep the inductive invariant.
THEOREM Invariance == Spec => []IInv
BY InitialInvariant, Induction, PTL DEF Spec

\* Every variable has its type, for any number of requests: in particular a release
\* takes no counter below zero, and the map holds only limiters that requests made.
THEOREM TypeCorrect == Spec => []TypeOK
<1>1. IInv => TypeOK
  BY DEF IInv
<1> QED BY <1>1, Invariance, PTL

\* The tokens in Handler.requests are those of the requests between tryAcquireRequest
\* and the deferred releaseRequest, and no more than the channel holds, whichever
\* return each request takes.
THEOREM SlotsAreExact == Spec => []SlotsMatchHolders
<1>1. IInv => SlotsMatchHolders
  <2>1. Holders(Requests, step, Holding) = {r \in Requests : HasSlot(r)}
    BY DEF Holders, Holding, Admitted, HasSlot
  <2> QED BY <2>1 DEF IInv, SlotInv, SlotsMatchHolders
<1> QED BY <1>1, Invariance, PTL

\* The counter of every limiter is the number of release closures that captured it,
\* however often policy and credential change and with them the limiter in the map.
THEOREM LimitersAreExact == Spec => []LimitersMatchHolders
<1>1. IInv => LimitersMatchHolders
  <2>1. \A s \in Requests : Holders(Requests, via, {s}) = {r \in Requests : via[r] = s}
    BY DEF Holders
  <2> QED BY <2>1 DEF IInv, LimiterInv, LimitersMatchHolders
<1> QED BY <1>1, Invariance, PTL

\* acquireLLMRequest keeps every limiter to its rate, for every policy, every length of
\* the minute and however long requests wait between reading the clock and the lock: in
\* the minute after a request read the clock at most twice the requests per minute.
THEOREM RateIsBounded == Spec => []RateBoundPerMinute
<1>1. IInv => RateBoundPerMinute
  <2>1. SUFFICES ASSUME IInv, NEW s \in Requests, limiter[s] # None, NEW i \in DOMAIN limiter[s].log
                 PROVE  Len(limiter[s].log) - i + 1
                          <= limiter[s].policy.rpm * (2 + (clock - limiter[s].log[i].now) \div Minute)
    BY DEF RateBoundPerMinute
  <2>2. limiter[s] \in Limiter /\ RateOK(limiter[s], clock) /\ clock \in Nat
    <3>1. limiter[s] \in Limiter \cup {None} /\ clock \in 0..MaxClock
      BY <2>1 DEF IInv, TypeOK
    <3>2. clock \in Nat
      BY <3>1, BoundsAssumption
    <3>3. RateOK(limiter[s], clock)
      BY <2>1 DEF IInv, LimiterInv
    <3> QED BY <2>1, <3>1, <3>2, <3>3
  <2>3. i \in 1..Len(limiter[s].log)
    BY <2>1, <2>2, LogDomain
  <2> QED BY <2>2, <2>3, RateFollows
<1> QED BY <1>1, Invariance, PTL

\* What recordActivity writes is what happened between the gateway and the upstream,
\* on every path through ServeHTTP.
THEOREM ActivityIsTrue == Spec => []ActivityTellsTruth
<1>1. IInv => ActivityTellsTruth
  BY DEF IInv, RequestInv, ActivityTellsTruth
<1> QED BY <1>1, Invariance, PTL

\* Only a request itself goes from one step of ServeHTTP to another.
LEMMA OwnStep ==
    ASSUME IInv, Next, NEW r \in Requests, step'[r] # step[r] PROVE Handle(r) \/ Await(r)
<1>1. step \in [Requests -> Steps]
  BY DEF IInv, TypeOK
<1>2. PICK q \in Requests : Handle(q) \/ Await(q)
  <2>1. CASE \E a \in Aliases, route \in Route \cup {NoRoute} : Configure(a, route)
    BY <2>1 DEF Configure, served
  <2>2. CASE Tick
    BY <2>2 DEF Tick, served
  <2> QED BY <2>1, <2>2 DEF Next
<1>3. \E s \in Steps : GoTo(q, s)
  <2>1. CASE Handle(q)
    BY <2>1 DEF Handle, GetDisabled, End, tryAcquireRequest, acquireLLMRequest, acquireUnlimited, readClock,
                release, releaseRequest, recordActivity, GoTo, Steps
  <2>2. CASE Await(q)
    BY <2>2 DEF Await, parseRoutePath, End, Lookup, Prepare, Fail, Refuse, buildUpstreamURL, prepareLLMRequest,
                RoundTrip, rewriteLocation, Stream, GoTo, Steps
  <2> QED BY <1>2, <2>1, <2>2
<1>4. q = r
  BY <1>1, <1>3 DEF GoTo
<1> QED BY <1>2, <1>4

\* The two steps that turn a request away.
LEMMA TurnedAway ==
    ASSUME IInv, NEW r \in Requests, Handle(r) \/ Await(r)
    PROVE  /\ step[r] = "slot" /\ step'[r] = "record" => tryAcquireRequest(r) /\ ~(slots < MaxInFlight)
           /\ step[r] = "acquire" /\ step'[r] = "unslot" => acquireLLMRequest(r)
<1>1. step \in [Requests -> Steps]
  BY DEF IInv, TypeOK
<1>2. step[r] = "slot" => tryAcquireRequest(r)
  BY DEF Handle, Await, GetDisabled, tryAcquireRequest, acquireLLMRequest, acquireUnlimited, readClock,
         release, releaseRequest, recordActivity, parseRoutePath, Lookup, Prepare, RoundTrip, Stream
<1>3. tryAcquireRequest(r) /\ slots < MaxInFlight => step'[r] = "limit"
  BY <1>1 DEF tryAcquireRequest, GoTo
<1>4. step[r] = "acquire" => acquireLLMRequest(r)
  BY DEF Handle, Await, GetDisabled, tryAcquireRequest, acquireLLMRequest, acquireUnlimited, readClock,
         release, releaseRequest, recordActivity, parseRoutePath, Lookup, Prepare, RoundTrip, Stream
<1> QED BY <1>2, <1>3, <1>4

\* A limiter admitted the requests it counts no more than a minute before the time by
\* which its window is not over.
LEMMA CountedLately ==
    ASSUME NEW l \in Limiter, NEW t \in Nat, RateOK(l, t), NEW read \in Nat, read - l.started < Minute
    PROVE  Cardinality({i \in DOMAIN l.log : read - l.log[i].at < Minute}) >= l.requests
<1> DEFINE lately == {i \in DOMAIN l.log : read - l.log[i].at < Minute}
<1>1. /\ DOMAIN l.log = 1..Len(l.log) /\ Len(l.log) \in Nat /\ l.requests \in Nat /\ l.started \in Nat
      /\ \A j \in 1..Len(l.log) : l.log[j].at \in Nat
      /\ l.requests <= Len(l.log) /\ Minute \in Nat
  BY LogDomain, BoundsAssumption DEF RateOK
<1>2. InWindow(l) \subseteq lately
  <2> SUFFICES ASSUME NEW j \in InWindow(l) PROVE j \in 1..Len(l.log) /\ read - l.log[j].at < Minute
    BY <1>1
  <2>1. j \in 1..Len(l.log)
    BY <1>1 DEF InWindow
  <2>2. l.started <= l.log[j].at
    BY DEF RateOK
  <2> QED BY <1>1, <2>1, <2>2
<1>3. Cardinality(InWindow(l)) = l.requests
  BY <1>1, LastOnes DEF InWindow
<1>4. IsFiniteSet(lately)
  <2>1. IsFiniteSet(1..Len(l.log))
    <3>1. 1 \in Int /\ Len(l.log) \in Int
      BY <1>1
    <3> QED BY <3>1, FS_Interval
  <2> QED BY <1>1, <2>1, FS_Subset
<1> HIDE DEF lately
<1>5. Cardinality(InWindow(l)) <= Cardinality(lately)
  BY <1>2, <1>4, FS_Subset
<1>6. Cardinality(lately) \in Nat
  BY <1>4, FS_CardinalityType
<1> QED BY <1>1, <1>3, <1>5, <1>6 DEF lately

\* acquireLLMRequest refuses with a limiter that was there, of the request's own
\* credential and policy, and whose limit is reached.
LEMMA RefusedByLimiter ==
    ASSUME IInv, NEW r \in Requests, acquireLLMRequest(r), step'[r] = "unslot"
    PROVE  LET s == limits[alias[r]] IN
           /\ s # None /\ SameLimits(limiter[s], r)
           /\ \/ Cardinality({q \in Requests : via[q] = s}) = snap[r].policy.max
              \/ Cardinality({i \in DOMAIN limiter[s].log : now[r] - limiter[s].log[i].at < Minute})
                   >= snap[r].policy.rpm
<1> DEFINE s == limits[alias[r]]
           f == Found(r)
<1>1. step[r] = "acquire" /\ step \in [Requests -> Steps] /\ clock \in Nat
  BY BoundsAssumption DEF acquireLLMRequest, IInv, TypeOK
<1>2. /\ Key(r) \in Requests /\ f \in Limiter /\ RateOK(f, clock)
      /\ now[r] - f.started < Minute /\ now[r] \in Nat
      /\ f.current = Cardinality(Holders(Requests, via, {Key(r)})) /\ f.current <= f.policy.max
  BY <1>1, FoundLimiter
<1>3. f.current >= f.policy.max \/ f.requests >= f.policy.rpm
  <2>1. CASE ~(f.current >= f.policy.max \/ f.requests >= f.policy.rpm)
    <3>1. GoTo(r, "prepare")
      BY <2>1 DEF acquireLLMRequest
    <3> QED BY <1>1, <3>1 DEF GoTo
  <2> QED BY <2>1
<1>4. f.current \in Nat /\ f.requests \in Nat /\ f.policy.max \in Nat \ {0} /\ f.policy.rpm \in Nat \ {0}
  <2> HIDE DEF f
  <2> QED BY <1>2, LogDomain DEF Limiter
<1>5. ~Fresh(r)
  <2>1. Fresh(r) => f.current = 0 /\ f.requests = 0
    BY DEF Found
  <2> HIDE DEF f
  <2> QED BY <1>3, <1>4, <2>1
<1>6. s # None /\ SameLimits(limiter[s], r) /\ Key(r) = s
  BY <1>5 DEF Fresh, Key
<1>7. f.policy = snap[r].policy /\ f.log = limiter[s].log
  <2>1. limiter[s] \in Limiter
    <3>1. limits[alias[r]] # None /\ alias[r] \in Aliases
      BY <1>1, <1>6 DEF IInv, RequestInv
    <3> QED BY <3>1 DEF IInv, TypeOK, MapInv
  <2>2. f = IF WindowOver(limiter[s], r) THEN [limiter[s] EXCEPT !.started = now[r], !.requests = 0]
            ELSE limiter[s]
    BY <1>5 DEF Found
  <2>3. f.policy = limiter[s].policy /\ f.log = limiter[s].log
    <3> HIDE DEF f, s
    <3> QED BY <2>1, <2>2 DEF Limiter
  <2> QED BY <1>6, <2>3 DEF SameLimits
<1> HIDE DEF f, s
<1>8. CASE f.current >= f.policy.max
  <2>1. Holders(Requests, via, {s}) = {q \in Requests : via[q] = s}
    BY DEF Holders
  <2>2. f.current = f.policy.max
    BY <1>2, <1>4, <1>8
  <2>3. f.current = Cardinality({q \in Requests : via[q] = s})
    BY <1>2, <1>6, <2>1, Zenon
  <2> QED BY <1>6, <1>7, <2>2, <2>3 DEF s
<1>9. CASE f.requests >= f.policy.rpm
  <2>1. Cardinality({i \in DOMAIN f.log : now[r] - f.log[i].at < Minute}) >= f.requests
    BY <1>1, <1>2, CountedLately
  <2>2. Cardinality({i \in DOMAIN f.log : now[r] - f.log[i].at < Minute}) \in Nat
    <3>1. DOMAIN f.log = 1..Len(f.log) /\ Len(f.log) \in Nat
      BY <1>2, LogDomain
    <3>2. IsFiniteSet(1..Len(f.log))
      <4>1. 1 \in Int /\ Len(f.log) \in Int
        BY <3>1
      <4> QED BY <4>1, FS_Interval
    <3> QED BY <3>1, <3>2, FS_Subset, FS_CardinalityType
  <2>3. Cardinality({i \in DOMAIN f.log : now[r] - f.log[i].at < Minute}) >= f.policy.rpm
    BY <1>4, <1>9, <2>1, <2>2
  <2> QED BY <1>6, <1>7, <2>3 DEF s
<1> QED BY <1>3, <1>8, <1>9

\* tryAcquireRequest and acquireLLMRequest turn a request away only when the slots, or
\* the policy the request read, are used up: for any number of requests and slots, any
\* policies and however often they change.
THEOREM RefusalsAreDue == Spec => RefusedOnlyAtLimit
<1> DEFINE Step ==
        \A r \in Requests :
            /\ step[r] = "slot" /\ step'[r] = "record" =>
                Cardinality({q \in Requests : HasSlot(q)}) = MaxInFlight
            /\ step[r] = "acquire" /\ step'[r] = "unslot" =>
                LET s == limits[alias[r]] IN
                /\ s # None /\ SameLimits(limiter[s], r)
                /\ \/ Cardinality({q \in Requests : via[q] = s}) = snap[r].policy.max
                   \/ Cardinality({i \in DOMAIN limiter[s].log : now[r] - limiter[s].log[i].at < Minute})
                        >= snap[r].policy.rpm
<1>1. IInv /\ [Next]_vars => [Step]_vars
  <2> SUFFICES ASSUME IInv, Next, NEW r \in Requests
               PROVE  /\ step[r] = "slot" /\ step'[r] = "record" =>
                            Cardinality({q \in Requests : HasSlot(q)}) = MaxInFlight
                      /\ step[r] = "acquire" /\ step'[r] = "unslot" =>
                            LET s == limits[alias[r]] IN
                            /\ s # None /\ SameLimits(limiter[s], r)
                            /\ \/ Cardinality({q \in Requests : via[q] = s}) = snap[r].policy.max
                               \/ Cardinality({i \in DOMAIN limiter[s].log :
                                                now[r] - limiter[s].log[i].at < Minute})
                                    >= snap[r].policy.rpm
    OBVIOUS
  <2>1. CASE step[r] = "slot" /\ step'[r] = "record"
    <3>1. ~(slots < MaxInFlight)
      BY <2>1, OwnStep, TurnedAway
    <3>2. slots = Cardinality({q \in Requests : HasSlot(q)}) /\ slots <= MaxInFlight
      BY DEF Holders, Holding, Admitted, HasSlot, IInv, SlotInv
    <3>3. slots \in Nat /\ MaxInFlight \in Nat
      BY BoundsAssumption DEF IInv, TypeOK
    <3> QED BY <2>1, <3>1, <3>2, <3>3
  <2>2. CASE step[r] = "acquire" /\ step'[r] = "unslot"
    <3>1. acquireLLMRequest(r)
      BY <2>2, OwnStep, TurnedAway
    <3> QED BY <2>2, <3>1, RefusedByLimiter
  <2> QED BY <2>1, <2>2
<1>2. [][Step]_vars => RefusedOnlyAtLimit
  BY PTL DEF RefusedOnlyAtLimit
<1> QED BY <1>1, <1>2, Invariance, PTL DEF Spec

=============================================================================
