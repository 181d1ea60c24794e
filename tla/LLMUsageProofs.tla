--------------------------- MODULE LLMUsageProofs ---------------------------
(***************************************************************************)
(* Proofs about LLMUsage and the computations of LLMRequest: the counter   *)
(* of a route, for any number of routes and responses, and what the policy *)
(* of a route lets through, for every body and every limit.                *)
(***************************************************************************)
EXTENDS LLMUsage, SequenceTheorems, WellFoundedInduction, TLAPS

-----------------------------------------------------------------------------
(* The capture of a response.                                              *)

Count == [input: Nat, output: Nat]

\* A set of numbers that is not empty has a smallest one, which Min finds.
LEMMA Smallest ==
    ASSUME NEW S, S \subseteq Nat, S # {}
    PROVE  Min(S) \in S /\ \A y \in S : Min(S) <= y
<1> DEFINE R == OpToRel(<, Nat)
<1>1. IsWellFoundedOn(R, Nat)
  BY NatLessThanWellFounded, Zenon
<1>2. \A x, y \in Nat : x < y => <<x, y>> \in R
  BY DEF OpToRel
<1> HIDE DEF R
<1>3. PICK x \in S : \A y \in S : ~(<<y, x>> \in R)
  BY <1>1, WFMin
<1>4. \A y \in S : ~(y < x)
  BY <1>2, <1>3, Zenon
<1>5. \A y \in S : x <= y
  BY <1>4
<1> QED BY <1>5 DEF Min

\* If it is bounded it has a largest one, which Max finds.
LEMMA Greatest ==
    ASSUME NEW bound \in Nat, NEW S, S \subseteq 0..bound, S # {}
    PROVE  Max(S) \in S /\ \A y \in S : Max(S) >= y
<1> DEFINE below == {bound - x : x \in S}
<1>1. below \subseteq Nat /\ below # {}
  <2>1. \A x \in S : x \in 0..bound /\ bound - x \in Nat
    OBVIOUS
  <2> QED BY <2>1
<1> HIDE DEF below
<1>2. Min(below) \in below /\ \A y \in below : Min(below) <= y
  BY <1>1, Smallest
<1>3. PICK x \in S : Min(below) = bound - x
  BY <1>2 DEF below
<1>4. \A y \in S : bound - y \in below
  BY DEF below
<1>5. \A y \in S : x >= y
  BY <1>2, <1>3, <1>4
<1> QED BY <1>5 DEF Max

\* It is the only one.
LEMMA GreatestIs ==
    ASSUME NEW bound \in Nat, NEW S, S \subseteq 0..bound, NEW x \in S, \A y \in S : x >= y
    PROVE  Max(S) = x
<1>1. Max(S) \in S /\ \A y \in S : Max(S) >= y
  BY Greatest
<1>2. Max(S) >= x /\ x >= Max(S) /\ Max(S) \in 0..bound /\ x \in 0..bound
  BY <1>1
<1> QED BY <1>2

\* firstTokenCount finds a number of the usage object, or nothing.
LEMMA FirstIsCount ==
    ASSUME NEW u \in UsageObject, NEW keys \in Seq(UsageKeys)
    PROVE  firstTokenCount(u, keys) \in 0..MaxCount
<1> DEFINE found == {i \in DOMAIN keys : u[keys[i]] \notin {Absent, Malformed}}
<1>1. CASE found = {}
  BY <1>1, BoundsAssumption DEF firstTokenCount
<1>2. CASE found # {}
  <2>1. found \subseteq Nat
    OBVIOUS
  <2>2. Min(found) \in found
    BY <1>2, <2>1, Smallest
  <2>3. u[keys[Min(found)]] \in 0..MaxCount
    BY <2>2 DEF UsageObject
  <2> QED BY <1>2, <2>3 DEF firstTokenCount
<1> QED BY <1>1, <1>2

\* So the numbers of a usage object are bounded.
LEMMA ParsedIsCount ==
    ASSUME NEW u \in UsageObject
    PROVE  /\ parseLLMUsageObject(u).input \in 0..3 * MaxCount
           /\ parseLLMUsageObject(u).output \in 0..3 * MaxCount
<1>1. /\ <<"input_tokens", "prompt_tokens">> \in Seq(UsageKeys)
      /\ <<"cache_creation_input_tokens">> \in Seq(UsageKeys)
      /\ <<"cache_read_input_tokens">> \in Seq(UsageKeys)
      /\ <<"output_tokens", "completion_tokens">> \in Seq(UsageKeys)
  BY DEF UsageKeys
<1>2. /\ firstTokenCount(u, <<"input_tokens", "prompt_tokens">>) \in 0..MaxCount
      /\ firstTokenCount(u, <<"cache_creation_input_tokens">>) \in 0..MaxCount
      /\ firstTokenCount(u, <<"cache_read_input_tokens">>) \in 0..MaxCount
      /\ firstTokenCount(u, <<"output_tokens", "completion_tokens">>) \in 0..MaxCount
  BY <1>1, FirstIsCount
<1> QED BY <1>2, BoundsAssumption DEF parseLLMUsageObject

\* The largest numbers of some reports: at least each of them, and each one of them or
\* zero.
LEMMA LargestIs ==
    ASSUME NEW bound \in Nat, NEW counts, \A c \in counts : c.input \in 0..bound /\ c.output \in 0..bound
    PROVE  LET largest == Largest(counts) IN
           /\ largest \in Count
           /\ largest.input \in 0..bound /\ largest.output \in 0..bound
           /\ largest.input \in {c.input : c \in counts} \cup {0}
           /\ largest.output \in {c.output : c \in counts} \cup {0}
           /\ \A c \in counts : largest.input >= c.input /\ largest.output >= c.output
<1> DEFINE inputs == {c.input : c \in counts} \cup {0}
           outputs == {c.output : c \in counts} \cup {0}
<1>1. inputs \subseteq 0..bound /\ outputs \subseteq 0..bound /\ inputs # {} /\ outputs # {}
  OBVIOUS
<1>2. \A c \in counts : c.input \in inputs /\ c.output \in outputs
  OBVIOUS
<1>3. Largest(counts) = [input |-> Max(inputs), output |-> Max(outputs)]
  BY DEF Largest
<1> HIDE DEF inputs, outputs
<1>4. Max(inputs) \in inputs /\ \A y \in inputs : Max(inputs) >= y
  BY <1>1, Greatest
<1>5. Max(outputs) \in outputs /\ \A y \in outputs : Max(outputs) >= y
  BY <1>1, Greatest
<1>6. Largest(counts).input = Max(inputs) /\ Largest(counts).output = Max(outputs)
  BY <1>3
<1>7. Max(inputs) \in 0..bound /\ Max(outputs) \in 0..bound
  BY <1>1, <1>4, <1>5
<1>8. Largest(counts) \in Count
  BY <1>3, <1>7 DEF Count
<1>9. \A c \in counts : Largest(counts).input >= c.input /\ Largest(counts).output >= c.output
  BY <1>2, <1>4, <1>5, <1>6
<1> QED BY <1>4, <1>5, <1>6, <1>7, <1>8, <1>9 DEF inputs, outputs

\* Nothing else has the largest numbers.
LEMMA LargestUnique ==
    ASSUME NEW bound \in Nat, NEW counts, \A c \in counts : c.input \in 0..bound /\ c.output \in 0..bound,
           NEW m, m \in Count,
           m.input \in {c.input : c \in counts} \cup {0},
           m.output \in {c.output : c \in counts} \cup {0},
           \A c \in counts : m.input >= c.input /\ m.output >= c.output
    PROVE  Largest(counts) = m
<1>1. Max({c.input : c \in counts} \cup {0}) = m.input
  <2> DEFINE S == {c.input : c \in counts} \cup {0}
  <2>1. S \subseteq 0..bound /\ m.input \in S /\ \A y \in S : m.input >= y
    BY DEF Count
  <2> HIDE DEF S
  <2>2. Max(S) = m.input
    BY <2>1, GreatestIs
  <2> QED BY <2>2 DEF S
<1>2. Max({c.output : c \in counts} \cup {0}) = m.output
  <2> DEFINE S == {c.output : c \in counts} \cup {0}
  <2>1. S \subseteq 0..bound /\ m.output \in S /\ \A y \in S : m.output >= y
    BY DEF Count
  <2> HIDE DEF S
  <2>2. Max(S) = m.output
    BY <2>1, GreatestIs
  <2> QED BY <2>2 DEF S
<1> QED BY <1>1, <1>2 DEF Largest, Count

\* The largest of the largest numbers of each line are the largest of all.
LEMMA LargestOfLines ==
    ASSUME NEW lines, lines \subseteq Lines
    PROVE  /\ Largest({extractLLMTokenUsage(line) : line \in lines})
                = Largest({parseLLMUsageObject(u) : u \in UNION lines})
           /\ Largest({parseLLMUsageObject(u) : u \in UNION lines}) \in Count
<1> DEFINE bound == 3 * MaxCount
           all == {parseLLMUsageObject(u) : u \in UNION lines}
           each == {extractLLMTokenUsage(line) : line \in lines}
           of(line) == {parseLLMUsageObject(u) : u \in line}
<1>1. bound \in Nat
  BY BoundsAssumption
<1>2. \A u \in UNION lines : u \in UsageObject
  BY LinesAssumption
<1>3. \A c \in all : c.input \in 0..bound /\ c.output \in 0..bound
  BY <1>2, ParsedIsCount
<1>4. \A line \in lines : \A c \in of(line) : c \in all
  OBVIOUS
<1>5. \A line \in lines : extractLLMTokenUsage(line) = Largest(of(line))
  BY DEF extractLLMTokenUsage
<1>6. \A c \in all : \E line \in lines : c \in of(line)
  OBVIOUS
<1>7. \A x : x \in each <=> \E line \in lines : x = extractLLMTokenUsage(line)
  OBVIOUS
<1> HIDE DEF bound, all, each, of
<1>8. /\ Largest(all) \in Count
      /\ Largest(all).input \in 0..bound /\ Largest(all).output \in 0..bound
      /\ Largest(all).input \in {c.input : c \in all} \cup {0}
      /\ Largest(all).output \in {c.output : c \in all} \cup {0}
      /\ \A c \in all : Largest(all).input >= c.input /\ Largest(all).output >= c.output
  BY <1>1, <1>3, LargestIs
<1>9. ASSUME NEW line \in lines
      PROVE  LET m == extractLLMTokenUsage(line) IN
             /\ m.input \in 0..bound /\ m.output \in 0..bound
             /\ m.input \in {c.input : c \in of(line)} \cup {0}
             /\ m.output \in {c.output : c \in of(line)} \cup {0}
             /\ \A c \in of(line) : m.input >= c.input /\ m.output >= c.output
  <2>1. \A c \in of(line) : c.input \in 0..bound /\ c.output \in 0..bound
    BY <1>3, <1>4
  <2> QED BY <1>1, <1>5, <2>1, LargestIs
<1>10. \A m \in each : m.input \in 0..bound /\ m.output \in 0..bound
  BY <1>7, <1>9
<1>11. \A m \in each : Largest(all).input >= m.input /\ Largest(all).output >= m.output
  <2> SUFFICES ASSUME NEW line \in lines, NEW m, m = extractLLMTokenUsage(line)
               PROVE  Largest(all).input >= m.input /\ Largest(all).output >= m.output
    BY <1>7
  <2>1. m.input = 0 \/ \E c \in all : m.input = c.input
    BY <1>4, <1>9
  <2>2. m.output = 0 \/ \E c \in all : m.output = c.output
    BY <1>4, <1>9
  <2> QED BY <1>1, <1>8, <2>1, <2>2
<1>12. Largest(all).input \in {m.input : m \in each} \cup {0}
  <2>1. CASE Largest(all).input = 0
    BY <2>1
  <2>2. ASSUME NEW c \in all, Largest(all).input = c.input
        PROVE  \E m \in each : m.input = Largest(all).input
    <3>1. PICK line \in lines : c \in of(line)
      BY <1>6
    <3> DEFINE m == extractLLMTokenUsage(line)
    <3>2. m \in each /\ m.input >= c.input /\ m.input \in 0..bound
      BY <1>7, <1>9, <3>1
    <3>3. Largest(all).input >= m.input
      BY <1>11, <3>2
    <3> QED BY <1>1, <1>3, <2>2, <3>2, <3>3
  <2> QED BY <1>8, <2>1, <2>2
<1>13. Largest(all).output \in {m.output : m \in each} \cup {0}
  <2>1. CASE Largest(all).output = 0
    BY <2>1
  <2>2. ASSUME NEW c \in all, Largest(all).output = c.output
        PROVE  \E m \in each : m.output = Largest(all).output
    <3>1. PICK line \in lines : c \in of(line)
      BY <1>6
    <3> DEFINE m == extractLLMTokenUsage(line)
    <3>2. m \in each /\ m.output >= c.output /\ m.output \in 0..bound
      BY <1>7, <1>9, <3>1
    <3>3. Largest(all).output >= m.output
      BY <1>11, <3>2
    <3> QED BY <1>1, <1>3, <2>2, <3>2, <3>3
  <2> QED BY <1>8, <2>1, <2>2
<1>14. Largest(each) = Largest(all)
  BY <1>1, <1>8, <1>10, <1>11, <1>12, <1>13, LargestUnique
<1> QED BY <1>8, <1>14 DEF all, each

\* What the capture holds of a response: all of it, or the fact that it was too long.
Captured(response) ==
    IF Len(response) > MaxCapture THEN [payload |-> <<>>, truncated |-> TRUE]
    ELSE [payload |-> response, truncated |-> FALSE]

\* llmUsageCapture.Write takes the capture of what came so far to the capture of what
\* has come now.
LEMMA WriteExtends ==
    ASSUME NEW response \in Seq(Lines), NEW chunk \in Seq(Lines)
    PROVE  Write(Captured(response), chunk) = Captured(response \o chunk)
<1>1. /\ Len(response \o chunk) = Len(response) + Len(chunk)
      /\ Len(response) \in Nat /\ Len(chunk) \in Nat /\ MaxCapture \in Nat
  BY ConcatProperties, LenProperties, BoundsAssumption
<1>2. CASE Len(response) > MaxCapture
  BY <1>1, <1>2 DEF Write, Captured
<1>3. CASE ~(Len(response) > MaxCapture) /\ Len(response \o chunk) > MaxCapture
  BY <1>1, <1>3 DEF Write, Captured
<1>4. CASE ~(Len(response \o chunk) > MaxCapture)
  <2>1. Captured(response) = [payload |-> response, truncated |-> FALSE]
    BY <1>1, <1>4 DEF Captured
  <2>2. Write([payload |-> response, truncated |-> FALSE], chunk)
          = [payload |-> response \o chunk, truncated |-> FALSE]
    BY <1>1, <1>4 DEF Write
  <2> QED BY <1>4, <2>1, <2>2 DEF Captured
<1> QED BY <1>2, <1>3, <1>4

\* And TokenUsage counts of it what the response reports.
LEMMA CountsTheResponse ==
    ASSUME NEW response \in Seq(Lines)
    PROVE  /\ TokenUsage(Captured(response)) = Reported(response)
           /\ Reported(response) \in Count
<1>1. CASE Len(response) > MaxCapture
  BY <1>1 DEF Captured, TokenUsage, Reported, Count
<1>2. CASE ~(Len(response) > MaxCapture)
  <2>1. Range(response) \subseteq Lines
    BY DEF Range
  <2>2. TokenUsage(Captured(response))
          = Largest({extractLLMTokenUsage(line) : line \in Range(response)})
    BY <1>2 DEF Captured, TokenUsage
  <2>3. Reported(response) = Largest({parseLLMUsageObject(u) : u \in UNION Range(response)})
    BY <1>2 DEF Reported
  <2> QED BY <2>1, <2>2, <2>3, LargestOfLines
<1> QED BY <1>1, <1>2

-----------------------------------------------------------------------------
(* The counter.                                                            *)

\* What the mutator in progress holds: the copy it read, and what it made of it.
EditInv ==
    edit # None =>
        /\ edit.kind = "create" => /\ edit.prev = NoRoute
                                   /\ edit.new # NoRoute /\ edit.new.usage = NoUsage
        /\ edit.kind # "create" => edit.prev # NoRoute
        /\ edit.kind \in {"replace", "enable"} => edit.new # NoRoute
        /\ edit.kind = "delete" => edit.new = NoRoute
        /\ edit.kind = "enable" => routes[edit.alias] # NoRoute

\* The copy has the counter of the entry, unless that changed meanwhile.
CopyInv ==
    edit # None /\ edit.alias \notin overlapped =>
        /\ edit.kind \in {"replace", "delete"} => edit.prev.usage = due[edit.alias]
        /\ edit.kind = "replace" => edit.new.usage = due[edit.alias]

\* The capture is that of the response passed on so far.
CaptureInv == \A r \in Requests : capture[r] = Captured(received[r])

IInv == TypeOK /\ UsageExactUnlessOverlapped /\ EditInv /\ CopyInv /\ CaptureInv

\* The parts of the invariant that no step of the control server concerns.
LEMMA GatewayUnchanged ==
    ASSUME CaptureInv, UNCHANGED <<capture, received>> PROVE CaptureInv'
BY DEF CaptureInv

\* What one more response makes of a counter.
LEMMA AddIsUsage ==
    ASSUME NEW usage \in Usage, NEW tokens \in Count PROVE Add(usage, tokens) \in Usage
BY DEF Add, Usage, Count

LEMMA NoUsageIsUsage == NoUsage \in Usage
BY DEF Usage, NoUsage

\* The invariant holds at first.
LEMMA Initial == Init => IInv
<1> SUFFICES ASSUME Init PROVE IInv
  OBVIOUS
<1>1. TypeOK
  BY NoUsageIsUsage DEF Init, TypeOK, Route, newLLMUsageCapture
<1>2. CaptureInv
  BY BoundsAssumption DEF Init, CaptureInv, Captured, newLLMUsageCapture
<1>3. UsageExactUnlessOverlapped /\ EditInv /\ CopyInv
  BY DEF Init, UsageExactUnlessOverlapped, EditInv, CopyInv
<1> QED BY <1>1, <1>2, <1>3 DEF IInv

\* Taking the lock copies the route as it is.
LEMMA BeginKeeps ==
    ASSUME IInv, NEW kind \in {"create", "replace", "enable"}, NEW a \in Aliases,
           NEW new \in Route \cup {NoRoute}, Begin(kind, a, new),
           kind = "create" <=> routes[a] = NoRoute,
           kind = "create" => new # NoRoute /\ new.usage = NoUsage,
           kind = "enable" => new # NoRoute,
           kind = "replace" => new # NoRoute /\ new.usage = routes[a].usage
    PROVE  IInv'
<1>1. TypeOK'
  BY DEF Begin, gateway, IInv, TypeOK, Edit
<1>2. UsageExactUnlessOverlapped'
  BY DEF Begin, IInv, UsageExactUnlessOverlapped
<1>3. EditInv'
  BY DEF Begin, IInv, TypeOK, EditInv
<1>4. CopyInv'
  BY DEF Begin, IInv, TypeOK, UsageExactUnlessOverlapped, CopyInv
<1>5. CaptureInv'
  BY GatewayUnchanged DEF Begin, gateway, IInv
<1> QED BY <1>1, <1>2, <1>3, <1>4, <1>5 DEF IInv

\* A deletion copies the route and removes it.
LEMMA DeleteKeeps == ASSUME IInv, NEW a \in Aliases, deleteRoute(a) PROVE IInv'
<1>1. TypeOK'
  BY DEF deleteRoute, gateway, IInv, TypeOK, Edit
<1>2. UsageExactUnlessOverlapped'
  BY DEF deleteRoute, IInv, TypeOK, UsageExactUnlessOverlapped
<1>3. EditInv'
  BY DEF deleteRoute, IInv, TypeOK, EditInv
<1>4. CopyInv'
  BY DEF deleteRoute, IInv, TypeOK, UsageExactUnlessOverlapped, CopyInv
<1>5. CaptureInv'
  BY GatewayUnchanged DEF deleteRoute, gateway, IInv
<1> QED BY <1>1, <1>2, <1>3, <1>4, <1>5 DEF IInv

\* Every edit of a route begins so.
LEMMA EditsBegin ==
    ASSUME IInv, NEW a \in Aliases,
           \/ \E track \in BOOLEAN : createLLMRoute(a, track) \/ setLLMPolicy(a, track)
           \/ \E enabled \in BOOLEAN : setRouteEnabled(a, enabled)
           \/ rotateLLMAPIKey(a) \/ deleteRoute(a)
    PROVE  IInv'
<1>0. routes[a] # NoRoute => routes[a] \in Route
  BY DEF IInv, TypeOK
<1>1. ASSUME NEW track \in BOOLEAN, createLLMRoute(a, track) PROVE IInv'
  <2>1. [track |-> track, enabled |-> FALSE, usage |-> NoUsage] \in Route
    BY DEF Route, Usage, NoUsage
  <2> QED BY <1>1, <2>1, BeginKeeps, NoRouteAssumption DEF createLLMRoute
<1>2. ASSUME NEW track \in BOOLEAN, setLLMPolicy(a, track) PROVE IInv'
  <2>1. /\ [routes[a] EXCEPT !.track = track] \in Route
        /\ [routes[a] EXCEPT !.track = track].usage = routes[a].usage
    BY <1>0, <1>2 DEF Route, setLLMPolicy
  <2> QED BY <1>2, <2>1, BeginKeeps, NoRouteAssumption DEF setLLMPolicy
<1>3. ASSUME NEW enabled \in BOOLEAN, setRouteEnabled(a, enabled) PROVE IInv'
  <2>1. [routes[a] EXCEPT !.enabled = enabled] \in Route
    BY <1>0, <1>3 DEF Route, setRouteEnabled
  <2> QED BY <1>3, <2>1, BeginKeeps, NoRouteAssumption DEF setRouteEnabled
<1>4. CASE rotateLLMAPIKey(a)
  BY <1>0, <1>4, BeginKeeps DEF rotateLLMAPIKey
<1>5. CASE deleteRoute(a)
  BY <1>5, DeleteKeeps
<1> QED BY <1>1, <1>2, <1>3, <1>4, <1>5

\* A request whose usage will be recorded.
LEMMA CaptureKeeps ==
    ASSUME IInv, NEW r \in Requests, NEW a \in Aliases, Capture(r, a) PROVE IInv'
<1>1. newLLMUsageCapture \in [payload: Seq(Lines), truncated: BOOLEAN]
  BY DEF newLLMUsageCapture
<1>2. newLLMUsageCapture = Captured(<<>>)
  BY BoundsAssumption DEF Captured, newLLMUsageCapture
<1>3. TypeOK'
  BY <1>1 DEF Capture, IInv, TypeOK
<1>4. CaptureInv'
  BY <1>2 DEF Capture, IInv, TypeOK, CaptureInv
<1>5. UsageExactUnlessOverlapped' /\ EditInv' /\ CopyInv'
  BY DEF Capture, IInv, UsageExactUnlessOverlapped, EditInv, CopyInv
<1> QED BY <1>3, <1>4, <1>5 DEF IInv

\* A piece of the response: the capture follows.
LEMMA TeeKeeps ==
    ASSUME IInv, NEW r \in Requests, NEW chunk \in BoundedSeq(Lines, MaxLines), Tee(r, chunk)
    PROVE  IInv'
<1>1. chunk \in Seq(Lines)
  BY BoundsAssumption DEF BoundedSeq, SeqOf
<1>2. received[r] \in Seq(Lines) /\ received[r] \o chunk \in Seq(Lines)
  BY <1>1, ConcatProperties DEF IInv, TypeOK
<1>3. capture[r] = Captured(received[r])
  BY DEF IInv, CaptureInv
<1>4. Write(capture[r], chunk) = Captured(received[r] \o chunk)
  BY <1>1, <1>2, <1>3, WriteExtends
<1>5. Captured(received[r] \o chunk) \in [payload: Seq(Lines), truncated: BOOLEAN]
  BY <1>2 DEF Captured
<1>6. TypeOK'
  BY <1>2, <1>4, <1>5 DEF Tee, IInv, TypeOK
<1>7. CaptureInv'
  BY <1>4 DEF Tee, IInv, TypeOK, CaptureInv
<1>8. UsageExactUnlessOverlapped' /\ EditInv' /\ CopyInv'
  BY DEF Tee, IInv, UsageExactUnlessOverlapped, EditInv, CopyInv
<1> QED BY <1>6, <1>7, <1>8 DEF IInv

\* The end of the response clears the capture.
LEMMA ClearKeeps ==
    ASSUME IInv, NEW r \in Requests, Clear(r)
    PROVE  /\ CaptureInv'
           /\ capturing' \in [Requests -> Aliases \cup {None}]
           /\ capture' \in [Requests -> [payload: Seq(Lines), truncated: BOOLEAN]]
           /\ served' \subseteq Requests
           /\ received' \in [Requests -> Seq(Lines)]
<1>1. newLLMUsageCapture \in [payload: Seq(Lines), truncated: BOOLEAN]
  BY DEF newLLMUsageCapture
<1>2. newLLMUsageCapture = Captured(<<>>)
  BY BoundsAssumption DEF Captured, newLLMUsageCapture
<1>3. CaptureInv'
  BY <1>2 DEF Clear, IInv, TypeOK, CaptureInv
<1> QED BY <1>1, <1>3 DEF Clear, IInv, TypeOK

\* RecordLLMUsage adds to the route there is, and marks an edit that overlaps.
LEMMA RecordKeeps ==
    ASSUME IInv, NEW r \in Requests, RecordLLMUsage(r) PROVE IInv'
<1> DEFINE a == capturing[r]
           tokens == Reported(received[r])
<1>1. a \in Aliases /\ (routes[a] # NoRoute => routes[a] \in Route) /\ due[a] \in Usage
  BY DEF RecordLLMUsage, IInv, TypeOK
<1>2. TokenUsage(capture[r]) = tokens /\ tokens \in Count
  BY CountsTheResponse DEF IInv, TypeOK, CaptureInv
<1> HIDE DEF tokens
<1>3. Clear(r) /\ edit' = edit
  BY DEF RecordLLMUsage
<1>4. /\ CaptureInv'
      /\ capturing' \in [Requests -> Aliases \cup {None}]
      /\ capture' \in [Requests -> [payload: Seq(Lines), truncated: BOOLEAN]]
      /\ served' \subseteq Requests
      /\ received' \in [Requests -> Seq(Lines)]
  BY <1>3, ClearKeeps
<1>5. CASE ~(routes[a] # NoRoute /\ routes[a].track)
  <2>1. UNCHANGED <<routes, due, overlapped>>
    BY <1>5 DEF RecordLLMUsage
  <2>2. TypeOK'
    BY <1>3, <1>4, <2>1 DEF IInv, TypeOK
  <2>3. UsageExactUnlessOverlapped' /\ EditInv' /\ CopyInv'
    BY <1>3, <2>1 DEF IInv, UsageExactUnlessOverlapped, EditInv, CopyInv
  <2> QED BY <1>4, <2>2, <2>3 DEF IInv
<1>6. CASE routes[a] # NoRoute /\ routes[a].track
  <2> DEFINE counted == [routes[a] EXCEPT !.usage = Add(@, tokens)]
  <2>1. /\ routes' = [routes EXCEPT ![a] = counted]
        /\ due' = [due EXCEPT ![a] = Add(@, tokens)]
        /\ overlapped' = Overlap(a)
    BY <1>1, <1>2, <1>6 DEF RecordLLMUsage, tokens
  <2>2. routes[a] \in Route /\ routes[a].usage \in Usage
    BY <1>1, <1>6 DEF Route
  <2>3. Add(routes[a].usage, tokens) \in Usage /\ Add(due[a], tokens) \in Usage
    BY <1>1, <1>2, <2>2, AddIsUsage
  <2>4. counted \in Route /\ counted.usage = Add(routes[a].usage, tokens)
    BY <2>2, <2>3 DEF Route
  <2> HIDE DEF counted
  <2>5. overlapped' \subseteq Aliases /\ overlapped \subseteq overlapped'
    BY <1>1, <2>1 DEF Overlap, IInv, TypeOK
  <2>6. TypeOK'
    BY <1>1, <1>3, <1>4, <2>1, <2>3, <2>4, <2>5 DEF IInv, TypeOK
  <2>7. UsageExactUnlessOverlapped'
    BY <1>1, <1>6, <2>1, <2>4, <2>5, NoRouteAssumption DEF IInv, TypeOK, UsageExactUnlessOverlapped
  <2>8. EditInv'
    BY <1>1, <1>3, <2>1, <2>4, NoRouteAssumption DEF IInv, TypeOK, EditInv
  <2>9. CopyInv'
    BY <1>1, <1>3, <2>1, <2>5 DEF Overlap, IInv, TypeOK, Edit, CopyInv
  <2> QED BY <1>4, <2>6, <2>7, <2>8, <2>9 DEF IInv
<1> QED BY <1>5, <1>6

\* resetLLMUsage sets the counter, and what is due, to zero.
LEMMA ResetKeeps ==
    ASSUME IInv, NEW a \in Aliases, resetLLMUsage(a) PROVE IInv'
<1> DEFINE cleared == [routes[a] EXCEPT !.usage = NoUsage]
<1>1. /\ routes[a] \in Route /\ routes[a] # NoRoute
      /\ routes' = [routes EXCEPT ![a] = cleared]
      /\ due' = [due EXCEPT ![a] = NoUsage]
      /\ edit' = edit
  BY DEF resetLLMUsage, IInv, TypeOK
<1>2. cleared \in Route /\ cleared.usage = NoUsage
  BY <1>1, NoUsageIsUsage DEF Route
<1> HIDE DEF cleared
<1>3. /\ overlapped' \subseteq Aliases
      /\ overlapped \ {a} \subseteq overlapped'
      /\ edit # None /\ edit.alias = a => overlapped' = Overlap(a) /\ overlapped \subseteq overlapped'
  BY DEF resetLLMUsage, Overlap, IInv, TypeOK
<1>4. TypeOK'
  <2>1. UNCHANGED gateway
    BY DEF resetLLMUsage
  <2>2. /\ routes' \in [Aliases -> Route \cup {NoRoute}]
        /\ due' \in [Aliases -> Usage]
    BY <1>1, <1>2, NoUsageIsUsage DEF IInv, TypeOK
  <2> QED BY <1>1, <1>3, <2>1, <2>2 DEF gateway, IInv, TypeOK
<1>5. UsageExactUnlessOverlapped'
  BY <1>1, <1>2, <1>3 DEF IInv, TypeOK, UsageExactUnlessOverlapped
<1>6. EditInv'
  BY <1>1, <1>2, NoRouteAssumption DEF IInv, TypeOK, EditInv
<1>7. CopyInv'
  BY <1>1, <1>3 DEF Overlap, IInv, TypeOK, Edit, CopyInv
<1>8. CaptureInv'
  BY GatewayUnchanged DEF resetLLMUsage, gateway, IInv
<1> QED BY <1>4, <1>5, <1>6, <1>7, <1>8 DEF IInv

\* SetEnabled leaves the counter of the entry alone, Upsert and Delete bring in that of
\* the copy.
LEMMA ChangedEntry ==
    ASSUME IInv, edit # None, NEW target \in {edit.prev, edit.new}
    PROVE  LET table == Changed(target)
               a == edit.alias IN
           /\ table \in [Aliases -> Route \cup {NoRoute}]
           /\ \A b \in Aliases \ {a} : table[b] = routes[b]
           /\ edit.kind # "enable" => table[a] = target
           /\ edit.kind = "enable" => /\ routes[a] # NoRoute /\ table[a] # NoRoute
                                      /\ table[a].usage = routes[a].usage
<1> DEFINE a == edit.alias
<1>1. edit \in Edit /\ a \in Aliases /\ target \in Route \cup {NoRoute}
  BY DEF IInv, TypeOK, Edit
<1>2. CASE edit.kind = "enable"
  <2>1. routes[a] \in Route /\ target \in Route /\ routes[a] # NoRoute
    BY <1>1, <1>2 DEF IInv, TypeOK, EditInv
  <2>2. [routes[a] EXCEPT !.enabled = target.enabled] \in Route
        /\ [routes[a] EXCEPT !.enabled = target.enabled].usage = routes[a].usage
    BY <2>1 DEF Route
  <2>3. Changed(target) = [routes EXCEPT ![a] = [routes[a] EXCEPT !.enabled = target.enabled]]
    BY <1>2 DEF Changed
  <2> QED BY <1>1, <1>2, <2>1, <2>2, <2>3, NoRouteAssumption DEF IInv, TypeOK
<1>3. CASE edit.kind # "enable"
  BY <1>1, <1>3 DEF Changed, IInv, TypeOK
<1> QED BY <1>2, <1>3

\* The edited copy replaces the route.
LEMMA ApplyKeeps == ASSUME IInv, Apply PROVE IInv'
<1> DEFINE a == edit.alias
<1>1. edit \in Edit /\ edit # None /\ a \in Aliases
  BY DEF Apply, IInv, TypeOK, Edit
<1>2. /\ routes' \in [Aliases -> Route \cup {NoRoute}]
      /\ \A b \in Aliases \ {a} : routes'[b] = routes[b]
      /\ edit.kind # "enable" => routes'[a] = edit.new
      /\ edit.kind = "enable" => /\ routes[a] # NoRoute /\ routes'[a] # NoRoute
                                 /\ routes'[a].usage = routes[a].usage
  BY <1>1, ChangedEntry DEF Apply
<1>3. /\ edit' \in Edit
      /\ edit'.kind = edit.kind /\ edit'.alias = a /\ edit'.prev = edit.prev /\ edit'.new = edit.new
  BY <1>1 DEF Apply, Edit
<1>4. /\ due' \in [Aliases -> Usage] /\ overlapped' \subseteq Aliases
      /\ \A b \in Aliases \ {a} : due'[b] = due[b] /\ (b \in overlapped' <=> b \in overlapped)
      /\ edit.kind = "create" => due'[a] = NoUsage
      /\ edit.kind # "create" => due' = due /\ overlapped' = overlapped
  BY <1>1, NoUsageIsUsage DEF Apply, IInv, TypeOK
<1>5. TypeOK'
  BY <1>2, <1>3, <1>4 DEF Apply, gateway, IInv, TypeOK
<1>6. UsageExactUnlessOverlapped'
  BY <1>1, <1>2, <1>4 DEF IInv, EditInv, CopyInv, UsageExactUnlessOverlapped, Edit
<1>7. EditInv'
  BY <1>1, <1>2, <1>3 DEF IInv, EditInv
<1>8. CopyInv'
  BY <1>1, <1>3, <1>4 DEF IInv, CopyInv
<1>9. CaptureInv'
  BY GatewayUnchanged DEF Apply, gateway, IInv
<1> QED BY <1>5, <1>6, <1>7, <1>8, <1>9 DEF IInv

\* The file is saved or the edit is rolled back.
LEMMA SavedKeeps == ASSUME IInv, Saved PROVE IInv'
<1> DEFINE a == edit.alias
<1>1. edit \in Edit /\ edit # None /\ a \in Aliases
  BY DEF Saved, IInv, TypeOK, Edit
<1>2. edit' = None /\ UNCHANGED <<gateway, due, overlapped>>
  BY DEF Saved
<1>3. CaptureInv'
  BY <1>2, GatewayUnchanged DEF gateway, IInv
<1>4. CASE routes' = routes
  BY <1>2, <1>3, <1>4 DEF gateway, IInv, TypeOK, UsageExactUnlessOverlapped, EditInv, CopyInv
<1>5. CASE routes' = Changed(edit.prev)
  <2>1. /\ routes' \in [Aliases -> Route \cup {NoRoute}]
        /\ \A b \in Aliases \ {a} : routes'[b] = routes[b]
        /\ edit.kind # "enable" => routes'[a] = edit.prev
        /\ edit.kind = "enable" => /\ routes[a] # NoRoute /\ routes'[a] # NoRoute
                                   /\ routes'[a].usage = routes[a].usage
    BY <1>1, <1>5, ChangedEntry
  <2>2. UsageExactUnlessOverlapped'
    BY <1>1, <1>2, <2>1 DEF IInv, EditInv, CopyInv, UsageExactUnlessOverlapped, Edit
  <2> QED BY <1>2, <1>3, <2>1, <2>2 DEF gateway, IInv, TypeOK, EditInv, CopyInv
<1> QED BY <1>4, <1>5 DEF Saved

\* Every step keeps the invariant.
LEMMA Induction == IInv /\ [Next]_vars => IInv'
<1> SUFFICES ASSUME IInv, [Next]_vars PROVE IInv'
  OBVIOUS
<1>1. CASE UNCHANGED vars
  BY <1>1 DEF vars, IInv, TypeOK, UsageExactUnlessOverlapped, EditInv, CopyInv, CaptureInv
<1>2. CASE Next
  BY <1>2, EditsBegin, CaptureKeeps, TeeKeeps, RecordKeeps, ResetKeeps, ApplyKeeps, SavedKeeps DEF Next
<1> QED BY <1>1, <1>2

\* The invariant holds of every reachable state.
LEMMA Invariance == Spec => []IInv
BY Initial, Induction, PTL DEF Spec

\* The registry's entries, the mutator's copies and the counters stay of their kinds.
THEOREM TypeCorrect == Spec => []TypeOK
<1>1. IInv => TypeOK
  BY DEF IInv
<1> QED BY <1>1, Invariance, PTL

\* The counter RecordLLMUsage adds to and reset_llm_usage clears is exact, through any
\* edits and rollbacks, unless a mutator held a copy of the entry when it changed.
THEOREM UsageIsExact == Spec => []UsageExactUnlessOverlapped
<1>1. IInv => UsageExactUnlessOverlapped
  BY DEF IInv
<1> QED BY <1>1, Invariance, PTL

\* At every moment of a response the capture counts what the response reported so far,
\* whatever the pieces llmUsageCapture.Write was given, before and after the overflow.
THEOREM PiecesDoNotMatter == Spec => []UsageIndependentOfPieces
<1>1. IInv => UsageIndependentOfPieces
  BY CountsTheResponse DEF IInv, TypeOK, CaptureInv, UsageIndependentOfPieces
<1> QED BY <1>1, Invariance, PTL

-----------------------------------------------------------------------------
(* What is passed on of a request.                                         *)

Tokens == [Fields -> 1..MaxTokens \cup {Absent, Malformed}]

\* The field enforceOutputLimit looks at is one the endpoint honours, and unless the
\* request is refused the client gave no other.
LEMMA TheFieldThatCounts ==
    ASSUME NEW policy \in Policy, NEW endpoint \in Endpoints, NEW tokens \in Tokens,
           Supported(policy, endpoint)
    PROVE  LET field == OutputField(tokens, policy, endpoint)
               given == {f \in Honoured(policy, endpoint) : tokens[f] # Absent} IN
           /\ field \in Honoured(policy, endpoint) /\ field \in Fields
           /\ ~Ambiguous(tokens, policy, endpoint) <=> \A f, g \in given : f = g
           /\ ~Ambiguous(tokens, policy, endpoint) => given \subseteq {field}
<1>1. policy.provider \in {"openai", "anthropic"}
  BY DEF Policy
<1>2. CASE policy.provider = "anthropic"
  BY <1>2 DEF OutputField, Honoured, Ambiguous, Fields
<1>3. CASE policy.provider = "openai" /\ endpoint = "/v1/responses"
  BY <1>3 DEF OutputField, Honoured, Ambiguous, Fields
<1>4. CASE policy.provider = "openai" /\ endpoint = "/v1/chat/completions"
  BY <1>4 DEF OutputField, Honoured, Ambiguous, Fields
<1> QED BY <1>1, <1>2, <1>3, <1>4 DEF Supported, Endpoints

\* What enforceOutputLimit sends, by what the request gave.
LEMMA LimitIsEnforced ==
    ASSUME NEW policy \in Policy, NEW endpoint \in Endpoints, NEW tokens \in Tokens
    PROVE  LET sent == enforceOutputLimit(tokens, policy, endpoint)
               honoured == Honoured(policy, endpoint)
               given == {f \in honoured : tokens[f] # Absent} IN
           /\ sent # Refused <=> /\ policy.provider = "openai" => endpoint # "/v1/messages"
                                 /\ \A f, g \in given : f = g
                                 /\ \A f \in given : tokens[f] \in 1..policy.limit
           /\ sent # Refused =>
                /\ \E f \in honoured :
                    sent[f] \in 1..policy.limit /\ \A g \in honoured \ {f} : sent[g] = Absent
                /\ \A f \in Fields : tokens[f] # Absent \/ f \notin honoured => sent[f] = tokens[f]
<1> DEFINE sent == enforceOutputLimit(tokens, policy, endpoint)
           honoured == Honoured(policy, endpoint)
           given == {f \in honoured : tokens[f] # Absent}
           field == OutputField(tokens, policy, endpoint)
<1>1. Supported(policy, endpoint) <=> (policy.provider = "openai" => endpoint # "/v1/messages")
  BY DEF Supported, Endpoints
<1>2. CASE ~Supported(policy, endpoint)
  BY <1>1, <1>2 DEF enforceOutputLimit
<1>3. CASE Supported(policy, endpoint)
  <2>1. /\ field \in honoured /\ field \in Fields
        /\ ~Ambiguous(tokens, policy, endpoint) <=> \A f, g \in given : f = g
        /\ ~Ambiguous(tokens, policy, endpoint) => given \subseteq {field}
    BY <1>3, TheFieldThatCounts
  <2>2. CASE Ambiguous(tokens, policy, endpoint)
    BY <2>1, <2>2 DEF enforceOutputLimit
  <2>3. CASE ~Ambiguous(tokens, policy, endpoint)
    <3>1. policy.limit \in 1..MaxTokens /\ MaxTokens \in Nat
      BY BoundsAssumption DEF Policy
    <3>2. tokens[field] \in 1..MaxTokens \cup {Absent, Malformed}
      BY <2>1 DEF Tokens
    <3>3. \A g \in honoured \ {field} : tokens[g] = Absent
      BY <2>1, <2>3
    <3>4. honoured \subseteq Fields
      BY DEF Honoured, Fields
    <3>5. CASE tokens[field] = Absent
      <4>1. sent = [tokens EXCEPT ![field] = policy.limit]
        BY <1>3, <2>3, <3>5 DEF enforceOutputLimit
      <4>2. sent \in Tokens
        BY <2>1, <3>1, <4>1 DEF Tokens
      <4>3. sent # Refused /\ given = {}
        BY <2>1, <2>3, <3>5, <4>2, RefusedAssumption DEF Tokens
      <4>4. sent[field] \in 1..policy.limit /\ \A g \in Fields \ {field} : sent[g] = tokens[g]
        BY <2>1, <3>1, <4>1 DEF Tokens
      <4> HIDE DEF sent, honoured, field
      <4>5. \E f \in honoured :
              sent[f] \in 1..policy.limit /\ \A g \in honoured \ {f} : sent[g] = Absent
        BY <2>1, <3>3, <3>4, <4>4
      <4> QED BY <1>1, <1>3, <2>1, <3>5, <4>3, <4>4, <4>5 DEF sent, honoured
    <3>6. CASE tokens[field] = Malformed
      <4>1. sent = Refused
        BY <1>3, <2>3, <3>6, MarkersAssumption DEF enforceOutputLimit
      <4>2. field \in given /\ tokens[field] \notin 1..policy.limit
        BY <2>1, <3>1, <3>6, MarkersAssumption
      <4> QED BY <4>1, <4>2
    <3>7. CASE tokens[field] \in 1..MaxTokens
      <4>1. tokens[field] \notin {Absent, Malformed} /\ field \in given
        BY <2>1, <3>7, MarkersAssumption
      <4>2. sent = IF tokens[field] > policy.limit THEN Refused ELSE tokens
        BY <1>3, <2>3, <4>1 DEF enforceOutputLimit
      <4>3. tokens # Refused
        BY RefusedAssumption DEF Tokens
      <4>4. tokens[field] \in 1..policy.limit <=> ~(tokens[field] > policy.limit)
        BY <3>1, <3>7
      <4> QED BY <1>1, <1>3, <2>1, <2>3, <3>3, <4>1, <4>2, <4>3, <4>4
    <3> QED BY <3>2, <3>5, <3>6, <3>7
  <2> QED BY <2>2, <2>3
<1> QED BY <1>2, <1>3

\* prepareLLMRequest passes on exactly the bodies the policy allows, with one limit
\* that the provider honours: for every policy, endpoint and body.
THEOREM RequestsAdmittedExactly == AdmitsExactly
<1> SUFFICES ASSUME NEW policy \in Policy, NEW endpoint \in Endpoints, NEW body \in Body
             PROVE  LET sent == prepareLLMRequest(body, policy, endpoint)
                        honoured == Honoured(policy, endpoint) IN
                    /\ sent # Refused <=> Conforms(body, policy, endpoint)
                    /\ sent # Refused =>
                        /\ \E f \in honoured :
                            sent[f] \in 1..policy.limit /\ \A g \in honoured \ {f} : sent[g] = Absent
                        /\ \A f \in Fields :
                            body.tokens[f] # Absent \/ f \notin honoured => sent[f] = body.tokens[f]
  BY DEF AdmitsExactly
<1>1. body.tokens \in Tokens /\ body.declared \in -1..MaxBytes /\ body.size \in 0..MaxBytes
  BY DEF Body, Tokens
<1>2. policy.maxBytes \in 0..MaxBytes /\ MaxBytes \in Nat
  BY BoundsAssumption DEF Policy
<1>3. {body.declared, body.size} \subseteq -1..policy.maxBytes
        <=> ~(body.declared > policy.maxBytes) /\ ~(body.size > policy.maxBytes)
  BY <1>1, <1>2
<1>4. CASE \/ body.declared > policy.maxBytes \/ body.size > policy.maxBytes
           \/ body.content # "object" \/ body.model \notin policy.models
  BY <1>3, <1>4 DEF prepareLLMRequest, Conforms
<1>5. CASE ~(\/ body.declared > policy.maxBytes \/ body.size > policy.maxBytes
             \/ body.content # "object" \/ body.model \notin policy.models)
  <2>1. prepareLLMRequest(body, policy, endpoint) = enforceOutputLimit(body.tokens, policy, endpoint)
    BY <1>5 DEF prepareLLMRequest
  <2> QED BY <1>1, <1>3, <1>5, <2>1, LimitIsEnforced DEF Conforms
<1> QED BY <1>4, <1>5

\* Whatever is edited or recorded, the requests of a served route are admitted by
\* prepareLLMRequest exactly when they conform.
THEOREM PolicyIsEnforced == Spec => []PolicyAdmitsExactly
<1>1. PolicyAdmitsExactly
  BY RequestsAdmittedExactly DEF PolicyAdmitsExactly
<1> QED BY <1>1, PTL

=============================================================================
