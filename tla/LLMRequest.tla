----------------------------- MODULE LLMRequest -----------------------------
(***************************************************************************)
(* The two computations of internal/httpgw/llm.go: what is sent upstream    *)
(* of a request body (prepareLLMRequest), and how many tokens a response    *)
(* is counted for (llmUsageCapture).  Both keep no state between requests.  *)
(*                                                                          *)
(* Of a body only the fields the code looks at are kept; every other field  *)
(* is passed on.  A response is a sequence of lines, and a line the set of  *)
(* usage objects found in it: its own, and those of the objects under       *)
(* "response" and "message".  A line stands for one unit of captured bytes. *)
(***************************************************************************)
EXTENDS Integers, FiniteSetsExt, SequencesExt

CONSTANTS
    Models,        \* names of models
    Absent,        \* a field that is not there
    Malformed,     \* a field of another type, or a number below one
    Refused,       \* the request is answered with an error
    MaxTokens,     \* bound: the most output tokens a body asks for or a route allows
    MaxBytes,      \* bound: the longest body
    Lines,         \* the lines that occur in responses
    MaxCount,      \* bound: the largest number in a usage object
    MaxLines,      \* bound: the longest response
    MaxCapture     \* maxLLMUsageCaptureBytes, in lines

ASSUME BoundsAssumption == {MaxCapture, MaxLines, MaxCount, MaxTokens, MaxBytes} \subseteq Nat
ASSUME MarkersAssumption ==
    /\ Absent # Malformed
    /\ {Absent, Malformed} \cap (1..MaxTokens \cup Models) = {}

-----------------------------------------------------------------------------
(* The request.                                                            *)

Fields == {"max_tokens", "max_output_tokens", "max_completion_tokens"}

Body == [declared: -1..MaxBytes,           \* Content-Length, -1 if it is not known
         size: 0..MaxBytes,
         content: {"object", "other",      \* a JSON object, or something else
                   "broken"},              \* it cannot be read to its end
         model: Models \cup {Absent, Malformed},
         tokens: [Fields -> 1..MaxTokens \cup {Absent, Malformed}]]

\* The answer is no set of fields.
ASSUME RefusedAssumption == Refused \notin [Fields -> 1..MaxTokens \cup {Absent, Malformed}]

Policy == [provider: {"openai", "anthropic"}, models: SUBSET Models,
           limit: 1..MaxTokens, maxBytes: 0..MaxBytes]

Endpoints == {"/v1/responses", "/v1/chat/completions", "/v1/messages"}

\* Mutant: with both fields there, the modern one is looked at.
Ambiguous_Never(tokens, policy, endpoint) == FALSE

\* A chat completion that names its limit twice is refused.
Ambiguous(tokens, policy, endpoint) ==
    /\ policy.provider = "openai" /\ endpoint = "/v1/chat/completions"
    /\ tokens["max_completion_tokens"] # Absent /\ tokens["max_tokens"] # Absent

Supported(policy, endpoint) ==
    policy.provider = "openai" => endpoint \in {"/v1/responses", "/v1/chat/completions"}

\* The field that holds the limit.
OutputField(tokens, policy, endpoint) ==
    IF policy.provider # "openai" THEN "max_tokens"
    ELSE IF endpoint = "/v1/responses" THEN "max_output_tokens"
    ELSE IF tokens["max_completion_tokens"] = Absent /\ tokens["max_tokens"] # Absent THEN "max_tokens"
    ELSE "max_completion_tokens"

\* The fields as they are sent on: a limit that is missing is filled in.
enforceOutputLimit(tokens, policy, endpoint) ==
    LET field == OutputField(tokens, policy, endpoint) IN
    IF ~Supported(policy, endpoint) \/ Ambiguous(tokens, policy, endpoint) THEN Refused
    ELSE IF tokens[field] = Absent THEN [tokens EXCEPT ![field] = policy.limit]
    ELSE IF tokens[field] = Malformed THEN Refused
    ELSE IF tokens[field] > policy.limit THEN Refused
    ELSE tokens

\* AllowsPath is asked before, in ServeHTTP.
prepareLLMRequest(body, policy, endpoint) ==
    IF \/ body.declared > policy.maxBytes
       \/ body.size > policy.maxBytes
       \/ body.content # "object"
       \/ body.model \notin policy.models
    THEN Refused
    ELSE enforceOutputLimit(body.tokens, policy, endpoint)

-----------------------------------------------------------------------------
(* The response.                                                           *)

UsageKeys == {"input_tokens", "prompt_tokens", "cache_creation_input_tokens",
              "cache_read_input_tokens", "output_tokens", "completion_tokens"}

UsageObject == [UsageKeys -> 0..MaxCount \cup {Absent, Malformed}]

ASSUME LinesAssumption == Lines \subseteq SUBSET UsageObject

\* firstTokenCount: the first of the keys that holds a number.
firstTokenCount(usage, keys) ==
    LET found == {i \in DOMAIN keys : usage[keys[i]] \notin {Absent, Malformed}} IN
    IF found = {} THEN 0 ELSE usage[keys[Min(found)]]

\* The two numbers of a usage object; cached input is counted apart by the
\* provider that says input_tokens.
parseLLMUsageObject(usage) ==
    [input |-> firstTokenCount(usage, <<"input_tokens", "prompt_tokens">>)
               + (IF usage["input_tokens"] = Absent THEN 0
                  ELSE firstTokenCount(usage, <<"cache_creation_input_tokens">>)
                       + firstTokenCount(usage, <<"cache_read_input_tokens">>)),
     output |-> firstTokenCount(usage, <<"output_tokens", "completion_tokens">>)]

Largest(counts) ==
    [input |-> Max({c.input : c \in counts} \cup {0}),
     output |-> Max({c.output : c \in counts} \cup {0})]

\* The largest numbers of the usage objects in a line.
extractLLMTokenUsage(line) == Largest({parseLLMUsageObject(u) : u \in line})

newLLMUsageCapture == [payload |-> <<>>, truncated |-> FALSE]

\* Mutant: what comes after the overflow is captured again.
Write_NotSticky(capture, chunk) ==
    IF Len(capture.payload) + Len(chunk) > MaxCapture
    THEN [payload |-> <<>>, truncated |-> FALSE]
    ELSE [capture EXCEPT !.payload = @ \o chunk]

\* A response that outgrows the capture is given up for good.
Write(capture, chunk) ==
    IF capture.truncated THEN capture
    ELSE IF Len(capture.payload) + Len(chunk) > MaxCapture
    THEN [payload |-> <<>>, truncated |-> TRUE]
    ELSE [capture EXCEPT !.payload = @ \o chunk]

\* Of a stream every line is looked at; any other response is one object.
TokenUsage(capture) ==
    IF capture.truncated THEN [input |-> 0, output |-> 0]
    ELSE Largest({extractLLMTokenUsage(line) : line \in Range(capture.payload)})

-----------------------------------------------------------------------------
(* What both should compute, for LLMUsage to check.                        *)

\* The fields by which an endpoint of a provider lets a client bound its output.
Honoured(policy, endpoint) ==
    IF policy.provider = "anthropic" THEN {"max_tokens"}
    ELSE IF endpoint = "/v1/responses" THEN {"max_output_tokens"}
    ELSE {"max_tokens", "max_completion_tokens"}

\* What a route's policy lets through: a body within the size limit that names an
\* allowed model and asks for at most the allowed output, once.
Conforms(body, policy, endpoint) ==
    LET given == {f \in Honoured(policy, endpoint) : body.tokens[f] # Absent} IN
    /\ {body.declared, body.size} \subseteq -1..policy.maxBytes
    /\ body.content = "object" /\ body.model \in policy.models
    /\ policy.provider = "openai" => endpoint # "/v1/messages"
    /\ \A f, g \in given : f = g
    /\ \A f \in given : body.tokens[f] \in 1..policy.limit

\* The body is passed on if and only if it conforms, with one honoured field within
\* the limit and the client's other fields as it wrote them.
AdmitsExactly ==
    \A policy \in Policy, endpoint \in Endpoints, body \in Body :
        LET sent == prepareLLMRequest(body, policy, endpoint)
            honoured == Honoured(policy, endpoint) IN
        /\ sent # Refused <=> Conforms(body, policy, endpoint)
        /\ sent # Refused =>
            /\ \E f \in honoured :
                sent[f] \in 1..policy.limit /\ \A g \in honoured \ {f} : sent[g] = Absent
            /\ \A f \in Fields : body.tokens[f] # Absent \/ f \notin honoured => sent[f] = body.tokens[f]

\* What a response counts for: the largest numbers in it, or nothing if it is longer
\* than the capture.
Reported(response) ==
    IF Len(response) > MaxCapture THEN [input |-> 0, output |-> 0]
    ELSE Largest({parseLLMUsageObject(u) : u \in UNION Range(response)})

=============================================================================
