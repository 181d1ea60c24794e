----------------------------- MODULE MCLLMUsage -----------------------------
(* Small instances of LLMUsage for TLC. *)
EXTENDS LLMUsage, TLC

Symmetry == Permutations(Aliases) \cup Permutations(Requests)

Given(counts) == counts @@ [k \in UsageKeys |-> Absent]

\* A chat completion's usage, the first and the last report of a stream of
\* messages, and one that does not parse.
Completion == Given([prompt_tokens |-> 2, completion_tokens |-> 1])
Start == Given([input_tokens |-> 1, cache_read_input_tokens |-> 2, output_tokens |-> 1])
Delta == Given([output_tokens |-> 3])
Broken == Given([input_tokens |-> Malformed, prompt_tokens |-> 1])

\* Lines with one object, and with two, one of them nested.
AllLines == {{Start}, {Delta}, {Completion, Broken}}
OneLine == {{Completion}}

=============================================================================
