------------------------------ MODULE LlmCall ------------------------------
(***************************************************************************)
(* One call of the LLM client: the request is routed to a provider, and    *)
(* attempts that fail with a retryable error are repeated after a delay.   *)
(* An attempt is the middleware chain round the provider's adapter, which  *)
(* turns errors into responses and responses into errors: its outcome is   *)
(* any response, a retryable error or a final one.                         *)
(***************************************************************************)
EXTENDS Naturals

CONSTANT MaxRetries  \* RetryPolicy.max_retries: 3

ASSUME RetryAssumption == MaxRetries \in Nat

VARIABLES
  llm,     \* "idle", "trying" (an attempt is out), "waiting" (sleeps), "failed"
  attempt  \* retries of this call

llmVars == <<llm, attempt>>

LlmInit == llm = "idle" /\ attempt = 0

\* The request is routed and the first attempt made; without an adapter for
\* its model the call fails and no attempt is made.
Begin ==
  /\ llm = "idle"
  /\ llm' \in {"trying", "failed"}
  /\ attempt' = 0

\* An attempt returned a response: the call is over.
Responds ==
  /\ llm = "trying"
  /\ llm' = "idle"
  /\ attempt' = 0

\* An attempt returned an error. A retryable one is answered with a delay while
\* retries are left: the provider's retry-after, or exponential backoff.
AttemptFails ==
  /\ llm = "trying"
  /\ \E retryable \in BOOLEAN :
       llm' = IF retryable /\ attempt < MaxRetries THEN "waiting" ELSE "failed"
  /\ UNCHANGED attempt

\* A retry that is not counted.
RetriesUncounted ==
  /\ llm = "waiting"
  /\ llm' = "trying"
  /\ UNCHANGED attempt

\* The delay is over.
Retries ==
  /\ llm = "waiting"
  /\ llm' = "trying"
  /\ attempt' = attempt + 1

\* The error reaches the caller.
Fails ==
  /\ llm = "failed"
  /\ llm' = "idle"
  /\ attempt' = 0

LlmTypeOK ==
  /\ llm \in {"idle", "trying", "waiting", "failed"}
  /\ attempt \in 0 .. MaxRetries
=============================================================================
