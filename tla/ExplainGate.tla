----------------------------- MODULE ExplainGate -----------------------------
(***************************************************************************)
(* The decisions of llm/explain.py, llm/ollama_client.py and llm/claims.py *)
(* as operators: whether a prompt may be sent, what an Ollama reply is     *)
(* worth, and which guard refuses a generated text.  ApiService runs them  *)
(* as steps of a request.                                                  *)
(*                                                                         *)
(* A text is abstracted to what the guards tell apart: whether every       *)
(* number in it reconciles with the result, and which claim categories     *)
(* have a stem in it.                                                      *)
(***************************************************************************)
EXTENDS Naturals

CONSTANTS
  NumCtx,         \* num_ctx: the model's context window, in tokens
  NumPredict,     \* num_predict: the most tokens the model may write
  TemplateTokens, \* TEMPLATE_TOKENS: room kept for the chat template
  Category        \* the claim categories of _STEMS

ASSUME GateAssumption ==
  NumCtx \in Nat /\ NumPredict \in Nat /\ TemplateTokens \in Nat

\* An upper bound on the prompt's tokens: no token is shorter than a byte.
PromptTokenBound(bytes) == bytes + TemplateTokens

\* check_context_budget: the whole output must fit beside the prompt.
FitsContext(bytes) == ~(PromptTokenBound(bytes) + NumPredict > NumCtx)

Text == [numbers : {"consistent", "inconsistent"}, claims : SUBSET Category]

\* What a call can bring back: the failures httpx raises as HTTPError, bodies
\* that are not the expected JSON, and payloads with a 'response' field.
Failure == { "http_error", "not_json", "no_response_field" }
NoText  == [numbers |-> "consistent", claims |-> {}]
Reply   == [kind : Failure \cup {"not_text"}, text : {NoText}]
             \cup [kind : {"length", "stop"}, text : Text]

(***************************************************************************)
(* OllamaClient.generate once the reply is in: "ok", or the exception it   *)
(* raises.  A 'response' that is not a string gets past every check and    *)
(* fails in the final re.sub, outside both try blocks: a TypeError, which  *)
(* is none of the project's exceptions.                                    *)
(***************************************************************************)
GenerateOutcome(reply) ==
  CASE reply.kind \in Failure  -> "LLMUnavailableError"
    [] reply.kind = "length"   -> "LLMUnavailableError"
    [] reply.kind = "not_text" -> "Exception"
    [] reply.kind = "stop"     -> "ok"

\* verify_no_unsupported_claims: one stem of any category refuses the text.
MakesClaim(text) == \E c \in Category : c \in text.claims

\* Variant: the claims guard is left out.
JudgeNumbersOnly(reply) ==
  IF GenerateOutcome(reply) # "ok"            THEN GenerateOutcome(reply)
  ELSE IF reply.text.numbers = "inconsistent" THEN "NumericConsistencyError"
  ELSE "ok"

\* generate_explanation after the call: numbers first, then claims.
Judge(reply) ==
  IF GenerateOutcome(reply) # "ok"                THEN GenerateOutcome(reply)
  ELSE IF reply.text.numbers = "inconsistent"     THEN "NumericConsistencyError"
  ELSE IF MakesClaim(reply.text)                  THEN "UnsupportedClaimError"
  ELSE "ok"

=============================================================================
