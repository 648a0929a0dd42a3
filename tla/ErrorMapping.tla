---------------------------- MODULE ErrorMapping ----------------------------
(***************************************************************************)
(* The typed exceptions of core/exceptions.py and the HTTP status that the *)
(* handlers of api/main.py give each of them.                              *)
(*                                                                         *)
(* A handler is looked up along the exception's method resolution order,   *)
(* most derived class first, so LLMUnavailableError, which is also a       *)
(* QuantRiskAIError, is a 503 and not a 422.                               *)
(***************************************************************************)
EXTENDS Naturals, Sequences

\* The classes a request can end with; RequestValidationError and HTTPException
\* are FastAPI's, which raises the latter for a body it fails to decode.
ExceptionClass ==
  { "InvalidParameterError", "DataValidationError", "InsufficientDataError",
    "InsufficientSampleSizeError", "SingularCovarianceError",
    "PortfolioMethodsFailedError", "LLMUnavailableError",
    "NumericConsistencyError", "UnsupportedClaimError",
    "RequestValidationError", "HTTPException", "Exception" }

\* What the risk engine raises about its inputs (everything but the LLM layer).
EngineError ==
  { "InvalidParameterError", "DataValidationError", "InsufficientDataError",
    "InsufficientSampleSizeError", "SingularCovarianceError" }

LLMClass ==
  { "LLMUnavailableError", "NumericConsistencyError", "UnsupportedClaimError" }

\* The method resolution order of a class, the class itself first.
Mro(c) ==
  CASE c = "Exception" -> << "Exception" >>
    [] c \in {"RequestValidationError", "HTTPException"} -> << c, "Exception" >>
    [] c \in LLMClass -> << c, "LLMError", "QuantRiskAIError", "Exception" >>
    [] c = "InsufficientSampleSizeError" ->
         << c, "InsufficientDataError", "QuantRiskAIError", "Exception" >>
    [] OTHER -> << c, "QuantRiskAIError", "Exception" >>

\* @app.exception_handler registrations that ExceptionMiddleware consults, and
\* FastAPI's own for HTTPException: the one for the base Exception belongs to
\* ServerErrorMiddleware instead.
Registered ==
  { "LLMUnavailableError", "NumericConsistencyError", "UnsupportedClaimError",
    "RequestValidationError", "PortfolioMethodsFailedError", "QuantRiskAIError",
    "HTTPException" }

Registrations(c) == { i \in DOMAIN Mro(c) : Mro(c)[i] \in Registered }

\* An exception no registered handler accepts propagates out of call_next.
Unhandled(c) == Registrations(c) = {}

\* Variant: the most general registered class answers.
LastHandlerOf(c) ==
  Mro(c)[CHOOSE i \in Registrations(c) : \A j \in Registrations(c) : i >= j]

\* The handler that answers for c: the first of its Mro that is registered.
HandlerOf(c) ==
  Mro(c)[CHOOSE i \in Registrations(c) : \A j \in Registrations(c) : i <= j]

\* Variant: an unavailable Ollama answered like a gateway's timeout.
UnavailableIs504(h) == IF h = "LLMUnavailableError" THEN 504 ELSE 422

HandlerStatus(h) ==
  CASE h = "LLMUnavailableError" -> 503
    [] h \in { "NumericConsistencyError", "UnsupportedClaimError" } -> 502
    [] h \in { "RequestValidationError", "PortfolioMethodsFailedError",
               "QuantRiskAIError" } -> 422
    [] h = "HTTPException" -> 400

\* _json_safe: a 422 echoes the offending value, and Starlette writes JSON
\* with allow_nan=False, so a non-finite float is turned into its repr first.
JsonSafe(value) == IF value = "non_finite" THEN "text" ELSE value
Serialisable(value) == value # "non_finite"

\* What ExceptionMiddleware makes of exception c when the request's offending
\* value is `value`: a status, or 0 when the exception goes on propagating.
Translated(c, value) ==
  IF \/ Unhandled(c)
     \/ c = "RequestValidationError" /\ ~Serialisable(JsonSafe(value))
  THEN 0 ELSE HandlerStatus(HandlerOf(c))

=============================================================================
