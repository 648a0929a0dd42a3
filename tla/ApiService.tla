----------------------------- MODULE ApiService -----------------------------
(***************************************************************************)
(* The HTTP service: requests in flight together through the body limit,   *)
(* FastAPI's parsing and dependency, the worker threads that run the       *)
(* synchronous handlers, Ollama, the exception handlers and the log        *)
(* middleware (api/main.py, api/dependencies.py, api/routers/, llm/).      *)
(*                                                                         *)
(* The body limit is taken by its promise (SizeGate, which BodyLimit       *)
(* implements); what a request asks is abstracted to what decides its      *)
(* fate: see InputType.                                                    *)
(***************************************************************************)
EXTENDS ErrorMapping, ExplainGate, FiniteSets

CONSTANTS
  Request,        \* the requests in flight
  MaxBytes,       \* QUANT_RISK_AI_MAX_REQUEST_BODY_BYTES
  SendBound,      \* bound: the most body bytes a client sends
  Workers,        \* the worker threads that run synchronous code
  Asked,          \* what the requests can ask, together, see InputType
  OllamaReply     \* what Ollama can answer

(***************************************************************************)
(* route: POST /explain or one of the numeric endpoints.                   *)
(* body:  not JSON; undecodable as text, or JSON nested too deep for the   *)
(*   parser; JSON that a model rejects; or accepted.                       *)
(* value: what a rejected body's offending value is.                       *)
(* fault: the exception the handler runs into before any call to Ollama.   *)
(* bytes: the length of the prompt, for /explain.                          *)
(***************************************************************************)
InputType ==
  [ route : {"numeric", "explain"},
    body  : {"malformed", "undecodable", "rejected", "accepted"},
    value : {"text", "non_finite"},
    fault : EngineError \cup {"PortfolioMethodsFailedError", "Exception", "none"},
    bytes : Nat ]

ASSUME ServiceAssumption ==
  /\ IsFiniteSet(Request)
  /\ MaxBytes \in Nat /\ SendBound \in Nat /\ Workers \in Nat \ {0}
  /\ Asked \subseteq [Request -> InputType]
  /\ OllamaReply \subseteq Reply

VARIABLES
  overDeclared, sent, ended, gone, verdict, \* the body limit, see SizeGate
  input,    \* what each request asks
  stage,    \* where each request is
  default,  \* _default_ollama_client: 0 for None, or the number of the client
  built,    \* how many clients were built
  call,     \* each request's POST to Ollama: none, open, heard or lost
  reply,    \* what Ollama answered, or NoReply
  outcome,  \* what the application ended with
  lines,    \* the status codes of each request's "request completed" lines
  answer    \* the status sent to the client, or 0

gate    == << overDeclared, sent, ended, gone, verdict >>
clients == << default, built >>
ollama  == << call, reply >>
exits   == << lines, answer >>
vars    == << gate, input, stage, clients, ollama, outcome, exits >>

Gate == INSTANCE SizeGate

NoReply == [kind |-> "none", text |-> NoText]

\* Stages at which the request holds a worker thread.
InWorker == {"check", "build", "run", "call"}

Stage == InWorker \cup
  {"gate", "read", "want_client", "validate", "want_worker", "done", "logged", "answered"}

Outcome == ExceptionClass \cup {"pending", "ok", "too_large", "no_response"}

StatusCode == {200, 400, 413, 422, 500, 502, 503}

TypeOK ==
  /\ input \in Asked
  /\ stage \in [Request -> Stage]
  /\ verdict \in [Request -> Gate!Verdict]
  /\ built \in Nat /\ default \in 0 .. built
  /\ call \in [Request -> {"none", "open", "heard", "lost"}]
  /\ reply \in [Request -> OllamaReply \cup {NoReply}]
  /\ outcome \in [Request -> Outcome]
  /\ lines \in [Request -> Seq(StatusCode)]
  /\ answer \in [Request -> StatusCode \cup {0}]

Init ==
  /\ Gate!Init
  /\ input \in Asked
  /\ stage   = [r \in Request |-> "gate"]
  /\ default = 0 /\ built = 0
  /\ call    = [r \in Request |-> "none"]
  /\ reply   = [r \in Request |-> NoReply]
  /\ outcome = [r \in Request |-> "pending"]
  /\ lines   = [r \in Request |-> << >>]
  /\ answer  = [r \in Request |-> 0]

GoTo(r, s) == stage' = [stage EXCEPT ![r] = s]

\* The application is through with r: o is what it returned or raised.
Ends(r, o) == GoTo(r, "done") /\ outcome' = [outcome EXCEPT ![r] = o]

WorkerIsFree == Cardinality({r \in Request : stage[r] \in InWorker}) < Workers

-----------------------------------------------------------------------------
\* Clients and the body limit.

ClientStep(r) ==
  /\ \/ \E n \in 0 .. SendBound, last \in BOOLEAN : Gate!Send(r, n, last)
     \/ Gate!Leave(r)
  /\ UNCHANGED << input, stage, clients, ollama, outcome, exits >>

GateDecides(r) ==
  /\ Gate!Forward(r) \/ Gate!Reject(r) \/ Gate!Abandon(r)
  /\ UNCHANGED << input, stage, clients, ollama, outcome, exits >>

\* The middleware calls the application, answers 413 itself, or returns with
\* no response at all.
LeaveGate(r) ==
  /\ stage[r] = "gate"
  /\ \/ verdict[r] = "forwarded" /\ GoTo(r, "read") /\ UNCHANGED outcome
     \/ verdict[r] = "rejected"  /\ Ends(r, "too_large")
     \/ verdict[r] = "abandoned" /\ Ends(r, "no_response")
  /\ UNCHANGED << gate, input, clients, ollama, exits >>

-----------------------------------------------------------------------------
\* FastAPI: decode the body, resolve the dependency, validate, run the handler.

\* Only a JSONDecodeError becomes a RequestValidationError; any other exception
\* of the parser becomes an HTTPException.
ReadBody(r) ==
  /\ stage[r] = "read"
  /\ \/ input[r].body = "malformed"   /\ Ends(r, "RequestValidationError")
     \/ input[r].body = "undecodable" /\ Ends(r, "HTTPException")
     \/ /\ input[r].body \in {"rejected", "accepted"}
        /\ GoTo(r, IF input[r].route = "explain" THEN "want_client" ELSE "validate")
        /\ UNCHANGED outcome
  /\ UNCHANGED << gate, input, clients, ollama, exits >>

\* get_ollama_client is a plain function: it runs in a worker thread.
AcquireForClient(r) ==
  /\ stage[r] = "want_client"
  /\ WorkerIsFree
  /\ GoTo(r, "check")
  /\ UNCHANGED << gate, input, clients, ollama, outcome, exits >>

\* Variant: a client per request.
BuildAlways(r) ==
  /\ stage[r] = "check"
  /\ GoTo(r, "build")
  /\ UNCHANGED << gate, input, clients, ollama, outcome, exits >>

\* `if _default_ollama_client is None`, with no lock.
CheckClient(r) ==
  /\ stage[r] = "check"
  /\ GoTo(r, IF default = 0 THEN "build" ELSE "validate")
  /\ UNCHANGED << gate, input, clients, ollama, outcome, exits >>

BuildClient(r) ==
  /\ stage[r] = "build"
  /\ built' = built + 1
  /\ default' = built + 1
  /\ GoTo(r, "validate")
  /\ UNCHANGED << gate, input, ollama, outcome, exits >>

Validate(r) ==
  /\ stage[r] = "validate"
  /\ IF input[r].body = "rejected"
     THEN Ends(r, "RequestValidationError")
     ELSE GoTo(r, "want_worker") /\ UNCHANGED outcome
  /\ UNCHANGED << gate, input, clients, ollama, exits >>

StartHandler(r) ==
  /\ stage[r] = "want_worker"
  /\ WorkerIsFree
  /\ GoTo(r, "run")
  /\ UNCHANGED << gate, input, clients, ollama, outcome, exits >>

\* A numeric handler: the engine's result or its exception.
RunNumeric(r) ==
  /\ stage[r] = "run"
  /\ input[r].route = "numeric"
  /\ Ends(r, IF input[r].fault = "none" THEN "ok" ELSE input[r].fault)
  /\ UNCHANGED << gate, input, clients, ollama, exits >>

\* explain: rebuild the result, build the prompt, check its size, only then call.
RunExplain(r) ==
  /\ stage[r] = "run"
  /\ input[r].route = "explain"
  /\ IF input[r].fault # "none"
     THEN Ends(r, input[r].fault) /\ UNCHANGED call
     ELSE IF ~FitsContext(input[r].bytes)
     THEN Ends(r, "InvalidParameterError") /\ UNCHANGED call
     ELSE /\ GoTo(r, "call")
          /\ call' = [call EXCEPT ![r] = "open"]
          /\ UNCHANGED outcome
  /\ UNCHANGED << gate, input, clients, reply, exits >>

-----------------------------------------------------------------------------
\* Ollama, and the client waiting for it.

\* Ollama answers at any time, even after the caller gave up, or never.
OllamaAnswers(r) ==
  /\ call[r] # "none"
  /\ reply[r] = NoReply
  /\ \E a \in OllamaReply : reply' = [reply EXCEPT ![r] = a]
  /\ UNCHANGED << gate, input, stage, clients, call, outcome, exits >>

\* The answer arrives in time; both guards run on it in the same thread.
HearReply(r) ==
  /\ stage[r] = "call"
  /\ reply[r] # NoReply
  /\ call' = [call EXCEPT ![r] = "heard"]
  /\ Ends(r, Judge(reply[r]))
  /\ UNCHANGED << gate, input, clients, reply, exits >>

\* Variant: no timeout.
WaitForever(r) == stage[r] = "call" /\ UNCHANGED vars

\* Refused, unreachable, or silent past a timeout: an httpx.HTTPError.
LoseCall(r) ==
  /\ stage[r] = "call"
  /\ call' = [call EXCEPT ![r] = "lost"]
  /\ Ends(r, "LLMUnavailableError")
  /\ UNCHANGED << gate, input, clients, reply, exits >>

-----------------------------------------------------------------------------
\* The way out: exception handlers, log middleware, ServerErrorMiddleware.

\* The status of the response that reaches the log middleware, or 0 when it is
\* an exception that does: an unhandled one, or the RuntimeError Starlette
\* raises when the inner middleware returned without sending any response.
ResponseStatus(r) ==
  CASE outcome[r] = "ok"          -> 200
    [] outcome[r] = "too_large"   -> 413
    [] outcome[r] = "no_response" -> 0
    [] OTHER                      -> Translated(outcome[r], input[r].value)

\* Variant: no except clause, so no line for a request that raises.
LogResponsesOnly(r) ==
  /\ stage[r] = "done"
  /\ lines' = IF ResponseStatus(r) = 0 THEN lines
              ELSE [lines EXCEPT ![r] = Append(@, ResponseStatus(r))]
  /\ GoTo(r, "logged")
  /\ UNCHANGED << gate, input, clients, ollama, outcome, answer >>

\* Both branches of _log_requests write the line; the except branch re-raises.
LogRequest(r) ==
  /\ stage[r] = "done"
  /\ LET status == ResponseStatus(r)
     IN  lines' = [lines EXCEPT ![r] = Append(@, IF status = 0 THEN 500 ELSE status)]
  /\ GoTo(r, "logged")
  /\ UNCHANGED << gate, input, clients, ollama, outcome, answer >>

\* A re-raised exception is answered outside, by _unhandled_exception_handler.
Answer(r) ==
  /\ stage[r] = "logged"
  /\ LET status == ResponseStatus(r)
     IN  answer' = [answer EXCEPT ![r] = IF status = 0 THEN 500 ELSE status]
  /\ GoTo(r, "answered")
  /\ UNCHANGED << gate, input, clients, ollama, outcome, lines >>

-----------------------------------------------------------------------------

\* What the event loop, the worker threads and httpx's timeouts keep moving.
Serve(r) ==
  \/ GateDecides(r) \/ LeaveGate(r)
  \/ ReadBody(r) \/ AcquireForClient(r) \/ CheckClient(r) \/ BuildClient(r)
  \/ Validate(r) \/ StartHandler(r) \/ RunNumeric(r) \/ RunExplain(r)
  \/ HearReply(r) \/ LoseCall(r)
  \/ LogRequest(r) \/ Answer(r)

Next == \E r \in Request : ClientStep(r) \/ Serve(r) \/ OllamaAnswers(r)

\* No fairness for the clients or for Ollama: either may fall silent for good.
Spec == Init /\ [][Next]_vars /\ \A r \in Request : WF_vars(Serve(r))

-----------------------------------------------------------------------------
(* Properties                                                              *)

\* An explanation reaches a caller only when Ollama finished it, both guards
\* accepted it, and its prompt could not have been cut by the context window.
OnlyVerifiedTextLeaves ==
  \A r \in Request :
    answer[r] = 200 /\ input[r].route = "explain" =>
      /\ call[r] = "heard"
      /\ reply[r].kind = "stop"
      /\ reply[r].text.numbers = "consistent" /\ reply[r].text.claims = {}
      /\ input[r].bytes + TemplateTokens + NumPredict <= NumCtx

\* The answer tells whose fault a failure is: 400, 413 and 422 are the caller's
\* and never involve Ollama, 502 and 503 are Ollama's and only reach a caller whose
\* request was sound, 200 is nobody's, and what is left is a 500.
StatusTellsWhoFailed ==
  \A r \in Request :
    LET asked   == input[r].body = "accepted" /\ input[r].fault = "none"
        refused == \/ input[r].body \in {"malformed", "rejected"}
                   \/ input[r].fault \notin {"none", "Exception"}
        spoke   == call[r] = "heard" /\ reply[r].kind = "stop"
    IN /\ answer[r] = 400 => /\ verdict[r] = "forwarded" /\ call[r] = "none"
                             /\ input[r].body = "undecodable"
       /\ answer[r] = 413 => verdict[r] = "rejected" /\ call[r] = "none"
       /\ answer[r] = 422 => /\ verdict[r] = "forwarded" /\ call[r] = "none"
                             /\ refused \/ input[r].route = "explain"
       /\ answer[r] \in {502, 503} => asked /\ input[r].route = "explain"
       /\ answer[r] = 502 => spoke
       /\ answer[r] = 503 => call[r] = "lost" \/ (call[r] = "heard" /\ ~spoke)
       /\ answer[r] = 200 => asked
       /\ answer[r] = 500 => \/ verdict[r] = "abandoned"
                             \/ input[r].fault = "Exception"
                             \/ call[r] = "heard" /\ reply[r].kind = "not_text"

\* Every answer has exactly one "request completed" line, with its status,
\* whether it was returned or raised and whichever layer sent it.
LogMatchesAnswer ==
  \A r \in Request : answer[r] # 0 => lines[r] = << answer[r] >>

\* The unlocked get_ollama_client can build more clients than one, but never
\* more than there are worker threads, however many requests come.
ClientsBounded == built <= Workers

\* Every request whose client ends its body or leaves is answered and logged,
\* even when Ollama never answers anyone and every worker thread waits for it.
EveryRequestCompletes ==
  \A r \in Request : (ended[r] \/ gone[r]) ~> stage[r] = "answered"

=============================================================================
