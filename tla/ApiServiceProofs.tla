-------------------------- MODULE ApiServiceProofs --------------------------
(***************************************************************************)
(* Proofs about ApiService, for any requests in flight, any number of      *)
(* worker threads, any context window and anything Ollama answers.         *)
(*                                                                         *)
(* Two inductive invariants: Journey, what the stage of a request says of  *)
(* what it asked, of Ollama and of its outcome; and Threads, the account   *)
(* of the worker threads that are about to build a client.                 *)
(***************************************************************************)
EXTENDS ApiService, FiniteSetTheorems, TLAPS

-----------------------------------------------------------------------------
(* The status of each outcome                                              *)

LLMGuardError == {"NumericConsistencyError", "UnsupportedClaimError"}

\* An exception outside the project's hierarchy reaches no registered handler.
LEMMA ExceptionPropagates ==
  ASSUME NEW value
  PROVE  Translated("Exception", value) = 0
<1>1. Mro("Exception") = << "Exception" >>
  BY DEF Mro, LLMClass
<1>2. Registrations("Exception") = {}
  BY <1>1 DEF Registrations, Registered
<1> QED BY <1>2 DEF Translated, Unhandled

\* When the class itself is registered, its own handler answers.
LEMMA OwnHandler ==
  ASSUME NEW c \in Registered, NEW value,
         Mro(c)[1] = c, 1 \in DOMAIN Mro(c), DOMAIN Mro(c) \subseteq Nat \ {0}
  PROVE  Translated(c, value) = HandlerStatus(c)
<1>1. 1 \in Registrations(c)
  BY DEF Registrations
<1>2. \A i \in Registrations(c) : 1 <= i /\ i \in Nat
  BY DEF Registrations
<1>3. HandlerOf(c) = c
  <2>1. ASSUME NEW i \in Registrations(c), \A j \in Registrations(c) : i <= j
        PROVE  i = 1
    BY <1>1, <1>2, <2>1
  <2> QED BY <1>1, <1>2, <2>1 DEF HandlerOf
<1>4. Serialisable(JsonSafe(value))
  BY DEF Serialisable, JsonSafe
<1> QED BY <1>1, <1>3, <1>4 DEF Translated, Unhandled

\* A project exception without a handler of its own is answered by the base's.
LEMMA BaseHandler ==
  ASSUME NEW c \in EngineError, NEW value
  PROVE  Translated(c, value) = 422
<1>1. CASE c = "InsufficientSampleSizeError"
  <2>1. Mro(c) = << c, "InsufficientDataError", "QuantRiskAIError", "Exception" >>
    BY <1>1 DEF Mro, LLMClass
  <2>2. Registrations(c) = {3}
    BY <1>1, <2>1 DEF Registrations, Registered
  <2>3. HandlerOf(c) = "QuantRiskAIError"
    BY <2>1, <2>2 DEF HandlerOf
  <2> QED BY <1>1, <2>2, <2>3 DEF Translated, Unhandled, HandlerStatus
<1>2. CASE c # "InsufficientSampleSizeError"
  <2>1. Mro(c) = << c, "QuantRiskAIError", "Exception" >>
    BY <1>2 DEF Mro, LLMClass, EngineError
  <2>2. Registrations(c) = {2}
    BY <1>2, <2>1 DEF Registrations, Registered, EngineError
  <2>3. HandlerOf(c) = "QuantRiskAIError"
    BY <2>1, <2>2 DEF HandlerOf
  <2> QED BY <2>2, <2>3 DEF Translated, Unhandled, HandlerStatus, EngineError
<1> QED BY <1>1, <1>2

\* The status the handlers give each class of exception, whatever value a 422
\* has to echo.
LEMMA StatusOfClass ==
  ASSUME NEW c \in ExceptionClass, NEW value
  PROVE  Translated(c, value) =
           IF c = "Exception" THEN 0
           ELSE IF c = "LLMUnavailableError" THEN 503
           ELSE IF c \in LLMGuardError THEN 502
           ELSE IF c = "HTTPException" THEN 400
           ELSE 422
<1>1. CASE c = "Exception"
  BY <1>1, ExceptionPropagates
<1>2. CASE c \in LLMClass
  <2>1. Mro(c) = << c, "LLMError", "QuantRiskAIError", "Exception" >>
    BY <1>2 DEF Mro, LLMClass
  <2>2. c \in Registered
    BY <1>2 DEF LLMClass, Registered
  <2>3. Translated(c, value) = HandlerStatus(c)
    BY <2>1, <2>2, OwnHandler
  <2> QED BY <1>2, <2>3 DEF HandlerStatus, LLMClass, LLMGuardError
<1>3. CASE c \in {"RequestValidationError", "HTTPException"}
  <2>1. Mro(c) = << c, "Exception" >>
    BY <1>3 DEF Mro, LLMClass
  <2>2. Translated(c, value) = HandlerStatus(c)
    BY <1>3, <2>1, OwnHandler DEF Registered
  <2> QED BY <1>3, <2>2 DEF HandlerStatus, LLMGuardError
<1>4. CASE c = "PortfolioMethodsFailedError"
  <2>1. Mro(c) = << c, "QuantRiskAIError", "Exception" >>
    BY <1>4 DEF Mro, LLMClass
  <2>2. Translated(c, value) = HandlerStatus(c)
    BY <1>4, <2>1, OwnHandler DEF Registered
  <2> QED BY <1>4, <2>2 DEF HandlerStatus, LLMGuardError
<1>5. CASE c \in EngineError
  BY <1>5, BaseHandler DEF EngineError, LLMGuardError
<1> QED BY <1>1, <1>2, <1>3, <1>4, <1>5 DEF ExceptionClass, LLMClass, EngineError

-----------------------------------------------------------------------------
(* The journey of a request                                                *)

Over == {"done", "logged", "answered"}

\* The request was sound: a body the models accept, and nothing for the engine
\* or the prompt to refuse.
Sound(r) == input[r].body = "accepted" /\ input[r].fault = "none"

\* Ollama was asked for an explanation whose prompt fits.
Consulted(r) == Sound(r) /\ input[r].route = "explain" /\ FitsContext(input[r].bytes)

Heard(r) == call[r] = "heard" /\ reply[r] \in Reply

\* What the outcome of a request says of how it came about.
Accounted(r) ==
  /\ outcome[r] # "pending"
  /\ outcome[r] = "too_large"   => verdict[r] = "rejected" /\ call[r] = "none"
  /\ outcome[r] = "no_response" => verdict[r] = "abandoned" /\ call[r] = "none"
  /\ outcome[r] \notin {"too_large", "no_response"} => verdict[r] = "forwarded"
  /\ outcome[r] = "RequestValidationError" =>
       input[r].body \in {"malformed", "rejected"} /\ call[r] = "none"
  /\ outcome[r] = "HTTPException" =>
       input[r].body = "undecodable" /\ call[r] = "none"
  /\ outcome[r] \in EngineError \cup {"PortfolioMethodsFailedError"} =>
       /\ call[r] = "none"
       /\ input[r].route = "explain" \/ input[r].fault = outcome[r]
  /\ outcome[r] = "ok" =>
       /\ Sound(r)
       /\ input[r].route = "explain" =>
            Consulted(r) /\ Heard(r) /\ Judge(reply[r]) = "ok"
  /\ outcome[r] = "LLMUnavailableError" =>
       /\ Consulted(r)
       /\ call[r] = "lost" \/ (Heard(r) /\ reply[r].kind # "stop")
  /\ outcome[r] \in LLMGuardError =>
       Consulted(r) /\ Heard(r) /\ reply[r].kind = "stop"
  /\ outcome[r] = "Exception" =>
       input[r].fault = "Exception" \/ (Heard(r) /\ reply[r].kind = "not_text")

\* What each stage says of the request that is there.
Journey(r) ==
  /\ stage[r] \notin Over =>
       /\ outcome[r] = "pending"
       /\ call[r] = IF stage[r] = "call" THEN "open" ELSE "none"
  /\ stage[r] \notin Over \cup {"gate"} => verdict[r] = "forwarded"
  /\ stage[r] \in {"want_client", "check", "build", "validate"} =>
       input[r].body \in {"rejected", "accepted"}
  /\ stage[r] \in {"want_worker", "run"} => input[r].body = "accepted"
  /\ stage[r] = "call" => Consulted(r)
  /\ stage[r] \in Over => Accounted(r)

\* The status of the answer that is due to a request that is over.
Due(r) == IF ResponseStatus(r) = 0 THEN 500 ELSE ResponseStatus(r)

\* The log line comes first, then the answer, with the status that is due.
Exit(r) ==
  /\ lines[r]  = IF stage[r] \in {"logged", "answered"} THEN << Due(r) >> ELSE << >>
  /\ answer[r] = IF stage[r] = "answered" THEN Due(r) ELSE 0

IInv == TypeOK /\ \A r \in Request : Journey(r) /\ Exit(r)

\* The status that is due is one of the statuses, and tells the outcome.
LEMMA StatusOfOutcome ==
  ASSUME NEW r \in Request, outcome[r] \in Outcome \ {"pending"}
  PROVE  ResponseStatus(r) =
           IF outcome[r] = "ok" THEN 200
           ELSE IF outcome[r] = "too_large" THEN 413
           ELSE IF outcome[r] \in {"no_response", "Exception"} THEN 0
           ELSE IF outcome[r] = "LLMUnavailableError" THEN 503
           ELSE IF outcome[r] \in LLMGuardError THEN 502
           ELSE IF outcome[r] = "HTTPException" THEN 400
           ELSE 422
<1>1. CASE outcome[r] \in {"ok", "too_large", "no_response"}
  BY <1>1 DEF ResponseStatus
<1>2. CASE outcome[r] \in ExceptionClass
  <2>1. outcome[r] \notin {"ok", "too_large", "no_response"}
    BY <1>2 DEF ExceptionClass
  <2>2. ResponseStatus(r) = Translated(outcome[r], input[r].value)
    BY <2>1 DEF ResponseStatus
  <2>3. Translated(outcome[r], input[r].value) =
          IF outcome[r] = "Exception" THEN 0
          ELSE IF outcome[r] = "LLMUnavailableError" THEN 503
          ELSE IF outcome[r] \in LLMGuardError THEN 502
          ELSE IF outcome[r] = "HTTPException" THEN 400
          ELSE 422
    BY <1>2, StatusOfClass
  <2> QED BY <2>1, <2>2, <2>3
<1> QED BY <1>1, <1>2 DEF Outcome

\* What the guards make of a reply, case by case.
LEMMA Judged ==
  ASSUME NEW a \in Reply
  PROVE  /\ Judge(a) \in {"ok", "LLMUnavailableError", "Exception"} \cup LLMGuardError
         /\ Judge(a) = "LLMUnavailableError" => a.kind # "stop"
         /\ Judge(a) \in LLMGuardError => a.kind = "stop"
         /\ Judge(a) = "Exception" => a.kind = "not_text"
         /\ Judge(a) = "ok" => /\ a.kind = "stop"
                               /\ a.text.numbers = "consistent"
                               /\ a.text.claims = {}
<1>1. a.kind \in Failure \cup {"not_text", "length", "stop"}
  BY DEF Reply
<1>2. a.text \in Text
  BY DEF Reply, NoText, Text
<1>3. GenerateOutcome(a) = IF a.kind = "stop" THEN "ok"
                           ELSE IF a.kind = "not_text" THEN "Exception"
                           ELSE "LLMUnavailableError"
  BY <1>1 DEF GenerateOutcome, Failure
<1>4. ~MakesClaim(a.text) => a.text.claims = {}
  BY <1>2 DEF MakesClaim, Text
<1>5. a.text.numbers = "inconsistent" \/ a.text.numbers = "consistent"
  BY <1>2 DEF Text
<1> QED BY <1>3, <1>4, <1>5 DEF Judge, LLMGuardError

\* Nothing Ollama answers is the absence of an answer.
LEMMA NoReplyIsNoReply == NoReply \notin Reply
BY DEF NoReply, Reply, Failure

\* A request that a step leaves where it is stays accounted for: its verdict is
\* settled once it has left the gate, and an answer of Ollama's stays.
LEMMA Frame ==
  ASSUME NEW q \in Request, Journey(q), Exit(q),
         input' = input, stage'[q] = stage[q], outcome'[q] = outcome[q],
         call'[q] = call[q], lines'[q] = lines[q], answer'[q] = answer[q],
         stage[q] # "gate" => verdict'[q] = verdict[q],
         reply[q] # NoReply => reply'[q] = reply[q]
  PROVE  Journey(q)' /\ Exit(q)'
<1>1. Sound(q)' = Sound(q) /\ Consulted(q)' = Consulted(q)
  BY DEF Sound, Consulted
<1>2. Heard(q) => Heard(q)' /\ reply'[q] = reply[q]
  BY NoReplyIsNoReply DEF Heard
<1>3. stage[q] \in Over /\ Accounted(q) => Accounted(q)'
  BY <1>1, <1>2 DEF Accounted, Over
<1>4. Journey(q)'
  BY <1>1, <1>3 DEF Journey, Over
<1>5. Due(q)' = Due(q)
  BY DEF Due, ResponseStatus
<1> QED BY <1>4, <1>5 DEF Exit

\* The initial states satisfy the inductive invariant.
LEMMA InitIInv == Init => IInv
<1> SUFFICES ASSUME Init
             PROVE  IInv
  OBVIOUS
<1> USE DEF Init, Gate!Init
<1>1. TypeOK
  BY DEF TypeOK, Stage, Gate!Verdict, Outcome
<1>2. ASSUME NEW r \in Request
      PROVE  Journey(r) /\ Exit(r)
  BY <1>2 DEF Journey, Exit, Over
<1> QED BY <1>1, <1>2 DEF IInv

\* A step that only moves r to another stage before its end.
LEMMA Moves ==
  ASSUME IInv, NEW r \in Request, NEW s \in Stage \ (Over \cup {"gate"}),
         stage[r] \notin Over, GoTo(r, s),
         call' = [call EXCEPT ![r] = IF s = "call" THEN "open" ELSE "none"],
         verdict[r] = "forwarded",
         s \in {"want_client", "check", "build", "validate"} =>
           input[r].body \in {"rejected", "accepted"},
         s \in {"want_worker", "run"} => input[r].body = "accepted",
         s = "call" => Consulted(r),
         UNCHANGED << gate, input, reply, outcome, exits >>,
         built' \in Nat, default' \in 0 .. built'
  PROVE  IInv'
<1>1. TypeOK'
  BY DEF IInv, TypeOK, GoTo, gate, exits
<1>2. ASSUME NEW q \in Request, q # r
      PROVE  Journey(q)' /\ Exit(q)'
  BY <1>2, Frame DEF IInv, TypeOK, GoTo, gate, exits
<1>3. Journey(r)'
  BY DEF IInv, TypeOK, GoTo, gate, exits, Journey, Over, Consulted, Sound
<1>4. Exit(r)'
  BY DEF IInv, TypeOK, GoTo, gate, exits, Exit, Over
<1> QED BY <1>1, <1>2, <1>3, <1>4 DEF IInv

\* A step in which the application is through with r.
LEMMA Finishes ==
  ASSUME IInv, NEW r \in Request, NEW o \in Outcome, Ends(r, o),
         stage[r] \notin Over, NEW c \in {"none", "heard", "lost"},
         call' = [call EXCEPT ![r] = c],
         UNCHANGED << gate, input, clients, reply, exits >>,
         Accounted(r)'
  PROVE  IInv'
<1> USE DEF Ends, GoTo
<1>1. TypeOK'
  BY DEF IInv, TypeOK, gate, exits, clients, Stage
<1>2. ASSUME NEW q \in Request, q # r
      PROVE  Journey(q)' /\ Exit(q)'
  BY <1>2, Frame DEF IInv, TypeOK, gate, exits
<1>3. stage'[r] = "done"
  BY DEF IInv, TypeOK
<1>4. Journey(r)'
  BY <1>3 DEF Journey, Over
<1>5. Exit(r)'
  BY <1>3 DEF IInv, Exit, Over, exits
<1> QED BY <1>1, <1>2, <1>4, <1>5 DEF IInv

\* A request has no verdict only while it is at the gate.
LEMMA Settled ==
  ASSUME IInv, NEW r \in Request, stage[r] # "gate"
  PROVE  verdict[r] # "pending"
BY DEF IInv, Journey, Accounted, Over

\* With no call of r's open, nothing happens to its call.
LEMMA CallStays ==
  ASSUME IInv, NEW r \in Request, stage[r] \notin Over \cup {"call"}, UNCHANGED call
  PROVE  call[r] = "none" /\ call' = [call EXCEPT ![r] = "none"]
BY DEF IInv, TypeOK, Journey

\* The clients and the body limit do not touch what the application does.
LEMMA GateSteps ==
  ASSUME IInv, NEW r \in Request, ClientStep(r) \/ GateDecides(r)
  PROVE  IInv'
<1>1. /\ UNCHANGED << input, stage, clients, ollama, outcome, exits >>
      /\ verdict' \in [Request -> Gate!Verdict]
      /\ \A q \in Request : verdict[q] # "pending" => verdict'[q] = verdict[q]
  BY DEF ClientStep, GateDecides, Gate!Send, Gate!Leave, Gate!Forward, Gate!Reject,
         Gate!Abandon, Gate!Decide, Gate!Verdict, IInv, TypeOK
<1>2. TypeOK'
  BY <1>1 DEF IInv, TypeOK, clients, ollama, exits
<1>3. ASSUME NEW q \in Request
      PROVE  Journey(q)' /\ Exit(q)'
  BY <1>1, <1>3, Settled, Frame DEF IInv, ollama, exits
<1> QED BY <1>2, <1>3 DEF IInv

\* From the gate into the application, or past it.
LEMMA LeaveGateStep ==
  ASSUME IInv, NEW r \in Request, LeaveGate(r)
  PROVE  IInv'
<1>1. /\ stage[r] = "gate"
      /\ UNCHANGED << gate, input, clients, call, reply, exits >>
      /\ call[r] = "none" /\ call' = [call EXCEPT ![r] = "none"]
      /\ built' \in Nat /\ default' \in 0 .. built'
  BY CallStays DEF LeaveGate, ollama, clients, Over, IInv, TypeOK
<1>2. CASE verdict[r] = "forwarded" /\ GoTo(r, "read") /\ UNCHANGED outcome
  BY <1>1, <1>2, Moves DEF Stage, InWorker, Over
<1>3. CASE verdict[r] = "rejected" /\ Ends(r, "too_large")
  <2>1. outcome'[r] = "too_large"
    BY <1>3 DEF Ends, IInv, TypeOK
  <2>2. Accounted(r)'
    BY <1>1, <1>3, <2>1 DEF Accounted, gate, EngineError, LLMGuardError
  <2> QED BY <1>1, <1>3, <2>2, Finishes DEF Over, Outcome
<1>4. CASE verdict[r] = "abandoned" /\ Ends(r, "no_response")
  <2>1. outcome'[r] = "no_response"
    BY <1>4 DEF Ends, IInv, TypeOK
  <2>2. Accounted(r)'
    BY <1>1, <1>4, <2>1 DEF Accounted, gate, EngineError, LLMGuardError
  <2> QED BY <1>1, <1>4, <2>2, Finishes DEF Over, Outcome
<1> QED BY <1>2, <1>3, <1>4 DEF LeaveGate

\* A body that is not JSON, or that a model rejects, ends the request with 422,
\* and one that cannot be decoded with 400.
LEMMA Refused ==
  ASSUME IInv, NEW r \in Request, stage[r] \in {"read", "validate"},
         NEW c \in {"RequestValidationError", "HTTPException"}, Ends(r, c),
         c = "RequestValidationError" => input[r].body \in {"malformed", "rejected"},
         c = "HTTPException" => input[r].body = "undecodable",
         UNCHANGED << gate, input, clients, ollama, exits >>
  PROVE  IInv'
<1>1. /\ verdict[r] = "forwarded" /\ stage[r] \notin Over
      /\ UNCHANGED << call, reply >>
      /\ call[r] = "none" /\ call' = [call EXCEPT ![r] = "none"]
  BY CallStays DEF IInv, Journey, Over, ollama
<1>2. outcome'[r] = c
  BY DEF Ends, IInv, TypeOK
<1>3. Accounted(r)'
  BY <1>1, <1>2 DEF Accounted, gate, EngineError, LLMGuardError
<1> QED BY <1>1, <1>3, Finishes DEF Outcome, ExceptionClass

\* The stages before the handler: decoding, the dependency, validation, and the
\* wait for a worker thread.
LEMMA ApproachSteps ==
  ASSUME IInv, NEW r \in Request,
         \/ ReadBody(r) \/ AcquireForClient(r) \/ CheckClient(r) \/ BuildClient(r)
         \/ Validate(r) \/ StartHandler(r)
  PROVE  IInv'
<1> DEFINE Before == {"read", "want_client", "check", "build", "validate", "want_worker"}
<1>1. /\ stage[r] \in Before
      /\ UNCHANGED << gate, input, call, reply, exits >>
      /\ built' \in Nat /\ default' \in 0 .. built'
  BY DEF ReadBody, AcquireForClient, CheckClient, BuildClient, Validate, StartHandler,
         clients, ollama, IInv, TypeOK
<1>2. /\ verdict[r] = "forwarded" /\ stage[r] \notin Over
      /\ call' = [call EXCEPT ![r] = "none"]
  BY <1>1, CallStays DEF IInv, Journey, Over
<1>3. input[r].body \in {"malformed", "undecodable", "rejected", "accepted"}
  BY ServiceAssumption DEF IInv, TypeOK, InputType
<1>4. ASSUME NEW s \in {"want_client", "check", "build", "validate", "want_worker", "run"},
             GoTo(r, s), UNCHANGED outcome,
             s \in {"want_client", "check", "build", "validate"} =>
               input[r].body \in {"rejected", "accepted"},
             s \in {"want_worker", "run"} => input[r].body = "accepted"
      PROVE  IInv'
  <2>1. s \in Stage \ (Over \cup {"gate"}) /\ s # "call"
    BY DEF Stage, InWorker, Over
  <2> QED BY <1>1, <1>2, <1>4, <2>1, Moves
<1>5. CASE ReadBody(r)
  BY <1>4, <1>5, Refused DEF ReadBody
<1>6. CASE AcquireForClient(r)
  BY <1>4, <1>6 DEF AcquireForClient, IInv, Journey
<1>7. CASE CheckClient(r)
  BY <1>4, <1>7 DEF CheckClient, IInv, Journey
<1>8. CASE BuildClient(r)
  BY <1>4, <1>8 DEF BuildClient, IInv, Journey
<1>9. CASE Validate(r)
  <2>1. stage[r] = "validate"
    BY <1>9 DEF Validate
  <2>2. CASE input[r].body = "rejected"
    BY <1>9, <2>1, <2>2, Refused DEF Validate
  <2>3. CASE input[r].body \in {"malformed", "undecodable"}
    BY <2>1, <2>3 DEF IInv, Journey
  <2>4. CASE input[r].body = "accepted"
    BY <1>4, <1>9, <2>4 DEF Validate
  <2> QED BY <1>3, <2>2, <2>3, <2>4
<1>10. CASE StartHandler(r)
  BY <1>4, <1>10 DEF StartHandler, IInv, Journey
<1> QED BY <1>5, <1>6, <1>7, <1>8, <1>9, <1>10

\* A handler that ends without having called Ollama.
LEMMA RunEnds ==
  ASSUME IInv, NEW r \in Request, stage[r] = "run",
         NEW o \in {"ok", "Exception", "PortfolioMethodsFailedError"} \cup EngineError,
         Ends(r, o), UNCHANGED << gate, input, clients, ollama, exits >>,
         o = "ok" => input[r].fault = "none" /\ input[r].route = "numeric",
         o # "ok" => input[r].route = "explain" \/ input[r].fault = o,
         o = "Exception" => input[r].fault = o
  PROVE  IInv'
<1>1. /\ verdict[r] = "forwarded" /\ stage[r] \notin Over /\ input[r].body = "accepted"
      /\ UNCHANGED << call, reply >>
      /\ call[r] = "none" /\ call' = [call EXCEPT ![r] = "none"]
  BY CallStays DEF IInv, Journey, Over, ollama
<1>2. outcome'[r] = o
  BY DEF Ends, IInv, TypeOK
<1>3. Accounted(r)'
  BY <1>1, <1>2 DEF Accounted, gate, EngineError, LLMGuardError, Sound
<1>4. o \in Outcome
  BY DEF Outcome, ExceptionClass, EngineError
<1> QED BY <1>1, <1>3, <1>4, Finishes

\* The handlers: a figure, an exception, or a call to Ollama.
LEMMA RunSteps ==
  ASSUME IInv, NEW r \in Request, RunNumeric(r) \/ RunExplain(r)
  PROVE  IInv'
<1>1. input[r].fault \in EngineError \cup {"PortfolioMethodsFailedError", "Exception", "none"}
  BY ServiceAssumption DEF IInv, TypeOK, InputType
<1>2. CASE RunNumeric(r)
  BY <1>1, <1>2, RunEnds DEF RunNumeric, ollama, EngineError
<1>3. CASE RunExplain(r) /\ input[r].fault # "none"
  BY <1>1, <1>3, RunEnds DEF RunExplain, ollama, EngineError
<1>4. CASE RunExplain(r) /\ input[r].fault = "none" /\ ~FitsContext(input[r].bytes)
  <2>1. "InvalidParameterError" \in EngineError
    BY DEF EngineError
  <2> QED BY <1>4, <2>1, RunEnds DEF RunExplain, ollama
<1>5. CASE RunExplain(r) /\ input[r].fault = "none" /\ FitsContext(input[r].bytes)
  <2>1. /\ stage[r] = "run" /\ input[r].route = "explain"
        /\ GoTo(r, "call") /\ call' = [call EXCEPT ![r] = "open"]
        /\ UNCHANGED << gate, input, clients, reply, outcome, exits >>
    BY <1>5 DEF RunExplain
  <2>2. Consulted(r) /\ verdict[r] = "forwarded" /\ stage[r] \notin Over
    BY <1>5, <2>1 DEF IInv, Journey, Over, Consulted, Sound
  <2>3. "call" \in Stage \ (Over \cup {"gate"})
    BY DEF Stage, InWorker, Over
  <2>4. built' \in Nat /\ default' \in 0 .. built'
    BY <2>1 DEF clients, IInv, TypeOK
  <2> QED BY <2>1, <2>2, <2>3, <2>4, Moves
<1> QED BY <1>2, <1>3, <1>4, <1>5

\* An answer of Ollama's changes nothing for a request that was heard already.
LEMMA OllamaStep ==
  ASSUME IInv, NEW r \in Request, OllamaAnswers(r)
  PROVE  IInv'
<1>1. PICK a \in OllamaReply : reply' = [reply EXCEPT ![r] = a]
  BY DEF OllamaAnswers
<1>2. /\ UNCHANGED << gate, input, stage, clients, call, outcome, exits >>
      /\ reply[r] = NoReply
  BY DEF OllamaAnswers
<1>3. TypeOK'
  BY <1>1, <1>2 DEF IInv, TypeOK, gate, clients, exits
<1>4. ASSUME NEW q \in Request
      PROVE  Journey(q)' /\ Exit(q)'
  <2>1. reply[q] # NoReply => reply'[q] = reply[q]
    BY <1>1, <1>2 DEF IInv, TypeOK
  <2> QED BY <1>2, <2>1, Frame DEF IInv, gate, exits
<1> QED BY <1>3, <1>4 DEF IInv

\* The end of a call: a reply that both guards judge, or none in time.
LEMMA CallSteps ==
  ASSUME IInv, NEW r \in Request, HearReply(r) \/ LoseCall(r)
  PROVE  IInv'
<1>1. /\ stage[r] = "call" /\ stage[r] \notin Over
      /\ UNCHANGED << gate, input, clients, reply, exits >>
      /\ verdict[r] = "forwarded" /\ Consulted(r)
  BY DEF HearReply, LoseCall, IInv, Journey, Over
<1>2. Consulted(r)' /\ Sound(r)' /\ verdict'[r] = "forwarded"
  BY <1>1 DEF Consulted, Sound, gate
<1>3. CASE HearReply(r)
  <2>1. /\ Ends(r, Judge(reply[r])) /\ call' = [call EXCEPT ![r] = "heard"]
        /\ reply[r] \in Reply
    BY <1>3, ServiceAssumption DEF HearReply, IInv, TypeOK
  <2>2. outcome'[r] = Judge(reply[r]) /\ call'[r] = "heard"
    BY <2>1 DEF Ends, IInv, TypeOK
  <2>3. Heard(r)' /\ reply'[r] = reply[r]
    BY <1>1, <2>1, <2>2 DEF Heard
  <2>4. Accounted(r)'
    BY <1>2, <2>1, <2>2, <2>3, Judged DEF Accounted, EngineError, LLMGuardError
  <2>5. Judge(reply[r]) \in Outcome
    BY <2>1, Judged DEF Outcome, ExceptionClass, LLMGuardError
  <2> QED BY <1>1, <2>1, <2>4, <2>5, Finishes
<1>4. CASE LoseCall(r)
  <2>1. Ends(r, "LLMUnavailableError") /\ call' = [call EXCEPT ![r] = "lost"]
    BY <1>4 DEF LoseCall
  <2>2. outcome'[r] = "LLMUnavailableError" /\ call'[r] = "lost"
    BY <2>1 DEF Ends, IInv, TypeOK
  <2>3. Accounted(r)'
    BY <1>2, <2>2 DEF Accounted, EngineError, LLMGuardError
  <2> QED BY <1>1, <2>1, <2>3, Finishes DEF Outcome, ExceptionClass
<1> QED BY <1>3, <1>4

\* The log line and the answer, both with the status that is due.
LEMMA ExitSteps ==
  ASSUME IInv, NEW r \in Request, LogRequest(r) \/ Answer(r)
  PROVE  IInv'
<1>1. /\ UNCHANGED << gate, input, clients, ollama, outcome >>
      /\ stage[r] \in {"done", "logged"}
      /\ stage' = [stage EXCEPT ![r] = IF stage[r] = "done" THEN "logged" ELSE "answered"]
  BY DEF LogRequest, Answer, GoTo
<1>2. Due(r) \in StatusCode /\ Due(r)' = Due(r)
  <2>1. outcome[r] \in Outcome \ {"pending"}
    BY <1>1 DEF IInv, TypeOK, Journey, Accounted, Over
  <2> QED BY <1>1, <2>1, StatusOfOutcome DEF Due, StatusCode, ResponseStatus
<1>3. /\ lines'  = IF stage[r] = "done" THEN [lines EXCEPT ![r] = << Due(r) >>] ELSE lines
      /\ answer' = IF stage[r] = "logged" THEN [answer EXCEPT ![r] = Due(r)] ELSE answer
  <2>1. CASE LogRequest(r)
    <3>1. lines[r] = << >> /\ stage[r] = "done" /\ UNCHANGED answer
      BY <2>1 DEF LogRequest, IInv, Exit
    <3>2. lines' = [lines EXCEPT ![r] = Append(@, Due(r))]
      BY <2>1 DEF LogRequest, Due
    <3>3. Append(<< >>, Due(r)) = << Due(r) >>
      OBVIOUS
    <3> QED BY <3>1, <3>2, <3>3
  <2>2. CASE Answer(r)
    BY <2>2 DEF Answer, Due
  <2> QED BY <2>1, <2>2
<1>4. TypeOK'
  BY <1>1, <1>2, <1>3 DEF IInv, TypeOK, gate, clients, ollama, Stage
<1>5. ASSUME NEW q \in Request, q # r
      PROVE  Journey(q)' /\ Exit(q)'
  BY <1>1, <1>3, <1>5, Frame DEF IInv, TypeOK, gate, ollama
<1>6. stage'[r] = (IF stage[r] = "done" THEN "logged" ELSE "answered") /\ stage[r] \in Over
  BY <1>1 DEF IInv, TypeOK, Over
<1>7. Journey(r)'
  <2>1. Accounted(r)'
    BY <1>1, <1>6 DEF IInv, Journey, Accounted, Consulted, Sound, Heard, gate, ollama
  <2> QED BY <1>6, <2>1 DEF Journey, Over
<1>8. Exit(r)'
  BY <1>1, <1>2, <1>3, <1>6 DEF IInv, TypeOK, Exit
<1> QED BY <1>4, <1>5, <1>7, <1>8 DEF IInv

\* Every step keeps the inductive invariant.
LEMMA NextIInv == IInv /\ [Next]_vars => IInv'
<1> SUFFICES ASSUME IInv, [Next]_vars
             PROVE  IInv'
  OBVIOUS
<1>1. CASE UNCHANGED vars
  <2>1. TypeOK'
    BY <1>1 DEF IInv, TypeOK, vars, gate, clients, ollama, exits
  <2>2. ASSUME NEW q \in Request
        PROVE  Journey(q)' /\ Exit(q)'
    BY <1>1, <2>2, Frame DEF IInv, vars, gate, clients, ollama, exits
  <2> QED BY <2>1, <2>2 DEF IInv
<1>2. ASSUME NEW r \in Request, ClientStep(r) \/ Serve(r) \/ OllamaAnswers(r)
      PROVE  IInv'
  BY <1>2, GateSteps, LeaveGateStep, ApproachSteps, RunSteps, OllamaStep, CallSteps, ExitSteps
     DEF Serve
<1> QED BY <1>1, <1>2 DEF Next

\* Every reachable state satisfies the inductive invariant.
LEMMA Always == Spec => []IInv
BY InitIInv, NextIInv, PTL DEF Spec

-----------------------------------------------------------------------------
(* Theorems about the answers                                              *)

\* Every variable of the service keeps its type: among others, every status
\* sent or logged is one of the seven, and every outcome has one.
THEOREM ServiceTypeCorrect == Spec => []TypeOK
<1>1. IInv => TypeOK
  BY DEF IInv
<1> QED BY <1>1, Always, PTL

\* Every answer has exactly one log line with its status, whichever layer sent
\* it and however many requests are in flight.
THEOREM LogAndAnswerAgree == Spec => []LogMatchesAnswer
<1>1. IInv => LogMatchesAnswer
  BY DEF IInv, Exit, LogMatchesAnswer
<1> QED BY <1>1, Always, PTL

\* What an answer says of the request that got it.
LEMMA Answered ==
  ASSUME IInv, NEW r \in Request, answer[r] # 0
  PROVE  /\ Accounted(r)
         /\ answer[r] = IF outcome[r] = "ok" THEN 200
                        ELSE IF outcome[r] = "too_large" THEN 413
                        ELSE IF outcome[r] \in {"no_response", "Exception"} THEN 500
                        ELSE IF outcome[r] = "LLMUnavailableError" THEN 503
                        ELSE IF outcome[r] \in LLMGuardError THEN 502
                        ELSE IF outcome[r] = "HTTPException" THEN 400
                        ELSE 422
<1>1. stage[r] = "answered" /\ answer[r] = Due(r)
  BY DEF IInv, Exit
<1>2. Accounted(r) /\ outcome[r] \in Outcome \ {"pending"}
  BY <1>1 DEF IInv, TypeOK, Journey, Over, Accounted
<1> QED BY <1>1, <1>2, StatusOfOutcome DEF Due

\* No explanation reaches a caller unless Ollama finished it, both guards
\* accepted it, and its prompt fits the context window.
THEOREM VerifiedTextOnly == Spec => []OnlyVerifiedTextLeaves
<1>1. ASSUME IInv, NEW r \in Request, answer[r] = 200, input[r].route = "explain"
      PROVE  /\ call[r] = "heard"
             /\ reply[r].kind = "stop"
             /\ reply[r].text.numbers = "consistent" /\ reply[r].text.claims = {}
             /\ input[r].bytes + TemplateTokens + NumPredict <= NumCtx
  <2>1. outcome[r] = "ok" /\ Accounted(r)
    BY <1>1, Answered
  <2>2. Consulted(r) /\ Heard(r) /\ Judge(reply[r]) = "ok"
    BY <1>1, <2>1 DEF Accounted
  <2>3. input[r].bytes \in Nat
    BY <1>1, ServiceAssumption DEF IInv, TypeOK, InputType
  <2>4. input[r].bytes + TemplateTokens + NumPredict <= NumCtx
    BY <2>2, <2>3, GateAssumption DEF Consulted, FitsContext, PromptTokenBound
  <2> QED BY <2>2, <2>4, Judged DEF Heard
<1>2. IInv => OnlyVerifiedTextLeaves
  BY <1>1 DEF OnlyVerifiedTextLeaves
<1> QED BY <1>2, Always, PTL

\* A status tells whose fault a failure is, for every way a request can end.
THEOREM StatusTells == Spec => []StatusTellsWhoFailed
<1>1. ASSUME IInv, NEW r \in Request, answer[r] # 0
      PROVE  LET asked   == input[r].body = "accepted" /\ input[r].fault = "none"
                 refused == \/ input[r].body \in {"malformed", "rejected"}
                            \/ input[r].fault \notin {"none", "Exception"}
                 spoke   == call[r] = "heard" /\ reply[r].kind = "stop"
             IN /\ answer[r] = 400 => /\ verdict[r] = "forwarded" /\ call[r] = "none"
                                      /\ input[r].body = "undecodable"
                /\ answer[r] = 413 => verdict[r] = "rejected" /\ call[r] = "none"
                /\ answer[r] = 422 => /\ verdict[r] = "forwarded" /\ call[r] = "none"
                                      /\ refused \/ input[r].route = "explain"
                /\ answer[r] \in {502, 503} => asked /\ input[r].route = "explain"
                /\ answer[r] = 502 => spoke
                /\ answer[r] = 503 => call[r] = "lost" \/ (call[r] = "heard" /\ ~spoke)
                /\ answer[r] = 200 => asked
                /\ answer[r] = 500 => \/ verdict[r] = "abandoned"
                                      \/ input[r].fault = "Exception"
                                      \/ call[r] = "heard" /\ reply[r].kind = "not_text"
  <2>1. Accounted(r)
    BY <1>1, Answered
  <2>2. outcome[r] \in Outcome
    BY <1>1 DEF IInv, TypeOK
  <2>3. answer[r] = 422 =>
          outcome[r] \in {"RequestValidationError", "PortfolioMethodsFailedError"} \cup EngineError
    BY <1>1, <2>1, <2>2, Answered
       DEF Outcome, ExceptionClass, EngineError, LLMGuardError, Accounted
  <2>4. answer[r] = 422 => /\ verdict[r] = "forwarded" /\ call[r] = "none"
                           /\ \/ input[r].body \in {"malformed", "rejected"}
                              \/ input[r].fault \notin {"none", "Exception"}
                              \/ input[r].route = "explain"
    BY <2>1, <2>3 DEF Accounted, EngineError
  <2> QED BY <1>1, <2>1, <2>4, Answered DEF Accounted, Consulted, Sound, Heard
<1>2. ASSUME IInv, NEW r \in Request
      PROVE  answer[r] \in {400, 413, 422, 502, 503, 200, 500} => answer[r] # 0
  OBVIOUS
<1>3. IInv => StatusTellsWhoFailed
  BY <1>1, <1>2 DEF StatusTellsWhoFailed
<1> QED BY <1>3, Always, PTL

-----------------------------------------------------------------------------
(* The worker threads and the client cache                                 *)

Holding  == { r \in Request : stage[r] \in InWorker }
Building == { r \in Request : stage[r] = "build" }

\* No more requests hold a thread than there are threads, and the clients that
\* were built and those being built are no more either: a request only decides
\* to build while nothing was built yet.
Threads ==
  /\ default = 0 => built = 0
  /\ Cardinality(Holding) <= Workers
  /\ built + Cardinality(Building) <= Workers

\* The requests that hold a thread, or build, are finitely many.
LEMMA Counted ==
  /\ IsFiniteSet(Holding) /\ Cardinality(Holding) \in Nat
  /\ IsFiniteSet(Building) /\ Cardinality(Building) \in Nat
<1>1. Holding \in SUBSET Request /\ Building \in SUBSET Request
  BY DEF Holding, Building
<1> QED BY <1>1, ServiceAssumption, FS_Subset, FS_CardinalityType

\* Initially no request holds a thread.
LEMMA InitThreads == Init => Threads
<1> SUFFICES ASSUME Init
             PROVE  Threads
  OBVIOUS
<1>1. Holding = {} /\ Building = {}
  BY DEF Init, Holding, Building, InWorker
<1> QED BY <1>1, FS_EmptySet, ServiceAssumption DEF Init, Threads

\* Threads survives a step that takes no thread, starts no client and builds none.
LEMMA Releases ==
  ASSUME Threads, Holding' \subseteq Holding, Building' \subseteq Building,
         UNCHANGED clients, built \in Nat
  PROVE  Threads'
<1>1. /\ Cardinality(Holding') \in Nat /\ Cardinality(Holding') <= Cardinality(Holding)
      /\ Cardinality(Building') \in Nat /\ Cardinality(Building') <= Cardinality(Building)
  BY Counted, FS_Subset, FS_CardinalityType
<1> QED BY <1>1, Counted, ServiceAssumption DEF Threads, clients

\* A request takes a free thread.
LEMMA Takes ==
  ASSUME Threads, NEW r \in Request, NEW s \in {"check", "run"}, TypeOK,
         stage[r] \notin InWorker, WorkerIsFree, GoTo(r, s), UNCHANGED clients
  PROVE  Threads'
<1>1. Holding' = Holding \cup {r} /\ r \notin Holding /\ Building' = Building
  BY DEF GoTo, TypeOK, Holding, Building, InWorker
<1>2. Cardinality(Holding') = Cardinality(Holding) + 1
  BY <1>1, Counted, FS_AddElement
<1>3. Cardinality(Holding) < Workers
  BY DEF WorkerIsFree, Holding
<1> QED BY <1>1, <1>2, <1>3, Counted, ServiceAssumption DEF Threads, clients

\* A request finds no client and goes on to build one: it is not counted among
\* the builders yet, and nothing was built, so the threads bound their number.
LEMMA Decides ==
  ASSUME Threads, NEW r \in Request, TypeOK, CheckClient(r)
  PROVE  Threads'
<1>1. stage[r] = "check" /\ UNCHANGED clients
  BY DEF CheckClient, clients
<1>2. CASE default # 0
  <2>1. Holding' \subseteq Holding /\ Building' \subseteq Building
    BY <1>2 DEF CheckClient, GoTo, TypeOK, Holding, Building, InWorker
  <2> QED BY <1>1, <2>1, Releases DEF TypeOK
<1>3. CASE default = 0
  <2>1. Holding' = Holding /\ Building' = Building \cup {r} /\ r \notin Building
    BY <1>1, <1>3 DEF CheckClient, GoTo, TypeOK, Holding, Building, InWorker
  <2>2. Cardinality(Building') = Cardinality(Building) + 1
    BY <2>1, Counted, FS_AddElement
  <2>3. Building \cup {r} \subseteq Holding
    BY <1>1 DEF Holding, Building, InWorker
  <2>4. Cardinality(Building') <= Cardinality(Holding)
    BY <2>1, <2>3, Counted, FS_Subset
  <2> QED BY <1>1, <1>3, <2>1, <2>2, <2>4, Counted, ServiceAssumption DEF Threads, clients
<1> QED BY <1>2, <1>3

\* A builder becomes a client that was built.
LEMMA Builds ==
  ASSUME Threads, NEW r \in Request, TypeOK, BuildClient(r)
  PROVE  Threads'
<1>1. /\ Holding' \subseteq Holding
      /\ Building' = Building \ {r} /\ r \in Building
      /\ built' = built + 1 /\ default' = built + 1 /\ built \in Nat
  BY DEF BuildClient, GoTo, TypeOK, Holding, Building, InWorker
<1>2. Cardinality(Building') = Cardinality(Building) - 1
  BY <1>1, Counted, FS_RemoveElement
<1>3. Cardinality(Holding') \in Nat /\ Cardinality(Holding') <= Cardinality(Holding)
  BY <1>1, Counted, FS_Subset, FS_CardinalityType
<1> QED BY <1>1, <1>2, <1>3, Counted, ServiceAssumption DEF Threads

\* Every step keeps the account of the threads.
LEMMA NextThreads == Threads /\ TypeOK /\ [Next]_vars => Threads'
<1> SUFFICES ASSUME Threads, TypeOK, [Next]_vars
             PROVE  Threads'
  OBVIOUS
<1>1. built \in Nat
  BY DEF TypeOK
<1>2. CASE UNCHANGED vars
  <2>1. Holding' = Holding /\ Building' = Building /\ UNCHANGED clients
    BY <1>2 DEF vars, Holding, Building
  <2> QED BY <1>1, <2>1, Releases
<1>3. ASSUME NEW r \in Request, ClientStep(r) \/ GateDecides(r) \/ OllamaAnswers(r)
      PROVE  Threads'
  <2>1. UNCHANGED << stage, clients >>
    BY <1>3 DEF ClientStep, GateDecides, OllamaAnswers
  <2>2. Holding' = Holding /\ Building' = Building
    BY <2>1 DEF Holding, Building
  <2> QED BY <1>1, <2>1, <2>2, Releases
<1>4. ASSUME NEW r \in Request, AcquireForClient(r) \/ StartHandler(r)
      PROVE  Threads'
  BY <1>4, Takes DEF AcquireForClient, StartHandler, InWorker
<1>5. ASSUME NEW r \in Request,
             \/ LeaveGate(r) \/ ReadBody(r) \/ Validate(r) \/ RunNumeric(r) \/ RunExplain(r)
             \/ HearReply(r) \/ LoseCall(r) \/ LogRequest(r) \/ Answer(r)
      PROVE  Threads'
  <2>1. /\ UNCHANGED clients
        /\ \/ \E s \in Stage \ InWorker : GoTo(r, s)
           \/ stage[r] = "run" /\ GoTo(r, "call")
    BY <1>5 DEF LeaveGate, ReadBody, Validate, RunNumeric, RunExplain, HearReply, LoseCall,
                LogRequest, Answer, Ends, Stage, InWorker
  <2>2. Holding' \subseteq Holding /\ Building' \subseteq Building
    BY <2>1 DEF GoTo, TypeOK, Holding, Building, InWorker
  <2> QED BY <1>1, <2>1, <2>2, Releases
<1> QED BY <1>2, <1>3, <1>4, <1>5, Decides, Builds DEF Next, Serve

\* However many requests come and whenever they are scheduled, no more clients
\* are built than there are worker threads.
THEOREM ClientsWithinThreads == Spec => []ClientsBounded
<1>1. Threads /\ TypeOK => ClientsBounded
  BY Counted, ServiceAssumption DEF Threads, TypeOK, ClientsBounded
<1> QED BY <1>1, InitThreads, NextThreads, ServiceTypeCorrect, PTL DEF Spec

=============================================================================
