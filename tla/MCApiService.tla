---------------------------- MODULE MCApiService ----------------------------
(***************************************************************************)
(* The model-checked instances of ApiService.                              *)
(*                                                                         *)
(* ApiOutcomes: every kind of request and every Ollama reply, beside an    *)
(* /explain request that competes for the one worker thread.               *)
(* ClientCache: three first /explain requests on two worker threads.       *)
(***************************************************************************)
EXTENDS ApiService

Asks(route, body, value, fault, bytes) ==
  [route |-> route, body |-> body, value |-> value, fault |-> fault, bytes |-> bytes]

AllInputs ==
  { Asks("numeric", "malformed", "text",       "none", 0),
    Asks("explain", "undecodable", "text",     "none", 0),
    Asks("numeric", "rejected",  "non_finite", "none", 0),
    Asks("numeric", "accepted",  "text",       "none", 0),
    Asks("numeric", "accepted",  "text",       "InsufficientSampleSizeError", 0),
    Asks("numeric", "accepted",  "text",       "PortfolioMethodsFailedError", 0),
    Asks("numeric", "accepted",  "text",       "Exception", 0),
    Asks("explain", "rejected",  "text",       "none", 0),
    Asks("explain", "accepted",  "text",       "InvalidParameterError", 0),
    Asks("explain", "accepted",  "text",       "none", 3),
    Asks("explain", "accepted",  "text",       "none", 4) }

Explain == Asks("explain", "accepted", "text", "none", 3)

Neighbour == CHOOSE r \in Request : TRUE

AnyBesideExplain == { f \in [Request -> AllInputs] : f[Neighbour] = Explain }

AllExplain == [Request -> {Explain}]

AllReplies == Reply

PlainReplies == { [kind |-> "stop", text |-> NoText] }

=============================================================================
