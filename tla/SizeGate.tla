------------------------------ MODULE SizeGate ------------------------------
(***************************************************************************)
(* What the request-body limit promises, without how it reads: every       *)
(* request is either handed to the application whole, or refused because   *)
(* its body is or was declared over the limit, or dropped because its      *)
(* client left.  BodyLimit is shown to implement this module.              *)
(***************************************************************************)
EXTENDS Naturals

CONSTANTS
  Request,   \* the requests
  MaxBytes,  \* QUANT_RISK_AI_MAX_REQUEST_BODY_BYTES
  SendBound  \* bound: the most bytes a client sends in the model

VARIABLES
  overDeclared, \* does the Content-Length declare more than MaxBytes?
  sent,         \* bytes of the body the client has sent
  ended,        \* has the client sent its last byte?
  gone,         \* has the client disconnected?
  verdict       \* "pending", "forwarded", "rejected" or "abandoned"

gateVars == << overDeclared, sent, ended, gone, verdict >>

Verdict == {"pending", "forwarded", "rejected", "abandoned"}

Init ==
  /\ overDeclared \in [Request -> BOOLEAN]
  /\ sent    = [r \in Request |-> 0]
  /\ ended   = [r \in Request |-> FALSE]
  /\ gone    = [r \in Request |-> FALSE]
  /\ verdict = [r \in Request |-> "pending"]

\* The client writes n more bytes of the body, the last ones if `last`.
Send(r, n, last) ==
  /\ ~ended[r] /\ ~gone[r]
  /\ sent[r] + n <= SendBound
  /\ sent'  = [sent  EXCEPT ![r] = @ + n]
  /\ ended' = [ended EXCEPT ![r] = last]
  /\ UNCHANGED << overDeclared, gone, verdict >>

Leave(r) ==
  /\ ~gone[r]
  /\ gone' = [gone EXCEPT ![r] = TRUE]
  /\ UNCHANGED << overDeclared, sent, ended, verdict >>

Decide(r, v) ==
  /\ verdict[r] = "pending"
  /\ verdict' = [verdict EXCEPT ![r] = v]
  /\ UNCHANGED << overDeclared, sent, ended, gone >>

Forward(r) == /\ ended[r] /\ ~overDeclared[r] /\ sent[r] <= MaxBytes
              /\ Decide(r, "forwarded")
Reject(r)  == /\ overDeclared[r] \/ sent[r] > MaxBytes
              /\ Decide(r, "rejected")
Abandon(r) == gone[r] /\ Decide(r, "abandoned")

Next ==
  \E r \in Request :
    \/ \E n \in 0 .. SendBound, last \in BOOLEAN : Send(r, n, last)
    \/ Leave(r)
    \/ Forward(r)
    \/ Reject(r)
    \/ Abandon(r)

Spec == Init /\ [][Next]_gateVars

=============================================================================
