------------------------------ MODULE BodyLimit ------------------------------
(***************************************************************************)
(* BodySizeLimitMiddleware (api/body_limit.py): each request's body is     *)
(* read from the ASGI server message by message and buffered, refused as   *)
(* soon as it exceeds MaxBytes, and replayed to the application in one     *)
(* piece when it is complete.                                              *)
(*                                                                         *)
(* A body is abstracted to its length; `kept` is the length of the chunks  *)
(* in the list, `size` the count compared with the limit, and `chunk` the  *)
(* length of the latest message, which the coroutine's locals keep alive   *)
(* until it ends.  The server's receive() may split or coalesce what the   *)
(* client wrote in any way, and reports a disconnect instead of bytes once *)
(* the client left.                                                        *)
(***************************************************************************)
EXTENDS Naturals

CONSTANTS
  Request,   \* the requests
  MaxBytes,  \* QUANT_RISK_AI_MAX_REQUEST_BODY_BYTES
  SendBound  \* bound: the most bytes a client sends in the model

ASSUME SizeAssumption == MaxBytes \in Nat /\ SendBound \in Nat

VARIABLES
  header,    \* the Content-Length header: is it all digits, and its value
  sent,      \* client: bytes of the body written so far
  ended,     \* client: the last byte is written
  gone,      \* client: disconnected
  unread,    \* ASGI server: bytes written and not yet received
  pc,        \* middleware: where __call__ is
  size,      \* middleware: bytes counted
  kept,      \* middleware: bytes held in `chunks`
  chunk,     \* middleware: bytes of the message in the locals message and chunk
  body,      \* middleware: bytes of the joined body replay() will return
  replayed,  \* middleware: has replay() returned the body?
  delivered, \* application: body bytes received, over all its receive() calls
  notified   \* application: told of the disconnect

clientVars == << header, sent, ended, gone >>
appVars    == << replayed, delivered, notified >>
vars == << clientVars, unread, pc, size, kept, chunk, body, appVars >>

\* Headers: absent or not all digits (the length is then unknown), or a number.
Header == [digits : BOOLEAN, value : 0 .. SendBound]

TypeOK ==
  /\ header \in [Request -> Header]
  /\ sent \in [Request -> 0 .. SendBound]
  /\ ended \in [Request -> BOOLEAN] /\ gone \in [Request -> BOOLEAN]
  /\ unread \in [Request -> 0 .. SendBound]
  /\ pc \in [Request -> {"start", "reading", "complete", "joining", "joined",
                         "rejected", "abandoned"}]
  /\ size \in [Request -> 0 .. SendBound] /\ kept \in [Request -> 0 .. SendBound]
  /\ chunk \in [Request -> 0 .. SendBound] /\ body \in [Request -> 0 .. SendBound]
  /\ replayed \in [Request -> BOOLEAN] /\ notified \in [Request -> BOOLEAN]
  /\ delivered \in [Request -> 0 .. SendBound]

Init ==
  /\ header \in [Request -> Header]
  /\ sent      = [r \in Request |-> 0]
  /\ ended     = [r \in Request |-> FALSE]
  /\ gone      = [r \in Request |-> FALSE]
  /\ unread    = [r \in Request |-> 0]
  /\ pc        = [r \in Request |-> "start"]
  /\ size      = [r \in Request |-> 0]
  /\ kept      = [r \in Request |-> 0]
  /\ chunk     = [r \in Request |-> 0]
  /\ body      = [r \in Request |-> 0]
  /\ replayed  = [r \in Request |-> FALSE]
  /\ delivered = [r \in Request |-> 0]
  /\ notified  = [r \in Request |-> FALSE]

-----------------------------------------------------------------------------
\* The client.

ClientSends(r, n, last) ==
  /\ ~ended[r] /\ ~gone[r]
  /\ sent[r] + n <= SendBound
  /\ sent'   = [sent   EXCEPT ![r] = @ + n]
  /\ unread' = [unread EXCEPT ![r] = @ + n]
  /\ ended'  = [ended  EXCEPT ![r] = last]
  /\ UNCHANGED << header, gone, pc, size, kept, chunk, body, appVars >>

ClientLeaves(r) ==
  /\ ~gone[r]
  /\ gone' = [gone EXCEPT ![r] = TRUE]
  /\ UNCHANGED << header, sent, ended, unread, pc, size, kept, chunk, body, appVars >>

-----------------------------------------------------------------------------
\* The middleware.

\* Variants of the middleware, for testing the properties only.
OverBeforeThisChunk(r, n) == size[r] > MaxBytes
JoinedWithoutLast(r)      == kept[r] - chunk[r]

\* The declared length alone refuses the request: nothing is read.
DeclaredOver(r) == header[r].digits /\ header[r].value > MaxBytes

\* Variant: a declared length equal to the limit is refused too.
CheckHeaderAtLimit(r) ==
  /\ pc[r] = "start"
  /\ pc' = [pc EXCEPT ![r] = IF header[r].digits /\ header[r].value >= MaxBytes
                             THEN "rejected" ELSE "reading"]
  /\ UNCHANGED << clientVars, unread, size, kept, chunk, body, appVars >>

CheckHeader(r) ==
  /\ pc[r] = "start"
  /\ pc' = [pc EXCEPT ![r] = IF DeclaredOver(r) THEN "rejected" ELSE "reading"]
  /\ UNCHANGED << clientVars, unread, size, kept, chunk, body, appVars >>

\* await receive(): n of the unread bytes, with more_body unless they end it.
Arrives(r, n, more) ==
  /\ n <= unread[r]
  /\ more = ~(ended[r] /\ n = unread[r])
  /\ n > 0 \/ ~more

\* The chunk is counted before it is compared and before it is kept.
OverLimit(r, n) == size[r] + n > MaxBytes

\* b"".join(chunks).
Joined(r) == kept[r]

\* One turn of the loop: count the chunk first, keep it only within the limit,
\* and leave the loop when it is the last.
ReceiveChunk(r) ==
  /\ pc[r] = "reading"
  /\ \E n \in 0 .. unread[r], more \in BOOLEAN :
       /\ Arrives(r, n, more)
       /\ unread' = [unread EXCEPT ![r] = @ - n]
       /\ size'   = [size EXCEPT ![r] = @ + n]
       /\ chunk'  = [chunk EXCEPT ![r] = n]
       /\ IF OverLimit(r, n)
          THEN /\ pc' = [pc EXCEPT ![r] = "rejected"]
               /\ UNCHANGED kept
          ELSE /\ kept' = [kept EXCEPT ![r] = @ + n]
               /\ pc' = [pc EXCEPT ![r] = IF more THEN "reading" ELSE "complete"]
  /\ UNCHANGED << clientVars, body, appVars >>

JoinChunks(r) ==
  /\ pc[r] = "complete"
  /\ body' = [body EXCEPT ![r] = Joined(r)]
  /\ pc'   = [pc EXCEPT ![r] = "joining"]
  /\ UNCHANGED << clientVars, unread, size, kept, chunk, appVars >>

\* chunks.clear(): the list is emptied, the locals are not.
ClearChunks(r) ==
  /\ pc[r] = "joining"
  /\ kept' = [kept EXCEPT ![r] = 0]
  /\ pc'   = [pc EXCEPT ![r] = "joined"]
  /\ UNCHANGED << clientVars, unread, size, chunk, body, appVars >>

\* Variant: a message that is not http.request is skipped.
SkipDisconnect(r) ==
  pc[r] = "reading" /\ gone[r] /\ UNCHANGED vars

\* A message that is not http.request ends the request with no answer.
ReceiveDisconnect(r) ==
  /\ pc[r] = "reading"
  /\ gone[r]
  /\ pc' = [pc EXCEPT ![r] = "abandoned"]
  /\ UNCHANGED << clientVars, unread, size, kept, chunk, body, appVars >>

-----------------------------------------------------------------------------
\* The application's receive is replay(): the body once, then the server's.

\* Variant: replay() never marks the body as returned.
AppReceivesBodyAgain(r) ==
  /\ pc[r] = "joined"
  /\ delivered' = [delivered EXCEPT ![r] = @ + body[r]]
  /\ UNCHANGED << clientVars, unread, pc, size, kept, chunk, body, replayed, notified >>

AppReceivesBody(r) ==
  /\ pc[r] = "joined"
  /\ ~replayed[r]
  /\ replayed'  = [replayed  EXCEPT ![r] = TRUE]
  /\ delivered' = [delivered EXCEPT ![r] = @ + body[r]]
  /\ UNCHANGED << clientVars, unread, pc, size, kept, chunk, body, notified >>

AppReceivesDisconnect(r) ==
  /\ pc[r] = "joined"
  /\ replayed[r] /\ gone[r] /\ ~notified[r]
  /\ notified' = [notified EXCEPT ![r] = TRUE]
  /\ UNCHANGED << clientVars, unread, pc, size, kept, chunk, body, replayed, delivered >>

Client(r) == \/ \E n \in 0 .. SendBound, last \in BOOLEAN : ClientSends(r, n, last)
             \/ ClientLeaves(r)

Middleware(r) ==
  \/ CheckHeader(r) \/ ReceiveChunk(r) \/ ReceiveDisconnect(r)
  \/ JoinChunks(r) \/ ClearChunks(r)

App(r) == AppReceivesBody(r) \/ AppReceivesDisconnect(r)

Next == \E r \in Request : Client(r) \/ Middleware(r) \/ App(r)

\* The event loop runs a coroutine whose receive() can return, and the
\* application reads the body it was handed; nothing obliges a client.
Fairness == \A r \in Request : WF_vars(Middleware(r)) /\ WF_vars(App(r))

Spec == Init /\ [][Next]_vars /\ Fairness

-----------------------------------------------------------------------------
(* Properties                                                              *)

\* The bytes held for a request, each object once: the last message is one of
\* the chunks until they are cleared, is no chunk when it was refused, and is
\* itself the body when it is the only one (the join of one piece returns it).
Held(r) ==
  CASE pc[r] = "rejected" -> kept[r] + chunk[r]
    [] pc[r] = "joined" /\ chunk[r] # body[r] -> kept[r] + body[r] + chunk[r]
    [] pc[r] \in {"joining", "joined"} /\ chunk[r] = body[r] -> body[r]
    [] OTHER -> kept[r] + body[r]

\* What is held never exceeds the limit while the body is read, except by the
\* one message that is refused for it, and never exceeds it twice over: at the
\* join the chunks stand beside their copy, and while the application runs the
\* last message, shorter than the body, still does.
HeldWithinLimit ==
  \A r \in Request :
    /\ pc[r] \in {"reading", "complete", "abandoned"} => Held(r) <= MaxBytes
    /\ pc[r] = "rejected" => Held(r) <= MaxBytes + chunk[r]
    /\ pc[r] = "joining"  => Held(r) <= 2 * MaxBytes
    /\ pc[r] = "joined"   => Held(r) <= MaxBytes \/ Held(r) < 2 * MaxBytes

\* The application sees a body only when it is the client's whole body, and
\* never more of it than that, however receive() split it.
WholeBodyOnce ==
  \A r \in Request :
    /\ pc[r] = "joined" => body[r] = sent[r] /\ ended[r]
    /\ delivered[r] = IF replayed[r] THEN sent[r] ELSE 0

\* The body limit implements its abstract promise.
Undecided(r) == pc[r] \in {"start", "reading", "complete", "joining"}

Verdict ==
  [r \in Request |-> CASE Undecided(r)      -> "pending"
                       [] pc[r] = "joined" -> "forwarded"
                       [] OTHER            -> pc[r]]

Gate == INSTANCE SizeGate WITH
          overDeclared <- [r \in Request |-> DeclaredOver(r)],
          verdict      <- Verdict

ImplementsGate == Gate!Spec

\* A client that ends its body or leaves does not keep the request waiting.
Decided ==
  \A r \in Request : (ended[r] \/ gone[r]) ~> ~Undecided(r)

=============================================================================
