--------------------------- MODULE BodyLimitProofs ---------------------------
(***************************************************************************)
(* Proofs about BodyLimit, for any set of requests, any limit and any      *)
(* bound on what a client sends.                                           *)
(*                                                                         *)
(* The invariants are not inductive: they speak of what is held and        *)
(* delivered, and what keeps them true is the account of every byte        *)
(* between the client and the middleware (Account): in the loop the list   *)
(* holds what was counted, and from its end on the latest message is a     *)
(* piece of what is held.                                                  *)
(***************************************************************************)
EXTENDS BodyLimit, TLAPS

\* Nothing has reached the application.
NotDelivered(r) ==
  body[r] = 0 /\ ~replayed[r] /\ delivered[r] = 0 /\ ~notified[r]

\* Where each byte of r's body is, at each place of __call__.
Account(r) ==
  /\ unread[r] <= sent[r]
  /\ pc[r] = "start" =>
       /\ NotDelivered(r)
       /\ size[r] = 0 /\ kept[r] = 0 /\ unread[r] = sent[r]
  /\ pc[r] = "reading" =>
       /\ NotDelivered(r) /\ ~DeclaredOver(r)
       /\ kept[r] = size[r] /\ size[r] <= MaxBytes
       /\ size[r] + unread[r] = sent[r]
  /\ pc[r] = "complete" =>
       /\ NotDelivered(r) /\ ~DeclaredOver(r) /\ ended[r]
       /\ kept[r] = sent[r] /\ sent[r] <= MaxBytes /\ chunk[r] <= sent[r]
  /\ pc[r] = "joining" =>
       /\ ~replayed[r] /\ delivered[r] = 0 /\ ~notified[r]
       /\ ~DeclaredOver(r) /\ ended[r]
       /\ kept[r] = sent[r] /\ body[r] = sent[r] /\ sent[r] <= MaxBytes
       /\ chunk[r] <= sent[r]
  /\ pc[r] = "joined" =>
       /\ kept[r] = 0 /\ body[r] = sent[r] /\ body[r] <= MaxBytes
       /\ chunk[r] <= sent[r]
       /\ ended[r] /\ ~DeclaredOver(r)
       /\ delivered[r] = IF replayed[r] THEN sent[r] ELSE 0
  /\ pc[r] = "rejected" =>
       /\ NotDelivered(r)
       /\ kept[r] <= MaxBytes
       /\ DeclaredOver(r) \/ sent[r] > MaxBytes
  /\ pc[r] = "abandoned" =>
       /\ NotDelivered(r)
       /\ kept[r] <= MaxBytes /\ gone[r]

IInv == TypeOK /\ \A r \in Request : Account(r)

\* The initial states satisfy the inductive invariant.
LEMMA InitIInv == Init => IInv
BY SizeAssumption DEF Init, IInv, TypeOK, Account, NotDelivered, Header, DeclaredOver

\* Every step of every client, of the middleware and of the application keeps
\* the account of the bytes.
LEMMA NextIInv == IInv /\ [Next]_vars => IInv'
<1> SUFFICES ASSUME IInv, [Next]_vars
             PROVE  IInv'
  OBVIOUS
<1> USE SizeAssumption DEF IInv, TypeOK, Header
<1>1. ASSUME NEW r \in Request, NEW n \in 0 .. SendBound, NEW last \in BOOLEAN,
             ClientSends(r, n, last)
      PROVE  IInv'
  <2>1. TypeOK'
    BY <1>1 DEF ClientSends, appVars, Account
  <2>2. ASSUME NEW q \in Request PROVE Account(q)'
    BY <1>1, <2>2 DEF ClientSends, appVars, Account, NotDelivered, DeclaredOver
  <2> QED BY <2>1, <2>2
<1>2. ASSUME NEW r \in Request, ClientLeaves(r)
      PROVE  IInv'
  <2>1. TypeOK'
    BY <1>2 DEF ClientLeaves, appVars
  <2>2. ASSUME NEW q \in Request PROVE Account(q)'
    BY <1>2, <2>2 DEF ClientLeaves, appVars, Account, NotDelivered, DeclaredOver
  <2> QED BY <2>1, <2>2
<1>3. ASSUME NEW r \in Request, CheckHeader(r)
      PROVE  IInv'
  <2>1. TypeOK'
    BY <1>3 DEF CheckHeader, clientVars, appVars
  <2>2. ASSUME NEW q \in Request PROVE Account(q)'
    BY <1>3, <2>2 DEF CheckHeader, clientVars, appVars, Account, NotDelivered, DeclaredOver
  <2> QED BY <2>1, <2>2
<1>4. ASSUME NEW r \in Request, ReceiveChunk(r)
      PROVE  IInv'
  <2>1. PICK n \in 0 .. unread[r], more \in BOOLEAN :
          /\ Arrives(r, n, more)
          /\ unread' = [unread EXCEPT ![r] = @ - n]
          /\ size'   = [size EXCEPT ![r] = @ + n]
          /\ chunk'  = [chunk EXCEPT ![r] = n]
          /\ IF OverLimit(r, n)
             THEN /\ pc' = [pc EXCEPT ![r] = "rejected"]
                  /\ UNCHANGED kept
             ELSE /\ kept' = [kept EXCEPT ![r] = @ + n]
                  /\ pc' = [pc EXCEPT ![r] = IF more THEN "reading" ELSE "complete"]
    BY <1>4 DEF ReceiveChunk
  <2>2. pc[r] = "reading" /\ UNCHANGED << clientVars, body, appVars >>
    BY <1>4 DEF ReceiveChunk
  <2>3. /\ Account(r) /\ kept[r] = size[r] /\ body[r] = 0
        /\ size[r] + unread[r] = sent[r] /\ size[r] <= MaxBytes
        /\ size[r] \in Nat /\ unread[r] \in Nat /\ sent[r] \in 0 .. SendBound
    BY <2>2 DEF Account, NotDelivered
  <2>4. /\ size[r] + n \in 0 .. SendBound /\ kept[r] + n \in 0 .. SendBound
        /\ n \in 0 .. SendBound
        /\ unread[r] - n \in 0 .. SendBound
        /\ (size[r] + n) + (unread[r] - n) = sent[r]
    BY <2>3
  <2>5. CASE OverLimit(r, n)
    <3>1. TypeOK'
      BY <2>1, <2>2, <2>4, <2>5 DEF clientVars, appVars
    <3>2. ASSUME NEW q \in Request PROVE Account(q)'
      BY <2>1, <2>2, <2>3, <2>4, <2>5, <3>2
         DEF OverLimit, clientVars, appVars, Account, NotDelivered, DeclaredOver
    <3> QED BY <3>1, <3>2
  <2>6. CASE ~OverLimit(r, n)
    <3>1. TypeOK'
      BY <2>1, <2>2, <2>4, <2>6 DEF clientVars, appVars
    <3>2. ~more => ended[r] /\ kept[r] + n = sent[r] /\ n <= sent[r]
      <4>1. ~more => ended[r] /\ n = unread[r]
        BY <2>1 DEF Arrives
      <4> QED BY <2>3, <4>1
    <3>3. ASSUME NEW q \in Request PROVE Account(q)'
      BY <2>1, <2>2, <2>3, <2>4, <2>6, <3>2, <3>3
         DEF OverLimit, clientVars, appVars, Account, NotDelivered, DeclaredOver
    <3> QED BY <3>1, <3>3
  <2> QED BY <2>5, <2>6
<1>5. ASSUME NEW r \in Request, ReceiveDisconnect(r)
      PROVE  IInv'
  <2>1. TypeOK'
    BY <1>5 DEF ReceiveDisconnect, clientVars, appVars
  <2>2. ASSUME NEW q \in Request PROVE Account(q)'
    BY <1>5, <2>2 DEF ReceiveDisconnect, clientVars, appVars, Account, NotDelivered, DeclaredOver
  <2> QED BY <2>1, <2>2
<1>6. ASSUME NEW r \in Request, AppReceivesBody(r)
      PROVE  IInv'
  <2>1. pc[r] = "joined" /\ ~replayed[r] /\ delivered[r] = 0 /\ body[r] = sent[r]
    BY <1>6 DEF AppReceivesBody, Account
  <2>2. /\ replayed'  = [replayed EXCEPT ![r] = TRUE]
        /\ UNCHANGED << clientVars, unread, pc, size, kept, chunk, body, notified >>
    BY <1>6, Zenon DEF AppReceivesBody
  <2>3. delivered' = [delivered EXCEPT ![r] = delivered[r] + body[r]]
    BY <1>6, Zenon DEF AppReceivesBody
  <2>4. delivered[r] + body[r] = sent[r]
    BY <2>1
  <2>5. delivered' = [delivered EXCEPT ![r] = sent[r]]
    BY <2>3, <2>4, Zenon
  <2>6. TypeOK'
    BY <2>2, <2>5 DEF clientVars
  <2>7. ASSUME NEW q \in Request PROVE Account(q)'
    BY <2>1, <2>2, <2>5, <2>7 DEF clientVars, Account, NotDelivered, DeclaredOver
  <2> QED BY <2>6, <2>7
<1>7. ASSUME NEW r \in Request, AppReceivesDisconnect(r)
      PROVE  IInv'
  <2>1. TypeOK'
    BY <1>7 DEF AppReceivesDisconnect, clientVars
  <2>2. ASSUME NEW q \in Request PROVE Account(q)'
    BY <1>7, <2>2 DEF AppReceivesDisconnect, clientVars, Account, NotDelivered, DeclaredOver
  <2> QED BY <2>1, <2>2
<1>8. ASSUME NEW r \in Request, JoinChunks(r)
      PROVE  IInv'
  <2>1. /\ pc[r] = "complete" /\ Account(r)
        /\ UNCHANGED << clientVars, unread, size, kept, chunk, appVars >>
    BY <1>8 DEF JoinChunks
  <2>2. /\ body' = [body EXCEPT ![r] = kept[r]]
        /\ pc'   = [pc EXCEPT ![r] = "joining"]
    BY <1>8, Zenon DEF JoinChunks, Joined
  <2>3. PICK whole \in 0 .. SendBound : whole = kept[r]
    OBVIOUS
  <2>4. body' = [body EXCEPT ![r] = whole] /\ whole = sent[r]
    BY <2>1, <2>2, <2>3 DEF Account
  <2>5. pc' = [pc EXCEPT ![r] = "joining"]
    BY <2>2
  <2>6. TypeOK'
    BY <2>1, <2>4, <2>5 DEF clientVars, appVars
  <2>7. ASSUME NEW q \in Request PROVE Account(q)'
    BY <2>1, <2>3, <2>4, <2>5, <2>7 DEF clientVars, appVars, Account, NotDelivered, DeclaredOver
  <2> QED BY <2>6, <2>7
<1>9. ASSUME NEW r \in Request, ClearChunks(r)
      PROVE  IInv'
  <2>1. TypeOK'
    BY <1>9 DEF ClearChunks, clientVars, appVars
  <2>2. ASSUME NEW q \in Request PROVE Account(q)'
    BY <1>9, <2>2 DEF ClearChunks, clientVars, appVars, Account, NotDelivered, DeclaredOver
  <2> QED BY <2>1, <2>2
<1>10. ASSUME UNCHANGED vars
      PROVE  IInv'
  BY <1>10 DEF vars, clientVars, appVars, Account, NotDelivered, DeclaredOver
<1> QED
  BY <1>1, <1>2, <1>3, <1>4, <1>5, <1>6, <1>7, <1>8, <1>9, <1>10
     DEF Next, Client, Middleware, App

\* The inductive invariant holds throughout.
THEOREM Inductive == Spec => []IInv
BY InitIInv, NextIInv, PTL DEF Spec

\* Every variable keeps its type.
THEOREM TypeCorrect == Spec => []TypeOK
<1>1. IInv => TypeOK
  BY DEF IInv
<1> QED
  BY <1>1, Inductive, PTL

\* What the middleware holds for a request is within the limit while it reads,
\* but for the message it refuses, and within twice the limit from the join on,
\* whatever the client declares or sends.
THEOREM HeldBounded == Spec => []HeldWithinLimit
<1>1. ASSUME IInv, NEW r \in Request
      PROVE  /\ pc[r] \in {"reading", "complete", "abandoned"} => Held(r) <= MaxBytes
             /\ pc[r] = "rejected" => Held(r) <= MaxBytes + chunk[r]
             /\ pc[r] = "joining"  => Held(r) <= 2 * MaxBytes
             /\ pc[r] = "joined"   => Held(r) <= MaxBytes \/ Held(r) < 2 * MaxBytes
  <2>1. /\ kept[r] \in Nat /\ body[r] \in Nat /\ chunk[r] \in Nat /\ sent[r] \in Nat
        /\ pc[r] \in {"start", "reading", "complete", "joining", "joined",
                      "rejected", "abandoned"}
        /\ Account(r) /\ MaxBytes \in Nat
    BY <1>1, SizeAssumption DEF IInv, TypeOK
  <2>2. CASE pc[r] \in {"reading", "complete", "abandoned"}
    <3>1. Held(r) = kept[r] + body[r]
      BY <2>2 DEF Held
    <3> QED BY <2>1, <2>2, <3>1 DEF Account, NotDelivered
  <2>3. CASE pc[r] = "rejected"
    <3>1. Held(r) = kept[r] + chunk[r]
      BY <2>3 DEF Held
    <3> QED BY <2>1, <2>3, <3>1 DEF Account
  <2>4. CASE pc[r] = "joining"
    <3>1. Held(r) = IF chunk[r] = body[r] THEN body[r] ELSE kept[r] + body[r]
      BY <2>4 DEF Held
    <3> QED BY <2>1, <2>4, <3>1 DEF Account
  <2>5. CASE pc[r] = "joined"
    <3>1. Held(r) = IF chunk[r] = body[r] THEN body[r] ELSE kept[r] + body[r] + chunk[r]
      BY <2>5 DEF Held
    <3> QED BY <2>1, <2>5, <3>1 DEF Account
  <2> QED
    BY <2>1, <2>2, <2>3, <2>4, <2>5
<1>2. IInv => HeldWithinLimit
  BY <1>1 DEF HeldWithinLimit
<1> QED
  BY <1>2, Inductive, PTL

\* The application receives the client's whole body, and receives it once.
THEOREM Whole == Spec => []WholeBodyOnce
<1>1. IInv => WholeBodyOnce
  BY DEF IInv, TypeOK, Account, NotDelivered, WholeBodyOnce
<1> QED
  BY <1>1, Inductive, PTL

\* The abstract state starts as the gate says: nothing sent, all pending.
LEMMA InitImplements == Init => Gate!Init
<1> SUFFICES ASSUME Init
             PROVE  Gate!Init
  OBVIOUS
<1>1. Verdict = [r \in Request |-> "pending"]
  BY DEF Init, Verdict, Undecided
<1>2. [r \in Request |-> DeclaredOver(r)] \in [Request -> BOOLEAN]
  BY SizeAssumption DEF Init, DeclaredOver, Header
<1> QED
  BY <1>1, <1>2 DEF Init, Gate!Init

\* Every step is a step of the gate or changes nothing the gate sees.
LEMMA StepImplements == IInv /\ [Next]_vars => [Gate!Next]_(Gate!gateVars)
<1> SUFFICES ASSUME IInv, [Next]_vars
             PROVE  [Gate!Next]_(Gate!gateVars)
  OBVIOUS
<1> USE DEF IInv, TypeOK
<1>d. ASSUME header' = header
      PROVE  [r \in Request |-> DeclaredOver(r)]' = [r \in Request |-> DeclaredOver(r)]
  BY <1>d DEF DeclaredOver
<1>v. ASSUME pc' = pc
      PROVE  Verdict' = Verdict
  BY <1>v DEF Verdict, Undecided
<1>1. ASSUME NEW r \in Request, NEW n \in 0 .. SendBound, NEW last \in BOOLEAN,
             ClientSends(r, n, last)
      PROVE  Gate!Send(r, n, last)
  BY <1>1, <1>d, <1>v, Zenon DEF ClientSends, Gate!Send
<1>2. ASSUME NEW r \in Request, ClientLeaves(r)
      PROVE  Gate!Leave(r)
  BY <1>2, <1>d, <1>v, Zenon DEF ClientLeaves, Gate!Leave
<1>3. ASSUME NEW r \in Request, NEW v \in {"forwarded", "rejected", "abandoned"},
             UNCHANGED << header, sent, ended, gone >>,
             Undecided(r),
             pc' = [pc EXCEPT ![r] = IF v = "forwarded" THEN "joined" ELSE v]
      PROVE  Gate!Decide(r, v)
  <2>1. Verdict[r] = "pending"
    BY <1>3 DEF Verdict, Undecided
  <2>2. Verdict' = [Verdict EXCEPT ![r] = v]
    BY <1>3 DEF Verdict, Undecided
  <2> QED BY <2>1, <2>2, <1>3, <1>d DEF Gate!Decide
<1>4. ASSUME NEW r \in Request, CheckHeader(r)
      PROVE  Gate!Reject(r) \/ UNCHANGED Gate!gateVars
  <2>1. CASE DeclaredOver(r)
    <3>1. Gate!Decide(r, "rejected")
      BY <1>3, <1>4, <2>1 DEF CheckHeader, clientVars, Undecided
    <3> QED BY <2>1, <3>1 DEF Gate!Reject
  <2>2. CASE ~DeclaredOver(r)
    <3>1. UNCHANGED Verdict
      BY <1>4, <2>2 DEF CheckHeader, Verdict, Undecided
    <3> QED BY <1>4, <1>d, <3>1 DEF CheckHeader, clientVars, Gate!gateVars
  <2> QED BY <2>1, <2>2
<1>5. ASSUME NEW r \in Request, ReceiveDisconnect(r)
      PROVE  Gate!Abandon(r)
  <2>1. Gate!Decide(r, "abandoned")
    BY <1>3, <1>5 DEF ReceiveDisconnect, clientVars, Undecided
  <2> QED BY <1>5, <2>1 DEF ReceiveDisconnect, Gate!Abandon
<1>6. ASSUME NEW r \in Request, ReceiveChunk(r)
      PROVE  Gate!Reject(r) \/ UNCHANGED Gate!gateVars
  <2>1. PICK n \in 0 .. unread[r], more \in BOOLEAN :
          /\ Arrives(r, n, more)
          /\ OverLimit(r, n) => pc' = [pc EXCEPT ![r] = "rejected"]
          /\ ~OverLimit(r, n) =>
               pc' = [pc EXCEPT ![r] = IF more THEN "reading" ELSE "complete"]
    BY <1>6 DEF ReceiveChunk
  <2>2. pc[r] = "reading" /\ UNCHANGED << header, sent, ended, gone >>
    BY <1>6 DEF ReceiveChunk, clientVars
  <2>3. /\ Account(r) /\ size[r] + unread[r] = sent[r]
        /\ size[r] \in Nat /\ unread[r] \in Nat /\ sent[r] \in Nat
    BY <2>2, SizeAssumption DEF Account
  <2>4. CASE OverLimit(r, n)
    <3>1. Gate!Decide(r, "rejected")
      BY <1>3, <2>1, <2>2, <2>4 DEF Undecided
    <3>2. sent[r] > MaxBytes
      BY <2>1, <2>3, <2>4, SizeAssumption DEF OverLimit
    <3> QED BY <3>1, <3>2 DEF Gate!Reject
  <2>5. CASE ~OverLimit(r, n)
    <3>1. UNCHANGED Verdict
      BY <2>1, <2>2, <2>5 DEF Verdict, Undecided
    <3> QED BY <2>2, <3>1, <1>d DEF Gate!gateVars
  <2> QED BY <2>4, <2>5
<1>9. ASSUME NEW r \in Request, JoinChunks(r)
      PROVE  UNCHANGED Gate!gateVars
  <2>1. UNCHANGED Verdict
    BY <1>9 DEF JoinChunks, Verdict, Undecided
  <2> QED BY <1>9, <2>1, <1>d DEF JoinChunks, clientVars, Gate!gateVars
<1>10. ASSUME NEW r \in Request, ClearChunks(r)
      PROVE  Gate!Forward(r)
  <2>1. Account(r) /\ pc[r] = "joining"
    BY <1>10 DEF ClearChunks
  <2>2. Gate!Decide(r, "forwarded")
    BY <1>3, <1>10 DEF ClearChunks, clientVars, Undecided
  <2> QED BY <2>1, <2>2 DEF Account, Gate!Forward
<1>7. ASSUME NEW r \in Request, App(r)
      PROVE  UNCHANGED Gate!gateVars
  BY <1>7, <1>d, <1>v DEF App, AppReceivesBody, AppReceivesDisconnect, clientVars, Gate!gateVars
<1>8. ASSUME UNCHANGED vars
      PROVE  UNCHANGED Gate!gateVars
  BY <1>8, <1>d, <1>v DEF vars, clientVars, Gate!gateVars
<1> QED
  BY <1>1, <1>2, <1>4, <1>5, <1>6, <1>7, <1>8, <1>9, <1>10
     DEF Next, Client, Middleware, Gate!Next

\* The chunked reading, counting and replaying implements the gate: a request
\* is forwarded only whole and within the limit, refused only over it.
THEOREM Implements == Spec => ImplementsGate
BY InitImplements, InitIInv, NextIInv, StepImplements, PTL
   DEF Spec, ImplementsGate, Gate!Spec

=============================================================================
