-------------------------- MODULE RecorderInvocation --------------------------
(***************************************************************************)
(* recorderServer.CreateInvocation of ResultDB (the handler that follows   *)
(* package main in src/client/cmd/swarming/trigger.go, lines 482-622):     *)
(* validate the request, generate an update token and send it in a        *)
(* response header, then in a Spanner read-write transaction dedup the    *)
(* request by its request id or insert the invocation with the token.     *)
(*                                                                         *)
(* Clients call it over a network that may lose a response; a client      *)
(* whose call got no answer or a transient error calls again with the     *)
(* same request, as a retrying pRPC client does.  The handler is one step: *)
(* the transaction is serializable and nothing else in it is shared.       *)
(***************************************************************************)
EXTENDS Naturals

CONSTANTS
    Clients,      \* the callers
    Requests,     \* client -> the CreateInvocationRequest it sends
    MaxAttempts,  \* bound: calls per client
    None          \* model value

(* The ids and deadlines in Requests: an invocation id is <<prefix, name>>; *)
(* a deadline is None or seconds after the server's clock.                 *)
MinDeadline == 10             \* 10 * time.Second
MaxDeadline == 2 * 24 * 3600  \* 2 * 24 * time.Hour

VARIABLES
    invocations,  \* Spanner: invocation id -> [requestId, token], or None
    tokens,       \* update tokens generated so far (each is fresh)
    pc,           \* client: "call", "wait", "done" or "failed"
    attempts,     \* calls made by each client
    response,     \* client -> the response in flight, or None
    token         \* client -> the update token it kept, or None

vars == <<invocations, tokens, pc, attempts, response, token>>

InvIds == {Requests[c].invocationId : c \in Clients}

Init ==
    /\ invocations = [i \in InvIds |-> None]
    /\ tokens = 0
    /\ pc = [c \in Clients |-> "call"]
    /\ attempts = [c \in Clients |-> 0]
    /\ response = [c \in Clients |-> None]
    /\ token = [c \in Clients |-> None]

(* validateInvocationDeadline                                             *)
DeadlineOK(d) == IF d = None THEN TRUE ELSE MinDeadline <= d /\ d <= MaxDeadline

(* validateCreateInvocationRequest: the "u:" prefix and the deadline; the *)
(* pbutil checks of id, request id and tags are taken to pass.            *)
ValidRequest(req) ==
    /\ req.invocationId[1] = "u:"
    /\ DeadlineOK(req.deadline)

(* The Spanner transaction: the code it answers, and the invocation row.  *)
(* A row read with another request id, or any existing row when there is *)
(* no request id (the Insert then fails), is AlreadyExists.               *)
Transaction(req, tok) ==
    LET row == invocations[req.invocationId] IN
    CASE row = None -> [code |-> "ok", row |-> [requestId |-> req.requestId,
                                                 token |-> tok]]
      [] req.requestId # "" /\ row.requestId = req.requestId ->
             [code |-> "ok", row |-> row]
      [] OTHER -> [code |-> "exists", row |-> row]

(* CreateInvocation, whole: validation, generateUpdateToken and the       *)
(* header, the transaction, or a transient failure of the transaction.    *)
(* The header carries the token generated by this call.                   *)
CreateInvocation(c) ==
    LET req == Requests[c]
        tok == tokens + 1
        tx == Transaction(req, tok)
    IN
    /\ pc[c] = "call"
    /\ attempts[c] < MaxAttempts
    /\ attempts' = [attempts EXCEPT ![c] = @ + 1]
    /\ pc' = [pc EXCEPT ![c] = "wait"]
    /\ \/ /\ ~ValidRequest(req)
          /\ response' = [response EXCEPT ![c] = [code |-> "invalid", token |-> None]]
          /\ UNCHANGED <<invocations, tokens>>
       \/ /\ ValidRequest(req)
          /\ tokens' = tok
          /\ \/ /\ invocations' = [invocations EXCEPT ![req.invocationId] = tx.row]
                /\ response' = [response EXCEPT ![c] = [code |-> tx.code, token |-> tok]]
             \/ /\ response' = [response EXCEPT ![c] = [code |-> "unavailable", token |-> tok]]
                /\ UNCHANGED invocations
    /\ UNCHANGED token

(* The response reaches the client: it keeps the token of a success and   *)
(* calls again after a transient error.                                   *)
Receive(c) ==
    /\ pc[c] = "wait"
    /\ response[c] # None
    /\ LET r == response[c] IN
       /\ pc' = [pc EXCEPT ![c] = CASE r.code = "ok" -> "done"
                                    [] r.code = "unavailable" -> "call"
                                    [] OTHER -> "failed"]
       /\ token' = [token EXCEPT ![c] = IF r.code = "ok" THEN r.token ELSE @]
    /\ response' = [response EXCEPT ![c] = None]
    /\ UNCHANGED <<invocations, tokens, attempts>>

(* The response is lost; the client times out and calls again.            *)
Lose(c) ==
    /\ pc[c] = "wait"
    /\ response[c] # None
    /\ response' = [response EXCEPT ![c] = None]
    /\ pc' = [pc EXCEPT ![c] = "call"]
    /\ UNCHANGED <<invocations, tokens, attempts, token>>

(* Every client is done, failed, or out of attempts.                      *)
Terminating ==
    /\ \A c \in Clients : pc[c] \in {"done", "failed"}
                          \/ (pc[c] = "call" /\ attempts[c] = MaxAttempts)
    /\ UNCHANGED vars

Next ==
    \/ \E c \in Clients : CreateInvocation(c) \/ Receive(c) \/ Lose(c)
    \/ Terminating

Spec == Init /\ [][Next]_vars

-----------------------------------------------------------------------------
(* Properties.                                                            *)

(* "Return update token to the client": a client whose CreateInvocation  *)
(* succeeded holds the update token stored with the invocation, which it *)
(* needs to update and finalize it, even when the success is a retry the *)
(* transaction deduplicated.                                              *)
UpdateTokenValid ==
    \A c \in Clients :
        pc[c] = "done" =>
            /\ invocations[Requests[c].invocationId] # None
            /\ token[c] = invocations[Requests[c].invocationId].token

=============================================================================
