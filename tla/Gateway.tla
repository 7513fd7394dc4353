------------------------------- MODULE Gateway -------------------------------
(***************************************************************************)
(* The proxy between a client and notification-service.  One call from     *)
(* each of Calls is in flight at a time; a client first submits a          *)
(* notification, then polls the id it was given.  Four parties give up     *)
(* independently of each other: the client and the gateway at their own    *)
(* timeouts, and either process may die, while a submission that was       *)
(* abandoned is still being served.                                        *)
(*                                                                         *)
(* Bodies are valid here: what is not is answered 422 before any state is  *)
(* touched.  Nobody sees the end of a read that was abandoned, which is    *)
(* dropped.  What becomes of a notification is NotificationService's.      *)
(***************************************************************************)
EXTENDS Naturals

CONSTANTS
    Calls,      \* clients, each with the notification it submits
    MaxFaults   \* bound: crashes, refused or broken connections, failed queries

ASSUME GatewayAssumption == MaxFaults \in Nat

VARIABLES
    status,       \* notifications.status, of what a call submitted
    fail_reason,  \* notifications.fail_reason
    request,      \* what the client waits for
    forward,      \* the gateway's handler: the request it holds, or waits for
    service,      \* the handler in notification-service
    response,     \* what that has to answer
    reply,        \* what the client got
    faults

rows == <<status, fail_reason>>
gatewayVars == <<rows, request, forward, service, response, reply, faults>>

Absent == "absent"
TERMINAL == {"COMPLETED", "FAILED"}
NotificationStatus == {"CREATED", "PROCESSING"} \cup TERMINAL
NoReason == "none"
FailReasons == {"simulated_failure", "processing_timeout"}
Reasons == FailReasons \cup {NoReason}

Kinds == {"post", "get"}
Codes == {"none", "200", "202", "404", "500", "502", "504", "error"}

Replies == [code : Codes, status : NotificationStatus \cup {Absent}, reason : Reasons]

Reply(code) == [code |-> code, status |-> Absent, reason |-> NoReason]
NoReply == Reply("none")
NotificationRead(n) == [code |-> "200", status |-> status[n], reason |-> fail_reason[n]]

Fault == /\ faults < MaxFaults
         /\ faults' = faults + 1

NoFault == UNCHANGED faults

GatewayInit ==
    /\ status = [n \in Calls |-> Absent]
    /\ fail_reason = [n \in Calls |-> NoReason]
    /\ request = [n \in Calls |-> "none"]
    /\ forward = [n \in Calls |-> "idle"]
    /\ service = [n \in Calls |-> "idle"]
    /\ response = [n \in Calls |-> NoReply]
    /\ reply = [n \in Calls |-> NoReply]
    /\ faults = 0

----------------------------------------------------------------------------
(* The client's side of a call; when it calls is the client's business.    *)

Send(n, kind) ==
    /\ request[n] = "none"
    /\ request' = [request EXCEPT ![n] = kind]
    /\ forward' = [forward EXCEPT ![n] = kind]
    /\ UNCHANGED <<rows, service, response, reply, faults>>

\* The client's timeout, or its connection to the gateway is gone.
GiveUp(n) ==
    /\ request[n] # "none"
    /\ request' = [request EXCEPT ![n] = "none"]
    /\ reply' = [reply EXCEPT ![n] = Reply("error")]
    /\ IF request[n] = "get"
         THEN /\ forward' = [forward EXCEPT ![n] = "idle"]
              /\ service' = [service EXCEPT ![n] = "idle"]
              /\ response' = [response EXCEPT ![n] = NoReply]
         ELSE UNCHANGED <<forward, service, response>>
    /\ UNCHANGED <<rows, faults>>

----------------------------------------------------------------------------
(* The gateway: _forward().                                                *)

\* The gateway is done with a request, which the client may have given up.
Answer(n, r) ==
    /\ forward' = [forward EXCEPT ![n] = "idle"]
    /\ IF request[n] = "none"
         THEN UNCHANGED <<request, reply>>
         ELSE /\ request' = [request EXCEPT ![n] = "none"]
              /\ reply' = [reply EXCEPT ![n] = r]

\* Nothing waits for the service any more: it goes on with a submission.
Abandon(n) ==
    /\ service' = [service EXCEPT ![n] = IF @ = "post" THEN "post" ELSE "idle"]
    /\ response' = [response EXCEPT ![n] = NoReply]

Forward(n) ==
    /\ forward[n] \in Kinds
    /\ forward' = [forward EXCEPT ![n] = "waiting"]
    /\ service' = [service EXCEPT ![n] = forward[n]]
    /\ UNCHANGED <<rows, request, response, reply, faults>>

\* No connection: refused, or timed out.
ConnectError(n) ==
    /\ forward[n] \in Kinds
    /\ Fault
    /\ \E code \in {"502", "504"} : Answer(n, Reply(code))
    /\ UNCHANGED <<rows, service, response>>

\* Status, body and content type as the service sent them.
PassThrough(n) ==
    /\ service[n] = "answer"
    /\ Answer(n, response[n])
    /\ Abandon(n)
    /\ UNCHANGED <<rows, faults>>

\* httpx.TimeoutException, and the other TransportErrors: the connection breaks
\* after the request was sent, because the service died or not.
TimedOut(n) ==
    /\ forward[n] = "waiting"
    /\ Answer(n, Reply("504"))
    /\ Abandon(n)
    /\ UNCHANGED <<rows, faults>>

Disconnected(n) ==
    /\ forward[n] = "waiting"
    /\ IF service[n] = "idle" THEN NoFault ELSE Fault
    /\ Answer(n, Reply("502"))
    /\ Abandon(n)
    /\ UNCHANGED rows

\* Requests in progress end with the process, the clients' connections too.
GatewayCrash ==
    /\ Fault
    /\ forward' = [n \in Calls |-> "idle"]
    /\ service' = [n \in Calls |-> IF service[n] = "post" THEN "post" ELSE "idle"]
    /\ response' = [n \in Calls |-> NoReply]
    /\ UNCHANGED <<rows, request, reply>>

----------------------------------------------------------------------------
(* notification-service.                                                   *)

\* A handler that is done, with a gateway that waits for it or not.
Respond(n, r) ==
    IF forward[n] = "waiting"
      THEN /\ service' = [service EXCEPT ![n] = "answer"]
           /\ response' = [response EXCEPT ![n] = r]
      ELSE service' = [service EXCEPT ![n] = "idle"] /\ UNCHANGED response

\* Mutant: the row gets the name of the member, not its value.
InsertEnumName(n) ==
    status' = [status EXCEPT ![n] = "NotificationStatus.CREATED"] /\ UNCHANGED fail_reason

Insert(n) == status' = [status EXCEPT ![n] = "CREATED"] /\ UNCHANGED fail_reason

\* Mutant: the session commits when the dependency is torn down, after the
\* answer.
CommitAfterAnswer(n) == (Insert(n) \/ UNCHANGED rows) /\ Respond(n, Reply("202")) /\ NoFault

\* create() and the 202 that follows its commit.
Accept(n) == Insert(n) /\ Respond(n, Reply("202")) /\ NoFault

\* create_notification(): one transaction.  If it raises the answer is 500, and
\* a commit that raised may have happened.
Create(n) ==
    /\ service[n] = "post"
    /\ \/ Accept(n)
       \/ /\ Insert(n) \/ UNCHANGED rows
          /\ Respond(n, Reply("500"))
          /\ Fault
    /\ UNCHANGED <<request, forward, reply>>

\* get_notification().
Get(n) ==
    /\ service[n] = "get"
    /\ \/ /\ Respond(n, IF status[n] = Absent THEN Reply("404") ELSE NotificationRead(n))
          /\ NoFault
       \/ Respond(n, Reply("500")) /\ Fault
    /\ UNCHANGED <<rows, request, forward, reply>>

\* What is not committed is lost, and no answer is sent.
ServiceCrash ==
    /\ Fault
    /\ service' = [n \in Calls |-> "idle"]
    /\ response' = [n \in Calls |-> NoReply]
    /\ UNCHANGED <<rows, request, forward, reply>>

\* The consumers and the watchdog: the status moves on, for a result, and never
\* once it is terminal (StatusIsMonotonic in NotificationServiceProofs).
Advance(n) ==
    /\ \/ /\ status[n] = "CREATED"
          /\ status' = [status EXCEPT ![n] = "PROCESSING"]
          /\ UNCHANGED fail_reason
       \/ /\ status[n] \in {"CREATED", "PROCESSING"}
          /\ status' = [status EXCEPT ![n] = "COMPLETED"]
          /\ UNCHANGED fail_reason
       \/ /\ status[n] \in {"CREATED", "PROCESSING"}
          /\ status' = [status EXCEPT ![n] = "FAILED"]
          /\ \E reason \in FailReasons : fail_reason' = [fail_reason EXCEPT ![n] = reason]
    /\ UNCHANGED <<request, forward, service, response, reply, faults>>

----------------------------------------------------------------------------
\* Everything but the client's decision to call.
GatewayStep ==
    \/ \E n \in Calls :
         \/ GiveUp(n)
         \/ Forward(n) \/ ConnectError(n)
         \/ PassThrough(n) \/ TimedOut(n) \/ Disconnected(n)
         \/ Create(n) \/ Get(n)
         \/ Advance(n)
    \/ GatewayCrash
    \/ ServiceCrash

GatewayTypeOK ==
    /\ status \in [Calls -> NotificationStatus \cup {Absent}]
    /\ fail_reason \in [Calls -> Reasons]
    /\ request \in [Calls -> Kinds \cup {"none"}]
    /\ forward \in [Calls -> Kinds \cup {"idle", "waiting"}]
    /\ service \in [Calls -> Kinds \cup {"idle", "answer"}]
    /\ response \in [Calls -> Replies]
    /\ reply \in [Calls -> Replies]
    /\ faults \in 0 .. MaxFaults
=============================================================================
