--------------------------- MODULE LoadTestProofs ---------------------------
(***************************************************************************)
(* Proofs about LoadTest and the Gateway under it, for every number of     *)
(* planned notifications, permits and faults.                              *)
(***************************************************************************)
EXTENDS LoadTest, FiniteSetTheorems, TLAPS

\* What the proofs use of the values.
LEMMA Values ==
    /\ "idle" \notin Kinds /\ "waiting" \notin Kinds /\ "none" \notin Kinds /\ "post" # "get"
    /\ Absent \notin TERMINAL /\ Absent \notin NotificationStatus
    /\ TERMINAL \subseteq NotificationStatus
    /\ \A code \in Codes : Reply(code) \in Replies /\ Reply(code).code = code
                           /\ Reply(code).status = Absent
    /\ NoReply \in Replies /\ NoReply.code = "none" /\ NoReply.status = Absent
    /\ UNSETTLED.status = Absent
    /\ \A n \in Calls : expected(n) # UNSETTLED
  BY DEF Kinds, Absent, TERMINAL, NotificationStatus, Codes, Reply, Replies, NoReply, Reasons, NoReason,
     UNSETTLED, Final, expected

----------------------------------------------------------------------------
(* Types.                                                                  *)

LEMMA ReadTyped ==
    ASSUME GatewayTypeOK, NEW n \in Calls, status[n] # Absent
    PROVE  /\ NotificationRead(n) \in Replies /\ NotificationRead(n).code = "200"
           /\ NotificationRead(n).status = status[n] /\ NotificationRead(n).reason = fail_reason[n]
  BY DEF GatewayTypeOK, NotificationRead, Replies, Codes

LEMMA FaultTyped ==
    ASSUME GatewayTypeOK, Fault \/ NoFault PROVE faults' \in 0 .. MaxFaults
<1>1. faults \in 0 .. MaxFaults /\ MaxFaults \in Nat
  BY GatewayAssumption DEF GatewayTypeOK
<1> QED
  BY <1>1 DEF Fault, NoFault

\* What the two halves of an exchange do to one call.
LEMMA AnswerTyped ==
    ASSUME GatewayTypeOK, NEW n \in Calls, NEW r \in Replies, Answer(n, r)
    PROVE  /\ forward' = [forward EXCEPT ![n] = "idle"]
           /\ forward' \in [Calls -> Kinds \cup {"idle", "waiting"}]
           /\ request' \in [Calls -> Kinds \cup {"none"}]
           /\ reply' \in [Calls -> Replies]
           /\ \A m \in Calls : request'[m] \in {request[m], "none"}
           /\ \A m \in Calls : reply'[m] = reply[m] \/ (m = n /\ reply'[m] = r)
  BY DEF Answer, GatewayTypeOK

LEMMA AbandonTyped ==
    ASSUME GatewayTypeOK, NEW n \in Calls, Abandon(n)
    PROVE  /\ service' \in [Calls -> Kinds \cup {"idle", "answer"}]
           /\ response' \in [Calls -> Replies]
           /\ \A m \in Calls : service'[m] = service[m] \/ service'[m] = "idle"
           /\ \A m \in Calls : response'[m] = response[m] \/ response'[m] = NoReply
  BY Values DEF Abandon, GatewayTypeOK, Kinds

LEMMA RespondTyped ==
    ASSUME GatewayTypeOK, NEW n \in Calls, NEW r \in Replies, Respond(n, r)
    PROVE  /\ service' \in [Calls -> Kinds \cup {"idle", "answer"}]
           /\ response' \in [Calls -> Replies]
           /\ \A m \in Calls : m # n => service'[m] = service[m] /\ response'[m] = response[m]
           /\ service'[n] \in {"idle", "answer"}
           /\ response'[n] \in {response[n], r}
  BY DEF Respond, GatewayTypeOK, Kinds

----------------------------------------------------------------------------
(* What a step of the gateway, the service or its consumers does to a call. *)

\* The row is inserted by a handler that holds the submission, or moves on.
RowStep(m) ==
    \/ UNCHANGED <<status[m], fail_reason[m]>>
    \/ /\ status[m] \in {"CREATED", "PROCESSING"} /\ status'[m] # Absent
       /\ UNCHANGED <<forward[m], service[m], response[m], reply[m]>>
    \/ /\ service[m] = "post" /\ status'[m] = "CREATED"
       /\ UNCHANGED <<fail_reason[m], forward[m], reply[m]>>
       /\ service'[m] \in {"idle", "answer"}

\* A request goes from the gateway to the service, or ends in either.
HandlerStep(m) ==
    \/ /\ forward'[m] \in {forward[m], "idle"}
       /\ service'[m] \in {service[m], "idle"} \/ (service[m] \in Kinds /\ service'[m] = "answer")
    \/ /\ forward[m] \in Kinds /\ forward'[m] = "waiting" /\ service'[m] = forward[m]
       /\ UNCHANGED status[m]

\* Where answers come from.
ReplyStep(m) ==
    /\ request'[m] \in {request[m], "none"}
    /\ \/ reply'[m] \in {reply[m], response[m]}
       \/ \E code \in {"502", "504", "error"} : reply'[m] = Reply(code)
    /\ \/ response'[m] \in {response[m], NoReply, Reply("500")}
       \/ response'[m] = Reply("202") /\ status'[m] # Absent
       \/ /\ service[m] = "get" /\ UNCHANGED <<status[m], fail_reason[m]>>
          /\ response'[m] = IF status[m] = Absent THEN Reply("404") ELSE NotificationRead(m)

CallStep(m) == RowStep(m) /\ HandlerStep(m) /\ ReplyStep(m)

LEMMA Standstill ==
    ASSUME NEW m, UNCHANGED <<status[m], fail_reason[m], request[m], forward[m], service[m], response[m], reply[m]>>
    PROVE  CallStep(m)
  BY DEF CallStep, RowStep, HandlerStep, ReplyStep

LEMMA GiveUpStep ==
    ASSUME GatewayTypeOK, NEW n \in Calls, GiveUp(n)
    PROVE  GatewayTypeOK' /\ \A m \in Calls : CallStep(m)
<1>1. Reply("error") \in Replies
  BY Values DEF Codes
<1>2. GatewayTypeOK'
  BY <1>1, Values DEF GiveUp, GatewayTypeOK, rows, Kinds
<1>3. ASSUME NEW m \in Calls PROVE CallStep(m)
  <2>1. /\ UNCHANGED <<status, fail_reason>>
        /\ request'[m] \in {request[m], "none"} /\ reply'[m] \in {reply[m], Reply("error")}
        /\ forward'[m] \in {forward[m], "idle"} /\ service'[m] \in {service[m], "idle"}
        /\ response'[m] \in {response[m], NoReply}
    BY DEF GiveUp, GatewayTypeOK, rows
  <2> QED
    BY <2>1 DEF CallStep, RowStep, HandlerStep, ReplyStep
<1> QED
  BY <1>2, <1>3

LEMMA ForwardStep ==
    ASSUME GatewayTypeOK, NEW n \in Calls, Forward(n)
    PROVE  GatewayTypeOK' /\ \A m \in Calls : CallStep(m)
<1>1. GatewayTypeOK'
  BY DEF Forward, GatewayTypeOK, rows
<1>2. ASSUME NEW m \in Calls PROVE CallStep(m)
  BY DEF Forward, GatewayTypeOK, rows, CallStep, RowStep, HandlerStep, ReplyStep
<1> QED
  BY <1>1, <1>2

LEMMA ConnectErrorStep ==
    ASSUME GatewayTypeOK, NEW n \in Calls, ConnectError(n)
    PROVE  GatewayTypeOK' /\ \A m \in Calls : CallStep(m)
<1>1. PICK code \in {"502", "504"} : Answer(n, Reply(code))
  BY DEF ConnectError
<1>2. Reply(code) \in Replies
  BY Values DEF Codes
<1>3. faults' \in 0 .. MaxFaults /\ UNCHANGED <<status, fail_reason, service, response>>
  BY FaultTyped DEF ConnectError, rows
<1>4. GatewayTypeOK'
  BY <1>1, <1>2, <1>3, AnswerTyped DEF GatewayTypeOK
<1>5. ASSUME NEW m \in Calls PROVE CallStep(m)
  <2>1. /\ forward'[m] \in {forward[m], "idle"} /\ request'[m] \in {request[m], "none"}
        /\ reply'[m] \in {reply[m], Reply(code)}
    BY <1>1, <1>2, AnswerTyped DEF GatewayTypeOK
  <2> QED
    BY <1>3, <2>1 DEF CallStep, RowStep, HandlerStep, ReplyStep
<1> QED
  BY <1>4, <1>5

LEMMA AnswerStep ==
    ASSUME GatewayTypeOK, NEW n \in Calls, PassThrough(n) \/ TimedOut(n) \/ Disconnected(n)
    PROVE  GatewayTypeOK' /\ \A m \in Calls : CallStep(m)
<1>1. PICK r \in {response[n], Reply("504"), Reply("502")} : Answer(n, r)
  BY DEF PassThrough, TimedOut, Disconnected
<1>2. r \in Replies
  BY <1>1, Values DEF Codes, GatewayTypeOK
<1>3. Abandon(n) /\ UNCHANGED <<status, fail_reason>>
  BY DEF PassThrough, TimedOut, Disconnected, rows
<1>4. faults' \in 0 .. MaxFaults
  BY FaultTyped DEF PassThrough, TimedOut, Disconnected, GatewayTypeOK
<1>5. GatewayTypeOK'
  BY <1>1, <1>2, <1>3, <1>4, AnswerTyped, AbandonTyped DEF GatewayTypeOK
<1>6. ASSUME NEW m \in Calls PROVE CallStep(m)
  <2>1. /\ forward'[m] \in {forward[m], "idle"} /\ request'[m] \in {request[m], "none"}
        /\ \/ reply'[m] \in {reply[m], response[m]}
           \/ \E code \in {"502", "504", "error"} : reply'[m] = Reply(code)
    BY <1>1, <1>2, AnswerTyped DEF GatewayTypeOK
  <2>2. service'[m] \in {service[m], "idle"} /\ response'[m] \in {response[m], NoReply}
    BY <1>3, AbandonTyped
  <2> QED
    BY <1>3, <2>1, <2>2 DEF CallStep, RowStep, HandlerStep, ReplyStep
<1> QED
  BY <1>5, <1>6

LEMMA CrashStep ==
    ASSUME GatewayTypeOK, GatewayCrash \/ ServiceCrash
    PROVE  GatewayTypeOK' /\ \A m \in Calls : CallStep(m)
<1>1. faults' \in 0 .. MaxFaults /\ UNCHANGED <<status, fail_reason, request, reply>>
  BY FaultTyped DEF GatewayCrash, ServiceCrash, rows
<1>2. /\ forward' \in [Calls -> Kinds \cup {"idle", "waiting"}]
      /\ service' \in [Calls -> Kinds \cup {"idle", "answer"}]
      /\ response' \in [Calls -> Replies]
      /\ \A m \in Calls : /\ forward'[m] \in {forward[m], "idle"}
                          /\ service'[m] \in {service[m], "idle"}
                          /\ response'[m] \in {response[m], NoReply}
  BY Values DEF GatewayCrash, ServiceCrash, GatewayTypeOK, Kinds
<1> QED
  BY <1>1, <1>2 DEF GatewayTypeOK, CallStep, RowStep, HandlerStep, ReplyStep

LEMMA CreateStep ==
    ASSUME GatewayTypeOK, NEW n \in Calls, Create(n)
    PROVE  GatewayTypeOK' /\ \A m \in Calls : CallStep(m)
<1>1. PICK r \in {Reply("202"), Reply("500")} :
        /\ Respond(n, r) /\ (Insert(n) \/ UNCHANGED rows)
        /\ r = Reply("202") => Insert(n)
  <2>1. Reply("202") # Reply("500")
    BY Values DEF Codes
  <2> QED
    BY <2>1 DEF Create, Accept
<1>2. r \in Replies
  BY <1>1, Values DEF Codes
<1>3. faults' \in 0 .. MaxFaults /\ UNCHANGED <<request, forward, reply>> /\ service[n] = "post"
  BY FaultTyped DEF Create, Accept
<1>4. /\ status' \in [Calls -> NotificationStatus \cup {Absent}] /\ UNCHANGED fail_reason
      /\ \A m \in Calls : UNCHANGED status[m] \/ (m = n /\ status'[m] = "CREATED")
  BY <1>1 DEF Insert, rows, GatewayTypeOK, NotificationStatus
<1>5. GatewayTypeOK'
  BY <1>1, <1>2, <1>3, <1>4, RespondTyped DEF GatewayTypeOK
<1>6. ASSUME NEW m \in Calls PROVE CallStep(m)
  <2>1. CASE m # n
    <3>1. UNCHANGED <<status[m], fail_reason[m], request[m], forward[m], service[m], response[m], reply[m]>>
      BY <1>1, <1>2, <1>3, <1>4, <2>1, RespondTyped
    <3> QED
      BY <3>1, Standstill
  <2>2. CASE m = n
    <3>1. /\ service'[n] \in {"idle", "answer"} /\ response'[n] \in {response[n], r}
          /\ service[n] \in Kinds
      BY <1>1, <1>2, <1>3, RespondTyped DEF Kinds
    <3>2. r = Reply("202") => status'[n] # Absent
      BY <1>1 DEF Insert, GatewayTypeOK, Absent
    <3> QED
      BY <1>1, <1>3, <1>4, <2>2, <3>1, <3>2 DEF CallStep, RowStep, HandlerStep, ReplyStep
  <2> QED
    BY <2>1, <2>2
<1> QED
  BY <1>5, <1>6

LEMMA GetStep ==
    ASSUME GatewayTypeOK, NEW n \in Calls, Get(n)
    PROVE  GatewayTypeOK' /\ \A m \in Calls : CallStep(m)
<1>1. PICK r \in {IF status[n] = Absent THEN Reply("404") ELSE NotificationRead(n), Reply("500")} : Respond(n, r)
  BY DEF Get
<1>2. r \in Replies
  BY <1>1, Values, ReadTyped DEF Codes
<1>3. /\ faults' \in 0 .. MaxFaults /\ UNCHANGED <<status, fail_reason, request, forward, reply>>
      /\ service[n] = "get"
  BY FaultTyped DEF Get, rows
<1>4. GatewayTypeOK'
  BY <1>1, <1>2, <1>3, RespondTyped DEF GatewayTypeOK
<1>5. ASSUME NEW m \in Calls PROVE CallStep(m)
  <2>1. CASE m # n
    <3>1. UNCHANGED <<status[m], fail_reason[m], request[m], forward[m], service[m], response[m], reply[m]>>
      BY <1>1, <1>2, <1>3, <2>1, RespondTyped
    <3> QED
      BY <3>1, Standstill
  <2>2. CASE m = n
    <3>1. /\ service'[n] \in {"idle", "answer"} /\ response'[n] \in {response[n], r}
          /\ service[n] \in Kinds
      BY <1>1, <1>2, <1>3, RespondTyped DEF Kinds
    <3> QED
      BY <1>1, <1>3, <2>2, <3>1 DEF CallStep, RowStep, HandlerStep, ReplyStep
  <2> QED
    BY <2>1, <2>2
<1> QED
  BY <1>4, <1>5

LEMMA AdvanceStep ==
    ASSUME GatewayTypeOK, NEW n \in Calls, Advance(n)
    PROVE  GatewayTypeOK' /\ \A m \in Calls : CallStep(m)
<1>1. /\ status' \in [Calls -> NotificationStatus \cup {Absent}]
      /\ fail_reason' \in [Calls -> Reasons]
      /\ UNCHANGED <<request, forward, service, response, reply, faults>>
      /\ status[n] \in {"CREATED", "PROCESSING"} /\ status'[n] # Absent
      /\ \A m \in Calls : m # n => UNCHANGED <<status[m], fail_reason[m]>>
  BY DEF Advance, GatewayTypeOK, NotificationStatus, TERMINAL, Reasons, Absent
<1>2. GatewayTypeOK'
  BY <1>1 DEF GatewayTypeOK
<1>3. ASSUME NEW m \in Calls PROVE CallStep(m)
  BY <1>1 DEF CallStep, RowStep, HandlerStep, ReplyStep
<1> QED
  BY <1>2, <1>3

LEMMA GatewayWrites ==
    ASSUME GatewayTypeOK, GatewayStep
    PROVE  GatewayTypeOK' /\ \A m \in Calls : CallStep(m)
<1>1. CASE GatewayCrash \/ ServiceCrash
  BY <1>1, CrashStep
<1>2. ASSUME NEW n \in Calls,
             \/ GiveUp(n)
             \/ Forward(n) \/ ConnectError(n)
             \/ PassThrough(n) \/ TimedOut(n) \/ Disconnected(n)
             \/ Create(n) \/ Get(n)
             \/ Advance(n)
      PROVE  GatewayTypeOK' /\ \A m \in Calls : CallStep(m)
  BY <1>2, GiveUpStep, ForwardStep, ConnectErrorStep, AnswerStep, CreateStep, GetStep, AdvanceStep
<1> QED
  BY <1>1, <1>2 DEF GatewayStep

----------------------------------------------------------------------------
(* The inductive invariant.                                                *)

LEMMA GatewayKeeps ==
    ASSUME IInv, GatewayStep, UNCHANGED loadVars
    PROVE  IInv'
<1>1. GatewayTypeOK' /\ \A m \in Calls : CallStep(m)
  BY GatewayWrites DEF IInv, TypeOK
<1>2. UNCHANGED <<phase, task, submit_status, final, expired, accepted>>
  BY DEF loadVars, accepted
<1>3. TypeOK'
  BY <1>1, <1>2 DEF IInv, TypeOK
<1>4. ASSUME NEW m \in Calls, status[m] # Absent PROVE status'[m] # Absent
  BY <1>1, <1>4 DEF CallStep, RowStep, Absent
<1>5. SubmittedOnce'
  <2> SUFFICES ASSUME NEW m \in Calls
               PROVE  /\ forward'[m] = "post" \/ service'[m] = "post" => status'[m] = Absent
                      /\ service'[m] = "post" => forward'[m] # "post"
                      /\ phase = "submit" /\ task[m] = "ready" =>
                           status'[m] = Absent /\ forward'[m] = "idle" /\ service'[m] = "idle"
    BY <1>2 DEF SubmittedOnce
  <2>1. /\ forward[m] = "post" \/ service[m] = "post" => status[m] = Absent
        /\ service[m] = "post" => forward[m] # "post"
        /\ phase = "submit" /\ task[m] = "ready" =>
             status[m] = Absent /\ forward[m] = "idle" /\ service[m] = "idle"
    BY DEF IInv, SubmittedOnce
  <2>2. RowStep(m) /\ HandlerStep(m)
    BY <1>1 DEF CallStep
  <2> QED
    BY <2>1, <2>2 DEF RowStep, HandlerStep, Kinds, Absent
<1>6. AcceptedIsStored'
  <2> SUFFICES ASSUME NEW m \in Calls
               PROVE  /\ "202" \in {response'[m].code, reply'[m].code, submit_status[m]} => status'[m] # Absent
                      /\ "get" \in {request'[m], forward'[m], service'[m]} => m \in accepted
                      /\ "404" \notin {response'[m].code, reply'[m].code}
    BY <1>2 DEF AcceptedIsStored
  <2>1. /\ "202" \in {response[m].code, reply[m].code, submit_status[m]} => status[m] # Absent
        /\ "get" \in {request[m], forward[m], service[m]} => m \in accepted
        /\ "404" \notin {response[m].code, reply[m].code}
    BY DEF IInv, AcceptedIsStored
  <2>2. HandlerStep(m) /\ ReplyStep(m)
    BY <1>1 DEF CallStep
  <2>3. m \in accepted => status[m] # Absent
    BY <2>1 DEF accepted
  <2>4. service[m] = "get" => status[m] # Absent /\ NotificationRead(m).code = "200"
    BY <2>1, <2>3, ReadTyped DEF IInv, TypeOK
  <2>5. "202" \in {response'[m].code, reply'[m].code, submit_status[m]} => status'[m] # Absent
    BY <1>4, <2>1, <2>2, <2>4, Values DEF ReplyStep, Codes
  <2>6. "get" \in {request'[m], forward'[m], service'[m]} => m \in accepted
    BY <2>1, <2>2 DEF HandlerStep, ReplyStep, Kinds
  <2>7. "404" \notin {response'[m].code, reply'[m].code}
    BY <2>1, <2>2, <2>4, Values DEF ReplyStep, Codes
  <2> QED
    BY <2>5, <2>6, <2>7
<1>7. TasksSettleAccepted'
  BY <1>2 DEF IInv, TasksSettleAccepted
<1>8. ReadsAreTrue'
  <2> SUFFICES ASSUME NEW m \in Calls
               PROVE  TrueOfRow(m, response[m])' /\ TrueOfRow(m, reply[m])' /\ TrueOfRow(m, final[m])'
    BY <1>2 DEF IInv, ReadsAreTrue
  <2>1. TrueOfRow(m, response[m]) /\ TrueOfRow(m, reply[m]) /\ TrueOfRow(m, final[m])
    BY DEF IInv, ReadsAreTrue
  <2>2. RowStep(m) /\ ReplyStep(m)
    BY <1>1 DEF CallStep
  <2>3. status[m] \in TERMINAL => UNCHANGED <<status[m], fail_reason[m]>>
    <3>1. service[m] = "post" => status[m] = Absent
      BY DEF IInv, SubmittedOnce
    <3> QED
      BY <2>2, <3>1 DEF RowStep, TERMINAL, Absent
  <2>4. service[m] = "get" => status[m] # Absent
    BY DEF IInv, AcceptedIsStored, accepted
  <2>5. service[m] = "get" => /\ NotificationRead(m).status = status[m]
                             /\ NotificationRead(m).reason = fail_reason[m]
    BY <2>4, ReadTyped DEF IInv, TypeOK
  <2>6. TrueOfRow(m, final[m])'
    BY <1>2, <2>1, <2>3 DEF TrueOfRow
  <2>7. TrueOfRow(m, reply[m])'
    BY <2>1, <2>2, <2>3, Values DEF TrueOfRow, ReplyStep, Codes
  <2>8. TrueOfRow(m, response[m])'
    BY <2>1, <2>2, <2>3, <2>4, <2>5, Values DEF TrueOfRow, ReplyStep, Codes
  <2> QED
    BY <2>6, <2>7, <2>8
<1> QED
  BY <1>3, <1>5, <1>6, <1>7, <1>8 DEF IInv

LEMMA SendTyped ==
    ASSUME IInv, NEW n \in Calls, NEW kind \in Kinds, Send(n, kind)
    PROVE  /\ GatewayTypeOK'
           /\ UNCHANGED <<rows, service, response, reply>>
           /\ request' = [request EXCEPT ![n] = kind] /\ forward' = [forward EXCEPT ![n] = kind]
  BY DEF IInv, TypeOK, GatewayTypeOK, Send, rows

LEMMA SubmitKeeps ==
    ASSUME IInv, NEW n \in Calls, Submit(n)
    PROVE  IInv'
<1> USE DEF IInv
<1>1. /\ GatewayTypeOK'
      /\ UNCHANGED <<status, fail_reason, service, response, reply, phase, submit_status, final, expired, accepted>>
      /\ request' = [request EXCEPT ![n] = "post"] /\ forward' = [forward EXCEPT ![n] = "post"]
      /\ task' = [task EXCEPT ![n] = "calling"]
      /\ phase = "submit" /\ task[n] = "ready"
  BY SendTyped DEF Submit, Goto, Kinds, rows, accepted
<1>2. TypeOK'
  BY <1>1 DEF TypeOK
<1>3. status[n] = Absent /\ service[n] = "idle"
  BY <1>1 DEF SubmittedOnce
<1>4. SubmittedOnce'
  BY <1>1, <1>3 DEF SubmittedOnce, TypeOK, GatewayTypeOK
<1>5. AcceptedIsStored'
  BY <1>1 DEF AcceptedIsStored, TypeOK, GatewayTypeOK
<1>6. TasksSettleAccepted'
  BY <1>1 DEF TasksSettleAccepted, TypeOK
<1>7. ReadsAreTrue'
  BY <1>1 DEF ReadsAreTrue, TrueOfRow
<1> QED
  BY <1>2, <1>4, <1>5, <1>6, <1>7

LEMMA SubmittedKeeps ==
    ASSUME IInv, NEW n \in Calls, Submitted(n)
    PROVE  IInv'
<1> USE DEF IInv
<1>1. /\ UNCHANGED <<gatewayVars, phase, final, expired>>
      /\ UNCHANGED <<status, fail_reason, request, forward, service, response, reply, faults>>
      /\ submit_status' = [submit_status EXCEPT ![n] = reply[n].code]
      /\ task' = [task EXCEPT ![n] = "done"]
      /\ phase = "submit" /\ task[n] = "calling"
  BY DEF Submitted, Goto, Replied, gatewayVars, rows
<1>2. reply[n].code \in Codes
  BY DEF TypeOK, GatewayTypeOK, Replies
<1>3. TypeOK'
  BY <1>1, <1>2 DEF TypeOK, GatewayTypeOK
<1>4. \A m \in Calls : m \in accepted => m \in accepted'
  BY <1>1 DEF TasksSettleAccepted, accepted, TypeOK
<1>5. SubmittedOnce'
  BY <1>1 DEF SubmittedOnce, TypeOK
<1>6. AcceptedIsStored'
  BY <1>1, <1>4 DEF AcceptedIsStored, TypeOK
<1>7. TasksSettleAccepted'
  BY <1>1 DEF TasksSettleAccepted, TypeOK
<1>8. ReadsAreTrue'
  BY <1>1 DEF ReadsAreTrue, TrueOfRow
<1> QED
  BY <1>3, <1>5, <1>6, <1>7, <1>8

LEMMA SettlePhaseKeeps ==
    ASSUME IInv, StartSettling \/ Expire \/ Finish
    PROVE  IInv'
<1> USE DEF IInv
<1>1. /\ UNCHANGED <<status, fail_reason, request, forward, service, response, reply, faults>>
      /\ UNCHANGED <<submit_status, final, accepted>>
  BY DEF StartSettling, Expire, Finish, gatewayVars, rows, accepted
<1>2. /\ task' \in [Calls -> {"ready", "queued", "calling", "done"}]
      /\ phase' \in {"submit", "settle", "report"} /\ expired' \in BOOLEAN
      /\ phase' = "submit" => FALSE
      /\ \A n \in Calls : /\ task'[n] = "queued" => phase' = "settle"
                          /\ task'[n] # "done" /\ phase' = "settle" => n \in accepted
  BY DEF StartSettling, Expire, Finish, TypeOK, TasksSettleAccepted
<1>3. TypeOK'
  BY <1>1, <1>2 DEF TypeOK, GatewayTypeOK
<1>4. SubmittedOnce'
  BY <1>1, <1>2 DEF SubmittedOnce
<1>5. AcceptedIsStored'
  BY <1>1 DEF AcceptedIsStored
<1>6. TasksSettleAccepted'
  BY <1>1, <1>2 DEF TasksSettleAccepted
<1>7. ReadsAreTrue'
  BY <1>1 DEF ReadsAreTrue, TrueOfRow
<1> QED
  BY <1>3, <1>4, <1>5, <1>6, <1>7

LEMMA LoopKeeps ==
    ASSUME IInv, NEW n \in Calls, Loop(n)
    PROVE  IInv'
<1> USE DEF IInv
<1>1. /\ UNCHANGED <<status, fail_reason, request, forward, service, response, reply, faults>>
      /\ UNCHANGED <<phase, submit_status, final, expired, accepted>>
      /\ phase = "settle" /\ task[n] = "ready"
  BY DEF Loop, gatewayVars, rows, accepted
<1>2. task' = [task EXCEPT ![n] = "done"] \/ task' = [task EXCEPT ![n] = "queued"]
  BY DEF Loop, CheckDeadline, Goto
<1>3. TypeOK'
  BY <1>1, <1>2 DEF TypeOK, GatewayTypeOK
<1>4. SubmittedOnce'
  BY <1>1 DEF SubmittedOnce
<1>5. AcceptedIsStored'
  BY <1>1 DEF AcceptedIsStored
<1>6. TasksSettleAccepted'
  BY <1>1, <1>2 DEF TasksSettleAccepted, TypeOK
<1>7. ReadsAreTrue'
  BY <1>1 DEF ReadsAreTrue, TrueOfRow
<1> QED
  BY <1>3, <1>4, <1>5, <1>6, <1>7

LEMMA PollKeeps ==
    ASSUME IInv, NEW n \in Calls, Poll(n)
    PROVE  IInv'
<1> USE DEF IInv
<1>1. /\ GatewayTypeOK'
      /\ UNCHANGED <<status, fail_reason, service, response, reply, phase, submit_status, final, expired, accepted>>
      /\ request' = [request EXCEPT ![n] = "get"] /\ forward' = [forward EXCEPT ![n] = "get"]
      /\ task' = [task EXCEPT ![n] = "calling"]
      /\ phase = "settle" /\ task[n] = "queued"
  BY SendTyped DEF Poll, Goto, Kinds, rows, accepted
<1>2. TypeOK'
  BY <1>1 DEF TypeOK
<1>3. n \in accepted
  BY <1>1 DEF TasksSettleAccepted
<1>4. SubmittedOnce'
  BY <1>1 DEF SubmittedOnce, TypeOK, GatewayTypeOK
<1>5. AcceptedIsStored'
  BY <1>1, <1>3 DEF AcceptedIsStored, TypeOK, GatewayTypeOK
<1>6. TasksSettleAccepted'
  BY <1>1, <1>3 DEF TasksSettleAccepted, TypeOK
<1>7. ReadsAreTrue'
  BY <1>1 DEF ReadsAreTrue, TrueOfRow
<1> QED
  BY <1>2, <1>4, <1>5, <1>6, <1>7

LEMMA PolledKeeps ==
    ASSUME IInv, NEW n \in Calls, Polled(n)
    PROVE  IInv'
<1> USE DEF IInv
<1>1. /\ UNCHANGED <<status, fail_reason, request, forward, service, response, reply, faults>>
      /\ UNCHANGED <<phase, submit_status, expired, accepted>>
      /\ phase = "settle" /\ task[n] = "calling"
      /\ task' = [task EXCEPT ![n] = "done"] \/ task' = [task EXCEPT ![n] = "ready"]
  BY DEF Polled, Replied, Goto, gatewayVars, rows, accepted
<1>2. \/ UNCHANGED final
      \/ /\ reply[n].status \in TERMINAL
         /\ final' = [final EXCEPT ![n] = Final(reply[n].status, reply[n].reason)]
  BY DEF Polled, Settled
<1>3. Final(reply[n].status, reply[n].reason) \in [status : NotificationStatus \cup {Absent}, reason : Reasons]
  BY DEF TypeOK, GatewayTypeOK, Replies, Final
<1>4. TypeOK'
  <2>1. final' \in [Calls -> [status : NotificationStatus \cup {Absent}, reason : Reasons]]
    BY <1>2, <1>3 DEF TypeOK
  <2>2. task' \in [Calls -> {"ready", "queued", "calling", "done"}]
    BY <1>1 DEF TypeOK
  <2> QED
    BY <1>1, <2>1, <2>2 DEF TypeOK, GatewayTypeOK
<1>5. SubmittedOnce'
  BY <1>1 DEF SubmittedOnce
<1>6. AcceptedIsStored'
  BY <1>1 DEF AcceptedIsStored
<1>7. TasksSettleAccepted'
  BY <1>1 DEF TasksSettleAccepted, TypeOK
<1>8. ReadsAreTrue'
  <2>1. CASE UNCHANGED final
    BY <1>1, <2>1 DEF ReadsAreTrue, TrueOfRow
  <2>2. CASE ~UNCHANGED final
    BY <1>1, <1>2, <2>2 DEF ReadsAreTrue, TrueOfRow, Final, TypeOK
  <2> QED
    BY <2>1, <2>2
<1> QED
  BY <1>4, <1>5, <1>6, <1>7, <1>8

LEMMA InvInit == Init => IInv
<1> SUFFICES ASSUME Init PROVE IInv
  OBVIOUS
<1>1. TypeOK
  <2>1. GatewayTypeOK
    BY Values, GatewayAssumption DEF Init, GatewayInit, GatewayTypeOK, Reasons
  <2>2. UNSETTLED \in [status : NotificationStatus \cup {Absent}, reason : Reasons]
    BY DEF UNSETTLED, Final, Reasons
  <2> QED
    BY <2>1, <2>2 DEF Init, TypeOK, Codes
<1>2. SubmittedOnce /\ AcceptedIsStored /\ TasksSettleAccepted
  BY Values DEF Init, GatewayInit, SubmittedOnce, AcceptedIsStored, TasksSettleAccepted
<1>3. ReadsAreTrue
  BY Values DEF Init, GatewayInit, ReadsAreTrue, TrueOfRow
<1> QED
  BY <1>1, <1>2, <1>3 DEF IInv

LEMMA InvStep == IInv /\ [Next]_vars => IInv'
<1> SUFFICES ASSUME IInv, [Next]_vars PROVE IInv'
  OBVIOUS
<1>1. CASE GatewayStep /\ UNCHANGED loadVars
  BY <1>1, GatewayKeeps
<1>2. ASSUME NEW n \in Calls, TaskStep(n) PROVE IInv'
  BY <1>2, SubmitKeeps, SubmittedKeeps, LoopKeeps, PollKeeps, PolledKeeps DEF TaskStep
<1>3. CASE StartSettling \/ Expire \/ Finish
  BY <1>3, SettlePhaseKeeps
<1>4. CASE UNCHANGED vars
  <2>1. UNCHANGED <<status, fail_reason, request, forward, service, response, reply, faults, phase, task,
                    submit_status, final, expired, accepted>>
    BY <1>4 DEF vars, gatewayVars, rows, loadVars, accepted
  <2> QED
    BY <2>1 DEF IInv, TypeOK, GatewayTypeOK, SubmittedOnce, AcceptedIsStored, TasksSettleAccepted,
                ReadsAreTrue, TrueOfRow
<1> QED
  BY <1>1, <1>2, <1>3, <1>4 DEF Next

\* The invariant of the client, the gateway and the service together: one
\* submission per notification, whoever abandoned it, and only true reads.
THEOREM LoadTestInvariant == Spec => []IInv
<1>1. Init => IInv
  BY InvInit
<1>2. IInv /\ [Next]_vars => IInv'
  BY InvStep
<1> QED
  BY <1>1, <1>2, PTL DEF Spec

\* Every variable of the load test and the gateway keeps its type.
THEOREM LoadTestTypeCorrect == Spec => []TypeOK
<1>1. IInv => TypeOK
  BY DEF IInv
<1> QED
  BY <1>1, LoadTestInvariant, PTL

\* A notification that was answered 202 is in the database, and its polls find
\* it, whatever died or gave up between the commit and the answer.
THEOREM AcceptedStays == Spec => []AcceptedIsReadable
<1>1. IInv => AcceptedIsReadable
  BY DEF IInv, AcceptedIsStored, AcceptedIsReadable, accepted
<1> QED
  BY <1>1, LoadTestInvariant, PTL

LEMMA FinalOfRow ==
    ASSUME IInv, NEW n \in Calls, final[n] # UNSETTLED
    PROVE  final[n] = Final(status[n], fail_reason[n]) /\ status[n] \in TERMINAL
<1>1. final[n].status = status[n] /\ final[n].reason = fail_reason[n] /\ status[n] \in TERMINAL
  BY DEF IInv, ReadsAreTrue, TrueOfRow
<1>2. final[n] \in [status : NotificationStatus \cup {Absent}, reason : Reasons]
  BY DEF IInv, TypeOK
<1> QED
  BY <1>1, <1>2 DEF Final

\* What a poll saw settled is how the notification ended, for good.
THEOREM SettledStays == Spec => []SettledIsFinal
<1>1. IInv => SettledIsFinal
  BY FinalOfRow DEF SettledIsFinal
<1> QED
  BY <1>1, LoadTestInvariant, PTL

\* The counts of the report: a planned notification that is counted as matched
\* was accepted and settled as expected, and one that was accepted and settled
\* is matched or in a wrong state.
LEMMA CountsAdd ==
    /\ Cardinality(matched) = Cardinality(Calls) => matched = Calls
    /\ accepted = matched \cup unsettled => wrong_state = 0
<1>1. IsFiniteSet(Calls) /\ accepted \in SUBSET Calls /\ matched \in SUBSET Calls /\ unsettled \in SUBSET Calls
  BY LoadTestAssumption DEF accepted, matched, unsettled
<1>2. IsFiniteSet(matched) /\ IsFiniteSet(unsettled)
  BY <1>1, FS_Subset
<1>3. matched \cap unsettled = {}
  BY <1>1, Values DEF matched, unsettled, Matches
<1>4. Cardinality(matched \cup unsettled) = Cardinality(matched) + Cardinality(unsettled) - Cardinality({})
  BY <1>2, <1>3, FS_Union
<1>5. Cardinality({}) = 0 /\ Cardinality(matched) \in Nat /\ Cardinality(unsettled) \in Nat
  BY <1>2, FS_EmptySet, FS_CardinalityType
<1>6. accepted = matched \cup unsettled => wrong_state = 0
  BY <1>4, <1>5 DEF wrong_state
<1>7. Cardinality(matched) = Cardinality(Calls) => matched = Calls
  BY <1>1, FS_Subset
<1> QED
  BY <1>6, <1>7

\* The verdict is true of the platform, both ways: ok means that all of the plan
\* ended as implied, and a wrong state is one that some notification is in.
THEOREM VerdictTrue == Spec => []VerdictSound
<1>1. IInv => VerdictSound
  <2> SUFFICES ASSUME IInv
               PROVE  /\ verdict_ok => \A n \in Calls : Final(status[n], fail_reason[n]) = expected(n)
                      /\ wrong_state # 0 =>
                           \E n \in accepted : /\ status[n] \in TERMINAL
                                               /\ Final(status[n], fail_reason[n]) # expected(n)
    BY DEF VerdictSound
  <2>1. ASSUME verdict_ok, NEW n \in Calls PROVE Final(status[n], fail_reason[n]) = expected(n)
    <3>1. n \in matched
      BY <2>1, CountsAdd DEF verdict_ok
    <3>2. final[n] = expected(n)
      BY <3>1 DEF matched, Matches
    <3> QED
      BY <3>2, FinalOfRow, Values
  <2>2. ASSUME \A n \in accepted : status[n] \in TERMINAL => Final(status[n], fail_reason[n]) = expected(n)
        PROVE  wrong_state = 0
    <3>1. ASSUME NEW n \in accepted PROVE n \in matched \cup unsettled
      <4>1. n \in Calls
        BY DEF accepted
      <4>2. CASE final[n] = UNSETTLED
        BY <4>2 DEF unsettled
      <4>3. CASE final[n] # UNSETTLED
        <5>1. final[n] = expected(n)
          BY <2>2, <4>1, <4>3, FinalOfRow
        <5> QED
          BY <5>1 DEF matched, Matches
      <4> QED
        BY <4>2, <4>3
    <3>2. accepted = matched \cup unsettled
      BY <3>1 DEF matched, unsettled
    <3> QED
      BY <3>2, CountsAdd
  <2> QED
    BY <2>1, <2>2
<1> QED
  BY <1>1, LoadTestInvariant, PTL
=============================================================================
