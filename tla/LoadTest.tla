------------------------------ MODULE LoadTest ------------------------------
(***************************************************************************)
(* The load test engine of the playground, as a client of the gateway: it  *)
(* submits every planned notification, then polls those that were accepted *)
(* until each is terminal or the deadline passes, under one semaphore, and *)
(* reports whether the platform lost or misrouted any.  One asyncio task   *)
(* per notification and phase; between two awaits a task runs alone.       *)
(***************************************************************************)
EXTENDS Gateway, FiniteSets

CONSTANTS
    Concurrency,   \* permits of the semaphore
    Failing        \* planned notifications whose recipient carries -fail

ASSUME LoadTestAssumption ==
    /\ IsFiniteSet(Calls)
    /\ Concurrency \in Nat \ {0}
    /\ Failing \subseteq Calls

VARIABLES
    phase,           \* "submit", "settle", or "report"
    task,            \* where the task of a planned notification is
    submit_status,   \* Outcome.submit_status
    final,           \* Outcome.final_status and fail_reason, once settled
    expired          \* the clock has passed the deadline

loadVars == <<phase, task, submit_status, final, expired>>
vars == <<gatewayVars, loadVars>>

Final(s, reason) == [status |-> s, reason |-> reason]
UNSETTLED == Final(Absent, NoReason)

accepted == {n \in Calls : submit_status[n] = "202"}

\* PlannedNotification.expected.
expected(n) ==
    IF n \in Failing THEN Final("FAILED", "simulated_failure") ELSE Final("COMPLETED", NoReason)

Init ==
    /\ GatewayInit
    /\ phase = "submit"
    /\ task = [n \in Calls |-> "ready"]
    /\ submit_status = [n \in Calls |-> "none"]
    /\ final = [n \in Calls |-> UNSETTLED]
    /\ expired = FALSE

Goto(n, place) == task' = [task EXCEPT ![n] = place]

\* async with semaphore: a permit is held from the call until its reply was
\* taken.
PermitFree == Cardinality({n \in Calls : task[n] = "calling"}) < Concurrency

Replied(n) == task[n] = "calling" /\ request[n] = "none"

----------------------------------------------------------------------------
(* _submit_all().                                                          *)

Submit(n) ==
    /\ phase = "submit"
    /\ task[n] = "ready"
    /\ PermitFree
    /\ Send(n, "post")
    /\ Goto(n, "calling")
    /\ UNCHANGED <<phase, submit_status, final, expired>>

Submitted(n) ==
    /\ phase = "submit"
    /\ Replied(n)
    /\ submit_status' = [submit_status EXCEPT ![n] = reply[n].code]
    /\ Goto(n, "done")
    /\ UNCHANGED <<gatewayVars, phase, final, expired>>

\* gather() returns, and the second one starts a task for each accepted one.
StartSettling ==
    /\ phase = "submit"
    /\ \A n \in Calls : task[n] = "done"
    /\ phase' = "settle"
    /\ task' = [n \in Calls |-> IF n \in accepted THEN "ready" ELSE "done"]
    /\ UNCHANGED <<gatewayVars, submit_status, final, expired>>

----------------------------------------------------------------------------
(* _settle_all().                                                          *)

\* The deadline passes.
Expire ==
    /\ phase = "settle"
    /\ expired' = TRUE
    /\ UNCHANGED <<gatewayVars, phase, task, submit_status, final>>

\* Mutant: the task polls until its notification is terminal.
PollOn(n) == Goto(n, "queued")

\* The head of the loop, first or after a sleep; the semaphore may then keep
\* the task past the deadline.
CheckDeadline(n) == Goto(n, IF expired THEN "done" ELSE "queued")

Loop(n) ==
    /\ phase = "settle"
    /\ task[n] = "ready"
    /\ CheckDeadline(n)
    /\ UNCHANGED <<gatewayVars, phase, submit_status, final, expired>>

Poll(n) ==
    /\ phase = "settle"
    /\ task[n] = "queued"
    /\ PermitFree
    /\ Send(n, "get")
    /\ Goto(n, "calling")
    /\ UNCHANGED <<phase, submit_status, final, expired>>

\* Mutant: a notification that was picked up has settled.
LeftCreated(n) == reply[n].code = "200" /\ reply[n].status # "CREATED"

\* The reply is a 200 with a terminal status; of any other the body is None.
Settled(n) == reply[n].code = "200" /\ reply[n].status \in TERMINAL

Polled(n) ==
    /\ phase = "settle"
    /\ Replied(n)
    /\ \/ /\ Settled(n)
          /\ final' = [final EXCEPT ![n] = Final(reply[n].status, reply[n].reason)]
          /\ Goto(n, "done")
       \/ ~Settled(n) /\ Goto(n, "ready") /\ UNCHANGED final
    /\ UNCHANGED <<gatewayVars, phase, submit_status, expired>>

Finish ==
    /\ phase = "settle"
    /\ \A n \in Calls : task[n] = "done"
    /\ phase' = "report"
    /\ UNCHANGED <<gatewayVars, task, submit_status, final, expired>>

----------------------------------------------------------------------------
(* build_report().                                                         *)

\* Mutant: the fail reason is not compared.
StatusMatches(n) == final[n].status = expected(n).status

Matches(n) == final[n] = expected(n)

matched == {n \in accepted : Matches(n)}
unsettled == {n \in accepted : final[n] = UNSETTLED}
wrong_state == Cardinality(accepted) - Cardinality(matched) - Cardinality(unsettled)

verdict_ok == Cardinality(matched) = Cardinality(Calls)

----------------------------------------------------------------------------
TaskStep(n) == Submit(n) \/ Submitted(n) \/ Loop(n) \/ Poll(n) \/ Polled(n)

Next ==
    \/ GatewayStep /\ UNCHANGED loadVars
    \/ \E n \in Calls : TaskStep(n)
    \/ StartSettling \/ Expire \/ Finish

Spec == Init /\ [][Next]_vars

\* Every task runs, every call ends by its timeout at the latest, and time
\* passes; nothing is asked of the gateway or the services.
Fairness ==
    /\ \A n \in Calls :
         /\ WF_vars(TaskStep(n))
         /\ WF_vars(GiveUp(n) /\ UNCHANGED loadVars)
    /\ WF_vars(StartSettling \/ Finish)
    /\ WF_vars(Expire)

FairSpec == Spec /\ Fairness

----------------------------------------------------------------------------
(* Properties.                                                             *)

TypeOK ==
    /\ GatewayTypeOK
    /\ phase \in {"submit", "settle", "report"}
    /\ task \in [Calls -> {"ready", "queued", "calling", "done"}]
    /\ submit_status \in [Calls -> Codes]
    /\ final \in [Calls -> [status : NotificationStatus \cup {Absent}, reason : Reasons]]
    /\ expired \in BOOLEAN

\* A 202 is kept: the notification exists when its client hears of it, whoever
\* gave up or died in between, and no later poll is told that it does not.
AcceptedIsReadable ==
    \A n \in Calls :
        reply[n].code = "202" \/ n \in accepted =>
            status[n] # Absent /\ reply[n].code # "404"

\* What a task saw settled is how the notification ended, and still is: a poll
\* that took its time, or whose reply was overtaken, does not matter.
SettledIsFinal ==
    \A n \in Calls : final[n] # UNSETTLED => final[n] = Final(status[n], fail_reason[n])

\* The report is true of the platform: if it passes, every planned notification
\* was stored and ended as its recipient implies; if it counts one in a wrong
\* state, one really ended in another.
VerdictSound ==
    phase = "report" =>
        /\ verdict_ok => \A n \in Calls : Final(status[n], fail_reason[n]) = expected(n)
        /\ wrong_state # 0 =>
             \E n \in accepted : /\ status[n] \in TERMINAL
                                 /\ Final(status[n], fail_reason[n]) # expected(n)

\* The run ends, whether the platform answers, settles anything, or is there.
RunEnds == <>(phase = "report")

\* docs/guides/api-reference.md: 502, "the Gateway could not reach the service
\* at all".  Then it created nothing.
BadGatewayMeansUnreached ==
    \A n \in Calls : reply[n].code = "502" /\ n \notin accepted => status[n] = Absent

----------------------------------------------------------------------------
(* The inductive invariant behind them.                                    *)

\* A notification is submitted once: whatever was abandoned on the way, what
\* still holds the submission has not stored it.
SubmittedOnce ==
    \A n \in Calls :
        /\ forward[n] = "post" \/ service[n] = "post" => status[n] = Absent
        /\ service[n] = "post" => forward[n] # "post"
        /\ phase = "submit" /\ task[n] = "ready" =>
             status[n] = Absent /\ forward[n] = "idle" /\ service[n] = "idle"

\* A 202 is answered, passed on and recorded for a notification that is there,
\* and only such a one is read.
AcceptedIsStored ==
    \A n \in Calls :
        /\ "202" \in {response[n].code, reply[n].code, submit_status[n]} => status[n] # Absent
        /\ "get" \in {request[n], forward[n], service[n]} => n \in accepted
        /\ "404" \notin {response[n].code, reply[n].code}

\* A task of the settle phase is of an accepted notification; one that is still
\* submitting has recorded nothing.
TasksSettleAccepted ==
    \A n \in Calls :
        /\ task[n] = "queued" => phase = "settle"
        /\ phase = "settle" /\ task[n] # "done" => n \in accepted
        /\ phase = "submit" /\ task[n] # "done" => submit_status[n] = "none"

\* A terminal status that was read is the row's.
TrueOfRow(n, r) ==
    r.status \in TERMINAL => r.status = status[n] /\ r.reason = fail_reason[n]

ReadsAreTrue ==
    \A n \in Calls :
        /\ TrueOfRow(n, response[n]) /\ TrueOfRow(n, reply[n]) /\ TrueOfRow(n, final[n])
        /\ final[n] # UNSETTLED => final[n].status \in TERMINAL

IInv ==
    /\ TypeOK
    /\ SubmittedOnce
    /\ AcceptedIsStored
    /\ TasksSettleAccepted
    /\ ReadsAreTrue
=============================================================================
