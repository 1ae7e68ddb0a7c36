------------------------------ MODULE SharedQuota ------------------------------
(***************************************************************************)
(* Runs of runWithSharedMessageQuota (utils/sharedMessageQuota.ts) against *)
(* the quota service they call over HTTP, with the execute closure that    *)
(* utilBuildChatflow passes (utils/buildChatflow.ts).  Several runs may    *)
(* carry the same request id: a client that retries, or a double click.    *)
(*                                                                         *)
(* A call is answered, or it breaks: fetch throws or the response is not   *)
(* ok.  A call that broke before the service answered may still reach it   *)
(* later ("late").  The service itself is not in the repository: its       *)
(* operations are written from the statuses the client handles and from    *)
(* sharedMessageQuota.test.ts.                                             *)
(*                                                                         *)
(* Definitions marked "faulty" are slips the properties must catch: no     *)
(* action uses them.                                                       *)
(***************************************************************************)
EXTENDS Naturals, FiniteSets

CONSTANTS Run,         \* executions of runWithSharedMessageQuota
          Rid,         \* request ids of one tenant
          Capacity,    \* units of quota the tenant has
          MaxAttempts  \* MAX_CONSUME_ATTEMPTS

ASSUME QuotaAssumption ==
  /\ Capacity \in Nat
  /\ MaxAttempts \in Nat \ {0}

VARIABLES
  pc,       \* pc[p]: what run p is awaiting, or how it ended
  rid,      \* rid[p]: the request id run p was given
  attempt,  \* attempt[p]: the loop counter of consumeQuota
  call,     \* call[p]: the status of the call p awaits ("sent": none yet)
  ledger,   \* ledger[r]: the service's record of request id r
  late,     \* calls the client gave up on and the service may still see
  saved,    \* the runs whose flow saved an assistant message
  expired   \* the ids whose reservation the service let expire

vars == <<pc, rid, attempt, call, ledger, late, saved, expired>>

Op == {"reserve", "consume", "release"}

Waiting == {"resolving", "reserving", "executing", "accounting", "consuming", "releasing"}
Refused == {"unavailable", "badRequest", "conflict", "exhausted"}
Ended   == {"answered", "bypassed", "executeError", "chargeError"} \cup Refused

Record == {"none", "reserved", "consumed", "released"}

\* What the service may answer to a call it does not carry out.
Refusal == {"request_id_reused", "not_enforced"}
Status  == {"reserved", "already_reserved", "consumed", "already_consumed",
            "released", "already_released", "exhausted"} \cup Refusal

--------------------------------------------------------------------------------
\* The quota service.

Used == {r \in Rid : ledger[r] \in {"reserved", "consumed"}}

\* reserve_tenant_message_quota, consume_... and release_...: the record after the
\* call, and the status returned, given the record of r before it.
Applies(op, r) ==
  \/ op = "reserve" /\ ledger[r] = "none" /\ Cardinality(Used) < Capacity
  \/ op \in {"consume", "release"} /\ ledger[r] = "reserved"

RecordAfter(op) ==
  CASE op = "reserve" -> "reserved"
    [] op = "consume" -> "consumed"
    [] OTHER          -> "released"

StatusOf(op, r) ==
  CASE Applies(op, r)          -> RecordAfter(op)
    [] ledger[r] = "reserved"  -> "already_reserved"
    [] ledger[r] = "consumed"  -> "already_consumed"
    [] ledger[r] = "released"  -> "already_released"
    [] op = "reserve"          -> "exhausted"
    [] OTHER                   -> "not_enforced"

Apply(op, r) ==
  ledger' = IF Applies(op, r) THEN [ledger EXCEPT ![r] = RecordAfter(op)] ELSE ledger

OpOf(p) == CASE pc[p] = "reserving" -> "reserve"
             [] pc[p] = "consuming" -> "consume"
             [] OTHER               -> "release"

InCall(p) == pc[p] \in {"reserving", "consuming", "releasing"}

Serve(p) ==
  /\ InCall(p) /\ call[p] = "sent"
  /\ call' = [call EXCEPT ![p] = StatusOf(OpOf(p), rid[p])]
  /\ Apply(OpOf(p), rid[p])
  /\ UNCHANGED <<pc, rid, attempt, late, saved, expired>>

\* The id belongs to another source, or the tenant has no enforceable plan.
Refuse(p) ==
  /\ InCall(p) /\ call[p] = "sent"
  /\ \E s \in Refusal : call' = [call EXCEPT ![p] = s]
  /\ UNCHANGED <<pc, rid, attempt, ledger, late, saved, expired>>

\* fetch throws, or !response.ok: before the service saw the call, or after.
Break(p) ==
  /\ InCall(p) /\ call[p] # "error"
  /\ call' = [call EXCEPT ![p] = "error"]
  /\ late' = IF call[p] = "sent" THEN late \cup {<<OpOf(p), rid[p]>>} ELSE late
  /\ UNCHANGED <<pc, rid, attempt, ledger, saved, expired>>

ServeLate(c) ==
  /\ c \in late
  /\ late' = late \ {c}
  /\ Apply(c[1], c[2])
  /\ UNCHANGED <<pc, rid, attempt, call, saved, expired>>

DropLate(c) ==
  /\ c \in late
  /\ late' = late \ {c}
  /\ UNCHANGED <<pc, rid, attempt, call, ledger, saved, expired>>

\* The service takes back the unit of a reservation nobody finished in time.
Expire(r) ==
  /\ ledger[r] = "reserved"
  /\ ledger' = [ledger EXCEPT ![r] = "released"]
  /\ expired' = expired \cup {r}
  /\ UNCHANGED <<pc, rid, attempt, call, late, saved>>

--------------------------------------------------------------------------------
\* reserveQuota

Goto(p, place) == pc' = [pc EXCEPT ![p] = place]

\* The run leaves callQuotaRpc for a place where it makes no call, or sends the next.
Leave(p, place) ==
  /\ Goto(p, place)
  /\ call' = [call EXCEPT ![p] = "none"]

Send(p, place) ==
  /\ Goto(p, place)
  /\ call' = [call EXCEPT ![p] = "sent"]

\* Quota off, or traffic that is internal, an evaluation, a tool, or of another type.
Bypass(p) ==
  /\ pc[p] = "idle"
  /\ Goto(p, "bypassed")
  /\ UNCHANGED <<rid, attempt, call, ledger, late, saved, expired>>

Start(p) ==
  /\ pc[p] = "idle"
  /\ Goto(p, "resolving")
  /\ UNCHANGED <<rid, attempt, call, ledger, late, saved, expired>>

\* resolve_daiana_tenant_from_studio fails or maps to no tenant; getRequestId refuses.
ResolveFails(p) ==
  /\ pc[p] = "resolving"
  /\ \E why \in {"unavailable", "badRequest"} : Goto(p, why)
  /\ UNCHANGED <<rid, attempt, call, ledger, late, saved, expired>>

Resolved(p) ==
  /\ pc[p] = "resolving"
  /\ Send(p, "reserving")
  /\ UNCHANGED <<rid, attempt, ledger, late, saved, expired>>

\* Faulty: a request that is already in progress runs again.
ReserveOutcomeTwice(status) ==
  IF status \in {"reserved", "already_reserved"} THEN "executing" ELSE "conflict"

ReserveOutcome(status) ==
  CASE status = "reserved"  -> "executing"
    [] status \in {"already_reserved", "already_consumed", "already_released",
                   "request_id_reused"} -> "conflict"
    [] status = "exhausted" -> "exhausted"
    [] OTHER                -> "unavailable"

ReserveReturns(p) ==
  /\ pc[p] = "reserving" /\ call[p] # "sent"
  /\ Leave(p, ReserveOutcome(call[p]))
  /\ UNCHANGED <<rid, attempt, ledger, late, saved, expired>>

--------------------------------------------------------------------------------
\* The execute closure: executeFlow, then updatePredictionsUsage.

\* executeFlow returns: its assistant message is saved.
FlowSaves(p) ==
  /\ pc[p] = "executing"
  /\ saved' = saved \cup {p}
  /\ Goto(p, "accounting")
  /\ UNCHANGED <<rid, attempt, call, ledger, late, expired>>

\* executeFlow throws after it saved: telemetry, metrics or speech come later.
FlowSavesAndThrows(p) ==
  /\ pc[p] = "executing"
  /\ saved' = saved \cup {p}
  /\ Send(p, "releasing")
  /\ UNCHANGED <<rid, attempt, ledger, late, expired>>

\* Faulty: a result without chatMessageId counts as a success.
FlowFailsUnnoticed(p) ==
  /\ pc[p] = "executing"
  /\ Goto(p, "accounting")
  /\ UNCHANGED <<rid, attempt, call, ledger, late, saved, expired>>

\* executeFlow throws before it saved, or returns no chatMessageId.
FlowFails(p) ==
  /\ pc[p] = "executing"
  /\ Send(p, "releasing")
  /\ UNCHANGED <<rid, attempt, ledger, late, saved, expired>>

\* updatePredictionsUsage asks the usage cache and the billing service, and may throw.
AccountingFails(p) ==
  /\ pc[p] = "accounting"
  /\ Send(p, "releasing")
  /\ UNCHANGED <<rid, attempt, ledger, late, saved, expired>>

AccountingDone(p) ==
  /\ pc[p] = "accounting"
  /\ Send(p, "consuming")
  /\ attempt' = [attempt EXCEPT ![p] = 1]
  /\ UNCHANGED <<rid, ledger, late, saved, expired>>

--------------------------------------------------------------------------------
\* consumeQuota and releaseQuotaSafely

\* Faulty: consuming a reservation that was given back counts as a success.
ConsumedOrReleased(status) == status \in {"consumed", "already_consumed", "already_released"}

Consumed(status) == status \in {"consumed", "already_consumed"}

ConsumeSucceeds(p) ==
  /\ pc[p] = "consuming" /\ Consumed(call[p])
  /\ Leave(p, "answered")
  /\ UNCHANGED <<rid, attempt, ledger, late, saved, expired>>

\* The reservation expired: no further attempt, and no release.
ConsumeTooLate(p) ==
  /\ pc[p] = "consuming" /\ call[p] = "already_released"
  /\ Leave(p, "chargeError")
  /\ UNCHANGED <<rid, attempt, ledger, late, saved, expired>>

Retryable(status) == status \notin {"sent", "already_released"} /\ ~Consumed(status)

\* Faulty: one attempt too many.
AttemptsLeftOffByOne(p) == attempt[p] <= MaxAttempts

AttemptsLeft(p) == attempt[p] < MaxAttempts

\* Faulty: the attempt is not counted.
ConsumeRetriesUncounted(p) ==
  /\ pc[p] = "consuming" /\ Retryable(call[p])
  /\ AttemptsLeft(p)
  /\ Send(p, "consuming")
  /\ UNCHANGED <<rid, attempt, ledger, late, saved, expired>>

ConsumeRetries(p) ==
  /\ pc[p] = "consuming" /\ Retryable(call[p])
  /\ AttemptsLeft(p)
  /\ attempt' = [attempt EXCEPT ![p] = @ + 1]
  /\ Send(p, "consuming")
  /\ UNCHANGED <<rid, ledger, late, saved, expired>>

\* Faulty: the failed consume is treated as a failed flow.
ConsumeGivesBack(p) ==
  /\ pc[p] = "consuming" /\ Retryable(call[p])
  /\ ~AttemptsLeft(p)
  /\ Send(p, "releasing")
  /\ UNCHANGED <<rid, attempt, ledger, late, saved, expired>>

ConsumeGivesUp(p) ==
  /\ pc[p] = "consuming" /\ Retryable(call[p])
  /\ ~AttemptsLeft(p)
  /\ Leave(p, "chargeError")
  /\ UNCHANGED <<rid, attempt, ledger, late, saved, expired>>

\* Whatever release returned, or when it broke, the error of the flow is rethrown.
ReleaseReturns(p) ==
  /\ pc[p] = "releasing" /\ call[p] # "sent"
  /\ Leave(p, "executeError")
  /\ UNCHANGED <<rid, attempt, ledger, late, saved, expired>>

--------------------------------------------------------------------------------
Init ==
  /\ pc = [p \in Run |-> "idle"]
  /\ rid \in [Run -> Rid]
  /\ attempt = [p \in Run |-> 0]
  /\ call = [p \in Run |-> "none"]
  /\ ledger = [r \in Rid |-> "none"]
  /\ late = {}
  /\ saved = {}
  /\ expired = {}

Handler(p) ==
  \/ ResolveFails(p) \/ Resolved(p) \/ ReserveReturns(p)
  \/ FlowSaves(p) \/ FlowSavesAndThrows(p) \/ FlowFails(p) \/ AccountingFails(p) \/ AccountingDone(p)
  \/ ConsumeSucceeds(p) \/ ConsumeTooLate(p) \/ ConsumeRetries(p) \/ ConsumeGivesUp(p)
  \/ ReleaseReturns(p)

Network(p) == Serve(p) \/ Refuse(p) \/ Break(p)

Next ==
  \/ \E p \in Run : Bypass(p) \/ Start(p) \/ Handler(p) \/ Network(p)
  \/ \E c \in late : ServeLate(c) \/ DropLate(c)
  \/ \E r \in Rid : Expire(r)

Spec == Init /\ [][Next]_vars

\* Handlers run once their call settles, and every call settles: fetch has a time
\* limit of its own, and the flow and the usage update return or throw.
Fairness == \A p \in Run : WF_vars(Handler(p)) /\ WF_vars(Network(p))

FairSpec == Spec /\ Fairness

--------------------------------------------------------------------------------
\* Properties

\* Every variable holds a value the code can give it.
TypeOK ==
  /\ pc \in [Run -> {"idle"} \cup Waiting \cup Ended]
  /\ rid \in [Run -> Rid]
  /\ attempt \in [Run -> 0..MaxAttempts]
  /\ call \in [Run -> Status \cup {"none", "sent", "error"}]
  /\ ledger \in [Rid -> Record]
  /\ late \subseteq Op \X Rid
  /\ saved \subseteq Run
  /\ expired \subseteq Rid

\* The run went past reserveQuota with a reservation.
Entered(p) == pc[p] \in {"executing", "accounting", "consuming", "releasing",
                         "answered", "executeError", "chargeError"}

\* A request id runs the flow at most once, however many requests carry it and
\* whatever is lost or answered late (reserveQuota's 409 answers).
OneExecution ==
  \A p, q \in Run : Entered(p) /\ Entered(q) /\ rid[p] = rid[q] => p = q

\* A message returned to its caller is paid for (consumeQuota's early returns).
AnsweredIsCharged == \A p \in Run : pc[p] = "answered" => ledger[rid[p]] = "consumed"

\* The tenant pays only for a message that was saved, by a run whose flow and
\* accounting succeeded: no order of late calls makes the service consume another unit.
ChargedIsSaved ==
  \A r \in Rid : ledger[r] = "consumed" => \E p \in saved : rid[p] = r /\ attempt[p] > 0

\* Once a flow and its accounting succeeded, the program never gives the unit back,
\* not even when consuming it keeps failing: only the service does, by expiry.
NoRefundAfterSuccess ==
  \A p \in Run : attempt[p] > 0 /\ ledger[rid[p]] = "released" => rid[p] \in expired

\* Every request ends: with an answer or an error (the retry loop of consumeQuota).
RunsEnd == \A p \in Run : pc[p] = "resolving" ~> pc[p] \in Ended

\* What a tenant and its callers see of the runs.
accountBar ==
  [r \in Rid |-> CASE ledger[r] = "none"     -> "none"
                   [] ledger[r] = "reserved" -> "held"
                   [] ledger[r] = "consumed" -> "charged"
                   [] OTHER                  -> "refunded"]
savedBar     == {rid[p] : p \in saved}
deliveredBar == {rid[p] : p \in {q \in Run : pc[q] = "answered"}}

Metered == INSTANCE MeteredDelivery
             WITH account <- accountBar, saved <- savedBar, delivered <- deliveredBar

\* Runs, retries and late calls together implement the metered delivery of a message.
ImplementsMetered == Metered!Spec
================================================================================
