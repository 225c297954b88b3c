------------------------------ MODULE Gateway -------------------------------
(***************************************************************************)
(* The order gateway (exchange/src/bybit/order.rs): every request is sent  *)
(* by a task of its own, which classifies the answer, or the lack of one,  *)
(* and tells the OMS of a submission that was not accepted.  What becomes  *)
(* of the request at the exchange is another matter: an answer may be lost,*)
(* and the exchange may carry out a request whose task has given up.       *)
(*                                                                         *)
(* Oms and Trading use the gateway with the answers reduced to accepted,   *)
(* not accepted and lost; here are the answers themselves, and the panics. *)
(***************************************************************************)
EXTENDS Integers, Sequences, SequencesExt

CONSTANT MaxRequests      \* bound: requests of a session

ASSUME MaxRequestsAssumption == MaxRequests \in Nat \ {0}

VARIABLES
    requests,             \* what was dispatched: its kind and the order it names
    exchange,             \* what became of each at the exchange
    outcome,              \* what its task made of it, "waiting" until then
    failures,             \* the SubmissionFailed events, by order link id
    aborted               \* a panic, which the release build turns into an abort

gateway_vars == <<requests, exchange, outcome, failures, aborted>>

\* cancel_all has no caller in the bot; it is part of the trait OrderGateway.
Kinds == {"create", "amend", "repay", "cancel_all"}

\* The id that send_request logs for a request that is not about an order.
NoOrderId == 999

\* A number that is finite and positive, one that is not, and a text that is no number.
Numbers == {"positive", "not_positive", "no_number"}

LostAnswers == {"not_sent", "not_success", "no_text", "not_parsed"}

Refusals == {"10001", "10002", "170193", "170194", "170213"}

ServerErrors == {"10000", "10016"}

Answers == LostAnswers \cup {"0"} \cup Refusals \cup ServerErrors \cup {"unlisted"}

RequestIndexes == DOMAIN requests

Submissions == {k \in RequestIndexes : requests[k].kind = "create"}

GatewayInit ==
    /\ requests = <<>>
    /\ exchange = <<>>
    /\ outcome = <<>>
    /\ failures = <<>>
    /\ aborted = FALSE

-----------------------------------------------------------------------------
SerializeQuantity(qty) == qty = "positive"

SerializePrice(price) == price = "positive"

\* Can the body be made?  An amendment has only what changes.
SubmitOrderBody(qty, price) == SerializeQuantity(qty) /\ SerializePrice(price)

AmendOrderBody(new_qty, qty, new_price, price) ==
    /\ new_qty => SerializeQuantity(qty)
    /\ new_price => SerializePrice(price)

\* The OMS thread: the body, and a task for the request, or the panic of an assertion.
Dispatch(kind, order_link_id, body_is_made) ==
    /\ ~aborted /\ Len(requests) < MaxRequests
    /\ IF body_is_made
       THEN /\ requests' = Append(requests, [kind |-> kind, order_link_id |-> order_link_id])
            /\ exchange' = Append(exchange, "pending")
            /\ outcome' = Append(outcome, "waiting")
            /\ UNCHANGED aborted
       ELSE aborted' = TRUE /\ UNCHANGED <<requests, exchange, outcome>>
    /\ UNCHANGED failures

\* The OMS numbers its orders; here the id of an order is the place of its submission.
SubmitOrder(qty, price) ==
    Dispatch("create", Len(requests) + 1, SubmitOrderBody(qty, price))

AmendOrder(k, new_qty, qty, new_price, price) ==
    /\ new_qty \/ new_price
    /\ Dispatch("amend", requests[k].order_link_id,
                AmendOrderBody(new_qty, qty, new_price, price))

RepayLiability == Dispatch("repay", NoOrderId, TRUE)

CancelAll == Dispatch("cancel_all", NoOrderId, TRUE)

-----------------------------------------------------------------------------
\* The exchange, which does not know whether anybody waits for the answer.
ExchangeDecides(k) ==
    /\ exchange[k] = "pending"
    /\ exchange' = [exchange EXCEPT ![k] = "refused"]
       \/ exchange' = [exchange EXCEPT ![k] = "done"]
    /\ UNCHANGED <<requests, outcome, failures, aborted>>

\* A refusal and an acceptance are what they say; a server error says nothing, and the
\* answer to a repayment that was carried out may be one (the comment on 10_016).
AnswersTo(state) ==
    LostAnswers \cup ServerErrors
        \cup (IF state = "done" THEN {"0"} ELSE {})
        \cup (IF state = "refused" THEN Refusals \cup {"unlisted"} ELSE {})

\* An unlisted code is the panic, see TaskEnds.
ClassifyResponse(code) ==
    CASE code = "0" -> "Accepted"
      [] OTHER -> "Rejected"

SendRequest(answer) ==
    IF answer \in LostAnswers THEN "Unknown" ELSE ClassifyResponse(answer)

Report(k) == failures' = Append(failures, requests[k].order_link_id)

\* Defect: every outcome that is not an acceptance is reported, whatever was asked.
ReportAnyOutcome(k, result) ==
    IF result # "Accepted" THEN Report(k) ELSE UNCHANGED failures

\* Defect: only a refusal is reported, as if an answer that is lost were an acceptance.
ReportRefusals(k, result) ==
    IF k \in Submissions /\ result = "Rejected" THEN Report(k) ELSE UNCHANGED failures

\* report_submission_outcome, which only the task of submit_order calls.
ReportOutcome(k, result) ==
    IF k \in Submissions /\ result # "Accepted" THEN Report(k) ELSE UNCHANGED failures

\* The rest of a task: send_request, and the report.
TaskEnds(k) ==
    /\ ~aborted /\ outcome[k] = "waiting"
    /\ \E answer \in AnswersTo(exchange[k]) :
        IF answer = "unlisted"
        THEN aborted' = TRUE /\ UNCHANGED <<outcome, failures>>
        ELSE /\ outcome' = [outcome EXCEPT ![k] = SendRequest(answer)]
             /\ ReportOutcome(k, SendRequest(answer))
             /\ UNCHANGED aborted
    /\ UNCHANGED <<requests, exchange>>

-----------------------------------------------------------------------------
GatewayNext ==
    \/ \E qty, price \in Numbers : SubmitOrder(qty, price)
    \/ \E k \in Submissions, new_qty, new_price \in BOOLEAN, qty, price \in Numbers :
           AmendOrder(k, new_qty, qty, new_price, price)
    \/ RepayLiability
    \/ CancelAll
    \/ \E k \in RequestIndexes : ExchangeDecides(k)
    \/ \E k \in RequestIndexes : TaskEnds(k)

\* The runtime runs every task, and the connection fails or there is an answer.
GatewayFairness == \A k \in 1 .. MaxRequests : WF_gateway_vars(k \in RequestIndexes /\ TaskEnds(k))

GatewaySpec == GatewayInit /\ [][GatewayNext]_gateway_vars /\ GatewayFairness

-----------------------------------------------------------------------------
\* The OMS hears of a failure at most once for an order, and only if the task of the order's
\* own submission ended without an acceptance: an amendment that fails never makes it give
\* up the order, which works as before, and the id that stands for no order never reaches
\* it.  What the exchange did is another matter: an answer that is lost, or is a server
\* error, may hide that it took the order.
OnlySubmissionsFail ==
    /\ \A i, j \in DOMAIN failures : failures[i] = failures[j] => i = j
    /\ \A i \in DOMAIN failures :
           failures[i] \in Submissions /\ outcome[failures[i]] \in {"Rejected", "Unknown"}

\* The OMS hears of every submission that the exchange does not carry out, also when the
\* answer is lost; otherwise the record of the order would block its side for good.
RefusedIsHeardOf ==
    \A k \in 1 .. MaxRequests :
        (k \in Submissions /\ exchange[k] = "refused") ~> (Contains(failures, k) \/ aborted)
=============================================================================
