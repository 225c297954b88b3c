------------------------------ MODULE Requote -------------------------------
(***************************************************************************)
(* A quiet market: nobody trades with the bot and its requests to create   *)
(* an order are granted, while the strategy changes its quote a few times  *)
(* and then settles.  The gateway does not tell the OMS what became of an  *)
(* amendment, amendments overtake each other, and each is computed from    *)
(* the last report the OMS has seen: what makes the order reach the quote  *)
(* is only that the strategy asks again every second.                      *)
(***************************************************************************)
EXTENDS Trading

CONSTANT MaxQuoteChanges     \* bound: times the strategy changes its mind

VARIABLES
    quote,                   \* <<bid, ask>> the strategy computes from the book
    quote_changes            \* number of changes so far

requote_vars == <<quote, quote_changes>>
quiet_vars == <<trading_vars, requote_vars>>

RequoteInit ==
    /\ TradingInit
    /\ quote \in Quotes
    /\ quote_changes = 0

\* The book changes, and the quote with it.
QuoteChanges ==
    /\ quote_changes < MaxQuoteChanges
    /\ quote' \in Quotes \ {quote}
    /\ quote_changes' = quote_changes + 1
    /\ UNCHANGED trading_vars

StrategyRefreshes == StrategyQuotes(quote) /\ UNCHANGED requote_vars

OmsServesStrategy == OmsRecvFromStrategy /\ UNCHANGED requote_vars

OmsServesOrderHandler == OmsRecvFromOrderHandler /\ UNCHANGED requote_vars

TaskCreates(t) == ExchangeAccepts(t) /\ UNCHANGED requote_vars

TaskAmends(t) == ExchangeAmends(t) /\ UNCHANGED requote_vars

\* An amendment that is lost, refused, or finds the order as it asks for it.
TaskEndsWithoutEffect(t) == RequestEnds(t) /\ UNCHANGED requote_vars

TaskProceeds(t) == TaskCreates(t) \/ TaskAmends(t) \/ TaskEndsWithoutEffect(t)

WebsocketDelivers(id) ==
    (\E i \in DOMAIN stream[id] : Deliver(id, i)) /\ UNCHANGED requote_vars

RequoteNext ==
    \/ QuoteChanges
    \/ StrategyRefreshes
    \/ OmsServesStrategy
    \/ OmsServesOrderHandler
    \/ \E t \in Tasks : TaskProceeds(t)
    \/ \E id \in Ids : WebsocketDelivers(id)

\* The threads and tasks run, and the exchange does not drop every amendment for ever.
RequoteFairness ==
    /\ WF_quiet_vars(StrategyRefreshes)
    /\ SF_quiet_vars(OmsServesStrategy)
    /\ SF_quiet_vars(OmsServesOrderHandler)
    /\ \A t \in Tasks : WF_quiet_vars(TaskProceeds(t)) /\ SF_quiet_vars(TaskAmends(t))
    /\ \A id \in Ids : WF_quiet_vars(WebsocketDelivers(id))

RequoteSpec == RequoteInit /\ [][RequoteNext]_quiet_vars /\ RequoteFairness

-----------------------------------------------------------------------------
QuotedPrice(side) == IF side = "Buy" THEN quote[1] ELSE quote[2]

\* In the end there is an order of each quoted side at the quoted price, though amendments
\* may be dropped, overtake each other and be computed from an old report: "it will be
\* re-updated with the next refresh of the order book" (amend_order).
QuoteIsReached ==
    <>[](\A side \in {s \in Sides : ~LimitReached(s, inventory)} :
             \E id \in Ids : /\ Working(id) /\ xorders[id].side = side
                             /\ xorders[id].price = QuotedPrice(side))
=============================================================================
