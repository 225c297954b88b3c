-------------------------------- MODULE Desk --------------------------------
(***************************************************************************)
(* What the trading loop of Trading takes for granted of its own parts:    *)
(* the prices of the strategy (Quotes), the answers to its requests        *)
(* (Gateway) and the figures kept of its executions (Metrics).  They share *)
(* no state, and the module of each gives it every input it can get: so a  *)
(* behaviour of this module moves one of them while the other two rest.    *)
(***************************************************************************)
EXTENDS Quotes, Gateway, Metrics

desk_vars == <<quotes_vars, gateway_vars, metrics_vars>>

DeskInit == QuotesInit /\ GatewayInit /\ MetricsInit

\* The instrument while it does not matter.
QuotesRest == QuotesInit /\ tick_text = CHOOSE text \in InstrumentTicks : TRUE

\* A step of one, the others being at rest.
OfQuotes(step) == GatewayInit /\ MetricsInit /\ step /\ UNCHANGED <<gateway_vars, metrics_vars>>

OfGateway(step) == QuotesRest /\ MetricsInit /\ step /\ UNCHANGED <<quotes_vars, metrics_vars>>

OfMetrics(step) == QuotesRest /\ GatewayInit /\ step /\ UNCHANGED <<quotes_vars, gateway_vars>>

DeskNext == OfQuotes(QuotesNext) \/ OfGateway(GatewayNext) \/ OfMetrics(MetricsNext)

\* That of the gateway, which is the only one of the three to need any.
DeskFairness ==
    \A k \in 1 .. MaxRequests : WF_desk_vars(OfGateway(k \in RequestIndexes /\ TaskEnds(k)))

DeskSpec == DeskInit /\ [][DeskNext]_desk_vars /\ DeskFairness
=============================================================================
