--------------------------- MODULE PrivateStream ----------------------------
(***************************************************************************)
(* The thread of the private websocket (exchange/src/bybit/private_ws.rs), *)
(* item by item: a message about orders or executions carries several,     *)
(* of the bot and of others, and each is converted and sent before the     *)
(* next is looked at.                                                      *)
(*                                                                         *)
(* Of an item the thread looks at the order link id: an order placed by    *)
(* hand has none, one of another program may have a text that is no number *)
(* and whose conversion panics.  The number of an item says which it is.   *)
(***************************************************************************)
EXTENDS Integers, Sequences, SequencesExt

CONSTANTS
    MaxItemsReceived,   \* bound: items in a message
    MaxReceived         \* bound: items received

ASSUME PrivateStreamAssumption == MaxItemsReceived \in Nat /\ MaxReceived \in Nat

VARIABLES
    status,          \* "running", "ended" or "aborted"
    topic,           \* of the message that is processed
    items,           \* items of it that are not processed
    at_recorder,     \* is the first of them at the OMS but not yet at the recorder?
    to_oms,          \* what was sent to the OMS
    to_recorder,     \* what was sent to the recorder
    received         \* every item of every message (history)

stream_vars == <<status, topic, items, at_recorder, to_oms, to_recorder, received>>

Topics == {"order", "execution"}
LinkIds == {"number", "empty", "text"}
Items == [topic : Topics, link_id : LinkIds, number : 1 .. MaxReceived]

StreamInit ==
    /\ status = "running"
    /\ topic = "order"
    /\ items = <<>>
    /\ at_recorder = FALSE
    /\ to_oms = <<>>
    /\ to_recorder = <<>>
    /\ received = <<>>

\* A message of a topic; answers to operations and pongs change nothing.
Receive(new_topic, link_ids) ==
    /\ status = "running" /\ items = <<>>
    /\ Len(received) + Len(link_ids) <= MaxReceived
    /\ topic' = new_topic
    /\ items' = [i \in DOMAIN link_ids |->
                     [topic |-> new_topic, link_id |-> link_ids[i], number |-> Len(received) + i]]
    /\ received' = received \o items'
    /\ UNCHANGED <<status, at_recorder, to_oms, to_recorder>>

\* The next item, before anything is sent of it.
NextIs(link_id) ==
    status = "running" /\ items # <<>> /\ ~at_recorder /\ Head(items).link_id = link_id

\* Defect: the rest of the message is left with the item.
ReturnOnUnlinked ==
    /\ NextIs("empty")
    /\ items' = <<>>
    /\ UNCHANGED <<status, topic, at_recorder, to_oms, to_recorder, received>>

\* continue
SkipUnlinked ==
    /\ NextIs("empty")
    /\ items' = Tail(items)
    /\ UNCHANGED <<status, topic, at_recorder, to_oms, to_recorder, received>>

\* u64::from_str(order_link_id).unwrap() in From, of which the release build aborts.
PanicOnText ==
    /\ NextIs("text")
    /\ status' = "aborted"
    /\ UNCHANGED <<topic, items, at_recorder, to_oms, to_recorder, received>>

SendToOms ==
    /\ NextIs("number")
    /\ to_oms' = Append(to_oms, Head(items))
    /\ IF topic = "execution" THEN at_recorder' = TRUE /\ UNCHANGED items
                              ELSE items' = Tail(items) /\ UNCHANGED at_recorder
    /\ UNCHANGED <<status, topic, to_recorder, received>>

\* An execution goes to the recorder after the OMS.
SendToRecorder ==
    /\ status = "running" /\ at_recorder
    /\ to_recorder' = Append(to_recorder, Head(items))
    /\ items' = Tail(items)
    /\ at_recorder' = FALSE
    /\ UNCHANGED <<status, topic, to_oms, received>>

\* client.run returns, between two messages, with an error or not.
ConnectionEnds ==
    /\ status = "running" /\ items = <<>>
    /\ status' = "ended"
    /\ UNCHANGED <<topic, items, at_recorder, to_oms, to_recorder, received>>

StreamNext ==
    \/ \E new_topic \in Topics, link_ids \in SeqOf(LinkIds, MaxItemsReceived) \ {<<>>} :
           Receive(new_topic, link_ids)
    \/ SkipUnlinked
    \/ PanicOnText
    \/ SendToOms
    \/ SendToRecorder
    \/ ConnectionEnds

StreamSpec == StreamInit /\ [][StreamNext]_stream_vars

-----------------------------------------------------------------------------
\* What is received, processed and sent are items.
StreamTypeOK ==
    /\ status \in {"running", "ended", "aborted"}
    /\ topic \in Topics
    /\ items \in Seq(Items)
    /\ at_recorder \in BOOLEAN
    /\ to_oms \in Seq(Items)
    /\ to_recorder \in Seq(Items)
    /\ received \in Seq(Items)

\* Those of a sequence of items that are of some kinds, in their order.
OnlyOf(kinds, events) ==
    LET kept[n \in 0 .. Len(events)] ==
            IF n = 0 THEN <<>>
            ELSE IF events[n] \in kinds THEN Append(kept[n - 1], events[n]) ELSE kept[n - 1]
    IN  kept[Len(events)]

Linked == OnlyOf({item \in Items : item.link_id = "number"}, received)

ExecutionsIn(events) == OnlyOf({event \in Items : event.topic = "execution"}, events)

\* Whatever else a message carries, every item with a number for a link id reaches the OMS,
\* every execution among them the recorder as well, both in the order of the stream; and in
\* the middle of a message, where the process may be aborted, the recorder has nothing the
\* OMS has not got and is at most one execution behind (the loops of process_response).
LinkedItemsAreForwarded ==
    /\ IsPrefix(to_oms, Linked)
    /\ IsPrefix(to_recorder, ExecutionsIn(to_oms))
    /\ Len(ExecutionsIn(to_oms)) <= Len(to_recorder) + 1
    /\ items = <<>> => to_oms = Linked /\ to_recorder = ExecutionsIn(Linked)
=============================================================================
