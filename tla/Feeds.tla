------------------------------- MODULE Feeds --------------------------------
(***************************************************************************)
(* The threads that live on what the exchange sends: the public websocket, *)
(* the private websocket and the recorder.  They share two channels into   *)
(* the recorder and nothing else, and the module of each lets the other    *)
(* end of a channel do whatever it may: so a behaviour of this module      *)
(* moves one of them while the other two rest, and what is checked of each *)
(* holds beside the others.                                                *)
(***************************************************************************)
EXTENDS OrderBook, PrivateStream, Recorder

feeds_vars == <<book_vars, stream_vars, recorder_vars>>

FeedsInit == BookInit /\ StreamInit /\ RecorderInit

\* A step of one, the others being at rest.
OfBook(step) == StreamInit /\ RecorderInit /\ step /\ UNCHANGED <<stream_vars, recorder_vars>>

OfStream(step) == BookInit /\ RecorderInit /\ step /\ UNCHANGED <<book_vars, recorder_vars>>

OfRecorder(step) == BookInit /\ StreamInit /\ step /\ UNCHANGED <<book_vars, stream_vars>>

FeedsNext == OfBook(BookNext) \/ OfStream(StreamNext) \/ OfRecorder(RecorderNext)

\* That of the recorder, which is the only one of the three to need any.
FeedsFairness ==
    /\ WF_feeds_vars(OfRecorder(TimePasses))
    /\ WF_feeds_vars(OfRecorder(BookArrives(TRUE)))
    /\ WF_feeds_vars(OfRecorder(ExecutionArrives))
    /\ WF_feeds_vars(OfRecorder(Cycle))

FeedsSpec == FeedsInit /\ [][FeedsNext]_feeds_vars /\ FeedsFairness

-----------------------------------------------------------------------------
\* The variables of the three have their types: the books and the messages they are made
\* of, the items of the private stream, and the executions and markouts of the recorder.
TypeOK == BookTypeOK /\ StreamTypeOK /\ RecorderTypeOK
=============================================================================
