-------------------------- MODULE I2cListenerView --------------------------
(***************************************************************************)
(* I2CListenerRenderer: the listener's callback extends a run-length list  *)
(* of the messages, newest first, and a rendering walks it.  The callback  *)
(* comes from the simulation thread and the rendering from that of the     *)
(* user interface, with no lock: a callback during a walk is a data race   *)
(* (emplace_front invalidates the walk's iterator), and the model stops    *)
(* there.                                                                  *)
(***************************************************************************)
EXTENDS SimI2cListener

VARIABLES
  receivedMessages,  \* ReceivedMessages_: [msg, count]
  walking,           \* whether a rendering walks the list
  shown,             \* the entries rendered by the walk, or by the last one
  raced              \* the list was changed during a walk: undefined behaviour

viewVars == <<receivedMessages, walking, shown, raced>>

ViewInit ==
  /\ ListenerInit
  /\ receivedMessages = <<>> /\ walking = FALSE /\ shown = <<>> /\ raced = FALSE

Entry(message, count) == [msg |-> message, count |-> count]

\* Mutant: messages are compared by their address.
MutantSameAsLast(message) ==
  receivedMessages # <<>> /\ Head(receivedMessages).msg.Address = message.Address

\* Message's operator== compares all of it.
SameAsLast(message) == receivedMessages # <<>> /\ Head(receivedMessages).msg = message

\* The count begins at zero: it is how often the message came again.
OnI2cMessage(message) ==
  /\ receivedMessages' = IF SameAsLast(message)
                         THEN [receivedMessages EXCEPT ![1].count = @ + 1]
                         ELSE <<Entry(message, 0)>> \o receivedMessages
  /\ raced' = walking

\* A message of the bus and, if it ends a transaction, the callback.
ViewedBusMessage ==
  /\ ListenerNext
  /\ IF callbacks' = callbacks THEN UNCHANGED <<receivedMessages, raced>>
                               ELSE OnI2cMessage(Last(callbacks'))
  /\ UNCHANGED <<walking, shown>>

BeginRender ==
  /\ ~walking
  /\ walking' = TRUE
  /\ shown' = <<>>
  /\ UNCHANGED <<receivedMessages, raced, link, lVars>>

RenderMessage ==
  /\ walking /\ Len(shown) < Len(receivedMessages)
  /\ shown' = Append(shown, receivedMessages[Len(shown) + 1])
  /\ UNCHANGED <<receivedMessages, walking, raced, link, lVars>>

EndRender ==
  /\ walking /\ Len(shown) = Len(receivedMessages)
  /\ walking' = FALSE
  /\ UNCHANGED <<receivedMessages, shown, raced, link, lVars>>

RenderI2CListener == BeginRender \/ RenderMessage \/ EndRender

ViewNext == ~raced /\ (ViewedBusMessage \/ RenderI2CListener)

ViewSpec == ViewInit /\ [][ViewNext]_<<link, lVars, viewVars>>

-----------------------------------------------------------------------------
(* Properties                                                              *)

\* The entries, newest first, are the runs of the first n messages: entry i
\* stands for the messages after ends[i + 1] up to ends[i].
AreRunsOf(entries, messages, n) ==
  \E ends \in [1 .. Len(entries) + 1 -> 0 .. n] :
    /\ ends[1] = n /\ ends[Len(entries) + 1] = 0
    /\ \A i \in 1 .. Len(entries) :
         /\ ends[i] = ends[i + 1] + entries[i].count + 1
         /\ \A k \in ends[i + 1] + 1 .. ends[i] : messages[k] = entries[i].msg

(***************************************************************************)
(* The view's list stands for the messages received, all of them and in    *)
(* order, and its runs are as long as they can be; and what a rendering    *)
(* has shown, if no message came in between, stands for the messages       *)
(* received before it: it lags behind and never makes one up               *)
(* (i2c_listener_renderer.cpp:46-72).                                      *)
(***************************************************************************)
RunsStandForTheMessages ==
  ~raced =>
    /\ AreRunsOf(receivedMessages, callbacks, Len(callbacks))
    /\ \A i \in 1 .. Len(receivedMessages) - 1 :
         receivedMessages[i].msg # receivedMessages[i + 1].msg
    /\ ~walking => \E n \in 0 .. Len(callbacks) : AreRunsOf(shown, callbacks, n)
=============================================================================
