--------------------------- MODULE SimI2cListener ---------------------------
(***************************************************************************)
(* SimI2CListener: records the bus traffic as one Message per transaction. *)
(* It hangs on both directions of the bus: messages of the AVR and replies *)
(* of the devices.  A device replies while the AVR's message is still      *)
(* being dispatched, so whether the listener sees the reply before or      *)
(* after the message it answers depends on who was connected first.        *)
(***************************************************************************)
EXTENDS TwiMaster, FiniteSets, Sequences, SequencesExt

CONSTANTS
  Answers,       \* replies of the devices to a READ: data, or silence
  MaxFinished,   \* 100: capacity of FinishedMessages_
  MaxMessages    \* bound: messages of the AVR in a behaviour

ASSUME ListenerAssumption ==
  Answers \subseteq Reply /\ MaxFinished \in Nat /\ MaxMessages \in Nat

VARIABLES
  inProgress,      \* MessageInProgress_, as a sequence of at most one Message
  finished,        \* FinishedMessages_, newest first
  badDereference,  \* an empty optional was dereferenced: undefined behaviour
  repliesFirst,    \* whether the listener's OUTPUT hook runs after the devices'
  attachedIdle,    \* history: the listener was constructed on an idle bus
  callbacks,       \* history: Messages MessageCallbackFn_ was called with
  traffic          \* history: the AVR's messages, with the devices' answers

lVars == <<inProgress, finished, badDereference, repliesFirst,
           attachedIdle, callbacks, traffic>>

NoType == "none"
LMessage ==
  [Address : 0 .. 127, Type : {NoType, "Read", "Write"}, RepeatedStart : BOOLEAN,
   WriteBuffer : Seq(Byte), ReadBuffer : Seq(Byte)]

ListenerInit ==
  /\ inProgress = <<>>
  /\ finished = <<>>
  /\ badDereference = FALSE
  /\ repliesFirst \in BOOLEAN
  /\ LinkInit
  /\ attachedIdle = (link = Free)
  /\ callbacks = <<>>
  /\ traffic = <<>>

-----------------------------------------------------------------------------
(* What one message or reply does to the message in progress               *)

NewMessage(address) ==
  [Address |-> address, Type |-> NoType, RepeatedStart |-> FALSE,
   WriteBuffer |-> <<>>, ReadBuffer |-> <<>>]

\* Mutant: a repeated START begins a new message.
MutantStarted(current, m) == <<NewMessage(m.dev)>>

\* Mutant: a repeated START drops the message in progress.
MutantRestarted(current, m) ==
  IF current = <<>> THEN <<NewMessage(m.dev)>> ELSE <<>>

Started(current, m) ==
  IF current = <<>> THEN <<NewMessage(m.dev)>>
  ELSE <<[current[1] EXCEPT !.RepeatedStart = TRUE]>>

\* OnMessageFromAvr but for STOP; without a message in progress WRITE and
\* READ are logged and dropped.
FromAvr(current, m) ==
  CASE m.cond = "START" -> Started(current, m)
    [] m.cond = "WRITE" /\ current # <<>> ->
         <<[current[1] EXCEPT !.Type = "Write", !.WriteBuffer = Append(@, m.data)]>>
    [] m.cond = "READ" /\ current # <<>> -> <<[current[1] EXCEPT !.Type = "Read"]>>
    [] OTHER -> current

\* OnMessageToAvr: only a reply that carries data counts.
ToAvr(current, r) ==
  IF r.kind = "data" /\ current # <<>>
  THEN <<[current[1] EXCEPT !.ReadBuffer = Append(@, r.data)]>>
  ELSE current

\* The reply of a device to m: an acknowledgement, or the answer to a READ.
Replies(m) == IF m.cond = "READ" THEN Answers ELSE {Ack}

\* The message and its reply, in the order the listener's hooks run.
Exchange(m, r) ==
  IF repliesFirst THEN FromAvr(ToAvr(inProgress, r), m)
                  ELSE ToAvr(FromAvr(inProgress, m), r)

Transferred(m, r) ==
  /\ m.cond # "STOP"
  /\ inProgress' = Exchange(m, r)
  /\ badDereference' = (badDereference \/ (r.kind = "data" /\ inProgress = <<>>))
  /\ UNCHANGED <<finished, callbacks>>

\* Mutant: the oldest messages are kept.
MutantFinish(message) ==
  finished' = IF Len(finished) < MaxFinished THEN <<message>> \o finished ELSE finished

\* Newest first, and no more than MaxFinished.
Finish(message) ==
  finished' = SubSeq(<<message>> \o finished, 1,
                     IF Len(finished) < MaxFinished THEN Len(finished) + 1 ELSE MaxFinished)

Stopped(m) ==
  /\ m.cond = "STOP"
  /\ \/ /\ inProgress # <<>>
        /\ Finish(inProgress[1])
        /\ callbacks' = Append(callbacks, inProgress[1])
        /\ inProgress' = <<>>
     \/ /\ inProgress = <<>>
        /\ UNCHANGED <<finished, callbacks, inProgress>>
  /\ UNCHANGED badDereference

-----------------------------------------------------------------------------
(* The specification                                                       *)

BusMessage(m, r) ==
  /\ ~badDereference
  /\ Len(traffic) < MaxMessages
  /\ traffic' = Append(traffic, [message |-> m, reply |-> r])
  /\ Emit(m)
  /\ Transferred(m, r) \/ Stopped(m)
  /\ UNCHANGED <<repliesFirst, attachedIdle>>

ListenerNext == \E m \in Offered : \E r \in Replies(m) : BusMessage(m, r)

ListenerSpec == ListenerInit /\ [][ListenerNext]_<<link, lVars>>

-----------------------------------------------------------------------------
(* Properties                                                              *)

\* The exchanges a reader of the traffic would take down: since the last
\* STOP, from the first START on.
Heard ==
  {i \in DOMAIN traffic :
     /\ \A j \in DOMAIN traffic : traffic[j].message.cond = "STOP" => j < i
     /\ \E j \in DOMAIN traffic :
          /\ traffic[j].message.cond = "START" /\ j <= i
          /\ \A k \in DOMAIN traffic : traffic[k].message.cond = "STOP" => k < j}

HeardOf(conds) == {i \in Heard : traffic[i].message.cond \in conds}

\* bytes are the values of said, in the order of its domain.
InOrder(bytes, said) ==
  /\ Len(bytes) = Cardinality(DOMAIN said)
  /\ \A i \in DOMAIN said : bytes[Cardinality({j \in DOMAIN said : j <= i})] = said[i]

\* It begins with the first START and carries every byte after it, in order.
Transcribes(message) ==
  /\ \A i \in HeardOf({"START"}) :
       (\A j \in HeardOf({"START"}) : i <= j) => message.Address = traffic[i].message.dev
  /\ message.RepeatedStart = (\E i, j \in HeardOf({"START"}) : i # j)
  /\ IF HeardOf({"WRITE", "READ"}) = {} THEN message.Type = NoType
     ELSE \A i \in HeardOf({"WRITE", "READ"}) :
            (\A j \in HeardOf({"WRITE", "READ"}) : j <= i) =>
              message.Type = IF traffic[i].message.cond = "WRITE" THEN "Write" ELSE "Read"
  /\ InOrder(message.WriteBuffer, [i \in HeardOf({"WRITE"}) |-> traffic[i].message.data])
  /\ InOrder(message.ReadBuffer,
             [i \in {j \in Heard : traffic[j].reply.kind = "data"} |-> traffic[i].reply.data])

Conds == {traffic[i].message.cond : i \in DOMAIN traffic}

(***************************************************************************)
(* The message in progress is the transcript of the transaction in         *)
(* progress, whether the devices' replies reach the listener before or     *)
(* after the messages they answer.                                         *)
(***************************************************************************)
InProgressIsTheTranscript ==
  ~badDereference =>
    IF Heard = {} THEN inProgress = <<>>
    ELSE Len(inProgress) = 1 /\ Transcribes(inProgress[1])

\* GetFinishedMessages holds the latest messages, newest first, and none of
\* those MessageCallbackFn_ was called with is missing or doubled.
FinishedAreTheLatest ==
  finished = Reverse(SubSeq(callbacks, Len(callbacks) - Len(finished) + 1, Len(callbacks)))
  /\ Len(finished) = IF Len(callbacks) < MaxFinished THEN Len(callbacks) ELSE MaxFinished

(***************************************************************************)
(* The listener dereferences an empty optional only if it was constructed  *)
(* in the middle of a transaction, and then only in that transaction: one  *)
(* START or STOP later it follows the bus.                                 *)
(***************************************************************************)
OnlyALateListenerDereferencesNothing ==
  badDereference => ~attachedIdle /\ Conds \cap {"START", "STOP"} = {}
=============================================================================
