----------------------------- MODULE FtxuiHost -----------------------------
(***************************************************************************)
(* The simulator under a user interface: FtxUiSimulatedAvr::BlockingLoop   *)
(* in a thread of its own, the user interface in another.  The interface   *)
(* posts closures, which the loop runs between two cycles of the AVR; they *)
(* work a bouncy switch.  A cycle may call the switch's timer, or hand a   *)
(* UART byte to the log view.  The application's part is taken from what   *)
(* these classes are made for: closures that make one request of the       *)
(* switch, and a virtual OnUartByteReceived that feeds the line buffers.   *)
(***************************************************************************)
EXTENDS BouncySwitch, LogView

CONSTANTS
  Posted,      \* requests the interface may post
  MaxPosted    \* bound: closures posted in a behaviour

ASSUME HostAssumption == Posted \subseteq Requests /\ MaxPosted \in Nat

VARIABLES
  avrState,    \* Avr_->state, as far as the loop looks: "Running", or "Done" and crashed
  keepGoing,   \* the flag the interface clears to end the loop
  at,          \* where the simulation thread is
  closures,    \* the receiver's queue
  posted       \* history: the requests posted

loopVars == <<avrState, keepGoing, at, closures, posted>>
hostVars == <<switchVars, logVars, loopVars>>

HostTypeOK ==
  /\ SwitchTypeOK
  /\ LogTypeOK
  /\ avrState \in {"Running", "Done"}
  /\ keepGoing \in BOOLEAN
  /\ at \in {"head", "drain", "insert", "ended"}
  /\ closures \in Seq(Posted) /\ posted \in Seq(Posted)

HostInit ==
  /\ SwitchInit
  /\ LogInit
  /\ avrState = "Running" /\ keepGoing = TRUE /\ at = "head"
  /\ closures = <<>> /\ posted = <<>>

-----------------------------------------------------------------------------
(* The simulation thread                                                   *)

\* The loop's condition.
LoopHead ==
  /\ at = "head"
  /\ at' = IF avrState = "Running" /\ keepGoing THEN "drain" ELSE "ended"
  /\ UNCHANGED <<avrState, keepGoing, closures, posted>>
  /\ UNCHANGED switchVars /\ UNCHANGED logVars

\* Mutant: one closure in a cycle, and the rest of them dropped.
MutantRunClosure ==
  /\ at = "drain" /\ closures # <<>>
  /\ Request(Head(closures))
  /\ closures' = <<>>
  /\ UNCHANGED <<avrState, keepGoing, at, posted>> /\ UNCHANGED logVars

\* ReceiveNonBlocking, and the closure's call.
RunClosure ==
  /\ at = "drain" /\ closures # <<>>
  /\ Request(Head(closures))
  /\ closures' = Tail(closures)
  /\ UNCHANGED <<avrState, keepGoing, at, posted>> /\ UNCHANGED logVars

\* avr_run: the queue was found empty.  A cycle in which the switch's timer is
\* due, one in which a UART hands out a byte, or one like any other; it may
\* be the AVR's last.
Cycle ==
  /\ at = "drain" /\ closures = <<>>
  /\ avrState' \in {"Running", "Done"}
  /\ UNCHANGED <<keepGoing, closures, posted>>

TimerCycle ==
  /\ Cycle
  /\ OnBounce
  /\ at' = "head"
  /\ UNCHANGED logVars

UartCycle ==
  /\ Cycle
  /\ \E n \in Serials, byte \in Bytes : UartByte(n, byte)
  /\ at' = IF pendingLine' = <<>> THEN "head" ELSE "insert"
  /\ UNCHANGED switchVars

OtherCycle ==
  /\ Cycle
  /\ at' = "head"
  /\ UNCHANGED switchVars /\ UNCHANGED logVars

\* The thread waits for the log's mutex in the middle of a cycle.
InsertLine ==
  /\ at = "insert"
  /\ Insert
  /\ at' = "head"
  /\ UNCHANGED <<avrState, keepGoing, closures, posted>> /\ UNCHANGED switchVars

Simulation == LoopHead \/ RunClosure \/ TimerCycle \/ UartCycle \/ OtherCycle \/ InsertLine

-----------------------------------------------------------------------------
(* The user interface                                                      *)

Post(r) ==
  /\ Len(posted) < MaxPosted
  /\ posted' = Append(posted, r)
  /\ closures' = Append(closures, r)
  /\ UNCHANGED <<avrState, keepGoing, at>> /\ UNCHANGED switchVars /\ UNCHANGED logVars

\* The user ends the program.
End ==
  /\ keepGoing' = FALSE
  /\ UNCHANGED <<avrState, at, closures, posted>> /\ UNCHANGED switchVars /\ UNCHANGED logVars

Rendering == Render /\ UNCHANGED loopVars /\ UNCHANGED switchVars
ScrollEvent == OnEvent /\ UNCHANGED loopVars /\ UNCHANGED switchVars

\* The thread that renders posts and ends in between renderings.
Interface ==
  \/ M = "free" /\ ((\E r \in Posted : Post(r)) \/ End)
  \/ Rendering
  \/ ScrollEvent

HostNext == Simulation \/ Interface

\* The simulation thread runs; the AVR's clock reaches the cycle a timer is
\* registered for; a rendering that was begun goes on.
HostFairness ==
  /\ WF_hostVars(Simulation)
  /\ SF_hostVars(TimerCycle)
  /\ WF_hostVars(Rendering)

HostSpec == HostInit /\ [][HostNext]_hostVars /\ HostFairness

-----------------------------------------------------------------------------
(* Properties                                                              *)

FinalLevel(r) == Last(Shifts(r)).TargetValue

(***************************************************************************)
(* What the user does to the switch arrives: a posted request is run, the  *)
(* timer works it off and the pin settles at the level it ends with --     *)
(* unless the loop ends first, or requests pile up or a delay of zero      *)
(* disturbs the timer chain (ftxui_simulated_avr.cpp:83-89,                *)
(* sim_bouncy_switch.cpp:52-87).                                           *)
(***************************************************************************)
PostedRequestSettles ==
  closures # <<>> ~> \/ at = "ended"
                     \/ disturbed
                     \/ /\ closures = <<>> /\ PendingShifts = <<>>
                        /\ posted # <<>> /\ pin = FinalLevel(Last(posted))

\* The simulation thread never waits for the mutex for good: a rendering
\* always lets go of it (locked_dequeue.hpp:18-24).
LinesGetIn == pendingLine # <<>> ~> pendingLine = <<>>
=============================================================================
