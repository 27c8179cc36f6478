---------------------------- MODULE BouncySwitch ----------------------------
(***************************************************************************)
(* SimBouncySwitch: a switch on a pin of the AVR.  Every request queues    *)
(* one or two level shifts; one cycle timer works the queue off, bouncing  *)
(* the pin some times before it settles at the shift's level.  Requests    *)
(* and the timer run in the simulation thread.                             *)
(*                                                                         *)
(* A timer callback returns the cycle of its next call, and the simulator  *)
(* (avr_cycle_timer_process) ends the chain unless that is later than the  *)
(* cycle of the present call: so a delay of zero ends it as well.          *)
(***************************************************************************)
EXTENDS Integers, SequencesExt

CONSTANTS
  ClosedValue,  \* ClosedValue_: the pin's level when the switch is closed
  BounceCount,  \* 10: how often a shift bounces
  HoldTimes     \* arguments of CloseForMs and OpenForMs

ASSUME SwitchAssumption ==
  ClosedValue \in BOOLEAN /\ BounceCount \in Nat /\ HoldTimes \subseteq Nat

VARIABLES
  PendingShifts,   \* PendingShifts_
  bounceTimer,     \* whether OnBounce is registered as a cycle timer
  pin,             \* the level last raised on Pin_
  BouncingValue,   \* BouncingValue_, which the constructor leaves undefined
  requested,       \* history: the level the last request ends with
  disturbed        \* history: what the last undisturbed request waits for may not come

switchVars == <<PendingShifts, bounceTimer, pin, BouncingValue, requested, disturbed>>

LevelShift(target, hold) ==
  [BounceCount |-> BounceCount, TargetValue |-> target, HoldTime |-> hold]

Shift == [BounceCount : 0 .. BounceCount, TargetValue : BOOLEAN, HoldTime : HoldTimes \cup {0}]

SwitchTypeOK ==
  /\ PendingShifts \in Seq(Shift)
  /\ bounceTimer \in BOOLEAN
  /\ pin \in BOOLEAN
  /\ BouncingValue \in BOOLEAN
  /\ requested \in BOOLEAN
  /\ disturbed \in BOOLEAN

SwitchInit ==
  /\ PendingShifts = <<>>
  /\ bounceTimer = FALSE
  /\ pin = ~ClosedValue
  /\ BouncingValue \in BOOLEAN
  /\ requested = ~ClosedValue
  /\ disturbed = FALSE

-----------------------------------------------------------------------------
(* Requests                                                                *)

Requests ==
  [op : {"CloseForMs", "OpenForMs"}, ms : HoldTimes] \cup [op : {"Set"}, value : BOOLEAN]

\* Close and Open are Set with a level of their own.
CloseRequest == [op |-> "Set", value |-> ClosedValue]
OpenRequest == [op |-> "Set", value |-> ~ClosedValue]

Shifts(r) ==
  CASE r.op = "CloseForMs" -> <<LevelShift(ClosedValue, r.ms), LevelShift(~ClosedValue, 0)>>
    [] r.op = "OpenForMs" -> <<LevelShift(~ClosedValue, r.ms), LevelShift(ClosedValue, 0)>>
    [] r.op = "Set" -> <<LevelShift(r.value, 0)>>

\* The one timer: registering it again takes it off the list first.
RestartBounces == bounceTimer' = TRUE

\* Mutant: the shift that ends a timed request is not queued.
MutantRequest(r) ==
  /\ PendingShifts' = Append(PendingShifts, Head(Shifts(r)))
  /\ RestartBounces
  /\ requested' = Last(Shifts(r)).TargetValue
  /\ disturbed' = (PendingShifts # <<>>)
  /\ UNCHANGED <<pin, BouncingValue>>

Request(r) ==
  /\ PendingShifts' = PendingShifts \o Shifts(r)
  /\ RestartBounces
  /\ requested' = Last(Shifts(r)).TargetValue
  /\ disturbed' = (PendingShifts # <<>> \/ (Len(Shifts(r)) = 2 /\ r.ms = 0))
  /\ UNCHANGED <<pin, BouncingValue>>

-----------------------------------------------------------------------------
(* The timer                                                               *)

\* Mutant: the hold time is read after the shift was popped.
MutantSettleShift ==
  /\ PendingShifts[1].BounceCount = 0
  /\ pin' = PendingShifts[1].TargetValue
  /\ PendingShifts' = Tail(PendingShifts)
  /\ bounceTimer' = (PendingShifts' # <<>> /\ PendingShifts'[1].HoldTime > 0)
  /\ UNCHANGED <<BouncingValue, requested, disturbed>>

\* Mutant: the chain goes on whatever is left.
MutantKeepBouncing ==
  /\ PendingShifts[1].BounceCount = 0
  /\ pin' = PendingShifts[1].TargetValue
  /\ PendingShifts' = Tail(PendingShifts)
  /\ bounceTimer' = TRUE
  /\ UNCHANGED <<BouncingValue, requested, disturbed>>

\* All bounces done: the pin takes the shift's level, and the next shift's
\* bounces begin after this one's hold time.
SettleShift ==
  /\ PendingShifts[1].BounceCount = 0
  /\ pin' = PendingShifts[1].TargetValue
  /\ PendingShifts' = Tail(PendingShifts)
  /\ bounceTimer' = (PendingShifts' # <<>> /\ PendingShifts[1].HoldTime > 0)
  /\ UNCHANGED <<BouncingValue, requested, disturbed>>

\* One bounce; the pseudo-random delay until the next may be zero.
BounceOnce ==
  /\ PendingShifts[1].BounceCount > 0
  /\ PendingShifts' = [PendingShifts EXCEPT ![1].BounceCount = @ - 1]
  /\ BouncingValue' \in BOOLEAN
  /\ pin' = BouncingValue'
  /\ bounceTimer' \in BOOLEAN
  /\ disturbed' = (disturbed \/ ~bounceTimer')
  /\ UNCHANGED requested

OnBounce == bounceTimer /\ (SettleShift \/ BounceOnce)

SwitchNext == (\E r \in Requests : Request(r)) \/ OnBounce

SwitchSpec == SwitchInit /\ [][SwitchNext]_switchVars

-----------------------------------------------------------------------------
(* Properties                                                              *)

\* OnBounce, which looks at the front of the queue at once, is never called
\* on an empty queue: reading that is undefined (sim_bouncy_switch.cpp:64).
TimerHasWork == bounceTimer => PendingShifts # <<>>

(***************************************************************************)
(* Whatever bounced in between, and however requests piled up: when the    *)
(* queue is empty the pin has the level the last request ends with         *)
(* (sim_bouncy_switch.cpp:25-50, 64-65).                                   *)
(***************************************************************************)
SettledAtTheLastRequest == PendingShifts = <<>> => pin = requested

(***************************************************************************)
(* The timer chain does not end with shifts left in the queue, as the      *)
(* comment "set to bounce again after the hold time" has it                *)
(* (sim_bouncy_switch.cpp:66-67): not unless a request was queued behind   *)
(* an unfinished one, holds for no time, or a delay of zero was drawn.     *)
(***************************************************************************)
SpacedRequestsNeverStall == (PendingShifts # <<>> /\ ~disturbed) => bounceTimer
=============================================================================
