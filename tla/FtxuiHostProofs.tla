-------------------------- MODULE FtxuiHostProofs --------------------------
(***************************************************************************)
(* Proofs about the simulator under its user interface: first the switch   *)
(* by itself, for every number of bounces and every hold time, then that   *)
(* the host works it as its specification says, then the log view.         *)
(***************************************************************************)
EXTENDS FtxuiHost, SequenceTheorems, TLAPS

-----------------------------------------------------------------------------
(* The switch                                                              *)

LEMMA LevelShiftType ==
  ASSUME NEW target \in BOOLEAN, NEW hold \in HoldTimes \cup {0}
  PROVE LevelShift(target, hold) \in Shift
BY SwitchAssumption DEF LevelShift, Shift

\* A request is one shift, or one with a hold time and one without.
LEMMA ShiftsOfRequest ==
  ASSUME NEW r \in Requests
  PROVE \/ \E target \in BOOLEAN : Shifts(r) = <<LevelShift(target, 0)>>
        \/ \E target \in BOOLEAN : /\ r.ms \in HoldTimes
                                   /\ Shifts(r) = <<LevelShift(target, r.ms), LevelShift(~target, 0)>>
<1>1. CASE r \in [op : {"Set"}, value : BOOLEAN]
  BY <1>1 DEF Shifts
<1>2. CASE r \in [op : {"CloseForMs", "OpenForMs"}, ms : HoldTimes]
  <2>1. ClosedValue \in BOOLEAN /\ (~ClosedValue) \in BOOLEAN
    BY SwitchAssumption
  <2>2. CASE r.op = "CloseForMs"
    BY <1>2, <2>1, <2>2 DEF Shifts
  <2>3. CASE r.op = "OpenForMs"
    <3>1. Shifts(r) = <<LevelShift(~ClosedValue, r.ms), LevelShift(ClosedValue, 0)>>
      BY <2>3 DEF Shifts
    <3>2. ClosedValue = ~(~ClosedValue)
      BY <2>1
    <3> QED
      BY <1>2, <2>1, <3>1, <3>2
  <2> QED
    BY <1>2, <2>2, <2>3
<1> QED
  BY <1>1, <1>2 DEF Requests

\* The queue ends with the level last requested.
EndsAsRequested ==
  IF PendingShifts = <<>> THEN pin = requested
  ELSE PendingShifts[Len(PendingShifts)].TargetValue = requested

\* An undisturbed queue holds one shift, or two with a hold between them, and
\* is being worked off.
WorkedOff ==
  (~disturbed /\ PendingShifts # <<>>)
    => /\ bounceTimer
       /\ \/ Len(PendingShifts) = 1
          \/ Len(PendingShifts) = 2 /\ PendingShifts[1].HoldTime > 0

SwitchIInv == SwitchTypeOK /\ TimerHasWork /\ EndsAsRequested /\ WorkedOff

LEMMA RequestStep ==
  ASSUME SwitchIInv, NEW r \in Requests, Request(r)
  PROVE SwitchIInv'
<1> DEFINE S == Shifts(r)
<1>1. /\ S \in Seq(Shift)
      /\ Len(S) \in {1, 2}
      /\ S[Len(S)].TargetValue \in BOOLEAN
      /\ Len(S) = 2 => S[1].HoldTime = r.ms /\ r.ms \in HoldTimes
  <2>1. CASE \E target \in BOOLEAN : S = <<LevelShift(target, 0)>>
    <3>1. PICK target \in BOOLEAN : S = <<LevelShift(target, 0)>>
      BY <2>1
    <3>2. LevelShift(target, 0) \in Shift /\ LevelShift(target, 0).TargetValue = target
      BY LevelShiftType DEF LevelShift
    <3> HIDE DEF S
    <3> QED
      BY <3>1, <3>2
  <2>2. CASE \E target \in BOOLEAN : /\ r.ms \in HoldTimes
                                     /\ S = <<LevelShift(target, r.ms), LevelShift(~target, 0)>>
    <3>1. PICK target \in BOOLEAN : /\ r.ms \in HoldTimes
                                    /\ S = <<LevelShift(target, r.ms), LevelShift(~target, 0)>>
      BY <2>2
    <3>2. LevelShift(target, r.ms) \in Shift /\ LevelShift(~target, 0) \in Shift
      BY <3>1, LevelShiftType
    <3>3. LevelShift(target, r.ms).HoldTime = r.ms /\ LevelShift(~target, 0).TargetValue = ~target
      BY DEF LevelShift
    <3> HIDE DEF S
    <3>4. Len(S) = 2 /\ S[1] = LevelShift(target, r.ms) /\ S[2] = LevelShift(~target, 0)
      BY <3>1
    <3>5. S \in Seq(Shift)
      BY <3>1, <3>2
    <3>6. S[Len(S)].TargetValue \in BOOLEAN
      BY <3>3, <3>4
    <3> QED
      BY <3>1, <3>3, <3>4, <3>5, <3>6
  <2> QED
    BY <2>1, <2>2, ShiftsOfRequest
<1>2. /\ PendingShifts \in Seq(Shift) /\ PendingShifts' = PendingShifts \o S
      /\ bounceTimer' /\ bounceTimer' \in BOOLEAN
      /\ requested' = S[Len(S)].TargetValue
      /\ disturbed' = (PendingShifts # <<>> \/ (Len(S) = 2 /\ r.ms = 0))
      /\ UNCHANGED <<pin, BouncingValue>>
  BY DEF SwitchIInv, SwitchTypeOK, Request, RestartBounces, Last
<1> HIDE DEF S
<1>3. /\ PendingShifts' \in Seq(Shift)
      /\ Len(PendingShifts') = Len(PendingShifts) + Len(S)
      /\ PendingShifts' # <<>>
      /\ PendingShifts'[Len(PendingShifts')] = S[Len(S)]
  BY <1>1, <1>2, ConcatProperties
<1>4. SwitchTypeOK'
  BY <1>1, <1>2, <1>3 DEF SwitchIInv, SwitchTypeOK
<1>5. WorkedOff'
  <2>1. SUFFICES ASSUME ~disturbed' PROVE WorkedOff'
    BY DEF WorkedOff
  <2>2. PendingShifts = <<>> /\ (Len(S) = 2 => r.ms # 0)
    BY <1>2, <2>1
  <2>3. PendingShifts' = S
    BY <1>1, <1>2, <2>2
  <2>4. Len(S) = 2 => S[1].HoldTime > 0
    <3>1. ASSUME Len(S) = 2 PROVE r.ms \in Nat /\ r.ms # 0 /\ S[1].HoldTime = r.ms
      BY <1>1, <2>2, <3>1, SwitchAssumption
    <3> QED
      BY <3>1
  <2> QED
    BY <1>1, <1>2, <2>3, <2>4 DEF WorkedOff
<1> QED
  BY <1>2, <1>3, <1>4, <1>5 DEF SwitchIInv, TimerHasWork, EndsAsRequested

LEMMA SettleStep ==
  ASSUME SwitchIInv, bounceTimer, SettleShift
  PROVE SwitchIInv'
<1>1. PendingShifts \in Seq(Shift) /\ PendingShifts # <<>> /\ PendingShifts' = Tail(PendingShifts)
  BY DEF SwitchIInv, SwitchTypeOK, TimerHasWork, SettleShift
<1>2. /\ PendingShifts' \in Seq(Shift)
      /\ Len(PendingShifts') = Len(PendingShifts) - 1
      /\ \A i \in 1 .. Len(PendingShifts') : PendingShifts'[i] = PendingShifts[i + 1]
      /\ Len(PendingShifts) \in Nat /\ Len(PendingShifts) >= 1
  BY <1>1
<1>3. PendingShifts[1] \in Shift
  BY <1>1, <1>2
<1>4. SwitchTypeOK'
  BY <1>2, <1>3 DEF SwitchIInv, SwitchTypeOK, SettleShift, Shift
<1>5. EndsAsRequested'
  <2>1. CASE Len(PendingShifts) = 1
    <3>1. PendingShifts' = <<>>
      BY <1>2, <2>1
    <3> QED
      BY <1>1, <2>1, <3>1 DEF SwitchIInv, EndsAsRequested, SettleShift
  <2>2. CASE Len(PendingShifts) # 1
    <3>1. PendingShifts' # <<>> /\ PendingShifts'[Len(PendingShifts')] = PendingShifts[Len(PendingShifts)]
      BY <1>2, <2>2
    <3> QED
      BY <1>1, <3>1 DEF SwitchIInv, EndsAsRequested, SettleShift
  <2> QED
    BY <2>1, <2>2
<1>6. WorkedOff'
  <2>1. SUFFICES ASSUME ~disturbed', PendingShifts' # <<>> PROVE WorkedOff'
    BY DEF WorkedOff
  <2>2. ~disturbed
    BY <2>1 DEF SettleShift
  <2>3. Len(PendingShifts) # 1
    BY <1>2, <2>1
  <2>4. Len(PendingShifts) = 2 /\ PendingShifts[1].HoldTime > 0
    BY <1>1, <2>2, <2>3 DEF SwitchIInv, WorkedOff
  <2>5. bounceTimer' /\ Len(PendingShifts') = 1
    <3>1. bounceTimer' = (PendingShifts' # <<>> /\ PendingShifts[1].HoldTime > 0)
      BY DEF SettleShift
    <3>2. Len(PendingShifts') = 1
      BY <1>2, <2>4
    <3> QED
      BY <2>1, <2>4, <3>1, <3>2
  <2> QED
    BY <2>5 DEF WorkedOff
<1>7. TimerHasWork'
  BY DEF TimerHasWork, SettleShift
<1> QED
  BY <1>4, <1>5, <1>6, <1>7 DEF SwitchIInv

LEMMA BounceStep ==
  ASSUME SwitchIInv, bounceTimer, BounceOnce
  PROVE SwitchIInv'
<1> DEFINE front == PendingShifts[1]
           bounced == [front EXCEPT !.BounceCount = @ - 1]
<1>1. PendingShifts \in Seq(Shift) /\ PendingShifts # <<>>
  BY DEF SwitchIInv, SwitchTypeOK, TimerHasWork
<1>2. PendingShifts' = [PendingShifts EXCEPT ![1] = bounced] /\ front.BounceCount > 0
  BY DEF BounceOnce
<1>3. front \in Shift
  BY <1>1
<1>4. /\ bounced \in Shift
      /\ bounced.TargetValue = front.TargetValue /\ bounced.HoldTime = front.HoldTime
  BY <1>2, <1>3, SwitchAssumption DEF Shift
<1> HIDE DEF bounced
<1>5. /\ PendingShifts' \in Seq(Shift) /\ Len(PendingShifts') = Len(PendingShifts)
      /\ PendingShifts' # <<>>
  BY <1>1, <1>2, <1>4
<1>6. /\ PendingShifts'[1].HoldTime = PendingShifts[1].HoldTime
      /\ PendingShifts'[Len(PendingShifts')].TargetValue = PendingShifts[Len(PendingShifts)].TargetValue
  BY <1>1, <1>2, <1>4, <1>5
<1>7. SwitchTypeOK'
  BY <1>5 DEF SwitchIInv, SwitchTypeOK, BounceOnce
<1>8. TimerHasWork'
  BY <1>5 DEF TimerHasWork
<1>9. EndsAsRequested'
  BY <1>1, <1>5, <1>6 DEF SwitchIInv, EndsAsRequested, BounceOnce
<1>10. WorkedOff'
  BY <1>1, <1>5, <1>6 DEF SwitchIInv, SwitchTypeOK, WorkedOff, BounceOnce
<1> QED
  BY <1>7, <1>8, <1>9, <1>10 DEF SwitchIInv

LEMMA SwitchIInvInit == SwitchInit => SwitchIInv
<1> SUFFICES ASSUME SwitchInit PROVE SwitchIInv
  OBVIOUS
<1>1. <<>> \in Seq(Shift) /\ (~ClosedValue) \in BOOLEAN
  OBVIOUS
<1>2. SwitchTypeOK
  BY <1>1 DEF SwitchInit, SwitchTypeOK
<1> QED
  BY <1>2 DEF SwitchInit, SwitchIInv, TimerHasWork, EndsAsRequested, WorkedOff

LEMMA SwitchIInvStep == SwitchIInv /\ [SwitchNext]_switchVars => SwitchIInv'
<1> SUFFICES ASSUME SwitchIInv, [SwitchNext]_switchVars PROVE SwitchIInv'
  OBVIOUS
<1>1. ASSUME NEW r \in Requests, Request(r) PROVE SwitchIInv'
  BY <1>1, RequestStep
<1>2. CASE OnBounce
  BY <1>2, SettleStep, BounceStep DEF OnBounce
<1>3. CASE UNCHANGED switchVars
  BY <1>3 DEF switchVars, SwitchIInv, SwitchTypeOK, TimerHasWork, EndsAsRequested, WorkedOff
<1> QED
  BY <1>1, <1>2, <1>3 DEF SwitchNext

LEMMA SwitchIInvImplies ==
  SwitchIInv => SwitchTypeOK /\ TimerHasWork /\ SettledAtTheLastRequest /\ SpacedRequestsNeverStall
BY DEF SwitchIInv, EndsAsRequested, WorkedOff, SettledAtTheLastRequest, SpacedRequestsNeverStall

-----------------------------------------------------------------------------
(* The host works the switch                                               *)

ClosuresType == closures \in Seq(Posted)

LEMMA ClosuresTypeStep == ClosuresType /\ [HostNext]_hostVars => ClosuresType'
<1> SUFFICES ASSUME ClosuresType, [HostNext]_hostVars PROVE ClosuresType'
  OBVIOUS
<1>1. CASE Simulation
  BY <1>1 DEF Simulation, LoopHead, RunClosure, TimerCycle, UartCycle, OtherCycle, InsertLine, Cycle,
              ClosuresType
<1>2. CASE Interface
  <2>1. ASSUME NEW r \in Posted, Post(r) PROVE ClosuresType'
    BY <2>1 DEF Post, ClosuresType
  <2>2. CASE End \/ Rendering \/ ScrollEvent
    BY <2>2 DEF End, Rendering, ScrollEvent, loopVars, ClosuresType
  <2> QED
    BY <1>2, <2>1, <2>2 DEF Interface
<1>3. CASE UNCHANGED hostVars
  BY <1>3 DEF hostVars, loopVars, ClosuresType
<1> QED
  BY <1>1, <1>2, <1>3 DEF HostNext

LEMMA HostStepsSwitch == ClosuresType /\ [HostNext]_hostVars => [SwitchNext]_switchVars
<1> SUFFICES ASSUME ClosuresType, [HostNext]_hostVars PROVE [SwitchNext]_switchVars
  OBVIOUS
<1>1. CASE RunClosure
  <2>1. Head(closures) \in Requests
    BY <1>1, HostAssumption DEF RunClosure, ClosuresType
  <2> QED
    BY <1>1, <2>1 DEF RunClosure, SwitchNext
<1>2. CASE TimerCycle
  BY <1>2 DEF TimerCycle, SwitchNext
<1>3. CASE LoopHead \/ UartCycle \/ OtherCycle \/ InsertLine
  BY <1>3 DEF LoopHead, UartCycle, OtherCycle, InsertLine
<1>4. CASE Interface
  BY <1>4 DEF Interface, Post, End, Rendering, ScrollEvent
<1>5. CASE UNCHANGED hostVars
  BY <1>5 DEF hostVars
<1> QED
  BY <1>1, <1>2, <1>3, <1>4, <1>5 DEF HostNext, Simulation

LEMMA ClosuresTypeInit == HostInit => ClosuresType
BY DEF HostInit, ClosuresType

(***************************************************************************)
(* Whatever the threads of the host do is a step of the switch's own       *)
(* specification, or none: closures and timer are all that touch it, and   *)
(* one at a time.  So a proof about the switch is one about the host.      *)
(***************************************************************************)
THEOREM HostImplementsSwitch == HostSpec => SwitchSpec
<1>1. HostInit => SwitchInit
  BY DEF HostInit
<1> QED
  BY <1>1, ClosuresTypeInit, ClosuresTypeStep, HostStepsSwitch, PTL DEF HostSpec, SwitchSpec

\* OnBounce is never called on an empty queue (sim_bouncy_switch.cpp:64).
THEOREM TimerHasWorkCorrect == HostSpec => []TimerHasWork
<1>1. SwitchSpec => []TimerHasWork
  BY SwitchIInvInit, SwitchIInvStep, SwitchIInvImplies, PTL DEF SwitchSpec
<1> QED
  BY <1>1, HostImplementsSwitch, PTL

\* For every number of bounces and requests, an empty queue means that the
\* pin has the level last requested (sim_bouncy_switch.cpp:64-65).
THEOREM SettledCorrect == HostSpec => []SettledAtTheLastRequest
<1>1. SwitchSpec => []SettledAtTheLastRequest
  BY SwitchIInvInit, SwitchIInvStep, SwitchIInvImplies, PTL DEF SwitchSpec
<1> QED
  BY <1>1, HostImplementsSwitch, PTL

\* Without zero delays and zero holds, requests made one at a time never leave
\* the timer chain with shifts in the queue (sim_bouncy_switch.cpp:66-76).
THEOREM NeverStallCorrect == HostSpec => []SpacedRequestsNeverStall
<1>1. SwitchSpec => []SpacedRequestsNeverStall
  BY SwitchIInvInit, SwitchIInvStep, SwitchIInvImplies, PTL DEF SwitchSpec
<1> QED
  BY <1>1, HostImplementsSwitch, PTL

-----------------------------------------------------------------------------
(* The log view                                                            *)

LEMMA MinPair ==
  ASSUME NEW a \in Int, NEW b \in Int
  PROVE Min({a, b}) = IF a <= b THEN a ELSE b
BY DEF Min

LEMMA MaxPair ==
  ASSUME NEW a \in Int, NEW b \in Int
  PROVE Max({a, b}) = IF a <= b THEN b ELSE a
BY DEF Max

\* How many of n lines are kept.
KeptLines(n) == IF n <= MaxLogs - 1 THEN n ELSE MaxLogs - 1

LEMMA NewestProperties ==
  ASSUME NEW lines \in Seq(Line), NEW n \in 0 .. Len(lines)
  PROVE /\ Newest(lines, n) \in Seq(Line)
        /\ Len(Newest(lines, n)) = KeptLines(n) /\ KeptLines(n) \in 0 .. n
        /\ \A i \in 1 .. KeptLines(n) : Newest(lines, n)[i] = lines[n + 1 - i]
<1>1. n \in Nat /\ Len(lines) \in Nat /\ n <= Len(lines) /\ MaxLogs - 1 \in Nat
  BY LogAssumption
<1>2. Min({n, MaxLogs - 1}) = KeptLines(n) /\ KeptLines(n) \in 0 .. n /\ KeptLines(n) \in Nat
  BY <1>1, MinPair DEF KeptLines
<1>3. Newest(lines, n) = [i \in 1 .. KeptLines(n) |-> lines[n + 1 - i]]
  BY <1>2 DEF Newest
<1>4. \A i \in 1 .. KeptLines(n) : lines[n + 1 - i] \in Line
  BY <1>1, <1>2
<1> HIDE DEF KeptLines, Newest
<1>5. Newest(lines, n) \in Seq(Line) /\ Len(Newest(lines, n)) = KeptLines(n)
  BY <1>2, <1>3, <1>4
<1> QED
  BY <1>2, <1>3, <1>5

\* The lines inserted later do not change what the newest of n were.
LEMMA NewestIsStable ==
  ASSUME NEW lines \in Seq(Line), NEW line \in Line, NEW n \in 0 .. Len(lines)
  PROVE Newest(Append(lines, line), n) = Newest(lines, n)
<1>1. \A i \in 1 .. n : Append(lines, line)[n + 1 - i] = lines[n + 1 - i]
  OBVIOUS
<1>2. Min({n, MaxLogs - 1}) \in 0 .. n
  BY MinPair, LogAssumption
<1> HIDE DEF Min
<1>3. \A i \in 1 .. Min({n, MaxLogs - 1}) : Append(lines, line)[n + 1 - i] = lines[n + 1 - i]
  BY <1>1, <1>2
<1> QED
  BY <1>3 DEF Newest

\* Pushing a line and dropping the one too many leaves the newest lines.
LEMMA InsertKeepsNewest ==
  ASSUME NEW lines \in Seq(Line), NEW line \in Line
  PROVE Kept(<<line>> \o Newest(lines, Len(lines))) = Newest(Append(lines, line), Len(lines) + 1)
<1> DEFINE n == Len(lines)
           more == Append(lines, line)
           old == Newest(lines, n)
           long == <<line>> \o old
           new == Newest(more, n + 1)
<1>1. /\ n \in Nat /\ more \in Seq(Line) /\ Len(more) = n + 1 /\ MaxLogs - 1 \in Nat
      /\ more[n + 1] = line /\ \A k \in 1 .. n : more[k] = lines[k]
  BY LogAssumption
<1>2. /\ old \in Seq(Line) /\ Len(old) = KeptLines(n) /\ KeptLines(n) \in 0 .. n
      /\ \A i \in 1 .. KeptLines(n) : old[i] = lines[n + 1 - i]
  BY <1>1, NewestProperties
<1>3. /\ new \in Seq(Line) /\ Len(new) = KeptLines(n + 1)
      /\ \A i \in 1 .. KeptLines(n + 1) : new[i] = more[n + 2 - i]
  <2>1. n + 1 \in 0 .. Len(more)
    BY <1>1
  <2>2. /\ new \in Seq(Line) /\ Len(new) = KeptLines(n + 1) /\ KeptLines(n + 1) \in 0 .. n + 1
        /\ \A i \in 1 .. KeptLines(n + 1) : new[i] = more[(n + 1) + 1 - i]
    BY <1>1, <2>1, NewestProperties
  <2> HIDE DEF new, more, n, KeptLines
  <2> QED
    BY <1>1, <2>2
<1> HIDE DEF n, more, old, new
<1>4. /\ long \in Seq(Line) /\ Len(long) = KeptLines(n) + 1
      /\ long[1] = line /\ \A i \in 2 .. KeptLines(n) + 1 : long[i] = old[i - 1]
  BY <1>2, ConcatProperties
<1> HIDE DEF long
<1>5. Kept(long) \in Seq(Line) /\ Len(Kept(long)) = KeptLines(n + 1)
      /\ \A i \in 1 .. KeptLines(n + 1) : Kept(long)[i] = long[i]
  <2>1. CASE n + 1 <= MaxLogs - 1
    <3>1. KeptLines(n) = n /\ KeptLines(n + 1) = n + 1
      BY <1>1, <2>1 DEF KeptLines
    <3>2. Kept(long) = long
      <4>1. ~(Len(long) >= MaxLogs)
        BY <1>1, <1>4, <2>1, <3>1, LogAssumption
      <4> QED
        BY <4>1 DEF Kept
    <3> QED
      BY <1>1, <1>4, <3>1, <3>2
  <2>2. CASE ~(n + 1 <= MaxLogs - 1)
    <3>1. KeptLines(n) = MaxLogs - 1 /\ KeptLines(n + 1) = MaxLogs - 1
      BY <1>1, <2>2 DEF KeptLines
    <3>2. Kept(long) = SubSeq(long, 1, Len(long) - 1)
      BY <1>1, <1>4, <3>1, LogAssumption DEF Kept, Front
    <3>3. Len(long) = MaxLogs /\ Len(long) - 1 \in Nat
      BY <1>1, <1>4, <3>1, LogAssumption
    <3> QED
      BY <1>4, <3>1, <3>2, <3>3, SubSeqProperties
  <2> QED
    BY <2>1, <2>2
<1>6. \A i \in 1 .. KeptLines(n + 1) : long[i] = new[i]
  <2>1. SUFFICES ASSUME NEW i \in 1 .. KeptLines(n + 1) PROVE long[i] = new[i]
    OBVIOUS
  <2>2. KeptLines(n + 1) <= KeptLines(n) + 1 /\ KeptLines(n + 1) \in Nat
    BY <1>1 DEF KeptLines
  <2>3. new[i] = more[n + 2 - i]
    BY <1>3
  <2>4. CASE i = 1
    BY <1>1, <1>4, <2>3, <2>4
  <2>5. CASE i # 1
    <3>1. i - 1 \in 1 .. KeptLines(n) /\ i \in 2 .. KeptLines(n) + 1
      BY <1>2, <2>2, <2>5
    <3>2. long[i] = lines[n + 1 - (i - 1)]
      BY <1>2, <1>4, <3>1
    <3>3. n + 1 - (i - 1) = n + 2 - i /\ n + 2 - i \in 1 .. n
      BY <1>1, <1>2, <3>1
    <3> QED
      BY <1>1, <2>3, <3>2, <3>3
  <2> QED
    BY <2>4, <2>5
<1>7. Kept(long) = new
  BY <1>3, <1>5, <1>6, SeqEqual
<1> QED
  BY <1>7 DEF long, old, new, more, n

\* What the mutex protects, and how far a rendering is.
RenderType ==
  /\ inserted \in Seq(Line)
  /\ seen \in 0 .. Len(inserted)
  /\ elements \in Seq(Line)
  /\ M \in {"free", "ui"}

LogIsNewest == Logs = Newest(inserted, Len(inserted))

\* Nothing was inserted since the rendering took the mutex.
Walked ==
  /\ M = "ui" => seen = Len(inserted)
  /\ Len(elements) <= Len(Newest(inserted, seen))
  /\ \A i \in 1 .. Len(elements) : elements[i] = Newest(inserted, seen)[i]
  /\ M = "free" => elements = Newest(inserted, seen)

Scrolled ==
  /\ size \in Nat /\ selected \in Nat
  /\ size <= Len(Logs) /\ selected < Max({1, size})

\* The lines are made of the serials' bytes.
PendingType ==
  /\ LineBuffer \in [Serials -> Seq(Bytes)]
  /\ pendingLine = <<>> \/ \E line \in Line : pendingLine = <<line>>

LogIInv == RenderType /\ LogIsNewest /\ Walked /\ Scrolled /\ PendingType

LEMMA LogIInvInit == LogInit => LogIInv
<1> SUFFICES ASSUME LogInit PROVE LogIInv
  OBVIOUS
<1>1. RenderType /\ PendingType
  <2>1. <<>> \in Seq(Line) /\ <<>> \in Seq(Bytes) /\ Len(<<>>) = 0
    OBVIOUS
  <2> QED
    BY <2>1 DEF LogInit, RenderType, PendingType
<1>2. Newest(<<>>, 0) = <<>>
  <2>1. <<>> \in Seq(Line) /\ 0 \in 0 .. Len(<<>>)
    OBVIOUS
  <2>2. Newest(<<>>, 0) \in Seq(Line) /\ Len(Newest(<<>>, 0)) = KeptLines(0) /\ KeptLines(0) \in 0 .. 0
    BY <2>1, NewestProperties
  <2> QED
    BY <2>2
<1>3. LogIsNewest
  BY <1>2 DEF LogInit, LogIsNewest
<1>4. Walked
  BY <1>2 DEF LogInit, Walked
<1>5. Scrolled
  BY MaxPair DEF LogInit, Scrolled
<1> QED
  BY <1>1, <1>3, <1>4, <1>5 DEF LogIInv

LEMMA UartByteStep ==
  ASSUME LogIInv, NEW n \in Serials, NEW byte \in Bytes, UartByte(n, byte)
  PROVE LogIInv'
<1>1. UNCHANGED <<Logs, inserted, M, elements, size, selected, seen>>
  BY DEF UartByte, uiLogVars
<1>2. PendingType'
  <2> DEFINE buffer == Append(LineBuffer[n], byte)
  <2>1. buffer \in Seq(Bytes)
    BY DEF LogIInv, PendingType
  <2>2. [serial |-> n, bytes |-> buffer] \in Line
    BY <2>1 DEF Line
  <2>3. LineBuffer' \in [Serials -> Seq(Bytes)]
    <3>1. <<>> \in Seq(Bytes) /\ LineBuffer \in [Serials -> Seq(Bytes)]
      BY DEF LogIInv, PendingType
    <3>2. \/ LineBuffer' = [LineBuffer EXCEPT ![n] = <<>>]
          \/ LineBuffer' = [LineBuffer EXCEPT ![n] = buffer]
      BY DEF UartByte, OnSerialByte
    <3> HIDE DEF buffer
    <3> QED
      BY <2>1, <3>1, <3>2
  <2>4. pendingLine' = <<>> \/ pendingLine' = <<[serial |-> n, bytes |-> buffer]>>
    BY DEF UartByte, OnSerialByte
  <2> QED
    BY <2>2, <2>3, <2>4 DEF PendingType
<1>3. (RenderType /\ LogIsNewest)'
  BY <1>1 DEF LogIInv, RenderType, LogIsNewest
<1>4. Walked'
  BY <1>1 DEF LogIInv, Walked
<1>5. Scrolled'
  BY <1>1 DEF LogIInv, Scrolled
<1> QED
  BY <1>2, <1>3, <1>4, <1>5 DEF LogIInv

LEMMA InsertStep == ASSUME LogIInv, Insert PROVE LogIInv'
<1>1. /\ M = "free" /\ Logs' = Kept(pendingLine \o Logs)
      /\ inserted' = inserted \o pendingLine /\ pendingLine' = <<>>
      /\ UNCHANGED <<LineBuffer, M, elements, size, selected, seen>>
  BY DEF Insert, CanLock, uiLogVars
<1>2. PICK line \in Line : pendingLine = <<line>>
  BY DEF Insert, LogIInv, PendingType
<1>3. inserted \in Seq(Line) /\ seen \in 0 .. Len(inserted)
  BY DEF LogIInv, RenderType
<1>4. inserted' = Append(inserted, line)
  BY <1>1, <1>2, <1>3
<1>5. inserted' \in Seq(Line) /\ Len(inserted') = Len(inserted) + 1
  BY <1>3, <1>4
<1>6. Logs = Newest(inserted, Len(inserted))
  BY DEF LogIInv, LogIsNewest
<1>7. LogIsNewest'
  <2>1. Logs' = Kept(<<line>> \o Newest(inserted, Len(inserted)))
    BY <1>1, <1>2, <1>6
  <2>2. Logs' = Newest(Append(inserted, line), Len(inserted) + 1)
    BY <1>3, <2>1, InsertKeepsNewest
  <2> QED
    BY <1>4, <1>5, <2>2 DEF LogIsNewest
<1>8. RenderType'
  BY <1>1, <1>3, <1>5 DEF LogIInv, RenderType
<1>9. Newest(inserted', seen) = Newest(inserted, seen)
  BY <1>3, <1>4, NewestIsStable
<1>10. Walked'
  BY <1>1, <1>9 DEF LogIInv, Walked
<1>11. Len(Logs) <= Len(Logs') /\ Len(Logs) \in Nat /\ Len(Logs') \in Nat
  <2>1. Len(inserted) \in 0 .. Len(inserted) /\ Len(inserted') \in 0 .. Len(inserted')
    BY <1>3, <1>5
  <2>2. Len(Logs) = KeptLines(Len(inserted)) /\ Len(Logs) \in Nat
    <3>1. /\ Newest(inserted, Len(inserted)) \in Seq(Line)
          /\ Len(Newest(inserted, Len(inserted))) = KeptLines(Len(inserted))
      BY <1>3, <2>1, NewestProperties
    <3>2. Logs \in Seq(Line) /\ Len(Logs) = KeptLines(Len(inserted))
      BY <1>6, <3>1
    <3> QED
      BY <3>2
  <2>3. Len(Logs') = KeptLines(Len(inserted')) /\ Len(Logs') \in Nat
    BY <1>5, <1>7, <2>1, NewestProperties DEF LogIsNewest
  <2> QED
    BY <1>3, <1>5, <2>2, <2>3, LogAssumption DEF KeptLines
<1>12. Scrolled'
  BY <1>1, <1>11 DEF LogIInv, Scrolled
<1>13. PendingType'
  BY <1>1 DEF LogIInv, PendingType
<1> QED
  BY <1>7, <1>8, <1>10, <1>12, <1>13 DEF LogIInv

LEMMA BeginForEachStep == ASSUME LogIInv, BeginForEach PROVE LogIInv'
<1>1. /\ M' = "ui" /\ elements' = <<>> /\ seen' = Len(inserted)
      /\ UNCHANGED <<LineBuffer, pendingLine, Logs, size, selected, inserted>>
  BY DEF BeginForEach
<1>2. inserted \in Seq(Line) /\ Len(inserted) \in 0 .. Len(inserted)
  BY DEF LogIInv, RenderType
<1>3. Len(Newest(inserted, Len(inserted))) \in Nat
  BY <1>2, NewestProperties
<1>4. RenderType'
  BY <1>1, <1>2 DEF RenderType
<1>5. Walked'
  BY <1>1, <1>3 DEF Walked
<1>6. (LogIsNewest /\ PendingType)'
  BY <1>1 DEF LogIInv, LogIsNewest, PendingType
<1>7. Scrolled'
  BY <1>1 DEF LogIInv, Scrolled
<1> QED
  BY <1>4, <1>5, <1>6, <1>7 DEF LogIInv

LEMMA PushElementStep == ASSUME LogIInv, PushElement PROVE LogIInv'
<1>1. /\ M = "ui" /\ Len(elements) < Len(Logs)
      /\ elements' = Append(elements, Logs[Len(elements) + 1])
      /\ UNCHANGED <<LineBuffer, pendingLine, Logs, M, size, selected, inserted, seen>>
  BY DEF PushElement
<1>2. /\ inserted \in Seq(Line) /\ Len(inserted) \in 0 .. Len(inserted) /\ elements \in Seq(Line)
      /\ seen = Len(inserted)
  BY <1>1 DEF LogIInv, RenderType, Walked
<1>3. Logs = Newest(inserted, seen) /\ Logs \in Seq(Line)
  BY <1>2, NewestProperties DEF LogIInv, LogIsNewest
<1>4. elements' \in Seq(Line)
  BY <1>1, <1>2, <1>3
<1>5. RenderType'
  BY <1>1, <1>4 DEF LogIInv, RenderType
<1>6. Walked'
  <2>1. Len(elements') = Len(elements) + 1 /\ Len(elements') <= Len(Logs)
    BY <1>1, <1>2, <1>3
  <2>2. \A i \in 1 .. Len(elements) : elements'[i] = Logs[i]
    BY <1>1, <1>2, <1>3 DEF LogIInv, Walked
  <2>3. elements'[Len(elements) + 1] = Logs[Len(elements) + 1]
    BY <1>1, <1>2
  <2>4. \A i \in 1 .. Len(elements') : elements'[i] = Logs[i]
    BY <1>2, <2>1, <2>2, <2>3
  <2> QED
    BY <1>1, <1>2, <1>3, <2>1, <2>4 DEF Walked
<1>7. (LogIsNewest /\ PendingType)'
  BY <1>1 DEF LogIInv, LogIsNewest, PendingType
<1>8. Scrolled'
  BY <1>1 DEF LogIInv, Scrolled
<1> QED
  BY <1>5, <1>6, <1>7, <1>8 DEF LogIInv

LEMMA EndForEachStep == ASSUME LogIInv, EndForEach PROVE LogIInv'
<1>1. /\ M = "ui" /\ Len(elements) = Len(Logs) /\ M' = "free" /\ size' = Len(elements)
      /\ UNCHANGED <<LineBuffer, pendingLine, Logs, elements, selected, inserted, seen>>
  BY DEF EndForEach
<1>2. /\ inserted \in Seq(Line) /\ Len(inserted) \in 0 .. Len(inserted) /\ elements \in Seq(Line)
      /\ seen = Len(inserted)
  BY <1>1 DEF LogIInv, RenderType, Walked
<1>3. Logs = Newest(inserted, seen) /\ Logs \in Seq(Line)
  BY <1>2, NewestProperties DEF LogIInv, LogIsNewest
<1>4. elements = Logs
  BY <1>1, <1>2, <1>3, SeqEqual DEF LogIInv, Walked
<1>5. RenderType' /\ (LogIsNewest /\ PendingType)'
  BY <1>1 DEF LogIInv, RenderType, LogIsNewest, PendingType
<1>6. Walked'
  BY <1>1, <1>3, <1>4 DEF LogIInv, Walked
<1>7. Scrolled'
  <2>1. size \in Nat /\ size <= size' /\ size' \in Nat /\ size' <= Len(Logs')
    BY <1>1, <1>2 DEF LogIInv, Scrolled
  <2>2. Max({1, size}) <= Max({1, size'}) /\ Max({1, size'}) \in Int /\ Max({1, size}) \in Int
    BY <2>1, MaxPair
  <2>3. selected' = selected /\ selected \in Nat /\ selected < Max({1, size})
    BY <1>1 DEF LogIInv, Scrolled
  <2> DEFINE before == Max({1, size})
             after == Max({1, size'})
  <2> HIDE DEF before, after
  <2>4. selected' < after
    BY <2>2, <2>3 DEF before, after
  <2> QED
    BY <2>1, <2>3, <2>4 DEF Scrolled, after
<1> QED
  BY <1>5, <1>6, <1>7 DEF LogIInv

LEMMA OnEventStep == ASSUME LogIInv, OnEvent, PageHeight \in Nat PROVE LogIInv'
<1>1. UNCHANGED <<LineBuffer, pendingLine, Logs, M, elements, size, inserted, seen>>
  BY DEF OnEvent
<1>2. size \in Nat /\ size <= Len(Logs) /\ selected \in Nat
  BY DEF LogIInv, Scrolled
<1>3. PICK line \in Moved : selected' = Clamped(line)
  BY DEF OnEvent
<1>4. line \in Int
  BY <1>2 DEF Moved
<1>5. selected' \in Nat /\ selected' < Max({1, size})
  <2>1. Min({size - 1, line}) = IF size - 1 <= line THEN size - 1 ELSE line
    BY <1>2, <1>4, MinPair
  <2>2. Min({size - 1, line}) \in Int /\ Min({size - 1, line}) <= size - 1
    BY <1>2, <1>4, <2>1
  <2> DEFINE low == Min({size - 1, line})
  <2>3. low \in Int /\ low <= size - 1 /\ selected' = Max({0, low})
    BY <1>3, <2>2 DEF Clamped
  <2> HIDE DEF low
  <2>4. selected' = IF 0 <= low THEN low ELSE 0
    BY <2>3, MaxPair
  <2>5. Max({1, size}) = IF 1 <= size THEN size ELSE 1
    BY <1>2, MaxPair
  <2> QED
    BY <1>2, <2>3, <2>4, <2>5
<1>6. Scrolled'
  BY <1>1, <1>2, <1>5 DEF Scrolled
<1>7. (RenderType /\ LogIsNewest /\ PendingType)'
  BY <1>1 DEF LogIInv, RenderType, LogIsNewest, PendingType
<1>8. Walked'
  BY <1>1 DEF LogIInv, Walked
<1> QED
  BY <1>6, <1>7, <1>8 DEF LogIInv

LEMMA LogUnchanged == ASSUME LogIInv, UNCHANGED logVars PROVE LogIInv'
BY DEF logVars, LogIInv, RenderType, LogIsNewest, Walked, Scrolled, PendingType

LEMMA LogIInvStep == LogIInv /\ [HostNext]_hostVars => LogIInv'
<1> SUFFICES ASSUME LogIInv, [HostNext]_hostVars PROVE LogIInv'
  OBVIOUS
<1>1. CASE LoopHead \/ RunClosure \/ TimerCycle \/ OtherCycle
  BY <1>1, LogUnchanged DEF LoopHead, RunClosure, TimerCycle, OtherCycle
<1>2. CASE UartCycle
  BY <1>2, UartByteStep DEF UartCycle
<1>3. CASE InsertLine
  BY <1>3, InsertStep DEF InsertLine
<1>4. CASE (\E r \in Posted : Post(r)) \/ End
  BY <1>4, LogUnchanged DEF Post, End
<1>5. CASE Rendering
  BY <1>5, BeginForEachStep, PushElementStep, EndForEachStep DEF Rendering, Render
<1>6. CASE ScrollEvent
  BY <1>6, OnEventStep, LogAssumption DEF ScrollEvent
<1>7. CASE UNCHANGED hostVars
  BY <1>7, LogUnchanged DEF hostVars
<1> QED
  BY <1>1, <1>2, <1>3, <1>4, <1>5, <1>6, <1>7 DEF HostNext, Simulation, Interface

(***************************************************************************)
(* For every capacity, every number of lines and every interleaving of the *)
(* two threads, a rendering shows a snapshot of the newest lines           *)
(* (locked_dequeue.hpp:9-24).                                              *)
(***************************************************************************)
THEOREM SnapshotCorrect == HostSpec => []RenderingIsASnapshot
<1>1. LogIInv => RenderingIsASnapshot
  <2> SUFFICES ASSUME LogIInv PROVE RenderingIsASnapshot
    OBVIOUS
  <2>1. inserted \in Seq(Line) /\ seen \in 0 .. Len(inserted) /\ elements \in Seq(Line)
    BY DEF LogIInv, RenderType
  <2> DEFINE shown == Newest(inserted, seen)
  <2>2. shown \in Seq(Line)
    BY <2>1, NewestProperties
  <2>3. /\ Len(elements) <= Len(shown) /\ \A i \in 1 .. Len(elements) : elements[i] = shown[i]
        /\ M = "free" => elements = shown
    BY DEF LogIInv, Walked
  <2> HIDE DEF shown
  <2>4. SubSeq(elements, 1, Len(elements)) = SubSeq(shown, 1, Len(elements))
    BY <2>1, <2>2, <2>3
  <2> QED
    BY <2>3, <2>4 DEF RenderingIsASnapshot, IsPrefix, shown
<1>2. HostInit => LogIInv
  BY LogIInvInit DEF HostInit
<1> QED
  BY <1>1, <1>2, LogIInvStep, PTL DEF HostSpec

\* However far the user scrolls, and however the log grows meanwhile, the
\* selected line is one of those shown (scroller.cpp:54-61).
THEOREM SelectedLineCorrect == HostSpec => []SelectedLineExists
<1>1. LogIInv => SelectedLineExists
  BY DEF LogIInv, Scrolled, SelectedLineExists
<1>2. HostInit => LogIInv
  BY LogIInvInit DEF HostInit
<1> QED
  BY <1>1, <1>2, LogIInvStep, PTL DEF HostSpec

-----------------------------------------------------------------------------
(* Types                                                                   *)

\* What the invariants above leave out of the host's types.
LoopType ==
  /\ LineBuffer \in [Serials -> Seq(Bytes \ {Newline})]
  /\ avrState \in {"Running", "Done"}
  /\ keepGoing \in BOOLEAN
  /\ at \in {"head", "drain", "insert", "ended"}
  /\ posted \in Seq(Posted)

LEMMA LoopTypeInit == HostInit => LoopType
<1> SUFFICES ASSUME HostInit PROVE LoopType
  OBVIOUS
<1>1. <<>> \in Seq(Bytes \ {Newline}) /\ <<>> \in Seq(Posted)
  OBVIOUS
<1>2. LineBuffer \in [Serials -> Seq(Bytes \ {Newline})]
  BY <1>1 DEF HostInit, LogInit
<1> QED
  BY <1>1, <1>2 DEF HostInit, LoopType

LEMMA LineBufferStep ==
  ASSUME LoopType, NEW n \in Serials, NEW byte \in Bytes, UartByte(n, byte)
  PROVE LineBuffer' \in [Serials -> Seq(Bytes \ {Newline})]
<1>1. LineBuffer \in [Serials -> Seq(Bytes \ {Newline})] /\ <<>> \in Seq(Bytes \ {Newline})
  BY DEF LoopType
<1>2. CASE byte = Newline
  BY <1>1, <1>2 DEF UartByte, OnSerialByte
<1>3. CASE byte # Newline
  <2> DEFINE buffer == Append(LineBuffer[n], byte)
  <2>1. buffer \in Seq(Bytes \ {Newline})
    BY <1>1, <1>3
  <2>2. LineBuffer' = [LineBuffer EXCEPT ![n] = buffer]
    BY <1>3 DEF UartByte, OnSerialByte
  <2> HIDE DEF buffer
  <2> QED
    BY <1>1, <2>1, <2>2
<1> QED
  BY <1>2, <1>3

LEMMA LoopTypeStep == LoopType /\ [HostNext]_hostVars => LoopType'
<1> SUFFICES ASSUME LoopType, [HostNext]_hostVars PROVE LoopType'
  OBVIOUS
<1>1. CASE LoopHead \/ RunClosure
  BY <1>1 DEF LoopHead, RunClosure, LoopType, logVars
<1>2. CASE TimerCycle \/ OtherCycle
  BY <1>2 DEF TimerCycle, OtherCycle, Cycle, LoopType, logVars
<1>3. CASE UartCycle
  <2>1. LineBuffer' \in [Serials -> Seq(Bytes \ {Newline})]
    BY <1>3, LineBufferStep DEF UartCycle
  <2> QED
    BY <1>3, <2>1 DEF UartCycle, Cycle, LoopType
<1>4. CASE InsertLine
  BY <1>4 DEF InsertLine, Insert, LoopType
<1>5. CASE Interface
  <2>1. ASSUME NEW r \in Posted, Post(r) PROVE LoopType'
    <3>1. posted' \in Seq(Posted)
      BY <2>1 DEF Post, LoopType
    <3> QED
      BY <2>1, <3>1 DEF Post, LoopType, logVars
  <2>2. CASE End
    BY <2>2 DEF End, LoopType, logVars
  <2>3. CASE Rendering
    BY <2>3 DEF Rendering, Render, BeginForEach, PushElement, EndForEach, LoopType, loopVars
  <2>4. CASE ScrollEvent
    BY <2>4 DEF ScrollEvent, OnEvent, LoopType, loopVars
  <2> QED
    BY <1>5, <2>1, <2>2, <2>3, <2>4 DEF Interface
<1>6. CASE UNCHANGED hostVars
  BY <1>6 DEF hostVars, logVars, loopVars, LoopType
<1> QED
  BY <1>1, <1>2, <1>3, <1>4, <1>5, <1>6 DEF HostNext, Simulation

LEMMA LogTyped == LogIInv /\ LoopType => LogTypeOK
<1> SUFFICES ASSUME LogIInv, LoopType PROVE LogTypeOK
  OBVIOUS
<1>1. inserted \in Seq(Line) /\ Len(inserted) \in 0 .. Len(inserted)
  BY DEF LogIInv, RenderType
<1>2. /\ Newest(inserted, Len(inserted)) \in Seq(Line)
      /\ Len(Newest(inserted, Len(inserted))) = KeptLines(Len(inserted))
  BY <1>1, NewestProperties
<1>3. KeptLines(Len(inserted)) < MaxLogs
  BY <1>1, LogAssumption DEF KeptLines
<1>4. Logs \in Seq(Line) /\ Len(Logs) < MaxLogs
  BY <1>2, <1>3 DEF LogIInv, LogIsNewest
<1>5. pendingLine \in Seq(Line) /\ Len(pendingLine) <= 1
  <2>1. CASE pendingLine = <<>>
    BY <2>1
  <2>2. CASE \E line \in Line : pendingLine = <<line>>
    BY <2>2
  <2> QED
    BY <2>1, <2>2 DEF LogIInv, PendingType
<1> QED
  BY <1>4, <1>5 DEF LogIInv, RenderType, Scrolled, LoopType, LogTypeOK

\* The variables of both threads keep their types; the deque stays below its
\* capacity (ftxui_simulated_avr.cpp:80-91, locked_dequeue.hpp:9-16).
THEOREM HostTypeCorrect == HostSpec => []HostTypeOK
<1>1. LogIInv /\ LoopType /\ ClosuresType /\ SwitchTypeOK => HostTypeOK
  BY LogTyped DEF LoopType, ClosuresType, HostTypeOK
<1>2. HostInit => LogIInv
  BY LogIInvInit DEF HostInit
<1>3. SwitchSpec => []SwitchTypeOK
  BY SwitchIInvInit, SwitchIInvStep, SwitchIInvImplies, PTL DEF SwitchSpec
<1> QED
  BY <1>1, <1>2, <1>3, LogIInvStep, LoopTypeInit, LoopTypeStep, ClosuresTypeInit,
     ClosuresTypeStep, HostImplementsSwitch, PTL DEF HostSpec

-----------------------------------------------------------------------------
(* Lines                                                                   *)

LEMMA PieceOfLonger ==
  ASSUME NEW S, NEW bytes \in Seq(S), NEW byte \in S,
         NEW p \in 0 .. Len(bytes), NEW q \in 0 .. Len(bytes)
  PROVE SubSeq(Append(bytes, byte), p + 1, q) = SubSeq(bytes, p + 1, q)
<1> DEFINE long == Append(bytes, byte)
<1>1. /\ long \in Seq(S) /\ Len(long) = Len(bytes) + 1 /\ Len(bytes) \in Nat
      /\ \A i \in 1 .. Len(bytes) : long[i] = bytes[i]
  BY AppendProperties
<1> HIDE DEF long
<1>2. \A i \in 1 .. 1 + q - (p + 1) : i + (p + 1) - 1 \in 1 .. Len(bytes)
  BY <1>1
<1>3. \A i \in 1 .. 1 + q - (p + 1) : long[i + (p + 1) - 1] = bytes[i + (p + 1) - 1]
  BY <1>1, <1>2
<1>4. [i \in 1 .. 1 + q - (p + 1) |-> long[i + (p + 1) - 1]]
        = [i \in 1 .. 1 + q - (p + 1) |-> bytes[i + (p + 1) - 1]]
  BY <1>3, Zenon
<1>5. /\ SubSeq(long, p + 1, q) = [i \in 1 .. 1 + q - (p + 1) |-> long[i + (p + 1) - 1]]
      /\ SubSeq(bytes, p + 1, q) = [i \in 1 .. 1 + q - (p + 1) |-> bytes[i + (p + 1) - 1]]
  BY <1>1
<1> QED
  BY <1>4, <1>5 DEF long

LEMMA RestOfLonger ==
  ASSUME NEW S, NEW bytes \in Seq(S), NEW byte \in S, NEW p \in 0 .. Len(bytes)
  PROVE /\ SubSeq(Append(bytes, byte), p + 1, Len(bytes) + 1)
             = Append(SubSeq(bytes, p + 1, Len(bytes)), byte)
        /\ SubSeq(bytes, Len(bytes) + 1, Len(bytes)) = <<>>
<1> DEFINE long == Append(bytes, byte)
           left == SubSeq(long, p + 1, Len(bytes) + 1)
           rest == SubSeq(bytes, p + 1, Len(bytes))
           right == Append(rest, byte)
           n == Len(bytes) - p
<1>1. /\ long \in Seq(S) /\ Len(long) = Len(bytes) + 1 /\ Len(bytes) \in Nat
      /\ \A i \in 1 .. Len(bytes) : long[i] = bytes[i]
      /\ long[Len(bytes) + 1] = byte
  BY AppendProperties
<1>2. n \in Nat /\ p \in Nat /\ Len(bytes) = p + n
  BY <1>1
<1>3. rest \in Seq(S) /\ Len(rest) = n /\ \A i \in 1 .. n : rest[i] = bytes[p + i]
  <2>1. \A i \in p + 1 .. Len(bytes) : bytes[i] \in S
    BY <1>1, <1>2
  <2>2. p + 1 \in Int /\ Len(bytes) \in Int /\ p + 1 <= Len(bytes) + 1
    BY <1>1, <1>2
  <2> QED
    <3>1. rest = [i \in 1 .. 1 + Len(bytes) - (p + 1) |-> bytes[i + (p + 1) - 1]]
      <4> DEFINE q == Len(bytes)
      <4>1. q \in Nat /\ q <= Len(bytes)
        BY <1>1
      <4>2. rest = SubSeq(bytes, p + 1, q)
        OBVIOUS
      <4> HIDE DEF q, rest
      <4>3. SubSeq(bytes, p + 1, q) = [i \in 1 .. 1 + q - (p + 1) |-> bytes[i + (p + 1) - 1]]
        BY <1>2, <4>1
      <4> QED
        BY <4>2, <4>3 DEF q
    <3> HIDE DEF rest, long
    <3>2. 1 + Len(bytes) - (p + 1) = n
      BY <1>1, <1>2
    <3> HIDE DEF n
    <3>3. \A i \in 1 .. n : i + (p + 1) - 1 = p + i /\ bytes[p + i] \in S
      BY <1>2, <2>1
    <3>4. rest = [i \in 1 .. n |-> bytes[p + i]]
      BY <3>1, <3>2, <3>3
    <3> QED
      BY <1>2, <3>3, <3>4
<1> HIDE DEF long, n
<1>4. left \in Seq(S) /\ Len(left) = n + 1 /\ \A i \in 1 .. n + 1 : left[i] = long[p + i]
  <2>1. \A i \in p + 1 .. Len(bytes) + 1 : long[i] \in S
    BY <1>1, <1>2
  <2> QED
    BY <1>1, <1>2, <2>1, SubSeqProperties
<1>5. /\ right \in Seq(S) /\ Len(right) = n + 1 /\ right[n + 1] = byte
      /\ \A i \in 1 .. n : right[i] = rest[i]
  <2> HIDE DEF rest
  <2>1. rest \in Seq(S) /\ Len(rest) = n
    BY <1>3
  <2>2. /\ right \in Seq(S) /\ Len(right) = Len(rest) + 1 /\ right[Len(rest) + 1] = byte
        /\ \A i \in 1 .. Len(rest) : right[i] = rest[i]
    BY <2>1, AppendProperties
  <2> QED
    BY <2>1, <2>2
<1> HIDE DEF left, rest, right
<1>6. ASSUME NEW i \in 1 .. n + 1 PROVE left[i] = right[i]
  <2>1. CASE i \in 1 .. n
    BY <1>1, <1>2, <1>3, <1>4, <1>5, <2>1
  <2>2. CASE i = n + 1
    BY <1>1, <1>2, <1>4, <1>5, <2>2
  <2> QED
    BY <1>2, <2>1, <2>2
<1>7. left = right
  BY <1>2, <1>4, <1>5, <1>6, SeqEqual
<1>8. SubSeq(bytes, Len(bytes) + 1, Len(bytes)) = <<>>
  BY <1>1
<1> QED
  BY <1>7, <1>8 DEF left, right, rest, long

\* What a cut is, and that one is enough.
IsCut(cut, bytes, n, lines, rest) ==
  /\ cut \in [0 .. Len(lines) -> 0 .. Len(bytes)]
  /\ cut[0] = 0
  /\ \A i \in 1 .. Len(lines) :
       IF lines[i].serial = n
       THEN cut[i - 1] < cut[i] /\ lines[i].bytes = SubSeq(bytes, cut[i - 1] + 1, cut[i])
       ELSE cut[i] = cut[i - 1]
  /\ rest = SubSeq(bytes, cut[Len(lines)] + 1, Len(bytes))

\* A byte that ends no line makes the rest longer.
LEMMA ByteWaits ==
  ASSUME NEW S, NEW bytes \in Seq(S), NEW byte \in S, NEW lines \in Seq(Line), NEW n, NEW rest,
         CutIntoLines(bytes, n, lines, rest)
  PROVE CutIntoLines(Append(bytes, byte), n, lines, Append(rest, byte))
<1> DEFINE long == Append(bytes, byte)
           L == Len(lines)
           B == Len(bytes)
<1>1. PICK cut : IsCut(cut, bytes, n, lines, rest)
  BY DEF CutIntoLines, IsCut
<1>2. L \in Nat /\ B \in Nat /\ Len(long) = B + 1
  BY AppendProperties
<1> HIDE DEF L, B, long
<1>3. /\ cut \in [0 .. L -> 0 .. B] /\ cut[0] = 0
      /\ \A i \in 1 .. L : IF lines[i].serial = n
                           THEN cut[i - 1] < cut[i] /\ lines[i].bytes = SubSeq(bytes, cut[i - 1] + 1, cut[i])
                           ELSE cut[i] = cut[i - 1]
      /\ rest = SubSeq(bytes, cut[L] + 1, B)
  BY <1>1 DEF IsCut, L, B
<1>4. cut \in [0 .. L -> 0 .. Len(long)]
  BY <1>2, <1>3
<1>5. ASSUME NEW i \in 1 .. L
      PROVE IF lines[i].serial = n
            THEN cut[i - 1] < cut[i] /\ lines[i].bytes = SubSeq(long, cut[i - 1] + 1, cut[i])
            ELSE cut[i] = cut[i - 1]
  <2>1. i \in 0 .. L /\ i - 1 \in 0 .. L
    BY <1>2
  <2>2. cut[i] \in 0 .. Len(bytes) /\ cut[i - 1] \in 0 .. Len(bytes)
    BY <1>3, <2>1 DEF B
  <2>3. SubSeq(long, cut[i - 1] + 1, cut[i]) = SubSeq(bytes, cut[i - 1] + 1, cut[i])
    BY <2>2, PieceOfLonger DEF long
  <2> QED
    BY <1>3, <2>3
<1>6. Append(rest, byte) = SubSeq(long, cut[L] + 1, Len(long))
  <2>1. cut[L] \in 0 .. Len(bytes)
    BY <1>2, <1>3 DEF B
  <2>2. SubSeq(long, cut[L] + 1, Len(bytes) + 1) = Append(SubSeq(bytes, cut[L] + 1, Len(bytes)), byte)
    BY <2>1, RestOfLonger DEF long
  <2> QED
    BY <1>2, <1>3, <2>2 DEF B
<1>7. IsCut(cut, long, n, lines, Append(rest, byte))
  BY <1>3, <1>4, <1>5, <1>6 DEF IsCut, L
<1> QED
  BY <1>7 DEF IsCut, CutIntoLines, long

\* A cut of more lines: where the last of them ends is chosen.
LEMMA OneMoreLine ==
  ASSUME NEW lines \in Seq(Line), NEW line \in Line, NEW B \in Nat,
         NEW cut \in [0 .. Len(lines) -> 0 .. B], NEW end \in 0 .. B
  PROVE LET more == Append(lines, line)
            next == [i \in 0 .. Len(lines) + 1 |-> IF i <= Len(lines) THEN cut[i] ELSE end]
        IN /\ next \in [0 .. Len(more) -> 0 .. B]
           /\ Len(lines) \in Nat /\ Len(more) = Len(lines) + 1 /\ more[Len(lines) + 1] = line
           /\ \A i \in 1 .. Len(lines) : more[i] = lines[i]
           /\ \A i \in 0 .. Len(lines) : next[i] = cut[i]
           /\ next[Len(lines) + 1] = end
<1> DEFINE more == Append(lines, line)
           next == [i \in 0 .. Len(lines) + 1 |-> IF i <= Len(lines) THEN cut[i] ELSE end]
<1>1. /\ Len(lines) \in Nat /\ Len(more) = Len(lines) + 1 /\ more[Len(lines) + 1] = line
      /\ \A i \in 1 .. Len(lines) : more[i] = lines[i]
  BY AppendProperties
<1> HIDE DEF more
<1>2. \A i \in 0 .. Len(lines) + 1 : (IF i <= Len(lines) THEN cut[i] ELSE end) \in 0 .. B
  BY <1>1
<1>3. next \in [0 .. Len(lines) + 1 -> 0 .. B]
  BY <1>2
<1>4. (\A i \in 0 .. Len(lines) : next[i] = cut[i]) /\ next[Len(lines) + 1] = end
  BY <1>1
<1> HIDE DEF next
<1> QED
  BY <1>1, <1>3, <1>4 DEF more, next

\* A newline makes a line of the rest.
LEMMA LineEnds ==
  ASSUME NEW S, NEW bytes \in Seq(S), NEW byte \in S, NEW lines \in Seq(Line), NEW n, NEW rest,
         CutIntoLines(bytes, n, lines, rest),
         NEW line \in Line, line.serial = n, line.bytes = Append(rest, byte)
  PROVE CutIntoLines(Append(bytes, byte), n, Append(lines, line), <<>>)
<1> DEFINE long == Append(bytes, byte)
           more == Append(lines, line)
           L == Len(lines)
           B == Len(bytes)
<1>1. PICK cut : IsCut(cut, bytes, n, lines, rest)
  BY DEF CutIntoLines, IsCut
<1> DEFINE next == [i \in 0 .. L + 1 |-> IF i <= L THEN cut[i] ELSE B + 1]
<1>2. L \in Nat /\ B \in Nat /\ Len(long) = B + 1 /\ long \in Seq(S)
  BY AppendProperties
<1>3. /\ cut \in [0 .. L -> 0 .. B] /\ cut[0] = 0
      /\ \A i \in 1 .. L : IF lines[i].serial = n
                           THEN cut[i - 1] < cut[i] /\ lines[i].bytes = SubSeq(bytes, cut[i - 1] + 1, cut[i])
                           ELSE cut[i] = cut[i - 1]
      /\ rest = SubSeq(bytes, cut[L] + 1, B)
  BY <1>1 DEF IsCut
<1>4. /\ next \in [0 .. Len(more) -> 0 .. B + 1]
      /\ Len(more) = L + 1 /\ more[L + 1] = line
      /\ \A i \in 1 .. L : more[i] = lines[i]
      /\ \A i \in 0 .. L : next[i] = cut[i]
      /\ next[L + 1] = B + 1
  <2>1. cut \in [0 .. Len(lines) -> 0 .. B + 1] /\ B + 1 \in Nat /\ B + 1 \in 0 .. B + 1
    BY <1>2, <1>3
  <2> HIDE DEF B
  <2> QED
    BY <2>1, OneMoreLine
<1> HIDE DEF L, B, long, more, next
<1>5. ASSUME NEW i \in 1 .. L + 1
      PROVE IF more[i].serial = n
            THEN next[i - 1] < next[i] /\ more[i].bytes = SubSeq(long, next[i - 1] + 1, next[i])
            ELSE next[i] = next[i - 1]
  <2>1. CASE i \in 1 .. L
    <3>1. i \in 0 .. L /\ i - 1 \in 0 .. L
      BY <1>2, <2>1
    <3>2. cut[i] \in 0 .. Len(bytes) /\ cut[i - 1] \in 0 .. Len(bytes)
      BY <1>3, <3>1 DEF B
    <3>3. SubSeq(long, cut[i - 1] + 1, cut[i]) = SubSeq(bytes, cut[i - 1] + 1, cut[i])
      BY <3>2, PieceOfLonger DEF long
    <3> QED
      BY <1>3, <1>4, <2>1, <3>1, <3>3
  <2>2. CASE i = L + 1
    <3>1. i - 1 = L /\ L \in 0 .. L
      BY <1>2, <2>2
    <3>2. cut[L] \in 0 .. Len(bytes) /\ cut[L] < B + 1
      BY <1>2, <1>3, <3>1 DEF B
    <3>3. SubSeq(long, cut[L] + 1, Len(bytes) + 1) = Append(SubSeq(bytes, cut[L] + 1, Len(bytes)), byte)
      BY <3>2, RestOfLonger DEF long
    <3> QED
      BY <1>3, <1>4, <2>2, <3>1, <3>2, <3>3 DEF B
  <2> QED
    BY <1>2, <2>1, <2>2
<1>6. next[0] = 0
  BY <1>2, <1>3, <1>4
<1>7. <<>> = SubSeq(long, next[L + 1] + 1, Len(long))
  BY <1>2, <1>4, RestOfLonger
<1>8. IsCut(next, long, n, more, <<>>)
  BY <1>2, <1>4, <1>5, <1>6, <1>7 DEF IsCut
<1> QED
  BY <1>8 DEF IsCut, CutIntoLines, long, more

\* Another serial's line takes none of the bytes.
LEMMA OthersLine ==
  ASSUME NEW S, NEW bytes \in Seq(S), NEW lines \in Seq(Line), NEW n, NEW rest,
         CutIntoLines(bytes, n, lines, rest), NEW line \in Line, line.serial # n
  PROVE CutIntoLines(bytes, n, Append(lines, line), rest)
<1> DEFINE more == Append(lines, line)
           L == Len(lines)
           B == Len(bytes)
<1>1. PICK cut : IsCut(cut, bytes, n, lines, rest)
  BY DEF CutIntoLines, IsCut
<1> DEFINE next == [i \in 0 .. L + 1 |-> IF i <= L THEN cut[i] ELSE cut[L]]
<1>2. L \in Nat /\ B \in Nat
  OBVIOUS
<1>3. /\ cut \in [0 .. L -> 0 .. B] /\ cut[0] = 0
      /\ \A i \in 1 .. L : IF lines[i].serial = n
                           THEN cut[i - 1] < cut[i] /\ lines[i].bytes = SubSeq(bytes, cut[i - 1] + 1, cut[i])
                           ELSE cut[i] = cut[i - 1]
      /\ rest = SubSeq(bytes, cut[L] + 1, B)
  BY <1>1 DEF IsCut
<1>4. /\ next \in [0 .. Len(more) -> 0 .. B]
      /\ Len(more) = L + 1 /\ more[L + 1] = line
      /\ \A i \in 1 .. L : more[i] = lines[i]
      /\ \A i \in 0 .. L : next[i] = cut[i]
      /\ next[L + 1] = cut[L]
  <2>1. cut \in [0 .. Len(lines) -> 0 .. B] /\ cut[L] \in 0 .. B
    BY <1>2, <1>3
  <2> HIDE DEF B
  <2> QED
    BY <1>2, <2>1, OneMoreLine
<1> HIDE DEF L, B, more, next
<1>5. ASSUME NEW i \in 1 .. L + 1
      PROVE IF more[i].serial = n
            THEN next[i - 1] < next[i] /\ more[i].bytes = SubSeq(bytes, next[i - 1] + 1, next[i])
            ELSE next[i] = next[i - 1]
  <2>1. CASE i \in 1 .. L
    <3>1. i \in 0 .. L /\ i - 1 \in 0 .. L
      BY <1>2, <2>1
    <3> QED
      BY <1>3, <1>4, <2>1, <3>1
  <2>2. CASE i = L + 1
    <3>1. i - 1 = L /\ L \in 0 .. L
      BY <1>2, <2>2
    <3> QED
      BY <1>4, <2>2, <3>1
  <2> QED
    BY <1>2, <2>1, <2>2
<1>6. next[0] = 0
  BY <1>2, <1>3, <1>4
<1>7. IsCut(next, bytes, n, more, rest)
  BY <1>2, <1>3, <1>4, <1>5, <1>6 DEF IsCut, B
<1> QED
  BY <1>7 DEF IsCut, CutIntoLines, more

\* The bytes received, and that a line waits to be inserted only while the
\* simulation thread waits for the mutex.
WholeInv ==
  /\ received \in [Serials -> Seq(Bytes)]
  /\ pendingLine # <<>> => at = "insert"
  /\ LinesAreWhole

LEMMA NothingIsWhole ==
  ASSUME NEW n, NEW none, none = <<>>
  PROVE CutIntoLines(none, n, none, none)
<1> DEFINE cut == [i \in 0 .. 0 |-> 0]
<1>1. Len(none) = 0 /\ SubSeq(none, 1, 0) = none
  OBVIOUS
<1>2. cut \in [0 .. 0 -> 0 .. 0] /\ cut[0] = 0
  OBVIOUS
<1> HIDE DEF cut
<1>3. IsCut(cut, none, n, none, none)
  BY <1>1, <1>2 DEF IsCut
<1> QED
  BY <1>3 DEF IsCut, CutIntoLines

LEMMA WholeInvInit == HostInit => WholeInv
<1> SUFFICES ASSUME HostInit PROVE WholeInv
  OBVIOUS
<1>1. <<>> \in Seq(Bytes) /\ <<>> \in Seq(Line)
  OBVIOUS
<1>2. /\ received = [n \in Serials |-> <<>>] /\ LineBuffer = [n \in Serials |-> <<>>]
      /\ inserted = <<>> /\ pendingLine = <<>>
  BY DEF HostInit, LogInit
<1>3. inserted \o pendingLine = <<>> /\ Len(<<>>) = 0
  BY <1>2
<1>4. received \in [Serials -> Seq(Bytes)]
  BY <1>1, <1>2
<1>5. \A n \in Serials : CutIntoLines(received[n], n, inserted \o pendingLine, LineBuffer[n])
  BY <1>2, <1>3, NothingIsWhole
<1>6. \A i \in 1 .. Len(inserted \o pendingLine) : EndsWithNewline((inserted \o pendingLine)[i])
  BY <1>3
<1> QED
  BY <1>2, <1>4, <1>5, <1>6 DEF WholeInv, LinesAreWhole

LEMMA SameLines ==
  ASSUME WholeInv, UNCHANGED <<received, LineBuffer>>,
         inserted' \o pendingLine' = inserted \o pendingLine, pendingLine' # <<>> => at' = "insert"
  PROVE WholeInv'
<1>1. LinesAreWhole'
  BY DEF WholeInv, LinesAreWhole
<1> QED
  BY <1>1 DEF WholeInv

\* The bytes of a buffer and a newline: a line.
LEMMA BufferAndNewline ==
  ASSUME NEW buffer \in Seq(Bytes \ {Newline}), NEW line, line.bytes = Append(buffer, Newline)
  PROVE EndsWithNewline(line)
<1> DEFINE long == Append(buffer, Newline)
           S == Bytes \ {Newline}
<1>1. /\ Len(buffer) \in Nat /\ Len(long) = Len(buffer) + 1 /\ long[Len(buffer) + 1] = Newline
      /\ \A k \in 1 .. Len(buffer) : long[k] = buffer[k]
  <2>1. buffer \in Seq(Bytes) /\ Newline \in Bytes
    BY LogAssumption
  <2> QED
    BY <2>1, AppendProperties
<1>2. \A k \in 1 .. Len(buffer) : buffer[k] \in S
  <2> HIDE DEF S
  <2>1. buffer \in Seq(S)
    BY DEF S
  <2> QED
    BY <2>1, ElementOfSeq
<1> HIDE DEF long
<1>3. ASSUME NEW k \in 1 .. Len(long) PROVE long[k] = Newline <=> k = Len(long)
  <2>1. CASE k \in 1 .. Len(buffer)
    BY <1>1, <1>2, <2>1
  <2>2. CASE k = Len(buffer) + 1
    BY <1>1, <2>2
  <2> QED
    BY <1>1, <2>1, <2>2
<1> QED
  BY <1>3 DEF EndsWithNewline, long

LEMMA WholeByteStep ==
  ASSUME WholeInv, LogIInv, LoopType, pendingLine = <<>>,
         NEW n \in Serials, NEW byte \in Bytes, UartByte(n, byte)
  PROVE /\ received' \in [Serials -> Seq(Bytes)]
        /\ LinesAreWhole'
<1> DEFINE lines == inserted \o pendingLine
           buffer == Append(LineBuffer[n], byte)
<1>1. /\ lines = inserted /\ inserted \in Seq(Line) /\ inserted' = inserted
  BY DEF LogIInv, RenderType, UartByte
<1>2. /\ received \in [Serials -> Seq(Bytes)] /\ LineBuffer \in [Serials -> Seq(Bytes \ {Newline})]
      /\ received[n] \in Seq(Bytes) /\ LineBuffer[n] \in Seq(Bytes \ {Newline})
  BY DEF WholeInv, LoopType
<1>3. received' = [received EXCEPT ![n] = Append(received[n], byte)]
  BY DEF UartByte
<1>4. Append(received[n], byte) \in Seq(Bytes) /\ buffer \in Seq(Bytes)
  BY <1>2, AppendProperties
<1>5. received' \in [Serials -> Seq(Bytes)]
  BY <1>2, <1>3, <1>4
<1>6. \A m \in Serials : CutIntoLines(received[m], m, inserted, LineBuffer[m])
  BY <1>1 DEF WholeInv, LinesAreWhole
<1>7. \A i \in 1 .. Len(inserted) : EndsWithNewline(inserted[i])
  BY <1>1 DEF WholeInv, LinesAreWhole
<1>8. \A m \in Serials : received'[m] = IF m = n THEN Append(received[n], byte) ELSE received[m]
  BY <1>2, <1>3
<1>9. CASE byte # Newline
  <2>1. /\ pendingLine' = <<>> /\ LineBuffer' = [LineBuffer EXCEPT ![n] = buffer]
    BY <1>9 DEF UartByte, OnSerialByte
  <2>2. inserted' \o pendingLine' = inserted
    BY <1>1, <2>1
  <2>3. \A m \in Serials : LineBuffer'[m] = IF m = n THEN buffer ELSE LineBuffer[m]
    BY <1>2, <2>1
  <2>4. CutIntoLines(Append(received[n], byte), n, inserted, buffer)
    BY <1>1, <1>2, <1>6, ByteWaits
  <2>5. ASSUME NEW m \in Serials
        PROVE CutIntoLines(received'[m], m, inserted' \o pendingLine', LineBuffer'[m])
    <3> HIDE DEF buffer
    <3>1. CASE m = n
      BY <1>8, <2>2, <2>3, <2>4, <3>1
    <3>2. CASE m # n
      BY <1>6, <1>8, <2>2, <2>3, <3>2
    <3> QED
      BY <3>1, <3>2
  <2> QED
    BY <1>5, <1>7, <2>2, <2>5 DEF LinesAreWhole
<1>10. CASE byte = Newline
  <2> DEFINE line == [serial |-> n, bytes |-> buffer]
             more == Append(inserted, line)
  <2>1. /\ pendingLine' = <<line>> /\ LineBuffer' = [LineBuffer EXCEPT ![n] = <<>>]
    BY <1>10 DEF UartByte, OnSerialByte
  <2>2. line \in Line /\ line.serial = n /\ line.bytes = buffer
    BY <1>4 DEF Line
  <2>3. inserted' \o pendingLine' = more
    <3> HIDE DEF line
    <3> QED
      BY <1>1, <2>1, <2>2
  <2>4. \A m \in Serials : LineBuffer'[m] = IF m = n THEN <<>> ELSE LineBuffer[m]
    BY <1>2, <2>1
  <2>5. CutIntoLines(Append(received[n], byte), n, more, <<>>)
    <3> HIDE DEF line
    <3>1. /\ received[n] \in Seq(Bytes) /\ inserted \in Seq(Line) /\ line \in Line /\ line.serial = n
          /\ line.bytes = Append(LineBuffer[n], byte)
          /\ CutIntoLines(received[n], n, inserted, LineBuffer[n])
      BY <1>1, <1>2, <1>6, <2>2
    <3> QED
      BY <3>1, LineEnds
  <2>6. ASSUME NEW m \in Serials, m # n
        PROVE CutIntoLines(received[m], m, more, LineBuffer[m])
    <3> HIDE DEF line
    <3>1. /\ received[m] \in Seq(Bytes) /\ inserted \in Seq(Line) /\ line \in Line /\ line.serial # m
          /\ CutIntoLines(received[m], m, inserted, LineBuffer[m])
      BY <1>1, <1>2, <1>6, <2>2, <2>6
    <3> QED
      BY <3>1, OthersLine
  <2>7. EndsWithNewline(line)
    <3> HIDE DEF line
    <3>1. line.bytes = Append(LineBuffer[n], Newline)
      BY <1>10, <2>2
    <3> QED
      BY <1>2, <3>1, BufferAndNewline
  <2>8. /\ Len(inserted) \in Nat /\ Len(more) = Len(inserted) + 1 /\ more[Len(inserted) + 1] = line
        /\ \A i \in 1 .. Len(inserted) : more[i] = inserted[i]
    <3> HIDE DEF line
    <3> QED
      BY <1>1, <2>2, AppendProperties
  <2> HIDE DEF more, line
  <2>9. ASSUME NEW m \in Serials
        PROVE CutIntoLines(received'[m], m, inserted' \o pendingLine', LineBuffer'[m])
    <3>1. CASE m = n
      BY <1>8, <2>3, <2>4, <2>5, <3>1
    <3>2. CASE m # n
      BY <1>8, <2>3, <2>4, <2>6, <3>2
    <3> QED
      BY <3>1, <3>2
  <2>10. ASSUME NEW i \in 1 .. Len(more) PROVE EndsWithNewline(more[i])
    <3>1. CASE i \in 1 .. Len(inserted)
      BY <1>7, <2>8, <3>1
    <3>2. CASE i = Len(inserted) + 1
      BY <2>7, <2>8, <3>2
    <3> QED
      BY <2>8, <3>1, <3>2
  <2> QED
    BY <1>5, <2>3, <2>9, <2>10 DEF LinesAreWhole
<1> QED
  BY <1>9, <1>10

LEMMA WholeInvStep == WholeInv /\ LogIInv /\ LoopType /\ [HostNext]_hostVars => WholeInv'
<1> SUFFICES ASSUME WholeInv, LogIInv, LoopType, [HostNext]_hostVars PROVE WholeInv'
  OBVIOUS
<1>1. CASE LoopHead \/ RunClosure \/ TimerCycle \/ OtherCycle
  <2>1. /\ UNCHANGED <<received, LineBuffer, inserted, pendingLine>> /\ at # "insert"
    BY <1>1 DEF LoopHead, RunClosure, TimerCycle, OtherCycle, Cycle, logVars
  <2>2. inserted' \o pendingLine' = inserted \o pendingLine /\ pendingLine' = <<>>
    BY <2>1 DEF WholeInv
  <2> QED
    BY <2>1, <2>2, SameLines
<1>2. CASE UartCycle
  <2>1. PICK n \in Serials, byte \in Bytes : UartByte(n, byte)
    BY <1>2 DEF UartCycle
  <2>2. pendingLine = <<>>
    BY <1>2 DEF UartCycle, Cycle, WholeInv
  <2>3. received' \in [Serials -> Seq(Bytes)] /\ LinesAreWhole'
    BY <2>1, <2>2, WholeByteStep
  <2>4. pendingLine' # <<>> => at' = "insert"
    BY <1>2 DEF UartCycle
  <2> QED
    BY <2>3, <2>4 DEF WholeInv
<1>3. CASE InsertLine
  <2>1. /\ inserted \in Seq(Line) /\ pendingLine \in Seq(Line)
    <3>1. CASE pendingLine = <<>>
      BY <3>1 DEF LogIInv, RenderType
    <3>2. ASSUME NEW line \in Line, pendingLine = <<line>> PROVE pendingLine \in Seq(Line)
      BY <3>2
    <3> QED
      BY <3>1, <3>2 DEF LogIInv, RenderType, PendingType
  <2>2. /\ inserted' = inserted \o pendingLine /\ pendingLine' = <<>>
        /\ UNCHANGED <<received, LineBuffer>>
    BY <1>3 DEF InsertLine, Insert
  <2>3. (inserted \o pendingLine) \in Seq(Line)
    BY <2>1, ConcatProperties
  <2>4. inserted' \o pendingLine' = inserted \o pendingLine
    <3> DEFINE all == inserted \o pendingLine
    <3>1. all \in Seq(Line) /\ inserted' = all
      BY <2>2, <2>3
    <3> HIDE DEF all
    <3>2. inserted' \o pendingLine' = all
      BY <2>2, <3>1
    <3> QED
      BY <3>2 DEF all
  <2> QED
    BY <2>2, <2>4, SameLines
<1>4. CASE Interface \/ UNCHANGED hostVars
  <2>1. UNCHANGED <<received, LineBuffer, inserted, pendingLine, at>>
    <3>1. CASE Interface
      BY <3>1 DEF Interface, Post, End, Rendering, Render, BeginForEach, PushElement, EndForEach,
                  ScrollEvent, OnEvent, logVars, loopVars
    <3>2. CASE UNCHANGED hostVars
      BY <3>2 DEF hostVars, logVars, loopVars
    <3> QED
      BY <1>4, <3>1, <3>2
  <2>2. inserted' \o pendingLine' = inserted \o pendingLine /\ (pendingLine' # <<>> => at' = "insert")
    BY <2>1 DEF WholeInv
  <2> QED
    BY <2>1, <2>2, SameLines
<1> QED
  BY <1>1, <1>2, <1>3, <1>4 DEF HostNext, Simulation

\* Every byte of a serial is in one of its lines, in order, or waits in its
\* buffer, and every line ends at its first newline
\* (uart_linebuffer_logger.cpp:8-22).
THEOREM LinesCorrect == HostSpec => []LinesAreWhole
<1>1. HostInit => LogIInv
  BY LogIInvInit DEF HostInit
<1>2. WholeInv => LinesAreWhole
  BY DEF WholeInv
<1> QED
  BY <1>1, <1>2, LogIInvStep, LoopTypeInit, LoopTypeStep, WholeInvInit, WholeInvStep, PTL DEF HostSpec
=============================================================================
