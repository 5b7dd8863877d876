------------------------- MODULE SafeChannelProofs -------------------------
(***************************************************************************)
(* What a manager of one connection and one channel may promise, for any   *)
(* number of callers and faults.  The mutex leaves one call to reason      *)
(* about: where it is tells what it has checked, and a fault that makes    *)
(* it wrong excuses it.                                                    *)
(***************************************************************************)
EXTENDS SafeChannel, FiniteSetTheorems, TLAPS

\* The manager's pointers and the notifications that belong to them.
ManagerInv ==
    /\ conn # 0 => connClose = conn /\ link[conn] # "none"
    /\ ch # 0 => /\ conn # 0 /\ chClose = ch
                 /\ chan[ch] # "none" /\ home[ch] = conn

\* Channels have a connection that was opened, and only what ended is notified.
BrokerInv ==
    \A i \in Ids :
        /\ chan[i] # "none" => home[i] \in Ids /\ link[home[i]] # "none"
        /\ i \in told => chan[i] = "closed"

\* What the holder of the mutex knows of the manager at its step.
StepInv(p) ==
    /\ pc[p] = "dial" => conn = 0 /\ ch = 0
    /\ pc[p] = "channel" => ch = 0
    /\ pc[p] = "check" /\ attempt[p] = 2 => ch = 0
    /\ pc[p] \in {"idle", "lock"} => attempt[p] = 1
    /\ pc[p] = "open" => p \in Openers
    /\ pc[p] = "send" => p \in Publishers

\* Nothing is broken behind a call that has no excuse.
ExcuseInv(p) ==
    p \in excused \/ p \notin Running \/
        /\ \A i \in Ids : link[i] # "failing"
        /\ pc[p] \in {"channel", "open", "send"} => link[conn] = "up"
        /\ pc[p] = "send" /\ attempt[p] = 2 => Works(ch)

\* The answers, and what was sent before them.
AnswerInv(p) ==
    /\ result[p] = "none" <=> pc[p] # "done"
    /\ result[p] = "error" => p \in excused
    /\ p \in Publishers =>
          /\ routed[p] \in {0, 1}
          /\ routed[p] = 1 => result[p] = "ok"
          /\ result[p] = "ok" /\ p \notin excused => routed[p] = 1

IInv ==
    /\ TypeOK
    /\ ManagerInv
    /\ BrokerInv
    /\ NothingLeaks
    /\ \A p \in Callers : StepInv(p) /\ ExcuseInv(p) /\ AnswerInv(p)

LEMMA NewUnused ==
    ASSUME NEW f \in [Ids -> {"none", "up", "failing", "closed", "open"}], Unused(f) # {}
    PROVE  New(f) \in Ids /\ f[New(f)] = "none"
BY DEF Unused, New

LEMMA IdsPositive == Ids \subseteq Nat /\ 0 \notin Ids
BY SafeChannelAssumption DEF Ids

-----------------------------------------------------------------------------
(* The invariant is inductive: one lemma per action.                         *)

LEMMA InitIInv == Init => IInv
<1> SUFFICES ASSUME Init PROVE IInv
  OBVIOUS
<1> USE SafeChannelAssumption, IdsPositive DEF Init
<1>1. TypeOK
  <2>1. \A p \in Callers : holder # p /\ pc[p] = "idle"
    BY DEF Callers
  <2>2. attempt \in [Callers -> {1, 2}] /\ faults \in 0..MaxFaults
    OBVIOUS
  <2>3. routed \in [Publishers -> Nat] /\ home \in [Ids -> Ids \cup {0}]
    OBVIOUS
  <2> QED
    BY <2>1, <2>2, <2>3 DEF TypeOK
<1>2. ManagerInv /\ BrokerInv /\ NothingLeaks
  BY DEF ManagerInv, BrokerInv, NothingLeaks, Works
<1>3. \A p \in Callers : StepInv(p) /\ ExcuseInv(p) /\ AnswerInv(p)
  BY DEF StepInv, ExcuseInv, AnswerInv, Running
<1> QED
  BY <1>1, <1>2, <1>3 DEF IInv

LEMMA CallIInv ==
    ASSUME NEW p \in Callers, Call(p), IInv
    PROVE  IInv'
<1> USE SafeChannelAssumption, IdsPositive DEF Call, Goto, manager, broker, calls
<1>0. TypeOK /\ ManagerInv /\ BrokerInv /\ NothingLeaks
  BY DEF IInv
<1>9. StepInv(p) /\ ExcuseInv(p) /\ AnswerInv(p)
  BY DEF IInv
<1>1. TypeOK'
  BY <1>0, <1>9 DEF TypeOK, CloseChan, StepInv, ManagerInv, BrokerInv, Ready, Callers, Works,
     Running
<1>2. ManagerInv'
  BY <1>0, <1>9 DEF TypeOK, ManagerInv, BrokerInv, StepInv, CloseChan, Works, Callers
<1>3. BrokerInv'
  BY <1>0, <1>9 DEF TypeOK, ManagerInv, BrokerInv, CloseChan, Works
<1>4. NothingLeaks'
  BY <1>0, <1>9 DEF TypeOK, ManagerInv, BrokerInv, NothingLeaks, StepInv, Works, CloseChan, Callers
<1>5. ASSUME NEW c \in Callers PROVE StepInv(c)' /\ ExcuseInv(c)' /\ AnswerInv(c)'
  <2>1. StepInv(c) /\ ExcuseInv(c) /\ AnswerInv(c)
    BY DEF IInv
  <2>2. StepInv(c)'
    BY <1>0, <1>9, <2>1 DEF TypeOK, StepInv, Callers, Ready, ManagerInv
  <2>3. ExcuseInv(c)'
    BY <1>0, <1>9, <2>1 DEF TypeOK, ManagerInv, BrokerInv, StepInv, ExcuseInv, Running,
       Works, CloseChan, Callers, Ready
  <2>4. AnswerInv(c)'
    BY <1>0, <1>9, <2>1 DEF TypeOK, StepInv, ExcuseInv, AnswerInv, BrokerInv, Running,
       Callers, Ready, Works
  <2> QED
    BY <2>2, <2>3, <2>4
<1> QED
  BY <1>1, <1>2, <1>3, <1>4, <1>5 DEF IInv

LEMMA LockIInv ==
    ASSUME NEW p \in Callers, Lock(p), IInv
    PROVE  IInv'
<1> USE SafeChannelAssumption, IdsPositive DEF Lock, manager, broker, calls
<1>0. TypeOK /\ ManagerInv /\ BrokerInv /\ NothingLeaks
  BY DEF IInv
<1>9. StepInv(p) /\ ExcuseInv(p) /\ AnswerInv(p)
  BY DEF IInv
<1>1. TypeOK'
  BY <1>0, <1>9 DEF TypeOK, CloseChan, StepInv, ManagerInv, BrokerInv, Ready, Callers, Works,
     Running
<1>2. ManagerInv'
  BY <1>0, <1>9 DEF TypeOK, ManagerInv, BrokerInv, StepInv, CloseChan, Works, Callers
<1>3. BrokerInv'
  BY <1>0, <1>9 DEF TypeOK, ManagerInv, BrokerInv, CloseChan, Works
<1>4. NothingLeaks'
  BY <1>0, <1>9 DEF TypeOK, ManagerInv, BrokerInv, NothingLeaks, StepInv, Works, CloseChan, Callers
<1>5. ASSUME NEW c \in Callers PROVE StepInv(c)' /\ ExcuseInv(c)' /\ AnswerInv(c)'
  <2>1. StepInv(c) /\ ExcuseInv(c) /\ AnswerInv(c)
    BY DEF IInv
  <2>2. StepInv(c)'
    BY <1>0, <1>9, <2>1 DEF TypeOK, StepInv, Callers, Ready, ManagerInv
  <2>3. ExcuseInv(c)'
    BY <1>0, <1>9, <2>1 DEF TypeOK, ManagerInv, BrokerInv, StepInv, ExcuseInv, Running,
       Works, CloseChan, Callers, Ready
  <2>4. AnswerInv(c)'
    BY <1>0, <1>9, <2>1 DEF TypeOK, StepInv, ExcuseInv, AnswerInv, BrokerInv, Running,
       Callers, Ready, Works
  <2> QED
    BY <2>2, <2>3, <2>4
<1> QED
  BY <1>1, <1>2, <1>3, <1>4, <1>5 DEF IInv

LEMMA CheckIInv ==
    ASSUME NEW p \in Callers, Check(p), IInv
    PROVE  IInv'
<1> USE SafeChannelAssumption, IdsPositive DEF Check, Goto, manager, broker, calls
<1>0. TypeOK /\ ManagerInv /\ BrokerInv /\ NothingLeaks
  BY DEF IInv
<1>9. StepInv(p) /\ ExcuseInv(p) /\ AnswerInv(p)
  BY DEF IInv
<1>1. TypeOK'
  BY <1>0, <1>9 DEF TypeOK, CloseChan, StepInv, ManagerInv, BrokerInv, Ready, Callers, Works,
     Running
<1>2. ManagerInv'
  BY <1>0, <1>9 DEF TypeOK, ManagerInv, BrokerInv, StepInv, CloseChan, Works, Callers
<1>3. BrokerInv'
  BY <1>0, <1>9 DEF TypeOK, ManagerInv, BrokerInv, CloseChan, Works
<1>4. NothingLeaks'
  BY <1>0, <1>9 DEF TypeOK, ManagerInv, BrokerInv, NothingLeaks, StepInv, Works, CloseChan, Callers
<1>5. ASSUME NEW c \in Callers PROVE StepInv(c)' /\ ExcuseInv(c)' /\ AnswerInv(c)'
  <2>1. StepInv(c) /\ ExcuseInv(c) /\ AnswerInv(c)
    BY DEF IInv
  <2>2. StepInv(c)'
    BY <1>0, <1>9, <2>1 DEF TypeOK, StepInv, Callers, Ready, ManagerInv
  <2>3. ExcuseInv(c)'
    <3>1. CASE c = p
      <4>1. pc'[p] \in {"send", "open", "channel"} => conn' # 0 /\ conn' = conn /\ link[conn] # "closed"
        BY <1>0, <1>9 DEF TypeOK, ManagerInv, Ready
      <4>2. pc[p] = "check" /\ UNCHANGED <<link, excused, attempt>>
        OBVIOUS
      <4>3. attempt[p] = 2 => ch = 0 /\ pc'[p] # "send"
        BY <1>0, <1>9, <4>2 DEF TypeOK, StepInv, Ready, ManagerInv
      <4> QED
        BY <1>0, <1>9, <3>1, <4>1, <4>2, <4>3 DEF TypeOK, ManagerInv, ExcuseInv, Running
    <3>2. CASE c # p
      <4>1. pc'[c] = pc[c] /\ pc[c] \in {"idle", "lock", "done"}
        BY <1>0, <3>2 DEF TypeOK
      <4> QED
        BY <2>1, <4>1 DEF ExcuseInv, Running
    <3> QED
      BY <3>1, <3>2
  <2>4. AnswerInv(c)'
    BY <1>0, <1>9, <2>1 DEF TypeOK, StepInv, ExcuseInv, AnswerInv, BrokerInv, Running,
       Callers, Ready, Works
  <2> QED
    BY <2>2, <2>3, <2>4
<1> QED
  BY <1>1, <1>2, <1>3, <1>4, <1>5 DEF IInv

LEMMA DialIInv ==
    ASSUME NEW p \in Callers, Dial(p), IInv
    PROVE  IInv'
<1> USE SafeChannelAssumption, IdsPositive DEF Dial, Goto, manager, broker, calls
<1>0. TypeOK /\ ManagerInv /\ BrokerInv /\ NothingLeaks
  BY DEF IInv
<1>9. StepInv(p) /\ ExcuseInv(p) /\ AnswerInv(p)
  BY DEF IInv
<1>10. New(link) \in Ids /\ link[New(link)] = "none"
  BY <1>0, NewUnused DEF TypeOK
<1>1. TypeOK'
  BY <1>0, <1>9, <1>10 DEF TypeOK, CloseChan, StepInv, ManagerInv, BrokerInv, Ready, Callers,
     Works, Running
<1>2. ManagerInv'
  BY <1>0, <1>9, <1>10 DEF TypeOK, ManagerInv, BrokerInv, StepInv, CloseChan, Works, Callers
<1>3. BrokerInv'
  BY <1>0, <1>9, <1>10 DEF TypeOK, ManagerInv, BrokerInv, CloseChan, Works
<1>4. NothingLeaks'
  BY <1>0, <1>9, <1>10 DEF TypeOK, ManagerInv, BrokerInv, NothingLeaks, StepInv, Works,
     CloseChan, Callers
<1>5. ASSUME NEW c \in Callers PROVE StepInv(c)' /\ ExcuseInv(c)' /\ AnswerInv(c)'
  <2>1. StepInv(c) /\ ExcuseInv(c) /\ AnswerInv(c)
    BY DEF IInv
  <2>2. StepInv(c)'
    BY <1>0, <1>9, <1>10, <2>1 DEF TypeOK, StepInv, Callers, Ready, ManagerInv
  <2>3. ExcuseInv(c)'
    BY <1>0, <1>9, <1>10, <2>1 DEF TypeOK, ManagerInv, BrokerInv, StepInv, ExcuseInv,
       Running, Works, CloseChan, Callers, Ready
  <2>4. AnswerInv(c)'
    BY <1>0, <1>9, <1>10, <2>1 DEF TypeOK, StepInv, ExcuseInv, AnswerInv, BrokerInv,
       Running, Callers, Ready, Works
  <2> QED
    BY <2>2, <2>3, <2>4
<1> QED
  BY <1>1, <1>2, <1>3, <1>4, <1>5 DEF IInv

LEMMA DialFailsIInv ==
    ASSUME NEW p \in Callers, DialFails(p), IInv
    PROVE  IInv'
<1> USE SafeChannelAssumption, IdsPositive DEF DialFails, Fault, Return, manager, broker, calls
<1>0. TypeOK /\ ManagerInv /\ BrokerInv /\ NothingLeaks
  BY DEF IInv
<1>9. StepInv(p) /\ ExcuseInv(p) /\ AnswerInv(p)
  BY DEF IInv
<1>1. TypeOK'
  BY <1>0, <1>9 DEF TypeOK, CloseChan, StepInv, ManagerInv, BrokerInv, Ready, Callers, Works,
     Running
<1>2. ManagerInv'
  BY <1>0, <1>9 DEF TypeOK, ManagerInv, BrokerInv, StepInv, CloseChan, Works, Callers
<1>3. BrokerInv'
  BY <1>0, <1>9 DEF TypeOK, ManagerInv, BrokerInv, CloseChan, Works
<1>4. NothingLeaks'
  BY <1>0, <1>9 DEF TypeOK, ManagerInv, BrokerInv, NothingLeaks, StepInv, Works, CloseChan, Callers
<1>5. ASSUME NEW c \in Callers PROVE StepInv(c)' /\ ExcuseInv(c)' /\ AnswerInv(c)'
  <2>1. StepInv(c) /\ ExcuseInv(c) /\ AnswerInv(c)
    BY DEF IInv
  <2>2. StepInv(c)'
    BY <1>0, <1>9, <2>1 DEF TypeOK, StepInv, Callers, Ready, ManagerInv
  <2>3. ExcuseInv(c)'
    BY <1>0, <1>9, <2>1 DEF TypeOK, ManagerInv, BrokerInv, StepInv, ExcuseInv, Running,
       Works, CloseChan, Callers, Ready
  <2>4. AnswerInv(c)'
    BY <1>0, <1>9, <2>1 DEF TypeOK, StepInv, ExcuseInv, AnswerInv, BrokerInv, Running,
       Callers, Ready, Works
  <2> QED
    BY <2>2, <2>3, <2>4
<1> QED
  BY <1>1, <1>2, <1>3, <1>4, <1>5 DEF IInv

LEMMA OpenChannelIInv ==
    ASSUME NEW p \in Callers, OpenChannel(p), IInv
    PROVE  IInv'
<1> USE SafeChannelAssumption, IdsPositive DEF OpenChannel, Goto, manager, broker, calls
<1>0. TypeOK /\ ManagerInv /\ BrokerInv /\ NothingLeaks
  BY DEF IInv
<1>9. StepInv(p) /\ ExcuseInv(p) /\ AnswerInv(p)
  BY DEF IInv
<1>10. New(chan) \in Ids /\ chan[New(chan)] = "none"
  BY <1>0, NewUnused DEF TypeOK
<1>1. TypeOK'
  BY <1>0, <1>9, <1>10 DEF TypeOK, CloseChan, StepInv, ManagerInv, BrokerInv, Ready, Callers,
     Works, Running
<1>2. ManagerInv'
  BY <1>0, <1>9, <1>10 DEF TypeOK, ManagerInv, BrokerInv, StepInv, CloseChan, Works, Callers
<1>3. BrokerInv'
  BY <1>0, <1>9, <1>10 DEF TypeOK, ManagerInv, BrokerInv, CloseChan, Works
<1>4. NothingLeaks'
  BY <1>0, <1>9, <1>10 DEF TypeOK, ManagerInv, BrokerInv, NothingLeaks, StepInv, Works,
     CloseChan, Callers
<1>5. ASSUME NEW c \in Callers PROVE StepInv(c)' /\ ExcuseInv(c)' /\ AnswerInv(c)'
  <2>1. StepInv(c) /\ ExcuseInv(c) /\ AnswerInv(c)
    BY DEF IInv
  <2>2. StepInv(c)'
    BY <1>0, <1>9, <1>10, <2>1 DEF TypeOK, StepInv, Callers, Ready, ManagerInv
  <2>3. ExcuseInv(c)'
    BY <1>0, <1>9, <1>10, <2>1 DEF TypeOK, ManagerInv, BrokerInv, StepInv, ExcuseInv,
       Running, Works, CloseChan, Callers, Ready
  <2>4. AnswerInv(c)'
    BY <1>0, <1>9, <1>10, <2>1 DEF TypeOK, StepInv, ExcuseInv, AnswerInv, BrokerInv,
       Running, Callers, Ready, Works
  <2> QED
    BY <2>2, <2>3, <2>4
<1> QED
  BY <1>1, <1>2, <1>3, <1>4, <1>5 DEF IInv

LEMMA DeclareFailsIInv ==
    ASSUME NEW p \in Callers, DeclareFails(p), IInv
    PROVE  IInv'
<1> USE SafeChannelAssumption, IdsPositive DEF DeclareFails, Fault, Return, manager, broker, calls
<1>0. TypeOK /\ ManagerInv /\ BrokerInv /\ NothingLeaks
  BY DEF IInv
<1>9. StepInv(p) /\ ExcuseInv(p) /\ AnswerInv(p)
  BY DEF IInv
<1>10. New(chan) \in Ids /\ chan[New(chan)] = "none"
  BY <1>0, NewUnused DEF TypeOK
<1>1. TypeOK'
  BY <1>0, <1>9, <1>10 DEF TypeOK, CloseChan, StepInv, ManagerInv, BrokerInv, Ready, Callers,
     Works, Running
<1>2. ManagerInv'
  BY <1>0, <1>9, <1>10 DEF TypeOK, ManagerInv, BrokerInv, StepInv, CloseChan, Works, Callers
<1>3. BrokerInv'
  BY <1>0, <1>9, <1>10 DEF TypeOK, ManagerInv, BrokerInv, CloseChan, Works
<1>4. NothingLeaks'
  BY <1>0, <1>9, <1>10 DEF TypeOK, ManagerInv, BrokerInv, NothingLeaks, StepInv, Works,
     CloseChan, Callers
<1>5. ASSUME NEW c \in Callers PROVE StepInv(c)' /\ ExcuseInv(c)' /\ AnswerInv(c)'
  <2>1. StepInv(c) /\ ExcuseInv(c) /\ AnswerInv(c)
    BY DEF IInv
  <2>2. StepInv(c)'
    BY <1>0, <1>9, <1>10, <2>1 DEF TypeOK, StepInv, Callers, Ready, ManagerInv
  <2>3. ExcuseInv(c)'
    BY <1>0, <1>9, <1>10, <2>1 DEF TypeOK, ManagerInv, BrokerInv, StepInv, ExcuseInv,
       Running, Works, CloseChan, Callers, Ready
  <2>4. AnswerInv(c)'
    BY <1>0, <1>9, <1>10, <2>1 DEF TypeOK, StepInv, ExcuseInv, AnswerInv, BrokerInv,
       Running, Callers, Ready, Works
  <2> QED
    BY <2>2, <2>3, <2>4
<1> QED
  BY <1>1, <1>2, <1>3, <1>4, <1>5 DEF IInv

LEMMA ChannelFailsIInv ==
    ASSUME NEW p \in Callers, ChannelFails(p), IInv
    PROVE  IInv'
<1> USE SafeChannelAssumption, IdsPositive DEF ChannelFails, Return, manager, broker, calls
<1>0. TypeOK /\ ManagerInv /\ BrokerInv /\ NothingLeaks
  BY DEF IInv
<1>9. StepInv(p) /\ ExcuseInv(p) /\ AnswerInv(p)
  BY DEF IInv
<1>1. TypeOK'
  BY <1>0, <1>9 DEF TypeOK, CloseChan, StepInv, ManagerInv, BrokerInv, Ready, Callers, Works,
     Running
<1>2. ManagerInv'
  BY <1>0, <1>9 DEF TypeOK, ManagerInv, BrokerInv, StepInv, CloseChan, Works, Callers
<1>3. BrokerInv'
  BY <1>0, <1>9 DEF TypeOK, ManagerInv, BrokerInv, CloseChan, Works
<1>4. NothingLeaks'
  BY <1>0, <1>9 DEF TypeOK, ManagerInv, BrokerInv, NothingLeaks, StepInv, Works, CloseChan, Callers
<1>5. ASSUME NEW c \in Callers PROVE StepInv(c)' /\ ExcuseInv(c)' /\ AnswerInv(c)'
  <2>1. StepInv(c) /\ ExcuseInv(c) /\ AnswerInv(c)
    BY DEF IInv
  <2>2. StepInv(c)'
    BY <1>0, <1>9, <2>1 DEF TypeOK, StepInv, Callers, Ready, ManagerInv
  <2>3. ExcuseInv(c)'
    BY <1>0, <1>9, <2>1 DEF TypeOK, ManagerInv, BrokerInv, StepInv, ExcuseInv, Running,
       Works, CloseChan, Callers, Ready
  <2>4. AnswerInv(c)'
    BY <1>0, <1>9, <2>1 DEF TypeOK, StepInv, ExcuseInv, AnswerInv, BrokerInv, Running,
       Callers, Ready, Works
  <2> QED
    BY <2>2, <2>3, <2>4
<1> QED
  BY <1>1, <1>2, <1>3, <1>4, <1>5 DEF IInv

LEMMA OpenOwnIInv ==
    ASSUME NEW p \in Callers, OpenOwn(p), IInv
    PROVE  IInv'
<1> USE SafeChannelAssumption, IdsPositive DEF OpenOwn, Return, manager, broker, calls
<1>0. TypeOK /\ ManagerInv /\ BrokerInv /\ NothingLeaks
  BY DEF IInv
<1>9. StepInv(p) /\ ExcuseInv(p) /\ AnswerInv(p)
  BY DEF IInv
<1>1. TypeOK'
  BY <1>0, <1>9 DEF TypeOK, CloseChan, StepInv, ManagerInv, BrokerInv, Ready, Callers, Works,
     Running
<1>2. ManagerInv'
  BY <1>0, <1>9 DEF TypeOK, ManagerInv, BrokerInv, StepInv, CloseChan, Works, Callers
<1>3. BrokerInv'
  BY <1>0, <1>9 DEF TypeOK, ManagerInv, BrokerInv, CloseChan, Works
<1>4. NothingLeaks'
  BY <1>0, <1>9 DEF TypeOK, ManagerInv, BrokerInv, NothingLeaks, StepInv, Works, CloseChan, Callers
<1>5. ASSUME NEW c \in Callers PROVE StepInv(c)' /\ ExcuseInv(c)' /\ AnswerInv(c)'
  <2>1. StepInv(c) /\ ExcuseInv(c) /\ AnswerInv(c)
    BY DEF IInv
  <2>2. StepInv(c)'
    BY <1>0, <1>9, <2>1 DEF TypeOK, StepInv, Callers, Ready, ManagerInv
  <2>3. ExcuseInv(c)'
    BY <1>0, <1>9, <2>1 DEF TypeOK, ManagerInv, BrokerInv, StepInv, ExcuseInv, Running,
       Works, CloseChan, Callers, Ready
  <2>4. AnswerInv(c)'
    BY <1>0, <1>9, <2>1 DEF TypeOK, StepInv, ExcuseInv, AnswerInv, BrokerInv, Running,
       Callers, Ready, Works
  <2> QED
    BY <2>2, <2>3, <2>4
<1> QED
  BY <1>1, <1>2, <1>3, <1>4, <1>5 DEF IInv

LEMMA SendIInv ==
    ASSUME NEW p \in Callers, Send(p), IInv
    PROVE  IInv'
<1> USE SafeChannelAssumption, IdsPositive DEF Send, Return, manager, broker, calls
<1>0. TypeOK /\ ManagerInv /\ BrokerInv /\ NothingLeaks
  BY DEF IInv
<1>9. StepInv(p) /\ ExcuseInv(p) /\ AnswerInv(p)
  BY DEF IInv
<1>1. TypeOK'
  BY <1>0, <1>9 DEF TypeOK, CloseChan, StepInv, ManagerInv, BrokerInv, Ready, Callers, Works,
     Running
<1>2. ManagerInv'
  BY <1>0, <1>9 DEF TypeOK, ManagerInv, BrokerInv, StepInv, CloseChan, Works, Callers
<1>3. BrokerInv'
  BY <1>0, <1>9 DEF TypeOK, ManagerInv, BrokerInv, CloseChan, Works
<1>4. NothingLeaks'
  BY <1>0, <1>9 DEF TypeOK, ManagerInv, BrokerInv, NothingLeaks, StepInv, Works, CloseChan, Callers
<1>5. ASSUME NEW c \in Callers PROVE StepInv(c)' /\ ExcuseInv(c)' /\ AnswerInv(c)'
  <2>1. StepInv(c) /\ ExcuseInv(c) /\ AnswerInv(c)
    BY DEF IInv
  <2>2. StepInv(c)'
    BY <1>0, <1>9, <2>1 DEF TypeOK, StepInv, Callers, Ready, ManagerInv
  <2>3. ExcuseInv(c)'
    BY <1>0, <1>9, <2>1 DEF TypeOK, ManagerInv, BrokerInv, StepInv, ExcuseInv, Running,
       Works, CloseChan, Callers, Ready
  <2>4. AnswerInv(c)'
    BY <1>0, <1>9, <2>1 DEF TypeOK, StepInv, ExcuseInv, AnswerInv, BrokerInv, Running,
       Callers, Ready, Works
  <2> QED
    BY <2>2, <2>3, <2>4
<1> QED
  BY <1>1, <1>2, <1>3, <1>4, <1>5 DEF IInv

LEMMA SendIsLostIInv ==
    ASSUME NEW p \in Callers, SendIsLost(p), IInv
    PROVE  IInv'
<1> USE SafeChannelAssumption, IdsPositive DEF SendIsLost, Return, manager, broker, calls
<1>0. TypeOK /\ ManagerInv /\ BrokerInv /\ NothingLeaks
  BY DEF IInv
<1>9. StepInv(p) /\ ExcuseInv(p) /\ AnswerInv(p)
  BY DEF IInv
<1>1. TypeOK'
  BY <1>0, <1>9 DEF TypeOK, CloseChan, StepInv, ManagerInv, BrokerInv, Ready, Callers, Works,
     Running
<1>2. ManagerInv'
  BY <1>0, <1>9 DEF TypeOK, ManagerInv, BrokerInv, StepInv, CloseChan, Works, Callers
<1>3. BrokerInv'
  BY <1>0, <1>9 DEF TypeOK, ManagerInv, BrokerInv, CloseChan, Works
<1>4. NothingLeaks'
  BY <1>0, <1>9 DEF TypeOK, ManagerInv, BrokerInv, NothingLeaks, StepInv, Works, CloseChan, Callers
<1>5. ASSUME NEW c \in Callers PROVE StepInv(c)' /\ ExcuseInv(c)' /\ AnswerInv(c)'
  <2>1. StepInv(c) /\ ExcuseInv(c) /\ AnswerInv(c)
    BY DEF IInv
  <2>2. StepInv(c)'
    BY <1>0, <1>9, <2>1 DEF TypeOK, StepInv, Callers, Ready, ManagerInv
  <2>3. ExcuseInv(c)'
    BY <1>0, <1>9, <2>1 DEF TypeOK, ManagerInv, BrokerInv, StepInv, ExcuseInv, Running,
       Works, CloseChan, Callers, Ready
  <2>4. AnswerInv(c)'
    BY <1>0, <1>9, <2>1 DEF TypeOK, StepInv, ExcuseInv, AnswerInv, BrokerInv, Running,
       Callers, Ready, Works
  <2> QED
    BY <2>2, <2>3, <2>4
<1> QED
  BY <1>1, <1>2, <1>3, <1>4, <1>5 DEF IInv

LEMMA SendFailsIInv ==
    ASSUME NEW p \in Callers, SendFails(p), IInv
    PROVE  IInv'
<1> USE SafeChannelAssumption, IdsPositive DEF SendFails, Goto, Return, manager, broker, calls
<1>0. TypeOK /\ ManagerInv /\ BrokerInv /\ NothingLeaks
  BY DEF IInv
<1>9. StepInv(p) /\ ExcuseInv(p) /\ AnswerInv(p)
  BY DEF IInv
<1>1. TypeOK'
  BY <1>0, <1>9 DEF TypeOK, CloseChan, StepInv, ManagerInv, BrokerInv, Ready, Callers, Works,
     Running
<1>2. ManagerInv'
  BY <1>0, <1>9 DEF TypeOK, ManagerInv, BrokerInv, StepInv, CloseChan, Works, Callers
<1>3. BrokerInv'
  BY <1>0, <1>9 DEF TypeOK, ManagerInv, BrokerInv, CloseChan, Works
<1>4. NothingLeaks'
  BY <1>0, <1>9 DEF TypeOK, ManagerInv, BrokerInv, NothingLeaks, StepInv, Works, CloseChan, Callers
<1>5. ASSUME NEW c \in Callers PROVE StepInv(c)' /\ ExcuseInv(c)' /\ AnswerInv(c)'
  <2>1. StepInv(c) /\ ExcuseInv(c) /\ AnswerInv(c)
    BY DEF IInv
  <2>2. StepInv(c)'
    BY <1>0, <1>9, <2>1 DEF TypeOK, StepInv, Callers, Ready, ManagerInv
  <2>3. ExcuseInv(c)'
    BY <1>0, <1>9, <2>1 DEF TypeOK, ManagerInv, BrokerInv, StepInv, ExcuseInv, Running,
       Works, CloseChan, Callers, Ready
  <2>4. AnswerInv(c)'
    BY <1>0, <1>9, <2>1 DEF TypeOK, StepInv, ExcuseInv, AnswerInv, BrokerInv, Running,
       Callers, Ready, Works
  <2> QED
    BY <2>2, <2>3, <2>4
<1> QED
  BY <1>1, <1>2, <1>3, <1>4, <1>5 DEF IInv

LEMMA CloseIInv ==
    ASSUME Close, IInv
    PROVE  IInv'
<1> USE SafeChannelAssumption, IdsPositive DEF Close, manager, broker, calls
<1>0. TypeOK /\ ManagerInv /\ BrokerInv /\ NothingLeaks
  BY DEF IInv
<1>1. TypeOK'
  BY <1>0 DEF TypeOK, CloseChan, StepInv, ManagerInv, BrokerInv, Ready, Callers, Works, Running
<1>2. ManagerInv'
  BY <1>0 DEF TypeOK, ManagerInv, BrokerInv, StepInv, CloseChan, Works, Callers
<1>3. BrokerInv'
  BY <1>0 DEF TypeOK, ManagerInv, BrokerInv, CloseChan, Works
<1>4. NothingLeaks'
  BY <1>0 DEF TypeOK, ManagerInv, BrokerInv, NothingLeaks, StepInv, Works, CloseChan, Callers
<1>5. ASSUME NEW c \in Callers PROVE StepInv(c)' /\ ExcuseInv(c)' /\ AnswerInv(c)'
  <2>1. StepInv(c) /\ ExcuseInv(c) /\ AnswerInv(c)
    BY DEF IInv
  <2>2. StepInv(c)'
    BY <1>0, <2>1 DEF TypeOK, StepInv, Callers, Ready, ManagerInv
  <2>3. ExcuseInv(c)'
    BY <1>0, <2>1 DEF TypeOK, ManagerInv, BrokerInv, StepInv, ExcuseInv, Running, Works,
       CloseChan, Callers, Ready
  <2>4. AnswerInv(c)'
    BY <1>0, <2>1 DEF TypeOK, StepInv, ExcuseInv, AnswerInv, BrokerInv, Running, Callers,
       Ready, Works
  <2> QED
    BY <2>2, <2>3, <2>4
<1> QED
  BY <1>1, <1>2, <1>3, <1>4, <1>5 DEF IInv

LEMMA LinkFailsIInv ==
    ASSUME NEW i \in Ids, LinkFails(i), IInv
    PROVE  IInv'
<1> USE SafeChannelAssumption, IdsPositive DEF LinkFails, Fault, manager, broker, calls
<1>0. TypeOK /\ ManagerInv /\ BrokerInv /\ NothingLeaks
  BY DEF IInv
<1>1. TypeOK'
  BY <1>0 DEF TypeOK, CloseChan, StepInv, ManagerInv, BrokerInv, Ready, Callers, Works, Running
<1>2. ManagerInv'
  BY <1>0 DEF TypeOK, ManagerInv, BrokerInv, StepInv, CloseChan, Works, Callers
<1>3. BrokerInv'
  BY <1>0 DEF TypeOK, ManagerInv, BrokerInv, CloseChan, Works
<1>4. NothingLeaks'
  BY <1>0 DEF TypeOK, ManagerInv, BrokerInv, NothingLeaks, StepInv, Works, CloseChan, Callers
<1>5. ASSUME NEW c \in Callers PROVE StepInv(c)' /\ ExcuseInv(c)' /\ AnswerInv(c)'
  <2>1. StepInv(c) /\ ExcuseInv(c) /\ AnswerInv(c)
    BY DEF IInv
  <2>2. StepInv(c)'
    BY <1>0, <2>1 DEF TypeOK, StepInv, Callers, Ready, ManagerInv
  <2>3. ExcuseInv(c)'
    BY <1>0, <2>1 DEF TypeOK, ManagerInv, BrokerInv, StepInv, ExcuseInv, Running, Works,
       CloseChan, Callers, Ready
  <2>4. AnswerInv(c)'
    BY <1>0, <2>1 DEF TypeOK, StepInv, ExcuseInv, AnswerInv, BrokerInv, Running, Callers,
       Ready, Works
  <2> QED
    BY <2>2, <2>3, <2>4
<1> QED
  BY <1>1, <1>2, <1>3, <1>4, <1>5 DEF IInv

LEMMA LinkClosesIInv ==
    ASSUME NEW i \in Ids, LinkCloses(i), IInv
    PROVE  IInv'
<1> USE SafeChannelAssumption, IdsPositive DEF LinkCloses, Fault, manager, broker, calls
<1>0. TypeOK /\ ManagerInv /\ BrokerInv /\ NothingLeaks
  BY DEF IInv
<1>1. TypeOK'
  BY <1>0 DEF TypeOK, CloseChan, StepInv, ManagerInv, BrokerInv, Ready, Callers, Works, Running
<1>2. ManagerInv'
  BY <1>0 DEF TypeOK, ManagerInv, BrokerInv, StepInv, CloseChan, Works, Callers
<1>3. BrokerInv'
  BY <1>0 DEF TypeOK, ManagerInv, BrokerInv, CloseChan, Works
<1>4. NothingLeaks'
  BY <1>0 DEF TypeOK, ManagerInv, BrokerInv, NothingLeaks, StepInv, Works, CloseChan, Callers
<1>5. ASSUME NEW c \in Callers PROVE StepInv(c)' /\ ExcuseInv(c)' /\ AnswerInv(c)'
  <2>1. StepInv(c) /\ ExcuseInv(c) /\ AnswerInv(c)
    BY DEF IInv
  <2>2. StepInv(c)'
    BY <1>0, <2>1 DEF TypeOK, StepInv, Callers, Ready, ManagerInv
  <2>3. ExcuseInv(c)'
    BY <1>0, <2>1 DEF TypeOK, ManagerInv, BrokerInv, StepInv, ExcuseInv, Running, Works,
       CloseChan, Callers, Ready
  <2>4. AnswerInv(c)'
    BY <1>0, <2>1 DEF TypeOK, StepInv, ExcuseInv, AnswerInv, BrokerInv, Running, Callers,
       Ready, Works
  <2> QED
    BY <2>2, <2>3, <2>4
<1> QED
  BY <1>1, <1>2, <1>3, <1>4, <1>5 DEF IInv

LEMMA ChannelClosesIInv ==
    ASSUME NEW i \in Ids, ChannelCloses(i), IInv
    PROVE  IInv'
<1> USE SafeChannelAssumption, IdsPositive DEF ChannelCloses, Fault, manager, broker, calls
<1>0. TypeOK /\ ManagerInv /\ BrokerInv /\ NothingLeaks
  BY DEF IInv
<1>1. TypeOK'
  BY <1>0 DEF TypeOK, CloseChan, StepInv, ManagerInv, BrokerInv, Ready, Callers, Works, Running
<1>2. ManagerInv'
  BY <1>0 DEF TypeOK, ManagerInv, BrokerInv, StepInv, CloseChan, Works, Callers
<1>3. BrokerInv'
  BY <1>0 DEF TypeOK, ManagerInv, BrokerInv, CloseChan, Works
<1>4. NothingLeaks'
  BY <1>0 DEF TypeOK, ManagerInv, BrokerInv, NothingLeaks, StepInv, Works, CloseChan, Callers
<1>5. ASSUME NEW c \in Callers PROVE StepInv(c)' /\ ExcuseInv(c)' /\ AnswerInv(c)'
  <2>1. StepInv(c) /\ ExcuseInv(c) /\ AnswerInv(c)
    BY DEF IInv
  <2>2. StepInv(c)'
    BY <1>0, <2>1 DEF TypeOK, StepInv, Callers, Ready, ManagerInv
  <2>3. ExcuseInv(c)'
    BY <1>0, <2>1 DEF TypeOK, ManagerInv, BrokerInv, StepInv, ExcuseInv, Running, Works,
       CloseChan, Callers, Ready
  <2>4. AnswerInv(c)'
    BY <1>0, <2>1 DEF TypeOK, StepInv, ExcuseInv, AnswerInv, BrokerInv, Running, Callers,
       Ready, Works
  <2> QED
    BY <2>2, <2>3, <2>4
<1> QED
  BY <1>1, <1>2, <1>3, <1>4, <1>5 DEF IInv

LEMMA NotifyIInv ==
    ASSUME NEW i \in Ids, Notify(i), IInv
    PROVE  IInv'
<1> USE SafeChannelAssumption, IdsPositive DEF Notify, manager, broker, calls
<1>0. TypeOK /\ ManagerInv /\ BrokerInv /\ NothingLeaks
  BY DEF IInv
<1>1. TypeOK'
  BY <1>0 DEF TypeOK, CloseChan, StepInv, ManagerInv, BrokerInv, Ready, Callers, Works, Running
<1>2. ManagerInv'
  BY <1>0 DEF TypeOK, ManagerInv, BrokerInv, StepInv, CloseChan, Works, Callers
<1>3. BrokerInv'
  BY <1>0 DEF TypeOK, ManagerInv, BrokerInv, CloseChan, Works
<1>4. NothingLeaks'
  BY <1>0 DEF TypeOK, ManagerInv, BrokerInv, NothingLeaks, StepInv, Works, CloseChan, Callers
<1>5. ASSUME NEW c \in Callers PROVE StepInv(c)' /\ ExcuseInv(c)' /\ AnswerInv(c)'
  <2>1. StepInv(c) /\ ExcuseInv(c) /\ AnswerInv(c)
    BY DEF IInv
  <2>2. StepInv(c)'
    BY <1>0, <2>1 DEF TypeOK, StepInv, Callers, Ready, ManagerInv
  <2>3. ExcuseInv(c)'
    BY <1>0, <2>1 DEF TypeOK, ManagerInv, BrokerInv, StepInv, ExcuseInv, Running, Works,
       CloseChan, Callers, Ready
  <2>4. AnswerInv(c)'
    BY <1>0, <2>1 DEF TypeOK, StepInv, ExcuseInv, AnswerInv, BrokerInv, Running, Callers,
       Ready, Works
  <2> QED
    BY <2>2, <2>3, <2>4
<1> QED
  BY <1>1, <1>2, <1>3, <1>4, <1>5 DEF IInv

LEMMA StutterIInv ==
    ASSUME UNCHANGED vars, IInv
    PROVE  IInv'
BY DEF vars, manager, broker, calls, IInv, TypeOK, ManagerInv, BrokerInv, NothingLeaks, Works,
   StepInv, ExcuseInv, AnswerInv, Running

LEMMA NextIInv ==
    ASSUME [Next]_vars, IInv
    PROVE  IInv'
<1>1. ASSUME NEW p \in Callers, Call(p) PROVE IInv'
  BY <1>1, CallIInv
<1>2. ASSUME NEW p \in Callers, Lock(p) PROVE IInv'
  BY <1>2, LockIInv
<1>3. ASSUME NEW p \in Callers, Check(p) PROVE IInv'
  BY <1>3, CheckIInv
<1>4. ASSUME NEW p \in Callers, Dial(p) PROVE IInv'
  BY <1>4, DialIInv
<1>5. ASSUME NEW p \in Callers, DialFails(p) PROVE IInv'
  BY <1>5, DialFailsIInv
<1>6. ASSUME NEW p \in Callers, OpenChannel(p) PROVE IInv'
  BY <1>6, OpenChannelIInv
<1>7. ASSUME NEW p \in Callers, DeclareFails(p) PROVE IInv'
  BY <1>7, DeclareFailsIInv
<1>8. ASSUME NEW p \in Callers, ChannelFails(p) PROVE IInv'
  BY <1>8, ChannelFailsIInv
<1>9. ASSUME NEW p \in Callers, OpenOwn(p) PROVE IInv'
  BY <1>9, OpenOwnIInv
<1>10. ASSUME NEW p \in Callers, Send(p) PROVE IInv'
  BY <1>10, SendIInv
<1>11. ASSUME NEW p \in Callers, SendIsLost(p) PROVE IInv'
  BY <1>11, SendIsLostIInv
<1>12. ASSUME NEW p \in Callers, SendFails(p) PROVE IInv'
  BY <1>12, SendFailsIInv
<1>13. CASE Close
  BY <1>13, CloseIInv
<1>14. ASSUME NEW i \in Ids, LinkFails(i) PROVE IInv'
  BY <1>14, LinkFailsIInv
<1>15. ASSUME NEW i \in Ids, LinkCloses(i) PROVE IInv'
  BY <1>15, LinkClosesIInv
<1>16. ASSUME NEW i \in Ids, ChannelCloses(i) PROVE IInv'
  BY <1>16, ChannelClosesIInv
<1>17. ASSUME NEW i \in Ids, Notify(i) PROVE IInv'
  BY <1>17, NotifyIInv
<1>18. CASE UNCHANGED vars
  BY <1>18, StutterIInv
<1> QED
  BY <1>1, <1>2, <1>3, <1>4, <1>5, <1>6, <1>7, <1>8, <1>9, <1>10, <1>11, <1>12, <1>13, <1>14,
     <1>15, <1>16, <1>17, <1>18
     DEF Next, Progress

-----------------------------------------------------------------------------

\* IInv holds in every reachable state.
THEOREM Invariance == Spec => []IInv
BY InitIInv, NextIInv, PTL DEF Spec

\* Types; between Lock and Return there is one call, with what it dereferences (TypeOK).
THEOREM TypeCorrect == Spec => []TypeOK
<1>1. IInv => TypeOK
  BY DEF IInv
<1> QED
  BY <1>1, Invariance, PTL

\* No connection or publishing channel that works is ever forgotten (NothingLeaks).
THEOREM LeaksNothing == Spec => []NothingLeaks
<1>1. IInv => NothingLeaks
  BY DEF IInv
<1> QED
  BY <1>1, Invariance, PTL

\* A call fails only for what broke while it ran, an error means that nothing was sent,
\* and success without an excuse that one copy was (ResultIsTrue).
THEOREM ResultsTrue == Spec => []ResultIsTrue
<1>1. IInv => ResultIsTrue
  BY DEF IInv, AnswerInv, ResultIsTrue, FailureHasCause, Callers
<1> QED
  BY <1>1, Invariance, PTL

-----------------------------------------------------------------------------
(* What reopening costs: what died, died of a fault of its own or of Close.    *)
(* That is also what stands behind EveryCallReturns.                           *)

Once == IF closed THEN 1 ELSE 0
Cost == faults + Once

DeadLinks == {i \in Ids : link[i] \in {"failing", "closed"}}
DeadChans == {i \in Ids : chan[i] # "none" /\ ~Works(i)}
Earned == Cardinality(DeadLinks) <= Cost /\ Cardinality(DeadChans) <= Cost

\* A step by which nothing died, and one by which a connection and a channel may have.
NothingDies == DeadLinks' \subseteq DeadLinks /\ DeadChans' \subseteq DeadChans /\ Cost' >= Cost
OneDies ==
    /\ Cost' = Cost + 1
    /\ \E i, j \in Ids \cup {0} :
          DeadLinks' \subseteq DeadLinks \cup {i} /\ DeadChans' \subseteq DeadChans \cup {j}

\* Only the manager's channel can die, since no other works.
LEMMA OnlyChDies ==
    ASSUME IInv, NEW j \in Ids, j \in DeadChans', chan[j] # "none", j # ch
    PROVE  j \in DeadChans
BY DEF IInv, NothingLeaks, DeadChans

LEMMA QuietStep ==
    ASSUME IInv, UNCHANGED <<link, chan, home>>, Cost' >= Cost
    PROVE  NothingDies
BY DEF NothingDies, DeadLinks, DeadChans, Works

LEMMA CostIsNat == IInv => Cost \in Nat
BY SafeChannelAssumption DEF IInv, TypeOK, Cost, Once

LEMMA CostGrows ==
    ASSUME IInv
    PROVE  /\ UNCHANGED <<closed, faults>> => Cost' >= Cost
           /\ Fault /\ closed' = closed => Cost' = Cost + 1
           /\ Close => Cost' = Cost + 1
BY SafeChannelAssumption DEF IInv, TypeOK, Cost, Once, Fault, Close

LEMMA CallDies ==
    ASSUME IInv, NEW p \in Callers, Call(p) \/ Progress(p) \/ DialFails(p)
    PROVE  NothingDies
<1>1. CASE Call(p) \/ Lock(p) \/ ChannelFails(p) \/ OpenOwn(p) \/ Send(p) \/ SendIsLost(p)
           \/ SendFails(p)
  BY <1>1, QuietStep, CostGrows DEF Call, Lock, ChannelFails, OpenOwn, Send, SendIsLost,
     SendFails, broker
<1>2. CASE DialFails(p)
  BY <1>2, QuietStep, CostGrows, CostIsNat DEF DialFails, broker
<1>3. CASE Check(p)
  <2>1. UNCHANGED <<link, home, closed, faults>>
    BY <1>3 DEF Check
  <2>2. PICK c \in {0, ch} : \/ chan' = CloseChan(chan, c) /\ (c # 0 => ~Works(ch))
                            \/ chan' = chan
    <3>1. connClose # 0 /\ link[connClose] = "closed" /\ ch # 0 => ~Works(ch)
      BY DEF IInv, ManagerInv, Works
    <3>2. conn = 0 => ch = 0
      BY DEF IInv, ManagerInv
    <3>3. link[conn] = "closed" /\ ch # 0 => ~Works(ch)
      BY DEF IInv, ManagerInv, Works
    <3> QED
      BY <1>3, <3>1, <3>2, <3>3 DEF Check
  <2>3. ASSUME NEW i \in Ids, i \in DeadChans' PROVE i \in DeadChans
    <3>1. CASE i = ch /\ chan' # chan
      BY <2>2, <2>3, <3>1, IdsPositive DEF DeadChans, CloseChan, IInv, ManagerInv
    <3>2. CASE i # ch \/ chan' = chan
      <4>1. chan'[i] = chan[i]
        BY <2>2, <3>2 DEF CloseChan, IInv, TypeOK
      <4> QED
        BY <2>1, <2>3, <4>1 DEF DeadChans, Works
    <3> QED
      BY <3>1, <3>2
  <2>4. DeadChans' \subseteq DeadChans
    BY <2>3 DEF DeadChans
  <2> QED
    BY <2>1, <2>4, CostGrows DEF NothingDies, DeadLinks
<1>4. CASE Dial(p)
  <2>1. /\ UNCHANGED <<chan, home, closed, faults>> /\ New(link) \in Ids
        /\ link[New(link)] = "none" /\ link' = [link EXCEPT ![New(link)] = "up"]
    BY <1>4, NewUnused DEF Dial, IInv, TypeOK
  <2>2. DeadLinks' \subseteq DeadLinks
    BY <2>1 DEF DeadLinks, IInv, TypeOK
  <2>3. ASSUME NEW i \in Ids, i \in DeadChans' PROVE i \in DeadChans
    <3>1. home[i] # New(link) /\ home[i] \in Ids
      BY <2>1, <2>3 DEF DeadChans, IInv, BrokerInv
    <3>2. link'[home[i]] = link[home[i]]
      BY <2>1, <3>1 DEF IInv, TypeOK
    <3> QED
      BY <2>1, <2>3, <3>2 DEF DeadChans, Works
  <2> QED
    BY <2>1, <2>2, <2>3, CostGrows DEF NothingDies, DeadChans
<1>5. CASE OpenChannel(p)
  <2>1. /\ UNCHANGED <<link, closed, faults>> /\ New(chan) \in Ids /\ chan[New(chan)] = "none"
        /\ chan' = [chan EXCEPT ![New(chan)] = "open"]
        /\ home' = [home EXCEPT ![New(chan)] = conn] /\ link[conn] = "up"
    BY <1>5, NewUnused DEF OpenChannel, IInv, TypeOK
  <2>2. ASSUME NEW i \in Ids, i \in DeadChans' PROVE i \in DeadChans
    <3>1. CASE i = New(chan)
      BY <2>1, <2>2, <3>1, IdsPositive DEF DeadChans, Works, IInv, TypeOK
    <3>2. CASE i # New(chan)
      BY <2>1, <2>2, <3>2 DEF DeadChans, Works, IInv, TypeOK
    <3> QED
      BY <3>1, <3>2
  <2> QED
    BY <2>1, <2>2, CostGrows DEF NothingDies, DeadLinks, DeadChans
<1> QED
  BY <1>1, <1>2, <1>3, <1>4, <1>5 DEF Progress

LEMMA BrokerDies ==
    ASSUME IInv, NEW i \in Ids, LinkFails(i) \/ LinkCloses(i) \/ ChannelCloses(i) \/ Notify(i)
    PROVE  NothingDies \/ OneDies
<1>1. CASE LinkFails(i) \/ LinkCloses(i)
  <2>1. /\ UNCHANGED <<chan, home, closed>>
        /\ \E s \in {"failing", "closed"} : link' = [link EXCEPT ![i] = s]
    BY <1>1 DEF LinkFails, LinkCloses
  <2>2. DeadLinks' \subseteq DeadLinks \cup {i}
    BY <2>1 DEF DeadLinks, IInv, TypeOK
  <2>3. DeadChans' \subseteq DeadChans \cup {ch}
    BY <2>1, OnlyChDies DEF DeadChans
  <2>4. CASE Fault
    BY <2>1, <2>2, <2>3, <2>4, CostGrows DEF OneDies, IInv, TypeOK
  <2>5. CASE link[i] = "failing" /\ UNCHANGED faults
    <3>1. DeadLinks' \subseteq DeadLinks
      BY <2>2, <2>5 DEF DeadLinks
    <3>2. ASSUME NEW j \in Ids, j \in DeadChans' PROVE j \in DeadChans
      <4>1. CASE home[j] = i
        BY <2>1, <2>5, <3>2, <4>1 DEF DeadChans, Works
      <4>2. CASE home[j] # i
        <5>1. home[j] \in Ids
          BY <2>1, <3>2 DEF DeadChans, IInv, BrokerInv
        <5> QED
          BY <2>1, <3>2, <4>2, <5>1 DEF DeadChans, Works, IInv, TypeOK
      <4> QED
        BY <4>1, <4>2
    <3> QED
      BY <2>1, <2>5, <3>1, <3>2, CostGrows DEF NothingDies, DeadChans
  <2> QED
    BY <1>1, <2>4, <2>5 DEF LinkFails, LinkCloses
<1>2. CASE ChannelCloses(i)
  <2>1. UNCHANGED <<link, home, closed>> /\ Fault /\ chan' = [chan EXCEPT ![i] = "closed"]
    BY <1>2 DEF ChannelCloses
  <2>2. DeadLinks' \subseteq DeadLinks \cup {i}
    BY <2>1 DEF DeadLinks
  <2>3. DeadChans' \subseteq DeadChans \cup {i}
    BY <2>1 DEF DeadChans, Works, IInv, TypeOK
  <2> QED
    BY <2>1, <2>2, <2>3, CostGrows DEF OneDies
<1>3. CASE Notify(i)
  <2>1. UNCHANGED <<link, home, closed, faults>> /\ chan' = [chan EXCEPT ![i] = "closed"]
    BY <1>3, IdsPositive DEF Notify, CloseChan
  <2>2. i \in DeadChans
    BY <1>3 DEF Notify, DeadChans, Works
  <2>3. DeadChans' \subseteq DeadChans
    BY <2>1, <2>2 DEF DeadChans, Works, IInv, TypeOK
  <2> QED
    BY <2>1, <2>3, CostGrows DEF NothingDies, DeadLinks
<1> QED
  BY <1>1, <1>2, <1>3

LEMMA DeclareDies == ASSUME IInv, NEW p \in Callers, DeclareFails(p) PROVE OneDies
<1>1. /\ UNCHANGED <<link, closed>> /\ Fault /\ New(chan) \in Ids
      /\ chan' = [chan EXCEPT ![New(chan)] = "closed"]
      /\ home' = [home EXCEPT ![New(chan)] = conn]
  BY NewUnused DEF DeclareFails, IInv, TypeOK
<1>2. DeadLinks' \subseteq DeadLinks \cup {0}
  BY <1>1 DEF DeadLinks
<1>3. DeadChans' \subseteq DeadChans \cup {New(chan)}
  BY <1>1 DEF DeadChans, Works, IInv, TypeOK
<1> QED
  BY <1>1, <1>2, <1>3, CostGrows DEF OneDies

LEMMA CloseDies == ASSUME IInv, Close PROVE OneDies
<1>1. home' = home /\ chan' = CloseChan(chan, ch) /\ link' = CloseChan(link, conn)
  BY DEF Close
<1>2. DeadLinks' \subseteq DeadLinks \cup {conn}
  BY <1>1 DEF DeadLinks, CloseChan, IInv, TypeOK
<1>3. \A j \in Ids : chan[j] = "none" => chan'[j] = "none"
  BY <1>1 DEF CloseChan, IInv, TypeOK, ManagerInv
<1>4. DeadChans' \subseteq DeadChans \cup {ch}
  BY <1>3, OnlyChDies DEF DeadChans
<1>5. conn \in Ids \cup {0} /\ ch \in Ids \cup {0}
  BY DEF IInv, TypeOK
<1> QED
  BY <1>2, <1>4, <1>5, CostGrows DEF OneDies

LEMMA DeadFinite ==
    /\ IsFiniteSet(Ids) /\ Cardinality(Ids) = MaxFaults + 2
    /\ IsFiniteSet(DeadLinks) /\ IsFiniteSet(DeadChans)
<1>1. IsFiniteSet(Ids) /\ Cardinality(Ids) = MaxFaults + 2
  BY SafeChannelAssumption, FS_Interval DEF Ids
<1> QED
  BY <1>1, FS_Subset DEF DeadLinks, DeadChans

\* The size of a set that gained one element at most.
LEMMA OneMoreAtMost ==
    ASSUME NEW S, IsFiniteSet(S), NEW x, NEW T, T \subseteq S \cup {x}
    PROVE  Cardinality(T) <= Cardinality(S) + 1
<1>1. /\ IsFiniteSet(S \cup {x}) /\ Cardinality(S \cup {x}) <= Cardinality(S) + 1
      /\ Cardinality(S) \in Nat
  BY FS_AddElement, FS_CardinalityType
<1>2. /\ IsFiniteSet(T) /\ Cardinality(T) <= Cardinality(S \cup {x})
  BY <1>1, FS_Subset
<1>3. Cardinality(S \cup {x}) \in Nat /\ Cardinality(T) \in Nat
  BY <1>1, <1>2, FS_CardinalityType
<1> QED
  BY <1>1, <1>2, <1>3

LEMMA EarnedStep == ASSUME IInv, Earned, [Next]_vars PROVE Earned'
<1>1. NothingDies \/ OneDies
  <2>1. CASE UNCHANGED vars
    BY <2>1, QuietStep, CostGrows DEF vars, broker
  <2> QED
    BY <2>1, CallDies, BrokerDies, DeclareDies, CloseDies DEF Next
<1>2. Cost \in Nat /\ Cost' \in Nat
  <2>1. IInv => Cost \in Nat
    BY CostIsNat
  <2>2. (IInv => Cost \in Nat)'
    BY CostIsNat, PTL
  <2> QED
    BY <2>1, <2>2, NextIInv
<1>3. /\ IsFiniteSet(DeadLinks) /\ IsFiniteSet(DeadChans)
      /\ Cardinality(DeadLinks) \in Nat /\ Cardinality(DeadChans) \in Nat
  BY DeadFinite, FS_CardinalityType
<1>4. IsFiniteSet(DeadLinks') /\ IsFiniteSet(DeadChans')
  BY DeadFinite, FS_Subset DEF DeadLinks, DeadChans
<1>5. Cardinality(DeadLinks') \in Nat /\ Cardinality(DeadChans') \in Nat
  BY <1>4, FS_CardinalityType
<1>6. CASE NothingDies
  <2>1. /\ Cardinality(DeadLinks') <= Cardinality(DeadLinks)
        /\ Cardinality(DeadChans') <= Cardinality(DeadChans)
    BY <1>3, <1>6, FS_Subset DEF NothingDies
  <2>2. Cost' >= Cost
    BY <1>6 DEF NothingDies
  <2> QED
    BY <1>2, <1>3, <1>5, <2>1, <2>2 DEF Earned
<1>7. CASE OneDies
  <2>1. /\ Cardinality(DeadLinks') <= Cardinality(DeadLinks) + 1
        /\ Cardinality(DeadChans') <= Cardinality(DeadChans) + 1
    BY <1>3, <1>7, OneMoreAtMost DEF OneDies
  <2>2. Cost' = Cost + 1
    BY <1>7 DEF OneDies
  <2> QED
    BY <1>2, <1>3, <1>5, <2>1, <2>2 DEF Earned
<1> QED
  BY <1>1, <1>6, <1>7

LEMMA EarnedInvariance == Spec => []Earned
<1>1. Init => Earned
  <2> SUFFICES ASSUME Init PROVE Earned
    OBVIOUS
  <2>1. DeadLinks = {} /\ DeadChans = {} /\ Cost = 0
    BY DEF Init, DeadLinks, DeadChans, Cost, Once
  <2> QED
    BY <2>1, FS_EmptySet DEF Earned
<1>2. IInv /\ Earned /\ [Next]_vars => Earned'
  BY EarnedStep
<1> QED
  BY <1>1, <1>2, Invariance, PTL DEF Spec

\* The manager dials and opens a channel once, and once more for each fault and for
\* Close, whoever calls how often: it never reopens what still works.
ReopensAreEarned ==
    /\ Cardinality({i \in Ids : link[i] # "none"}) <= 1 + Cost
    /\ Cardinality({i \in Ids : chan[i] # "none"}) <= 1 + Cost

THEOREM Thrift == Spec => []ReopensAreEarned
<1>1. IInv /\ Earned => ReopensAreEarned
  <2> SUFFICES ASSUME IInv, Earned PROVE ReopensAreEarned
    OBVIOUS
  <2> DEFINE Links == {i \in Ids : link[i] # "none"}
             Chans == {i \in Ids : chan[i] # "none"}
  <2>1. Links \subseteq DeadLinks \cup {conn}
    BY DEF DeadLinks, IInv, TypeOK, NothingLeaks
  <2>2. Chans \subseteq DeadChans \cup {ch}
    BY DEF DeadChans, IInv, NothingLeaks
  <2>3. /\ Cardinality(Links) <= Cardinality(DeadLinks) + 1
        /\ Cardinality(Chans) <= Cardinality(DeadChans) + 1
    <3> HIDE DEF Links, Chans
    <3> QED
      BY <2>1, <2>2, DeadFinite, OneMoreAtMost
  <2>4. Cardinality(Links) \in Nat /\ Cardinality(Chans) \in Nat
    BY DeadFinite, FS_Subset, FS_CardinalityType
  <2>5. Cost \in Nat /\ Cardinality(DeadLinks) \in Nat /\ Cardinality(DeadChans) \in Nat
    BY CostIsNat, DeadFinite, FS_CardinalityType
  <2> QED
    BY <2>3, <2>4, <2>5 DEF Earned, ReopensAreEarned
<1> QED
  BY <1>1, Invariance, EarnedInvariance, PTL

\* The next step of a call need not wait: Progress(p) can be taken.
CanMove(p) ==
    /\ pc[p] \notin {"idle", "done"}
    /\ pc[p] = "lock" => holder = Free
    /\ pc[p] = "dial" => Unused(link) # {}
    /\ pc[p] = "channel" => link[conn] # "up" \/ Unused(chan) # {}

\* While a call is under way one of them can move: nobody keeps the mutex over a step that
\* waits, and no reconnection lacks an id.
NoStandstill == Running # {} => \E p \in Callers : CanMove(p)

THEOREM SomeoneMoves == Spec => []NoStandstill
<1>1. IInv /\ Earned => NoStandstill
  <2> SUFFICES ASSUME IInv, Earned, NEW r \in Callers, pc[r] \notin {"idle", "done"}
               PROVE  \E p \in Callers : CanMove(p)
    BY DEF NoStandstill, Running
  <2>1. CASE holder = Free
    <3>1. pc[r] = "lock"
      BY <2>1, SafeChannelAssumption DEF IInv, TypeOK
    <3> QED
      BY <2>1, <3>1 DEF CanMove
  <2>2. CASE holder # Free
    <3>1. PICK p \in Callers : holder = p
      BY <2>2 DEF IInv, TypeOK
    <3>2. pc[p] \notin {"idle", "lock", "done"}
      BY <3>1 DEF IInv, TypeOK
    <3>3. Cardinality(DeadLinks) # Cardinality(Ids) /\ Cardinality(DeadChans) # Cardinality(Ids)
      <4>1. Cost <= MaxFaults + 1 /\ Cost \in Nat
        BY SafeChannelAssumption DEF Cost, Once, IInv, TypeOK
      <4>2. Cardinality(DeadLinks) \in Nat /\ Cardinality(DeadChans) \in Nat
        BY DeadFinite, FS_CardinalityType
      <4> QED
        BY <4>1, <4>2, DeadFinite, SafeChannelAssumption DEF Earned
    <3>4. pc[p] = "dial" => Unused(link) # {}
      <4> SUFFICES ASSUME pc[p] = "dial", Unused(link) = {} PROVE DeadLinks = Ids
        BY <3>3
      <4>1. conn = 0
        BY DEF IInv, StepInv
      <4>2. \A i \in Ids : link[i] # "up"
        BY <4>1, IdsPositive DEF IInv, NothingLeaks
      <4>3. \A i \in Ids : link[i] \in {"none", "up", "failing", "closed"}
        BY DEF IInv, TypeOK
      <4> QED
        BY <4>2, <4>3 DEF DeadLinks, Unused
    <3>5. pc[p] = "channel" => Unused(chan) # {}
      <4> SUFFICES ASSUME pc[p] = "channel", Unused(chan) = {} PROVE DeadChans = Ids
        BY <3>3
      <4>1. ch = 0
        BY DEF IInv, StepInv
      <4> QED
        BY <4>1, IdsPositive DEF DeadChans, Unused, IInv, NothingLeaks
    <3> QED
      BY <3>2, <3>4, <3>5 DEF CanMove
  <2> QED
    BY <2>1, <2>2
<1> QED
  BY <1>1, Invariance, EarnedInvariance, PTL

-----------------------------------------------------------------------------
(* The refinement: a call of a publisher is one Raise, and then one Publish  *)
(* or one PublishFails.                                                      *)

StageOf(p) ==
    CASE pc[p] = "idle" -> "none"
      [] routed[p] > 0 -> "routed"
      [] routed[p] = 0 /\ pc[p] = "done" -> "unsent"
      [] OTHER -> "publishing"

\* Where the publishing of a call is, by its step.
LEMMA StageOfCall ==
    ASSUME IInv, NEW p \in Publishers
    PROVE  /\ pc[p] = "idle" => routed[p] = 0 /\ StageOf(p) = "none"
           /\ pc[p] \notin {"idle", "done"} => routed[p] = 0 /\ StageOf(p) = "publishing"
           /\ pc[p] = "done" => StageOf(p) = (IF routed[p] = 1 THEN "routed" ELSE "unsent")
<1>1. AnswerInv(p) /\ p \in Callers
  BY DEF IInv, Callers
<1> QED
  BY <1>1 DEF AnswerInv, StageOf

LEMMA InitRefines == Init => Events!Init
<1> SUFFICES ASSUME Init PROVE Events!Init
  OBVIOUS
<1>1. \A p \in Publishers : pc[p] = "idle"
  BY DEF Init, Callers
<1> QED
  BY <1>1 DEF Init, Events!Init, Events!Queues, Events!Readers

\* A step that changes no publisher's stage and routes nothing is none of EventDelivery.
LEMMA Stutters ==
    ASSUME UNCHANGED routed, \A p \in Publishers : StageOf(p)' = StageOf(p)
    PROVE  UNCHANGED Events!vars
BY DEF StageOf, Events!vars

\* One publisher moves on.
LEMMA Moves ==
    ASSUME IInv, IInv', NEW p \in Publishers,
           \A other \in Publishers \ {p} : StageOf(other)' = StageOf(other),
           \/ UNCHANGED routed
           \/ /\ routed' = [routed EXCEPT ![p] = @ + 1]
              /\ StageOf(p) = "publishing" /\ routed[p] = 0 /\ StageOf(p)' = "routed",
           UNCHANGED routed =>
              \/ StageOf(p)' = StageOf(p)
              \/ StageOf(p) = "none" /\ StageOf(p)' = "publishing"
              \/ StageOf(p) = "publishing" /\ StageOf(p)' = "unsent"
    PROVE  [Events!Next]_(Events!vars)
<1> DEFINE st == [c \in Publishers |-> StageOf(c)]
<1>1. st' = [st EXCEPT ![p] = StageOf(p)']
  OBVIOUS
<1>2. CASE UNCHANGED routed /\ StageOf(p)' = StageOf(p)
  BY <1>2, Stutters
<1>3. CASE UNCHANGED routed /\ StageOf(p) = "none" /\ StageOf(p)' = "publishing"
  <2>1. Events!Raise(p)
    BY <1>1, <1>3 DEF Events!Raise, StageOf
  <2> QED
    BY <2>1 DEF Events!Next
<1>4. CASE UNCHANGED routed /\ StageOf(p) = "publishing" /\ StageOf(p)' = "unsent"
  <2>1. Events!PublishFails(p)
    BY <1>1, <1>4 DEF Events!PublishFails, StageOf
  <2> QED
    BY <2>1 DEF Events!Next
<1>5. CASE /\ routed' = [routed EXCEPT ![p] = @ + 1]
           /\ StageOf(p) = "publishing" /\ routed[p] = 0 /\ StageOf(p)' = "routed"
  <2>1. routed' = [routed EXCEPT ![p] = 1]
    BY <1>5
  <2>2. Events!Publish(p)
    BY <1>1, <1>5, <2>1 DEF Events!Publish, Events!Queues, StageOf
  <2> QED
    BY <2>2 DEF Events!Next
<1> QED
  BY <1>2, <1>3, <1>4, <1>5

LEMMA StepRefines ==
    ASSUME [Next]_vars, IInv, IInv'
    PROVE  [Events!Next]_(Events!vars)
<1>0. TypeOK /\ TypeOK'
  BY DEF IInv
<1> USE DEF manager, broker, calls
\* A step of one call: others stay where they are.
<1>1. ASSUME NEW p \in Callers,
             \A other \in Callers \ {p} : pc'[other] = pc[other],
             \/ UNCHANGED routed
             \/ /\ p \in Publishers /\ routed' = [routed EXCEPT ![p] = @ + 1]
                /\ pc[p] = "send" /\ pc'[p] = "done",
             pc[p] # "done", pc[p] = "idle" => pc'[p] = "lock",
             pc[p] # "idle" => pc'[p] # "idle"
      PROVE  [Events!Next]_(Events!vars)
  <2>1. ASSUME NEW other \in Publishers \ {p} PROVE StageOf(other)' = StageOf(other)
    <3>1. routed'[other] = routed[other] /\ pc'[other] = pc[other]
      BY <1>0, <1>1 DEF TypeOK, Callers
    <3> QED
      BY <3>1 DEF StageOf
  <2>2. CASE p \notin Publishers
    <3>1. UNCHANGED routed /\ \A c \in Publishers : StageOf(c)' = StageOf(c)
      BY <1>1, <2>1, <2>2
    <3> QED
      BY <3>1, Stutters
  <2>3. CASE p \in Publishers
    <3>1. /\ pc[p] = "idle" => routed[p] = 0 /\ StageOf(p) = "none"
          /\ pc[p] # "idle" => routed[p] = 0 /\ StageOf(p) = "publishing"
      BY <1>1, <2>3, StageOfCall
    <3>2. /\ pc'[p] = "idle" => StageOf(p)' = "none"
          /\ pc'[p] \notin {"idle", "done"} => StageOf(p)' = "publishing"
          /\ pc'[p] = "done" => StageOf(p)' = (IF routed'[p] = 1 THEN "routed" ELSE "unsent")
      <4>1. AnswerInv(p)'
        BY <1>1 DEF IInv
      <4> QED
        BY <2>3, <4>1 DEF AnswerInv, StageOf
    <3>3. \/ UNCHANGED routed
          \/ /\ routed' = [routed EXCEPT ![p] = @ + 1] /\ routed'[p] = 1
             /\ pc[p] = "send" /\ pc'[p] = "done"
      <4>1. routed \in [Publishers -> Nat] /\ routed[p] = 0
        BY <1>0, <1>1, <2>3, <3>1 DEF TypeOK
      <4>2. routed' = [routed EXCEPT ![p] = @ + 1] => routed'[p] = 1
        BY <2>3, <4>1
      <4> QED
        BY <1>1, <4>1, <4>2
    <3> QED
      BY <1>1, <2>1, <2>3, <3>1, <3>2, <3>3, Moves
  <2> QED
    BY <2>2, <2>3
\* A step of the broker, of the network or of main.
<1>2. ASSUME UNCHANGED <<pc, routed>> PROVE [Events!Next]_(Events!vars)
  BY <1>2, Stutters DEF StageOf
<1>3. ASSUME NEW p \in Callers, Call(p) PROVE [Events!Next]_(Events!vars)
  BY <1>0, <1>1, <1>3 DEF Call, Goto, TypeOK
<1>4. ASSUME NEW p \in Callers, Lock(p) PROVE [Events!Next]_(Events!vars)
  BY <1>0, <1>1, <1>4 DEF Lock, TypeOK
<1>5. ASSUME NEW p \in Callers, Check(p) PROVE [Events!Next]_(Events!vars)
  BY <1>0, <1>1, <1>5 DEF Check, Goto, Ready, TypeOK
<1>6. ASSUME NEW p \in Callers, Dial(p) PROVE [Events!Next]_(Events!vars)
  BY <1>0, <1>1, <1>6 DEF Dial, Goto, TypeOK
<1>7. ASSUME NEW p \in Callers, DialFails(p) PROVE [Events!Next]_(Events!vars)
  BY <1>0, <1>1, <1>7 DEF DialFails, Return, TypeOK
<1>8. ASSUME NEW p \in Callers, OpenChannel(p) PROVE [Events!Next]_(Events!vars)
  BY <1>0, <1>1, <1>8 DEF OpenChannel, Goto, Ready, TypeOK
<1>9. ASSUME NEW p \in Callers, DeclareFails(p) PROVE [Events!Next]_(Events!vars)
  BY <1>0, <1>1, <1>9 DEF DeclareFails, Return, TypeOK
<1>10. ASSUME NEW p \in Callers, ChannelFails(p) PROVE [Events!Next]_(Events!vars)
  BY <1>0, <1>1, <1>10 DEF ChannelFails, Return, TypeOK
<1>11. ASSUME NEW p \in Callers, OpenOwn(p) PROVE [Events!Next]_(Events!vars)
  BY <1>0, <1>1, <1>11 DEF OpenOwn, Return, TypeOK
<1>12. ASSUME NEW p \in Callers, Send(p) PROVE [Events!Next]_(Events!vars)
  <2>1. p \in Publishers
    BY <1>12 DEF Send, IInv, StepInv
  <2> QED
    BY <1>0, <1>1, <1>12, <2>1 DEF Send, Return, TypeOK
<1>13. ASSUME NEW p \in Callers, SendIsLost(p) PROVE [Events!Next]_(Events!vars)
  BY <1>0, <1>1, <1>13 DEF SendIsLost, Return, TypeOK
<1>14. ASSUME NEW p \in Callers, SendFails(p) PROVE [Events!Next]_(Events!vars)
  BY <1>0, <1>1, <1>14 DEF SendFails, Goto, Return, TypeOK
<1>15. CASE Close
  BY <1>2, <1>15 DEF Close
<1>16. ASSUME NEW i \in Ids, LinkFails(i) PROVE [Events!Next]_(Events!vars)
  BY <1>2, <1>16 DEF LinkFails
<1>17. ASSUME NEW i \in Ids, LinkCloses(i) PROVE [Events!Next]_(Events!vars)
  BY <1>2, <1>17 DEF LinkCloses
<1>18. ASSUME NEW i \in Ids, ChannelCloses(i) PROVE [Events!Next]_(Events!vars)
  BY <1>2, <1>18 DEF ChannelCloses
<1>19. ASSUME NEW i \in Ids, Notify(i) PROVE [Events!Next]_(Events!vars)
  BY <1>2, <1>19 DEF Notify
<1> QED
  BY <1>0, <1>2, <1>3, <1>4, <1>5, <1>6, <1>7, <1>8, <1>9, <1>10, <1>11, <1>12, <1>13, <1>14,
     <1>15, <1>16, <1>17, <1>18, <1>19 DEF Next, Progress, vars

\* What EventDelivery takes for granted of a publish, the manager provides, for any number
\* of publishers, reconnecting workers and faults (ImplementsPublishing).
THEOREM Refinement == Spec => ImplementsPublishing
<1> SUFFICES Spec => Events!Spec
  BY DEF ImplementsPublishing
<1> QED
  BY InitRefines, StepRefines, Invariance, PTL DEF Spec, Events!Spec
=============================================================================
