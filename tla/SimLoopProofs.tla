--------------------------- MODULE SimLoopProofs ---------------------------
(***************************************************************************)
(* Proofs about SimLoop for every step time, control period, frame length, *)
(* run duration and transport delay.                                       *)
(***************************************************************************)
EXTENDS SimLoop, TLAPS

-----------------------------------------------------------------------------
(* The operations of the plug-in                                           *)

\* After the check of the time nothing of an earlier run is left, and the time
\* of the call is remembered.
LEMMA DetectResetCleans ==
  ASSUME NEW h, NEW runs, Joint(h), time \in Nat, delay \in Nat,
         (h.lastSim >= 0 /\ time < h.lastSim) \/ HoldsOnly(h, runs)
  PROVE  /\ Joint(DetectReset(h))
         /\ HoldsOnly(DetectReset(h), runs)
         /\ DetectReset(h).lastSim = time
PROOF
<1> DEFINE d == DetectReset(h)
<1> SUFFICES Joint(d) /\ HoldsOnly(d, runs) /\ d.lastSim = time
  OBVIOUS
<1>1. CASE h.lastSim >= 0 /\ time < h.lastSim
  <2>1. d = [lastSim |-> time, command |-> {}, line |-> << >>,
             applied |-> {}, initialized |-> FALSE]
    BY <1>1 DEF DetectReset, Cleared
  <2>2. << >> \in Seq(SUBSET Runs) /\ DOMAIN << >> = {}
    OBVIOUS
  <2>3. d \in JointStates
    BY <2>1, <2>2 DEF JointStates
  <2> HIDE DEF d
  <2> QED
    BY <2>1, <2>2, <2>3 DEF Joint, HoldsOnly
<1>2. CASE ~(h.lastSim >= 0 /\ time < h.lastSim)
  <2>1. d = [h EXCEPT !.lastSim = time]
    BY <1>2 DEF DetectReset
  <2> HIDE DEF d
  <2> QED
    BY <1>2, <2>1 DEF Joint, JointStates, HoldsOnly
<1> QED
  BY <1>1, <1>2

\* The actuator model brings in nothing but the command.
LEMMA ActuateKeeps ==
  ASSUME NEW h, NEW runs, Joint(h), delay \in Nat, HoldsOnly(h, runs)
  PROVE  /\ Joint(Actuate(h))
         /\ HoldsOnly(Actuate(h), runs)
         /\ Actuate(h).lastSim = h.lastSim
         /\ EffortOf(Actuate(h)) \in SUBSET (Runs \cap runs)
PROOF
<1> DEFINE
  line    == IF h.initialized THEN h.line ELSE [i \in 1..delay |-> h.command]
  past    == IF h.initialized THEN h.applied ELSE h.command
  delayed == IF delay > 0 THEN Head(line) ELSE h.command
  next    == IF delay > 0 THEN Append(Tail(line), h.command) ELSE line
  applied == IF actuator = "filtered" THEN past \cup delayed ELSE delayed
  w == Actuate(h)
<1> SUFFICES /\ Joint(w) /\ HoldsOnly(w, runs) /\ w.lastSim = h.lastSim
             /\ EffortOf(w) \in SUBSET (Runs \cap runs)
  OBVIOUS
<1>1. CASE actuator = "off"
  <2>1. w = h
    BY <1>1 DEF Actuate
  <2> QED
    BY <1>1, <2>1 DEF EffortOf, HoldsOnly, Joint, JointStates
<1>2. CASE actuator # "off"
  <2>1. /\ h \in JointStates /\ h.command \subseteq runs
        /\ h.command \in SUBSET Runs /\ h.applied \in SUBSET Runs
        /\ h.line \in Seq(SUBSET Runs) /\ h.initialized \in BOOLEAN
    BY DEF Joint, JointStates, HoldsOnly
  <2>2. /\ line \in Seq(SUBSET Runs) /\ Len(line) = delay
        /\ \A i \in 1..delay : line[i] \subseteq runs
    <3>1. CASE h.initialized
      BY <1>2, <2>1, <3>1 DEF Joint, HoldsOnly
    <3>2. CASE ~h.initialized
      BY <2>1, <3>2
    <3> QED
      BY <3>1, <3>2
  <2>3. past \in SUBSET Runs /\ past \subseteq runs
    BY <2>1 DEF HoldsOnly
  <2> HIDE DEF line, past
  <2>4. delayed \in SUBSET Runs /\ delayed \subseteq runs
    BY <2>1, <2>2
  <2>5. /\ next \in Seq(SUBSET Runs) /\ Len(next) = delay
        /\ \A i \in 1..delay : next[i] \subseteq runs
    <3>1. CASE delay > 0
      <4>1. Tail(line) \in Seq(SUBSET Runs) /\ Len(Tail(line)) = delay - 1
        BY <2>2, <3>1
      <4>2. \A i \in 1..(delay - 1) : Tail(line)[i] = line[i + 1]
        BY <2>2, <3>1
      <4> QED
        BY <2>1, <2>2, <3>1, <4>1, <4>2
    <3>2. CASE ~(delay > 0)
      BY <2>2, <3>2
    <3> QED
      BY <3>1, <3>2
  <2> HIDE DEF delayed, next
  <2>6. applied \in SUBSET Runs /\ applied \subseteq runs
    BY <2>3, <2>4
  <2>7. w = [h EXCEPT !.line = next, !.applied = applied, !.initialized = TRUE]
    BY <1>2 DEF Actuate, line, past, delayed, next
  <2> HIDE DEF applied, w
  <2>8. /\ w \in JointStates /\ w.line = next /\ w.applied = applied
        /\ w.command = h.command /\ w.lastSim = h.lastSim
    BY <2>1, <2>5, <2>6, <2>7 DEF JointStates
  <2>9. DOMAIN next = 1..delay
    BY <2>5
  <2> QED
    BY <1>2, <2>1, <2>5, <2>6, <2>8, <2>9 DEF Joint, HoldsOnly, EffortOf
<1>3. QED
  BY <1>1, <1>2

LEMMA WriteKeeps ==
  ASSUME NEW h, NEW runs, Joint(h), time \in Nat, delay \in Nat,
         (h.lastSim >= 0 /\ time < h.lastSim) \/ HoldsOnly(h, runs),
         Write(h)
  PROVE  /\ Joint(hw') /\ HoldsOnly(hw', runs) /\ hw'.lastSim = time
         /\ effort' \in SUBSET (Runs \cap runs)
PROOF
<1>1. /\ hw' = Actuate(DetectReset(h))
      /\ effort' = EffortOf(Actuate(DetectReset(h)))
  BY DEF Write
<1>2. /\ Joint(DetectReset(h)) /\ HoldsOnly(DetectReset(h), runs)
      /\ DetectReset(h).lastSim = time
  BY DetectResetCleans
<1> QED
  BY <1>1, <1>2, ActuateKeeps

-----------------------------------------------------------------------------
(* One physics step                                                        *)

LEMMA UpdateKeepsPlant ==
  ASSUME InductiveInvariant, Update
  PROVE  /\ Joint(hw)' /\ effort' \in SUBSET Runs
         /\ LeftoversAreDetectable'
         /\ EffortsOfThisRun'
PROOF
<1>1. /\ Joint(hw) /\ hw.lastSim \in Int /\ delay \in Nat
      /\ time \in Nat /\ lastUpdate \in Nat
      /\ StepTime \in Nat /\ StepTime > 0
      /\ ControlPeriod \in Nat /\ ControlPeriod > 0
      /\ (time = 0 => lastUpdate = 0)
  BY StepAssumption, PeriodAssumption, LimitAssumption
     DEF InductiveInvariant, TypeOK, Joint, JointStates, HistoryMatchesClock
<1>2. actuator' = actuator /\ delay' = delay /\ time' = time + StepTime
  BY DEF Update, settings
<1>3. PICK stamp \in Stamps(time) : Cycle(stamp) \/ StepOnly(stamp)
  BY DEF Update
<1>4. CASE time = 0
  <2>1. ~Due(stamp)
    BY <1>1, <1>3, <1>4 DEF Due, Stamps
  <2>2. Write(hw)
    BY <1>3, <2>1 DEF Cycle, StepOnly
  <2>3. (hw.lastSim >= 0 /\ time < hw.lastSim) \/ HoldsOnly(hw, {})
    BY <1>1, <1>4 DEF InductiveInvariant, LeftoversAreDetectable
  <2>4. /\ Joint(hw') /\ HoldsOnly(hw', {}) /\ hw'.lastSim = time
        /\ effort' \in SUBSET (Runs \cap {})
    BY <1>1, <2>2, <2>3, WriteKeeps
  <2>5. HoldsOnly(hw', {"this"})
    BY <2>4 DEF HoldsOnly
  <2>6. Joint(hw)'
    BY <1>2, <2>4 DEF Joint
  <2> QED
    BY <1>1, <1>2, <2>4, <2>5, <2>6
    DEF LeftoversAreDetectable, EffortsOfThisRun, HoldsOnly
<1>5. CASE time # 0
  <2>1. (hw.lastSim >= 0 /\ time < hw.lastSim) \/ HoldsOnly(hw, {"this"})
    BY <1>1 DEF InductiveInvariant, LeftoversAreDetectable
  <2>2. /\ Joint(hw') /\ HoldsOnly(hw', {"this"}) /\ hw'.lastSim = time
        /\ effort' \in SUBSET (Runs \cap {"this"})
    <3>1. CASE StepOnly(stamp)
      BY <1>1, <2>1, <3>1, WriteKeeps DEF StepOnly
    <3>2. CASE Cycle(stamp)
      <4> DEFINE read == DetectReset(hw)
      <4>1. Joint(read) /\ HoldsOnly(read, {"this"}) /\ read.lastSim = time
        BY <1>1, <2>1, DetectResetCleans
      <4> HIDE DEF read
      <4>2. PICK command \in SUBSET Runs :
              /\ ControllerUpdate(stamp, read.command, command)
              /\ Write([read EXCEPT !.command = IF active' = active
                                                 THEN command ELSE {}])
        BY <3>2 DEF Cycle, read
      <4> DEFINE kept == IF active' = active THEN command ELSE {}
                 sent == [read EXCEPT !.command = kept]
      <4>3. command \subseteq {"this"}
        BY <4>1, <4>2 DEF ControllerUpdate, HoldsOnly
      <4>4. kept \in SUBSET Runs /\ kept \subseteq {"this"}
        BY <4>3
      <4> HIDE DEF kept
      <4>5. Joint(sent) /\ HoldsOnly(sent, {"this"})
        BY <4>1, <4>4 DEF Joint, JointStates, HoldsOnly
      <4>6. Write(sent)
        BY <4>2 DEF kept
      <4> HIDE DEF sent
      <4> QED
        BY <1>1, <4>5, <4>6, WriteKeeps
    <3> QED
      BY <1>3, <3>1, <3>2
  <2>3. Joint(hw)'
    BY <1>2, <2>2 DEF Joint
  <2> QED
    BY <1>1, <1>2, <1>5, <2>2, <2>3
    DEF LeftoversAreDetectable, EffortsOfThisRun, HoldsOnly
<1> QED
  BY <1>4, <1>5

\* The clocks and what the controller knows of its run.
LEMMA UpdateKeepsControl ==
  ASSUME InductiveInvariant, Update
  PROVE  /\ time' \in Nat /\ lastUpdate' \in Nat /\ ctrlLast' \in Nat
         /\ active' \in BOOLEAN /\ behind' \in BOOLEAN
         /\ heard' \in 0..2
         /\ CyclesOnTime'
         /\ HistoryMatchesClock'
         /\ missed' \in 0..2 /\ MissesShortRunsOnly'
PROOF
<1>1. /\ time \in Nat /\ lastUpdate \in Nat /\ ctrlLast \in Nat
      /\ active \in BOOLEAN /\ behind \in BOOLEAN
      /\ heard \in 0..2 /\ missed \in 0..2
      /\ lastUpdate <= time /\ time - lastUpdate <= ControlPeriod + StepTime
      /\ (time = 0 => lastUpdate = 0)
      /\ (heard > 0 => active /\ ctrlLast >= ControlPeriod)
      /\ (heard = 2 => ctrlLast >= 2 * ControlPeriod)
      /\ (behind => heard > 0 /\ lastUpdate = 0)
      /\ (heard > 0 /\ ~behind => ctrlLast <= lastUpdate)
      /\ missed <= 1
  BY DEF InductiveInvariant, TypeOK, CyclesOnTime, HistoryMatchesClock,
         MissesShortRunsOnly
<1>2. /\ StepTime \in Nat /\ StepTime >= 2
      /\ ControlPeriod \in Nat /\ StepTime < ControlPeriod
  BY StepAssumption, PeriodAssumption
<1>3. time' = time + StepTime
  BY DEF Update
<1>4. PICK stamp \in Stamps(time) : Cycle(stamp) \/ StepOnly(stamp)
  BY DEF Update
<1>5. stamp \in Nat /\ stamp <= time /\ time - stamp <= 1
  BY <1>1, <1>4 DEF Stamps
<1>6. CASE StepOnly(stamp)
  BY <1>1, <1>2, <1>3, <1>5, <1>6
  DEF StepOnly, Due, control, CyclesOnTime, HistoryMatchesClock,
      MissesShortRunsOnly
<1>7. CASE Cycle(stamp)
  <2>1. /\ stamp - lastUpdate >= ControlPeriod
        /\ lastUpdate' = stamp /\ behind' = FALSE /\ Switch(stamp)
    BY <1>7 DEF Cycle, Due
  <2>2. PICK command \in SUBSET Runs :
          ControllerUpdate(stamp, DetectReset(hw).command, command)
    BY <1>7 DEF Cycle
  <2>3. stamp <= lastUpdate + ControlPeriod + StepTime
    BY <1>1, <1>2, <1>5
  <2>4. CyclesOnTime' /\ time' \in Nat /\ time' # 0
    BY <1>1, <1>2, <1>3, <1>5, <2>1 DEF CyclesOnTime
  <2>5. ctrlLast' \in Nat /\ missed' \in 0..2 /\ missed' <= 1
    <3>1. behind /\ ~TimeWentBackwards(stamp) => heard <= 1
      BY <1>1, <1>2, <1>5, <2>3 DEF TimeWentBackwards
    <3> QED
      BY <1>1, <1>5, <2>2, <3>1 DEF ControllerUpdate
  <2>6. CASE active' = active /\ active
    <3>1. ctrlLast' = stamp
      BY <2>2, <2>6 DEF ControllerUpdate
    <3>2. heard' = IF behind \/ TimeWentBackwards(stamp) \/ heard = 0
                     THEN 1 ELSE 2
      BY <2>1, <2>6 DEF Switch
    <3>3. heard' \in 1..2 /\ (heard' = 2 => stamp >= 2 * ControlPeriod)
      BY <1>1, <1>2, <1>5, <2>1, <3>2
    <3>4. active' = TRUE
      BY <1>1, <2>6
    <3>5. behind' = FALSE /\ lastUpdate' = stamp /\ stamp >= ControlPeriod
      BY <1>1, <1>2, <1>5, <2>1
    <3>6. HistoryMatchesClock'
      BY <1>2, <1>5, <2>4, <3>1, <3>3, <3>4, <3>5 DEF HistoryMatchesClock
    <3>7. active' \in BOOLEAN /\ behind' \in BOOLEAN
      BY <3>4, <3>5
    <3>8. heard' \in 0..2 /\ lastUpdate' \in Nat
      BY <1>5, <3>3, <3>5
    <3> QED
      BY <2>4, <2>5, <3>6, <3>7, <3>8 DEF MissesShortRunsOnly
  <2>7. CASE ~(active' = active /\ active)
    <3>1. ASSUME active' = active PROVE heard' = 0 /\ active' \in BOOLEAN
      <4>1. ~active
        BY <2>7, <3>1
      <4>2. heard = 0 /\ (active' # ~active)
        BY <1>1, <3>1, <4>1
      <4> QED
        BY <1>1, <2>1, <3>1, <4>1, <4>2 DEF Switch
    <3>2. ASSUME active' = ~active /\ heard' = 0
          PROVE  heard' = 0 /\ active' \in BOOLEAN
      BY <1>1, <3>2
    <3>3. heard' = 0 /\ active' \in BOOLEAN
      BY <2>1, <3>1, <3>2 DEF Switch
    <3>4. behind' = FALSE /\ lastUpdate' = stamp
      BY <2>1
    <3>5. HistoryMatchesClock'
      BY <2>4, <3>3, <3>4 DEF HistoryMatchesClock
    <3>6. heard' \in 0..2 /\ lastUpdate' \in Nat
      BY <1>5, <3>3, <3>4
    <3>7. behind' \in BOOLEAN
      BY <3>4
    <3> QED
      BY <2>4, <2>5, <3>3, <3>5, <3>6, <3>7 DEF MissesShortRunsOnly
  <2> QED
    BY <2>6, <2>7
<1> QED
  BY <1>4, <1>6, <1>7

-----------------------------------------------------------------------------
(* The main loop                                                           *)

LEMMA AgedIsTyped ==
  ASSUME NEW runs \in SUBSET Runs
  PROVE  Aged(runs) \in SUBSET Runs /\ (runs = {} => Aged(runs) = {})
PROOF
  BY DEF Aged, Runs

LEMMA ResetKeeps ==
  ASSUME InductiveInvariant, ResetSimulation, UNCHANGED settings
  PROVE  /\ Joint(hw)' /\ effort' \in SUBSET Runs
         /\ time' \in Nat /\ lastUpdate' \in Nat /\ ctrlLast' \in Nat
         /\ active' \in BOOLEAN /\ behind' \in BOOLEAN
         /\ heard' \in 0..2 /\ missed' \in 0..2
         /\ LeftoversAreDetectable' /\ EffortsOfThisRun'
         /\ CyclesOnTime' /\ HistoryMatchesClock' /\ MissesShortRunsOnly'
PROOF
<1> DEFINE aged == [i \in DOMAIN hw.line |-> Aged(hw.line[i])]
<1>1. /\ Joint(hw) /\ delay \in Nat
      /\ active \in BOOLEAN /\ behind \in BOOLEAN
      /\ heard \in 0..2 /\ missed \in 0..2 /\ ctrlLast \in Nat
      /\ (hw.lastSim <= 0 => HoldsOnly(hw, {}))
      /\ (heard > 0 => active /\ ctrlLast >= ControlPeriod)
      /\ (heard = 2 => ctrlLast >= 2 * ControlPeriod)
      /\ (behind => heard > 0)
      /\ missed <= 1
      /\ ControlPeriod \in Nat /\ StepTime \in Nat
  BY StepAssumption, PeriodAssumption, LimitAssumption
  DEF InductiveInvariant, TypeOK, LeftoversAreDetectable,
      HistoryMatchesClock, MissesShortRunsOnly
<1>2. /\ hw' = [hw EXCEPT !.command = Aged(hw.command), !.line = aged,
                          !.applied = Aged(hw.applied)]
      /\ time' = 0 /\ lastUpdate' = 0 /\ effort' = {}
      /\ behind' = (behind \/ (active /\ heard > 0))
      /\ active' = active /\ ctrlLast' = ctrlLast
      /\ heard' = heard /\ missed' = missed
      /\ actuator' = actuator /\ delay' = delay
  BY DEF ResetSimulation, ResetSimTime, settings
<1>3. /\ hw \in JointStates
      /\ hw.command \in SUBSET Runs /\ hw.applied \in SUBSET Runs
      /\ hw.line \in Seq(SUBSET Runs) /\ hw.lastSim \in Int
  BY <1>1 DEF Joint, JointStates
<1>4. aged \in Seq(SUBSET Runs) /\ Len(aged) = Len(hw.line)
  <2>1. \A i \in 1..Len(hw.line) : Aged(hw.line[i]) \in SUBSET Runs
    BY <1>3, AgedIsTyped
  <2> QED
    BY <1>3, <2>1
<1>5. /\ Aged(hw.command) \in SUBSET Runs /\ Aged(hw.applied) \in SUBSET Runs
  BY <1>3, AgedIsTyped
<1>6. HoldsOnly(hw, {}) => /\ Aged(hw.command) = {} /\ Aged(hw.applied) = {}
                          /\ \A i \in DOMAIN aged : aged[i] = {}
  BY <1>3, AgedIsTyped DEF HoldsOnly
<1> HIDE DEF aged
<1>7. /\ hw' \in JointStates /\ hw'.line = aged /\ hw'.lastSim = hw.lastSim
      /\ hw'.command = Aged(hw.command) /\ hw'.applied = Aged(hw.applied)
      /\ hw'.initialized = hw.initialized
  BY <1>2, <1>3, <1>4, <1>5 DEF JointStates
<1>8. Joint(hw)' /\ effort' \in SUBSET Runs
  BY <1>1, <1>2, <1>4, <1>7 DEF Joint
<1>9. LeftoversAreDetectable' /\ EffortsOfThisRun'
  <2>1. hw.lastSim <= 0 => HoldsOnly(hw', {}) /\ HoldsOnly(hw', {"this"})
    BY <1>1, <1>6, <1>7 DEF HoldsOnly
  <2> QED
    BY <1>2, <1>3, <1>7, <2>1
    DEF LeftoversAreDetectable, EffortsOfThisRun, HoldsOnly
<1>10. behind' \in BOOLEAN /\ active' \in BOOLEAN /\ CyclesOnTime'
  BY <1>1, <1>2 DEF CyclesOnTime
<1>11. HistoryMatchesClock'
  <2>1. CASE heard = 0
    <3>1. ~behind' /\ heard' = 0 /\ lastUpdate' = 0
      BY <1>1, <1>2, <2>1
    <3> QED
      BY <3>1 DEF HistoryMatchesClock
  <2>2. CASE heard # 0
    <3>1. active' /\ behind' /\ heard' > 0 /\ lastUpdate' = 0
      BY <1>1, <1>2, <2>2
    <3>2. /\ ctrlLast' >= ControlPeriod
          /\ (heard' = 2 => ctrlLast' >= 2 * ControlPeriod)
      BY <1>1, <1>2, <2>2
    <3> QED
      BY <3>1, <3>2 DEF HistoryMatchesClock
  <2> QED
    BY <2>1, <2>2
<1>12. /\ time' \in Nat /\ lastUpdate' \in Nat /\ ctrlLast' \in Nat
       /\ heard' \in 0..2 /\ missed' \in 0..2 /\ MissesShortRunsOnly'
  BY <1>1, <1>2 DEF MissesShortRunsOnly
<1> QED
  BY <1>8, <1>9, <1>10, <1>11, <1>12

\* The loop's own state is typed whatever the step; a pass of FrameSteps or of
\* one physics step ends when its count is used up.
LEMMA LoopStateIsTyped ==
  ASSUME InductiveInvariant, Next
  PROVE  /\ UNCHANGED settings /\ LoopTypeOK'
         /\ render' \in BOOLEAN /\ delay' \in 0..MaxDelay
         /\ actuator' \in {"off", "direct", "filtered"}
PROOF
<1>1. LoopTypeOK /\ FrameSteps \in Nat \ {0}
  BY LimitAssumption DEF InductiveInvariant, TypeOK
<1>2. UNCHANGED settings
  BY DEF Next, Loop, BeginPass, EndLoop, Update, RenderFrame, TopicMessage,
         Interrupt
<1>3. ASSUME BeginPass PROVE LoopTypeOK'
  <2>1. /\ pc' \in {"update", "render"} /\ stepsLeft' \in 0..FrameSteps
        /\ (pc' = "update" => stepsLeft' > 0) /\ (pc' = "render" => render')
    BY <1>1, <1>3 DEF BeginPass, settings
  <2>2. topicPending' \in BOOLEAN /\ resetRequested' \in BOOLEAN
    BY <1>3 DEF BeginPass, TakeRequests
  <2>3. windowReset' \in BOOLEAN /\ asked' \in {"no", "waiting", "passed"}
    BY <1>1, <1>3 DEF BeginPass, TakeRequests, ConsumeResetRequest, ResetSimulation,
                      NoReset, LoopTypeOK
  <2>4. ok' \in BOOLEAN /\ closeFlag' \in BOOLEAN /\ paused' \in BOOLEAN
    BY <1>1, <1>3 DEF BeginPass, LoopTypeOK, window
  <2> QED
    BY <2>1, <2>2, <2>3, <2>4 DEF LoopTypeOK
<1>4. ASSUME Update PROVE LoopTypeOK'
  <2>1. /\ pc' \in {"update", "render", "loop"} /\ stepsLeft' \in 0..FrameSteps
        /\ (pc' = "update" => stepsLeft' > 0)
    BY <1>1, <1>4 DEF Update, LoopTypeOK
  <2>2. pc' = "render" => render'
    BY <1>4 DEF Update, settings
  <2>3. UNCHANGED <<ok, window, requests>>
    BY <1>4 DEF Update
  <2> QED
    BY <1>1, <2>1, <2>2, <2>3 DEF LoopTypeOK, window, requests
<1>5. ASSUME RenderFrame PROVE LoopTypeOK'
  BY <1>1, <1>5 DEF RenderFrame, WindowEvents, LoopTypeOK
<1>6. ASSUME EndLoop \/ TopicMessage \/ Interrupt PROVE LoopTypeOK'
  BY <1>1, <1>6 DEF EndLoop, TopicMessage, Interrupt, LoopTypeOK, window,
                    requests, settings
<1>7. LoopTypeOK'
  BY <1>3, <1>4, <1>5, <1>6 DEF Next, Loop
<1> QED
  BY <1>2, <1>7 DEF InductiveInvariant, TypeOK, settings

\* A request stays in one of its flags until a pass takes it, and the pass
\* that takes it resets the simulation.
LEMMA RequestsAreKept ==
  ASSUME InductiveInvariant, [Next]_vars
  PROVE  RequestsAreServed' /\ RequestIsHeld'
PROOF
<1>1. /\ asked \in {"no", "waiting"} /\ (pc = "render" => render)
      /\ (asked = "waiting" => topicPending \/ resetRequested \/ (render /\ windowReset))
  BY DEF InductiveInvariant, TypeOK, LoopTypeOK, RequestsAreServed, RequestIsHeld
<1> USE DEF RequestsAreServed, RequestIsHeld
<1>2. CASE UNCHANGED <<render, requests>>
  BY <1>1, <1>2 DEF requests
<1>3. CASE BeginPass
  <2>1. CASE topicPending \/ resetRequested \/ (render /\ windowReset)
    <3>1. ResetSimulation
      BY <1>3, <2>1 DEF BeginPass, TakeRequests
    <3> QED
      BY <3>1 DEF ResetSimulation
  <2>2. CASE ~(topicPending \/ resetRequested \/ (render /\ windowReset))
    <3>1. NoReset
      BY <1>3, <2>2 DEF BeginPass, TakeRequests
    <3> QED
      BY <1>1, <2>2, <3>1 DEF NoReset
  <2> QED
    BY <2>1, <2>2
<1>4. CASE RenderFrame
  <2>1. PICK reset \in BOOLEAN : WindowEvents(reset)
    BY <1>4 DEF RenderFrame
  <2>2. /\ asked' = IF reset THEN "waiting" ELSE asked
        /\ windowReset' = (windowReset \/ reset)
    BY <2>1 DEF WindowEvents
  <2>3. render /\ render' = render
    BY <1>1, <1>4 DEF RenderFrame, settings
  <2>4. resetRequested' = (resetRequested \/ topicPending)
    BY <1>4 DEF RenderFrame
  <2> QED
    BY <1>1, <2>2, <2>3, <2>4
<1>5. CASE TopicMessage
  BY <1>5 DEF TopicMessage
<1>6. CASE Update \/ EndLoop \/ Interrupt \/ UNCHANGED vars
  BY <1>2, <1>6 DEF Update, EndLoop, Interrupt, vars, settings
<1> QED
  BY <1>3, <1>4, <1>5, <1>6 DEF Next, Loop

-----------------------------------------------------------------------------
(* The invariant                                                           *)

LEMMA InvariantInit == Init => InductiveInvariant
PROOF
<1> SUFFICES ASSUME Init PROVE InductiveInvariant
  OBVIOUS
<1>1. << >> \in Seq(SUBSET Runs) /\ DOMAIN << >> = {}
  OBVIOUS
<1>2. Cleared \in JointStates
  BY <1>1 DEF Cleared, JointStates
<1>3. Joint(hw)
  BY <1>2 DEF Init, Joint, Cleared
<1>4. TypeOK
  <2>1. LoopTypeOK
    <3>1. pc = "loop" /\ stepsLeft \in 0..FrameSteps /\ asked = "no"
      BY LimitAssumption DEF Init
    <3>2. /\ ok \in BOOLEAN /\ closeFlag \in BOOLEAN /\ paused \in BOOLEAN
          /\ windowReset \in BOOLEAN /\ topicPending \in BOOLEAN
          /\ resetRequested \in BOOLEAN
      BY DEF Init
    <3> QED
      BY <3>1, <3>2 DEF LoopTypeOK
  <2>2. /\ render \in BOOLEAN /\ delay \in 0..MaxDelay
        /\ actuator \in {"off", "direct", "filtered"}
        /\ active \in BOOLEAN /\ behind \in BOOLEAN
    BY DEF Init, ConfigureActuator
  <2>3. /\ time \in Nat /\ lastUpdate \in Nat /\ ctrlLast \in Nat
        /\ heard \in 0..2 /\ missed \in 0..2 /\ effort \in SUBSET Runs
    BY DEF Init
  <2> QED
    BY <1>3, <2>1, <2>2, <2>3 DEF TypeOK
<1>5. LeftoversAreDetectable
  BY <1>1 DEF Init, Cleared, LeftoversAreDetectable, HoldsOnly
<1> QED
  BY <1>4, <1>5, StepAssumption, PeriodAssumption
  DEF Init, InductiveInvariant, EffortsOfThisRun, CyclesOnTime,
      HistoryMatchesClock, MissesShortRunsOnly, RequestsAreServed, RequestIsHeld

LEMMA InvariantStep ==
  InductiveInvariant /\ [Next]_vars => InductiveInvariant'
PROOF
<1> SUFFICES ASSUME InductiveInvariant, [Next]_vars
             PROVE  InductiveInvariant'
  OBVIOUS
<1> DEFINE
  Rest == /\ Joint(hw) /\ effort \in SUBSET Runs
          /\ time \in Nat /\ lastUpdate \in Nat /\ ctrlLast \in Nat
          /\ active \in BOOLEAN /\ behind \in BOOLEAN
          /\ heard \in 0..2 /\ missed \in 0..2
          /\ LeftoversAreDetectable /\ EffortsOfThisRun
          /\ CyclesOnTime /\ HistoryMatchesClock /\ MissesShortRunsOnly
<1>1. Rest
  BY DEF InductiveInvariant, TypeOK
<1>2. ASSUME UNCHANGED <<settings, clock, plant, control>> PROVE Rest'
  BY <1>1, <1>2
  DEF settings, clock, plant, control, Joint, LeftoversAreDetectable,
      EffortsOfThisRun, CyclesOnTime, HistoryMatchesClock, MissesShortRunsOnly,
      HoldsOnly
<1>3. CASE UNCHANGED vars
  <2>1. Rest'
    BY <1>2, <1>3 DEF vars
  <2>2. UNCHANGED settings /\ LoopTypeOK'
    BY <1>3 DEF InductiveInvariant, TypeOK, vars, settings, window, requests,
                LoopTypeOK
  <2> QED
    BY <2>1, <2>2, RequestsAreKept DEF InductiveInvariant, TypeOK, settings
<1>4. CASE Next
  <2>1. UNCHANGED settings
    BY <1>4, LoopStateIsTyped
  <2>2. Rest'
    <3>1. CASE Update
      BY <3>1, UpdateKeepsPlant, UpdateKeepsControl
    <3>2. CASE BeginPass
      <4>1. CASE ResetSimulation
        BY <2>1, <4>1, ResetKeeps
      <4>2. CASE NoReset
        BY <1>2, <2>1, <4>2 DEF NoReset
      <4> QED
        BY <3>2, <4>1, <4>2 DEF BeginPass, TakeRequests
    <3>3. CASE RenderFrame \/ EndLoop \/ TopicMessage \/ Interrupt
      BY <1>2, <3>3 DEF RenderFrame, EndLoop, TopicMessage, Interrupt
    <3> QED
      BY <1>4, <3>1, <3>2, <3>3 DEF Next, Loop
  <2>3. /\ LoopTypeOK' /\ render' \in BOOLEAN /\ delay' \in 0..MaxDelay
        /\ actuator' \in {"off", "direct", "filtered"}
    BY <1>4, LoopStateIsTyped
  <2> QED
    BY <2>2, <2>3, RequestsAreKept DEF InductiveInvariant, TypeOK
<1> QED
  BY <1>3, <1>4

\* The types, the record of the control thread's run and everything below.
THEOREM InvariantHolds == Spec => []InductiveInvariant
PROOF
  BY InvariantInit, InvariantStep, PTL DEF Spec

\* For every transport delay and actuator model, no force in the simulation
\* was computed from a command of an earlier run.
THEOREM NoEffortOutlivesReset == Spec => []EffortsOfThisRun
PROOF
<1>1. InductiveInvariant => EffortsOfThisRun
  BY DEF InductiveInvariant
<1> QED
  BY <1>1, InvariantHolds, PTL

\* For every step time shorter than the control period, the controller manager
\* is called in time, in the first run and after every reset.
THEOREM ControlIsOnTime == Spec => []CyclesOnTime
PROOF
<1>1. InductiveInvariant => CyclesOnTime
  BY DEF InductiveInvariant
<1> QED
  BY <1>1, InvariantHolds, PTL

\* Whatever the time limit, and without one, no pass of the main loop begins
\* after a request to reset that has not been followed by a reset.
THEOREM NoRequestIsLost == Spec => []RequestsAreServed
PROOF
<1>1. InductiveInvariant => RequestsAreServed
  BY DEF InductiveInvariant
<1> QED
  BY <1>1, InvariantHolds, PTL

\* A run of two updates or more never ends without the controller noticing.
THEOREM ControllerNoticesResets == Spec => []MissesShortRunsOnly
PROOF
<1>1. InductiveInvariant => MissesShortRunsOnly
  BY DEF InductiveInvariant
<1> QED
  BY <1>1, InvariantHolds, PTL
=============================================================================
