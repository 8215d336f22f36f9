-------------------------- MODULE RealBridgeProofs --------------------------
(***************************************************************************)
(* Proofs about RealBridge: its inductive invariant, that it implements    *)
(* TransmitGate, and the properties of what it transmits.                  *)
(***************************************************************************)
EXTENDS RealBridge, TLAPS

USE TimesAssumption, BuffersAssumption, HangupAssumption, MaxFaultsAssumption
    DEF TimesAssumption, BuffersAssumption, HangupAssumption, MaxFaultsAssumption,
        Never, Ages, Commands

\* The state before the first callback satisfies the invariant.
LEMMA InitEstablishes == Init => InductiveInvariant
  <1> SUFFICES ASSUME Init PROVE InductiveInvariant
    OBVIOUS
  <1>1. FlagsTypeOK
    BY DEF Init, FlagsTypeOK
  <1>2. driver \in Seq(StatePackets) /\ Len(driver) = 0
    BY DEF Init
  <1>3. ValuesTypeOK
    BY <1>2 DEF Init, ValuesTypeOK
  <1>4. TrustedOnThisConnection /\ CommandsAreOwn
    BY DEF Init, TrustedOnThisConnection, CommandsAreOwn
  <1>5. QED
    BY <1>1, <1>3, <1>4 DEF InductiveInvariant, TypeOK

\* A driver emptied, shortened by a read, aged or extended stays a sequence
\* of state packets within its bound.
LEMMA EmptyDriver == <<>> \in Seq(StatePackets) /\ Len(<<>>) <= DriverPackets
  OBVIOUS

LEMMA ShorterDriver ==
    ASSUME NEW q \in Seq(StatePackets), Len(q) <= DriverPackets,
           NEW n \in Nat, n <= Len(q)
    PROVE  /\ SubSeq(q, n + 1, Len(q)) \in Seq(StatePackets)
           /\ Len(SubSeq(q, n + 1, Len(q))) <= DriverPackets
  <1>1. \A i \in (n + 1)..Len(q) : q[i] \in StatePackets
    OBVIOUS
  <1>2. QED
    BY <1>1

LEMMA AgedDriver ==
    ASSUME NEW q \in Seq(StatePackets), Len(q) <= DriverPackets
    PROVE  LET older == [i \in DOMAIN q |-> [q[i] EXCEPT !.age = Older(@)]]
           IN  older \in Seq(StatePackets) /\ Len(older) <= DriverPackets
  <1> DEFINE older == [i \in 1..Len(q) |-> [q[i] EXCEPT !.age = Older(@)]]
  <1>1. \A i \in 1..Len(q) : [q[i] EXCEPT !.age = Older(@)] \in StatePackets
    <2> SUFFICES ASSUME NEW i \in 1..Len(q)
                 PROVE  [q[i] EXCEPT !.age = Older(@)] \in StatePackets
      OBVIOUS
    <2>1. q[i] \in StatePackets
      OBVIOUS
    <2>2. Older(q[i].age) \in 0 .. StateTimeout + 1
      BY <2>1 DEF StatePackets, Older
    <2>3. QED
      BY <2>1, <2>2 DEF StatePackets
  <1>2. older \in Seq(StatePackets) /\ Len(older) = Len(q)
    BY <1>1
  <1>3. DOMAIN q = 1..Len(q)
    OBVIOUS
  <1>4. QED
    BY <1>2, <1>3

LEMMA LongerDriver ==
    ASSUME NEW q \in Seq(StatePackets), Len(q) < DriverPackets, NEW valid \in BOOLEAN
    PROVE  /\ Append(q, [valid |-> valid, age |-> 0]) \in Seq(StatePackets)
           /\ Len(Append(q, [valid |-> valid, age |-> 0])) <= DriverPackets
  <1>1. [valid |-> valid, age |-> 0] \in StatePackets
    BY DEF StatePackets
  <1>2. QED
    BY <1>1

-----------------------------------------------------------------------------
\* close_connection leaves nothing of the connection behind.
LEMMA ClosedLink ==
    ASSUME InductiveInvariant, CloseConnection
    PROVE  /\ trusted' = FALSE /\ port' = "closed" /\ validAge' = Never
           /\ driver' = <<>>
           /\ attemptAge' = attemptAge /\ sinceAttempt' = sinceAttempt
  BY DEF CloseConnection

\* A connection attempt, or waiting for its time, keeps the link coherent and
\* leaves the state untrusted.
LEMMA EnsureConnectedLink ==
    ASSUME InductiveInvariant, EnsureConnected
    PROVE  /\ trusted = FALSE /\ trusted' = FALSE /\ validAge' = validAge
           /\ device' = device
           /\ port' \in {"closed", "open"}
           /\ attemptAge' \in Never .. ReconnectInterval
           /\ sinceAttempt' \in Never .. ReconnectInterval
           /\ parsedAge' \in Ages
           /\ driver' \in Seq(StatePackets) /\ Len(driver') <= DriverPackets
           /\ faults' \in 0 .. MaxFaults
  <1>1. trusted = FALSE
    BY DEF EnsureConnected, InductiveInvariant, TypeOK, FlagsTypeOK, TrustedOnThisConnection
  <1>2. CASE MayAttempt
    <2>1. Attempt
      BY <1>2 DEF EnsureConnected
    <2>2. QED
      BY <1>1, <2>1, EmptyDriver DEF Attempt, InductiveInvariant, TypeOK, ValuesTypeOK
  <1>3. CASE ~MayAttempt
    BY <1>1, <1>3 DEF EnsureConnected, linkVars, deviceVars, InductiveInvariant, TypeOK,
                      ValuesTypeOK
  <1>4. QED
    BY <1>2, <1>3

\* What a step must establish for the invariant, given what the link became.
LEMMA LinkPreserves ==
    ASSUME InductiveInvariant,
           trusted' = FALSE, port' \in {"closed", "open", "hungup"}, device' = device,
           validAge' \in Ages, parsedAge' \in Ages, stateAge' = stateAge,
           attemptAge' \in Never .. ReconnectInterval,
           sinceAttempt' \in Never .. ReconnectInterval,
           driver' \in Seq(StatePackets), Len(driver') <= DriverPackets,
           faults' \in 0 .. MaxFaults,
           lifecycle' \in {"unconfigured", "inactive", "active", "finalized"},
           phase' \in {"read", "write"}, active' \in BOOLEAN,
           robot' \in Commands \cup {"none"},
           ResetCommands \/ UNCHANGED commandVars
    PROVE  InductiveInvariant'
  <1> USE DEF InductiveInvariant, commandVars, ResetCommands
  <1>1. FlagsTypeOK'
    BY DEF TypeOK, FlagsTypeOK
  <1>2. ValuesTypeOK'
    BY DEF TypeOK, ValuesTypeOK
  <1>3. TrustedOnThisConnection' /\ CommandsAreOwn'
    BY DEF TrustedOnThisConnection, CommandsAreOwn
  <1>4. QED
    BY <1>1, <1>2, <1>3 DEF TypeOK

\* A fault is counted within its bound.
LEMMA FaultBound == ASSUME InductiveInvariant, Fault \/ UNCHANGED faults
                    PROVE  faults' \in 0 .. MaxFaults
  BY DEF Fault, InductiveInvariant, TypeOK, ValuesTypeOK

\* A read that receives packets, or finds none.
LEMMA ReadPacketsPreserves ==
    ASSUME InductiveInvariant, ReadPackets
    PROVE  /\ InductiveInvariant'
           /\ trusted' => parsedAge' \in 0 .. StateTimeout
  <1>1. Batch \in Nat /\ Batch <= Len(driver)
    BY DEF Batch, InductiveInvariant, TypeOK, ValuesTypeOK
  <1>2. driver' \in Seq(StatePackets) /\ Len(driver') <= DriverPackets
    BY <1>1, ShorterDriver DEF ReadPackets, InductiveInvariant, TypeOK, ValuesTypeOK
  <1>3. /\ phase' = "write" /\ lifecycle' = lifecycle /\ active' = active
        /\ robot' = robot /\ command' = command /\ ownCommand' = ownCommand
        /\ port' = port /\ port = "open" /\ attemptAge' = attemptAge
        /\ sinceAttempt' = sinceAttempt /\ device' = device /\ faults' = faults
    BY DEF ReadPackets, BeginRead, commandVars
  <1>4. /\ trusted' \in BOOLEAN /\ validAge' \in Ages /\ parsedAge' \in Ages
        /\ stateAge' \in Ages
        /\ trusted' => parsedAge' = validAge' /\ parsedAge' \in 0 .. StateTimeout
    <2>1. CASE Accepted # {}
      <3>1. PICK last \in Accepted : stateAge' = driver[last].age
        BY <2>1 DEF ReadPackets
      <3>2. driver[last] \in StatePackets
        BY <1>1 DEF Accepted, InductiveInvariant, TypeOK, ValuesTypeOK
      <3>3. trusted' = TRUE /\ validAge' = 0 /\ parsedAge' = 0
        BY <2>1 DEF ReadPackets
      <3>4. QED
        BY <3>1, <3>2, <3>3 DEF StatePackets
    <2>2. CASE Accepted = {}
      <3>1. /\ trusted' \in BOOLEAN
            /\ trusted' => trusted /\ validAge <= StateTimeout
        BY <2>2, Zenon DEF ReadPackets
      <3>2. validAge' = validAge /\ parsedAge' = parsedAge /\ stateAge' = stateAge
        BY <2>2 DEF ReadPackets
      <3>3. /\ validAge \in Ages /\ parsedAge \in Ages /\ stateAge \in Ages
            /\ trusted => parsedAge # Never /\ parsedAge = validAge
        BY DEF InductiveInvariant, TypeOK, ValuesTypeOK, TrustedOnThisConnection
      <3>4. QED
        BY <3>1, <3>2, <3>3
    <2>3. QED
      BY <2>1, <2>2
  <1>5. FlagsTypeOK'
    BY <1>3, <1>4 DEF InductiveInvariant, TypeOK, FlagsTypeOK
  <1>6. ValuesTypeOK'
    BY <1>2, <1>3, <1>4 DEF InductiveInvariant, TypeOK, ValuesTypeOK
  <1>7. TrustedOnThisConnection' /\ CommandsAreOwn'
    BY <1>3, <1>4 DEF InductiveInvariant, TrustedOnThisConnection, CommandsAreOwn
  <1>8. QED
    BY <1>4, <1>5, <1>6, <1>7 DEF InductiveInvariant, TypeOK

\* The watchdog alone, on a port that hung up.
LEMMA ReadHungUpPreserves ==
    ASSUME InductiveInvariant, ReadHungUp
    PROVE  /\ InductiveInvariant'
           /\ trusted' => parsedAge' \in 0 .. StateTimeout
  <1>1. /\ phase' = "write" /\ lifecycle' = lifecycle /\ active' = active
        /\ robot' = robot /\ command' = command /\ ownCommand' = ownCommand
        /\ port' = port /\ port = "hungup" /\ attemptAge' = attemptAge
        /\ sinceAttempt' = sinceAttempt /\ device' = device /\ faults' = faults
        /\ driver' = driver /\ validAge' = validAge /\ parsedAge' = parsedAge
        /\ stateAge' = stateAge
    BY DEF ReadHungUp, BeginRead, commandVars, deviceVars, historyVars
  <1>2. /\ trusted' \in BOOLEAN
        /\ trusted' => trusted /\ validAge <= StateTimeout
    BY Zenon DEF ReadHungUp
  <1>3. FlagsTypeOK'
    BY <1>1, <1>2 DEF InductiveInvariant, TypeOK, FlagsTypeOK
  <1>4. ValuesTypeOK'
    BY <1>1 DEF InductiveInvariant, TypeOK, ValuesTypeOK
  <1>5. TrustedOnThisConnection' /\ CommandsAreOwn'
    BY <1>1, <1>2 DEF InductiveInvariant, TrustedOnThisConnection, CommandsAreOwn
  <1>6. trusted' => parsedAge' \in 0 .. StateTimeout
    BY <1>1, <1>2 DEF InductiveInvariant, TrustedOnThisConnection, TypeOK, ValuesTypeOK
  <1>7. QED
    BY <1>3, <1>4, <1>5, <1>6 DEF InductiveInvariant, TypeOK

\* Reads and writes that connect, wait, or close the port after an error.
LEMMA UntrustedPreserves ==
    ASSUME InductiveInvariant,
           ReadUnconnected \/ ReadError \/ WriteUnconnected \/ WriteError
    PROVE  InductiveInvariant' /\ trusted' = FALSE
  <1>1. CASE ReadUnconnected \/ WriteUnconnected
    <2>1. EnsureConnected
      BY <1>1 DEF ReadUnconnected, WriteUnconnected
    <2>2. /\ lifecycle' \in {"unconfigured", "inactive", "active", "finalized"}
          /\ phase' \in {"read", "write"} /\ robot' \in Commands \cup {"none"}
          /\ stateAge' = stateAge /\ UNCHANGED commandVars
      BY <1>1 DEF ReadUnconnected, WriteUnconnected, BeginRead, BeginWrite, InductiveInvariant,
                  TypeOK, ValuesTypeOK
    <2>3. active' \in BOOLEAN /\ validAge \in Ages
      BY <1>1 DEF ReadUnconnected, WriteUnconnected, BeginRead, BeginWrite, InductiveInvariant,
                  TypeOK, FlagsTypeOK, ValuesTypeOK
    <2>4. /\ trusted' = FALSE /\ validAge' = validAge /\ device' = device
          /\ port' \in {"closed", "open", "hungup"}
          /\ attemptAge' \in Never .. ReconnectInterval
          /\ sinceAttempt' \in Never .. ReconnectInterval
          /\ parsedAge' \in Ages
          /\ driver' \in Seq(StatePackets) /\ Len(driver') <= DriverPackets
          /\ faults' \in 0 .. MaxFaults
      BY <2>1, EnsureConnectedLink
    <2>5. QED
      BY <2>2, <2>3, <2>4, LinkPreserves
  <1>2. CASE ReadError \/ WriteError
    <2>1. CloseConnection /\ (Fault \/ UNCHANGED faults)
      BY <1>2 DEF ReadError, WriteError
    <2>2. faults' \in 0 .. MaxFaults
      BY <2>1, FaultBound
    <2>3. /\ trusted' = FALSE /\ port' = "closed" /\ validAge' = Never /\ driver' = <<>>
          /\ attemptAge' = attemptAge /\ sinceAttempt' = sinceAttempt
      BY <2>1, ClosedLink
    <2>4. /\ lifecycle' \in {"unconfigured", "inactive", "active", "finalized"}
          /\ phase' \in {"read", "write"} /\ robot' \in Commands \cup {"none"}
          /\ device' = device /\ parsedAge' = parsedAge /\ stateAge' = stateAge
          /\ UNCHANGED commandVars
      BY <1>2 DEF ReadError, WriteError, BeginRead, BeginWrite, historyVars,
                  InductiveInvariant, TypeOK, ValuesTypeOK
    <2>5. active' \in BOOLEAN
      BY <1>2 DEF ReadError, WriteError, BeginRead, BeginWrite, InductiveInvariant,
                  TypeOK, FlagsTypeOK
    <2>6. /\ parsedAge \in Ages
          /\ attemptAge \in Never .. ReconnectInterval
          /\ sinceAttempt \in Never .. ReconnectInterval
      BY DEF InductiveInvariant, TypeOK, ValuesTypeOK
    <2>7. validAge' \in Ages
      BY <2>3
    <2>8. driver' \in Seq(StatePackets) /\ Len(driver') <= DriverPackets
      BY <2>3, EmptyDriver
    <2>9. QED
      BY <2>2, <2>3, <2>4, <2>5, <2>6, <2>7, <2>8, LinkPreserves
  <1>3. QED
    BY <1>1, <1>2

\* A step that leaves the link alone, except for the age of what it carries.
LEMMA LinkUntouchedPreserves ==
    ASSUME InductiveInvariant,
           trusted' = trusted, port' = port, validAge' = validAge, parsedAge' = parsedAge,
           stateAge' = stateAge, attemptAge' = attemptAge, sinceAttempt' = sinceAttempt,
           driver' = driver, faults' = faults, device' = device,
           lifecycle' \in {"unconfigured", "inactive", "active", "finalized"},
           phase' \in {"read", "write"}, active' \in BOOLEAN,
           robot' \in Commands \cup {"none"},
           command' \in Commands, ownCommand' \in BOOLEAN,
           command' = "drive" => ownCommand'
    PROVE  InductiveInvariant'
  <1>1. FlagsTypeOK'
    BY DEF InductiveInvariant, TypeOK, FlagsTypeOK
  <1>2. ValuesTypeOK'
    BY DEF InductiveInvariant, TypeOK, ValuesTypeOK
  <1>3. TrustedOnThisConnection' /\ CommandsAreOwn'
    BY DEF InductiveInvariant, TrustedOnThisConnection, CommandsAreOwn
  <1>4. QED
    BY <1>1, <1>2, <1>3 DEF InductiveInvariant, TypeOK

\* Writes that transmit or do nothing, controllers' writes, activation and
\* shutdown.
LEMMA LinkUntouched ==
    ASSUME InductiveInvariant,
           \/ WriteNothing \/ WriteCommand
           \/ \E c \in Commands : ControllerWrites(c)
           \/ Activate \/ Shutdown
    PROVE  InductiveInvariant' /\ trusted' = trusted
  <1>1. /\ trusted' = trusted /\ port' = port /\ validAge' = validAge
        /\ parsedAge' = parsedAge /\ stateAge' = stateAge /\ attemptAge' = attemptAge
        /\ sinceAttempt' = sinceAttempt /\ driver' = driver /\ faults' = faults
        /\ device' = device
    BY DEF WriteNothing, WriteCommand, BeginWrite, ControllerWrites, Activate, Shutdown,
           linkVars, deviceVars, historyVars
  <1>2. /\ active \in BOOLEAN /\ ownCommand \in BOOLEAN
    BY DEF InductiveInvariant, TypeOK, FlagsTypeOK
  <1>3. /\ active' \in BOOLEAN /\ ownCommand' \in BOOLEAN
    BY <1>2 DEF WriteNothing, WriteCommand, BeginWrite, ControllerWrites, Activate, Shutdown,
                ResetCommands, commandVars
  <1>4. /\ lifecycle' \in {"unconfigured", "inactive", "active", "finalized"}
        /\ phase' \in {"read", "write"}
        /\ robot' \in Commands \cup {"none"}
        /\ command' \in Commands
    BY DEF WriteNothing, WriteCommand, BeginWrite, ControllerWrites, Activate, Shutdown,
           ResetCommands, commandVars, InductiveInvariant, TypeOK, ValuesTypeOK
  <1>5. command' = "drive" => ownCommand'
    BY DEF WriteNothing, WriteCommand, BeginWrite, ControllerWrites, Activate, Shutdown,
           ResetCommands, commandVars, InductiveInvariant, CommandsAreOwn
  <1>6. QED
    BY <1>1, <1>3, <1>4, <1>5, LinkUntouchedPreserves

\* The callbacks that connect or close.
LEMMA CallbackPreserves ==
    ASSUME InductiveInvariant, Configure \/ Deactivate \/ Cleanup
    PROVE  InductiveInvariant' /\ trusted' = FALSE
  <1> DEFINE Closed == /\ trusted' = FALSE /\ port' \in {"closed", "open", "hungup"}
                       /\ validAge' \in Ages /\ parsedAge' \in Ages
                       /\ attemptAge' \in Never .. ReconnectInterval
                       /\ sinceAttempt' \in Never .. ReconnectInterval
                       /\ driver' \in Seq(StatePackets) /\ Len(driver') <= DriverPackets
                       /\ faults' \in 0 .. MaxFaults
                       /\ device' = device /\ stateAge' = stateAge
  <1>1. /\ trusted \in BOOLEAN /\ active \in BOOLEAN
        /\ port = "closed" => trusted = FALSE
    BY DEF InductiveInvariant, TypeOK, FlagsTypeOK, TrustedOnThisConnection
  <1>2. CASE Configure
    <2>1. Closed
      BY <1>2, EnsureConnectedLink DEF Configure, InductiveInvariant, TypeOK, ValuesTypeOK
    <2>2. QED
      BY <1>1, <1>2, <2>1, LinkPreserves
         DEF Configure, InductiveInvariant, TypeOK, ValuesTypeOK
  <1>3. CASE Deactivate \/ Cleanup
    <2>1. ASSUME port = "closed" PROVE Closed
      <3>1. /\ UNCHANGED <<linkVars, driver, device, historyVars>>
            /\ Fault \/ UNCHANGED faults
        BY <1>3, <2>1 DEF Deactivate, SafeStop, Cleanup
      <3>2. trusted' = FALSE
        BY <1>1, <2>1, <3>1 DEF linkVars
      <3>3. faults' \in 0 .. MaxFaults
        BY <3>1, FaultBound
      <3>4. QED
        BY <3>1, <3>2, <3>3
           DEF linkVars, historyVars, InductiveInvariant, TypeOK, ValuesTypeOK
    <2>2. ASSUME port # "closed" PROVE Closed
      <3>1. /\ CloseConnection
            /\ Fault \/ UNCHANGED faults
            /\ UNCHANGED <<device, historyVars>>
        BY <1>3, <2>2 DEF Deactivate, Cleanup, SafeStop
      <3>2. faults' \in 0 .. MaxFaults
        BY <3>1, FaultBound
      <3>3. /\ trusted' = FALSE /\ port' = "closed" /\ validAge' = Never /\ driver' = <<>>
            /\ attemptAge' = attemptAge /\ sinceAttempt' = sinceAttempt
        BY <3>1, ClosedLink
      <3>4. driver' \in Seq(StatePackets) /\ Len(driver') <= DriverPackets
        BY <3>3, EmptyDriver
      <3>5. QED
        BY <3>1, <3>2, <3>3, <3>4
           DEF historyVars, InductiveInvariant, TypeOK, ValuesTypeOK
    <2>3. Closed
      BY <2>1, <2>2
    <2>4. /\ lifecycle' \in {"unconfigured", "inactive", "active", "finalized"}
          /\ phase' \in {"read", "write"} /\ robot' \in Commands \cup {"none"}
          /\ ResetCommands \/ UNCHANGED commandVars
      BY <1>3 DEF Deactivate, Cleanup, SafeStop, InductiveInvariant, TypeOK, ValuesTypeOK
    <2>5. active' \in BOOLEAN
      BY <1>1, <1>3 DEF Deactivate, Cleanup
    <2>6. QED
      BY <2>3, <2>4, <2>5, LinkPreserves
  <1>4. QED
    BY <1>2, <1>3

\* Ageing keeps an age in its range and never makes it unknown.
LEMMA OlderAge ==
    ASSUME NEW age \in Ages
    PROVE  Older(age) \in Ages /\ (age # Never => Older(age) # Never)
  <1>1. CASE age = Never \/ age > StateTimeout
    BY <1>1 DEF Older
  <1>2. CASE ~(age = Never \/ age > StateTimeout)
    BY <1>2 DEF Older
  <1>3. QED
    BY <1>1, <1>2

\* The environment: the clock, the H7 board and the serial device.
LEMMA EnvironmentPreserves ==
    ASSUME InductiveInvariant, Environment
    PROVE  InductiveInvariant' /\ trusted' = trusted
  <1>1. CASE Tick
    <2>1. /\ lifecycle' = lifecycle /\ active' = active /\ phase' = phase /\ port' = port
          /\ trusted' = trusted /\ device' = device /\ faults' = faults /\ robot' = robot
          /\ command' = command /\ ownCommand' = ownCommand
      BY <1>1 DEF Tick, commandVars
    <2>2. driver' \in Seq(StatePackets) /\ Len(driver') <= DriverPackets
      BY <1>1, AgedDriver DEF Tick, InductiveInvariant, TypeOK, ValuesTypeOK
    <2>3. /\ validAge' \in Ages /\ parsedAge' \in Ages /\ stateAge' \in Ages
      BY <1>1, OlderAge DEF Tick, InductiveInvariant, TypeOK, ValuesTypeOK
    <2>4. /\ attemptAge' \in Never .. ReconnectInterval
          /\ sinceAttempt' \in Never .. ReconnectInterval
      BY <1>1 DEF Tick, Later, InductiveInvariant, TypeOK, ValuesTypeOK
    <2>5. trusted => parsedAge' # Never /\ parsedAge' = validAge'
      <3>1. trusted => parsedAge # Never /\ parsedAge = validAge
        BY DEF InductiveInvariant, TrustedOnThisConnection
      <3>2. parsedAge \in Ages
        BY DEF InductiveInvariant, TypeOK, ValuesTypeOK
      <3>3. parsedAge' = Older(parsedAge) /\ validAge' = Older(validAge)
        BY <1>1 DEF Tick
      <3>4. QED
        BY <3>1, <3>2, <3>3, OlderAge
    <2>6. FlagsTypeOK'
      BY <2>1 DEF InductiveInvariant, TypeOK, FlagsTypeOK
    <2>7. ValuesTypeOK'
      BY <2>1, <2>2, <2>3, <2>4 DEF InductiveInvariant, TypeOK, ValuesTypeOK
    <2>8. TrustedOnThisConnection' /\ CommandsAreOwn'
      BY <2>1, <2>5 DEF InductiveInvariant, TrustedOnThisConnection, CommandsAreOwn
    <2>9. QED
      BY <2>1, <2>6, <2>7, <2>8 DEF InductiveInvariant, TypeOK
  <1>2. CASE (\E valid \in BOOLEAN : H7Sends(valid)) \/ Unplug \/ Plug
    <2>1. /\ lifecycle' = lifecycle /\ active' = active /\ phase' = phase
          /\ trusted' = trusted /\ validAge' = validAge /\ parsedAge' = parsedAge
          /\ stateAge' = stateAge /\ attemptAge' = attemptAge /\ sinceAttempt' = sinceAttempt
          /\ faults' = faults /\ robot' = robot
          /\ command' = command /\ ownCommand' = ownCommand
      BY <1>2 DEF H7Sends, Unplug, Plug, linkVars, commandVars, historyVars
    <2>2. /\ port' \in {"closed", "open", "hungup"}
          /\ port' = "closed" => port = "closed"
      BY <1>2 DEF H7Sends, Unplug, Plug, linkVars, InductiveInvariant, TypeOK, ValuesTypeOK
    <2>3. device' \in BOOLEAN
      BY <1>2 DEF H7Sends, Unplug, Plug, InductiveInvariant, TypeOK, FlagsTypeOK
    <2>4. driver' \in Seq(StatePackets) /\ Len(driver') <= DriverPackets
      <3>1. driver \in Seq(StatePackets) /\ Len(driver) <= DriverPackets
        BY DEF InductiveInvariant, TypeOK, ValuesTypeOK
      <3>2. ASSUME NEW valid \in BOOLEAN, H7Sends(valid)
            PROVE  driver' \in Seq(StatePackets) /\ Len(driver') <= DriverPackets
        BY <3>1, <3>2, LongerDriver DEF H7Sends
      <3>3. ASSUME Unplug
            PROVE  driver' \in Seq(StatePackets) /\ Len(driver') <= DriverPackets
        BY <3>3, EmptyDriver DEF Unplug
      <3>4. Plug => driver' = driver
        BY DEF Plug
      <3>5. QED
        BY <1>2, <3>1, <3>2, <3>3, <3>4
    <2>5. FlagsTypeOK'
      BY <2>1, <2>3 DEF InductiveInvariant, TypeOK, FlagsTypeOK
    <2>6. ValuesTypeOK'
      BY <2>1, <2>2, <2>4 DEF InductiveInvariant, TypeOK, ValuesTypeOK
    <2>7. TrustedOnThisConnection' /\ CommandsAreOwn'
      BY <2>1, <2>2 DEF InductiveInvariant, TrustedOnThisConnection, CommandsAreOwn
    <2>8. QED
      BY <2>1, <2>5, <2>6, <2>7 DEF InductiveInvariant, TypeOK
  <1>3. QED
    BY <1>1, <1>2 DEF Environment

\* Every step, and stuttering, preserves the invariant.
LEMMA StepPreserves == InductiveInvariant /\ [Next]_vars => InductiveInvariant'
  <1> SUFFICES ASSUME InductiveInvariant, [Next]_vars PROVE InductiveInvariant'
    OBVIOUS
  <1>1. CASE Read
    BY <1>1, ReadPacketsPreserves, ReadHungUpPreserves, UntrustedPreserves DEF Read
  <1>2. CASE Write
    BY <1>2, LinkUntouched, UntrustedPreserves DEF Write
  <1>3. CASE \E c \in Commands : ControllerWrites(c)
    BY <1>3, LinkUntouched
  <1>4. CASE LifecycleCallback
    BY <1>4, LinkUntouched, CallbackPreserves DEF LifecycleCallback
  <1>5. CASE Environment
    BY <1>5, EnvironmentPreserves
  <1>6. CASE UNCHANGED vars
    <2>1. UNCHANGED <<FlagsTypeOK, ValuesTypeOK>>
      BY <1>6 DEF vars, linkVars, deviceVars, commandVars, historyVars, FlagsTypeOK, ValuesTypeOK
    <2>2. TrustedOnThisConnection' /\ CommandsAreOwn'
      BY <1>6 DEF vars, linkVars, deviceVars, commandVars, historyVars, InductiveInvariant,
                  TrustedOnThisConnection, CommandsAreOwn
    <2>3. QED
      BY <2>1, <2>2 DEF InductiveInvariant, TypeOK
  <1>7. QED
    BY <1>1, <1>2, <1>3, <1>4, <1>5, <1>6 DEF Next

\* The invariant holds in every reachable state, for every timeout, interval
\* and buffer size and whatever reading a hung-up port does.
THEOREM InvariantHolds == Spec => []InductiveInvariant
  BY InitEstablishes, StepPreserves, PTL DEF Spec

\* Trusted state always comes from the present connection.
THEOREM TrustIsEarned == Spec => []TrustedOnThisConnection
  <1>1. InductiveInvariant => TrustedOnThisConnection
    BY DEF InductiveInvariant
  <1>2. QED
    BY <1>1, InvariantHolds, PTL

\* What one step does to trust and to the robot.
LEMMA StepEffects ==
    ASSUME InductiveInvariant, [Next]_vars
    PROVE  /\ trusted' \in BOOLEAN
           /\ active' \in BOOLEAN
           /\ active' # active => Activate \/ Deactivate
           /\ robot' # robot => WriteCommand \/ Deactivate
  <1>1. InductiveInvariant'
    BY StepPreserves
  <1>2. trusted' \in BOOLEAN /\ active' \in BOOLEAN
    BY <1>1 DEF InductiveInvariant, TypeOK, FlagsTypeOK
  <1>3. CASE Read
    BY <1>2, <1>3 DEF Read, ReadUnconnected, ReadPackets, ReadHungUp, ReadError, BeginRead
  <1>4. CASE Write
    BY <1>2, <1>4 DEF Write, WriteNothing, WriteUnconnected, WriteError, WriteCommand, BeginWrite
  <1>5. CASE \E c \in Commands : ControllerWrites(c)
    BY <1>2, <1>5 DEF ControllerWrites
  <1>6. CASE LifecycleCallback
    <2>1. CASE Activate
      <3>1. robot' = robot
        BY <2>1 DEF Activate
      <3>2. QED
        BY <1>2, <2>1, <3>1
    <2>2. CASE Configure \/ Cleanup \/ Shutdown
      <3>1. robot' = robot /\ active' = active
        BY <2>2 DEF Configure, Cleanup, Shutdown
      <3>2. QED
        BY <1>2, <3>1
    <2>3. CASE Deactivate
      BY <1>2, <2>3
    <2>4. QED
      BY <1>6, <2>1, <2>2, <2>3 DEF LifecycleCallback
  <1>7. CASE Environment
    BY <1>2, <1>7 DEF Environment, Tick, H7Sends, Unplug, Plug
  <1>8. CASE UNCHANGED vars
    BY <1>2, <1>8 DEF vars
  <1>9. QED
    BY <1>3, <1>4, <1>5, <1>6, <1>7, <1>8 DEF Next

\* The bridge implements the gate: what reaches the robot passed an open gate
\* of an active component, or is the stop packet of a deactivation.
THEOREM ImplementsGate == Spec => GateSpec
  <1> USE DEF Gate!None, Gate!StopPacket, Gate!vars
  <1>1. Init => Gate!Init
    BY DEF Init, Gate!Init
  <1>2. InductiveInvariant /\ [Next]_vars => [Gate!Next]_(Gate!vars)
    <2> SUFFICES ASSUME InductiveInvariant, [Next]_vars PROVE [Gate!Next]_(Gate!vars)
      OBVIOUS
    <2>1. /\ trusted' \in BOOLEAN /\ command \in Commands
          /\ active' # active => Activate \/ Deactivate
          /\ robot' # robot => WriteCommand \/ Deactivate
      BY StepEffects DEF InductiveInvariant, TypeOK, ValuesTypeOK
    <2>2. CASE Activate
      <3>1. active' = TRUE /\ trusted' = trusted /\ robot' = robot
        BY <2>2 DEF Activate, linkVars
      <3>2. QED
        BY <3>1 DEF Gate!Next, Gate!Activate
    <2>3. CASE Deactivate
      <3>1. active' = FALSE /\ trusted' = FALSE
        BY <2>3, CallbackPreserves DEF Deactivate
      <3>2. robot' = robot \/ (trusted /\ robot' = "zero")
        BY <2>3 DEF Deactivate, SafeStop
      <3>3. QED
        BY <3>1, <3>2 DEF Gate!Next, Gate!Deactivate
    <2>4. CASE WriteCommand
      <3>1. active /\ trusted /\ robot' = command /\ UNCHANGED <<active, trusted>>
        BY <2>4 DEF WriteCommand, BeginWrite, MayTransmit, linkVars
      <3>2. QED
        BY <2>1, <3>1 DEF Gate!Next, Gate!Send
    <2>5. CASE ~(Activate \/ Deactivate \/ WriteCommand)
      <3>1. UNCHANGED <<active, robot>>
        BY <2>1, <2>5
      <3>2. QED
        BY <2>1, <3>1 DEF Gate!Next, Gate!Shift
    <2>6. QED
      BY <2>2, <2>3, <2>4, <2>5
  <1>3. QED
    BY <1>1, <1>2, InvariantHolds, PTL DEF Spec, GateSpec, Gate!Spec

\* A driving command reaches the robot only from an active component whose
\* controllers wrote it since the activation.
THEOREM DriveIsOwnHolds == Spec => DriveIsOwn
  <1>1. InductiveInvariant /\ [Next]_vars =>
          [robot' = "drive" /\ robot # "drive" => active /\ ownCommand]_vars
    <2> SUFFICES ASSUME InductiveInvariant, [Next]_vars, robot' = "drive", robot # "drive"
                 PROVE  active /\ ownCommand
      OBVIOUS
    <2>1. WriteCommand \/ Deactivate
      BY StepEffects
    <2>2. ~Deactivate
      BY DEF Deactivate, SafeStop
    <2>3. WriteCommand
      BY <2>1, <2>2
    <2>4. active /\ command = "drive"
      BY <2>3 DEF WriteCommand, MayTransmit
    <2>5. QED
      BY <2>4 DEF InductiveInvariant, CommandsAreOwn
  <1>2. QED
    BY <1>1, InvariantHolds, PTL DEF Spec, DriveIsOwn

\* Every read that leaves the state trusted parsed a valid packet in time.
THEOREM ReadEndsFreshHolds == Spec => ReadEndsFresh
  <1>1. InductiveInvariant /\ [Next]_vars =>
          [Read /\ trusted' => parsedAge' \in 0 .. StateTimeout]_vars
    <2> SUFFICES ASSUME InductiveInvariant, Read, trusted'
                 PROVE  parsedAge' \in 0 .. StateTimeout
      OBVIOUS
    <2>1. ReadPackets \/ ReadHungUp
      BY UntrustedPreserves DEF Read
    <2>2. QED
      BY <2>1, ReadPacketsPreserves, ReadHungUpPreserves
  <1>2. QED
    BY <1>1, InvariantHolds, PTL DEF Spec, ReadEndsFresh

\* Only an attempt and the clock move the two counts of the last attempt.
LEMMA AttemptsAndTicks ==
    ASSUME [Next]_vars
    PROVE  \/ MayAttempt /\ Attempt
           \/ Tick
           \/ UNCHANGED <<attemptAge, sinceAttempt>>
  <1>1. CASE EnsureConnected
    BY <1>1 DEF EnsureConnected, linkVars
  <1>2. CASE ~EnsureConnected /\ ~Tick
    <2>1. UNCHANGED vars \/ Next
      OBVIOUS
    <2>2. CASE UNCHANGED vars
      BY <2>2 DEF vars, linkVars
    <2>3. CASE Read
      BY <1>2, <2>3 DEF Read, ReadUnconnected, ReadPackets, ReadHungUp, ReadError, CloseConnection,
                        linkVars
    <2>4. CASE Write
      BY <1>2, <2>4 DEF Write, WriteNothing, WriteUnconnected, WriteCommand, WriteError,
                        CloseConnection, linkVars
    <2>5. CASE LifecycleCallback
      BY <1>2, <2>5 DEF LifecycleCallback, Configure, Activate, Deactivate, Cleanup, Shutdown,
                        CloseConnection, linkVars
    <2>6. CASE Environment \/ \E c \in Commands : ControllerWrites(c)
      BY <1>2, <2>6 DEF Environment, H7Sends, Unplug, Plug, ControllerWrites, linkVars
    <2>7. QED
      BY <2>1, <2>2, <2>3, <2>4, <2>5, <2>6 DEF Next
  <1>3. QED
    BY <1>1, <1>2

\* Two attempts to open the port are never closer than the interval: the age
\* the code keeps is the real one, through every closing and configuration.
THEOREM ReconnectIsPacedHolds == Spec => ReconnectIsPaced
  <1> DEFINE AgeIsReal == /\ attemptAge = sinceAttempt
                          /\ sinceAttempt \in Never .. ReconnectInterval
  <1>1. Init => AgeIsReal
    BY DEF Init
  <1>2. AgeIsReal /\ [Next]_vars => AgeIsReal'
    <2> SUFFICES ASSUME AgeIsReal, [Next]_vars PROVE AgeIsReal'
      OBVIOUS
    <2>1. CASE Attempt
      BY <2>1 DEF Attempt
    <2>2. CASE Tick
      BY <2>2 DEF Tick, Later
    <2>3. CASE UNCHANGED <<attemptAge, sinceAttempt>>
      BY <2>3
    <2>4. QED
      BY <2>1, <2>2, <2>3, AttemptsAndTicks
  <1>3. AgeIsReal /\ [Next]_vars =>
          [sinceAttempt' = 0 /\ sinceAttempt # 0
             => sinceAttempt \in {Never, ReconnectInterval}]_vars
    <2> SUFFICES ASSUME AgeIsReal, [Next]_vars, sinceAttempt' = 0, sinceAttempt # 0
                 PROVE  sinceAttempt \in {Never, ReconnectInterval}
      OBVIOUS
    <2>1. CASE MayAttempt
      BY <2>1 DEF MayAttempt
    <2>2. ~Tick
      BY DEF Tick, Later
    <2>3. QED
      BY <2>1, <2>2, AttemptsAndTicks
  <1>4. QED
    BY <1>1, <1>2, <1>3, PTL DEF Spec, ReconnectIsPaced
=============================================================================
