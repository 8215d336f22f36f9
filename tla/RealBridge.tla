----------------------------- MODULE RealBridge -----------------------------
(***************************************************************************)
(* RealBridge, the ros2_control hardware component that drives the robot's *)
(* H7 board over one serial port: connection management, the freshness     *)
(* watchdog on state packets, and the gate in front of command packets.    *)
(*                                                                         *)
(* The controller manager calls read(), lets the controllers write their   *)
(* commands, and calls write(); lifecycle callbacks come between calls.    *)
(* Each callback is one action.  The serial driver and the H7 board are    *)
(* the environment.  A packet is abstracted to whether it passes the       *)
(* marker, payload and CRC checks and to how long ago it was sent; the     *)
(* byte-level resynchronisation is not modelled here.                      *)
(*                                                                         *)
(* The steady clock counts in ticks.  The code compares differences only,  *)
(* so ages are kept, saturated where no comparison tells them apart.       *)
(***************************************************************************)
EXTENDS Integers, Sequences

CONSTANTS
    StateTimeout,       \* state_timeout_us_, in ticks
    ReconnectInterval,  \* reconnect_interval_us_, in ticks
    BufferPackets,      \* state packets one ::read can bring into receive_buffer_
    DriverPackets,      \* bound: state packets the serial driver holds
    HangupReads,        \* what ::read on a hung-up port may do: "empty", "error"
    MaxFaults           \* bound: I/O errors of a healthy port in a behaviour

ASSUME TimesAssumption == StateTimeout \in Nat /\ ReconnectInterval \in Nat
ASSUME BuffersAssumption == BufferPackets \in Nat \ {0} /\ DriverPackets \in Nat
ASSUME HangupAssumption == HangupReads \subseteq {"empty", "error"}
ASSUME MaxFaultsAssumption == MaxFaults \in Nat

VARIABLES
    lifecycle,    \* lifecycle state of the hardware component
    active,       \* active_
    phase,        \* which of read() and write() the manager calls next
    port,         \* serial_fd_: closed, open, or open on a port that hung up
    attemptAge,   \* age of last_connect_attempt_us_, or Never for 0
    trusted,      \* has_valid_state_
    validAge,     \* age of last_valid_packet_us_, or Never for 0
    command,      \* what the joint command interfaces hold
    device,       \* the serial device is present
    driver,       \* state packets received by the driver, not yet read
    robot,        \* last complete command packet the H7 received
    faults,       \* I/O errors so far
    \* History variables: no action reads them in a guard.
    sinceAttempt, \* ticks since the last attempt to open the port
    parsedAge,    \* ticks since a valid packet of this connection was parsed
    stateAge,     \* ticks since the state in the state interfaces was sent
    ownCommand    \* the command was written since the last activation

deviceVars == <<device, driver, faults>>
linkVars == <<port, attemptAge, sinceAttempt, trusted, validAge>>
commandVars == <<command, ownCommand>>
historyVars == <<parsedAge, stateAge>>
vars == <<lifecycle, active, phase, linkVars, deviceVars, robot, commandVars, historyVars>>

Never == -1
Commands == {"zero", "drive"}
Ages == Never .. StateTimeout + 1
StatePackets == [valid : BOOLEAN, age : 0 .. StateTimeout + 1]

FlagsTypeOK ==
    /\ active \in BOOLEAN
    /\ trusted \in BOOLEAN
    /\ device \in BOOLEAN
    /\ ownCommand \in BOOLEAN

ValuesTypeOK ==
    /\ lifecycle \in {"unconfigured", "inactive", "active", "finalized"}
    /\ phase \in {"read", "write"}
    /\ port \in {"closed", "open", "hungup"}
    /\ attemptAge \in Never .. ReconnectInterval
    /\ sinceAttempt \in Never .. ReconnectInterval
    /\ validAge \in Ages /\ parsedAge \in Ages /\ stateAge \in Ages
    /\ command \in Commands
    /\ robot \in Commands \cup {"none"}
    /\ driver \in Seq(StatePackets) /\ Len(driver) <= DriverPackets
    /\ faults \in 0 .. MaxFaults

TypeOK == FlagsTypeOK /\ ValuesTypeOK

Init ==
    /\ lifecycle = "unconfigured" /\ active = FALSE /\ phase = "read"
    /\ port = "closed" /\ attemptAge = Never /\ sinceAttempt = Never
    /\ trusted = FALSE /\ validAge = Never
    /\ command = "zero" /\ ownCommand = FALSE
    /\ device \in BOOLEAN /\ driver = <<>> /\ faults = 0
    /\ robot = "none"
    /\ parsedAge = Never /\ stateAge = Never

-----------------------------------------------------------------------------
(* Operations the callbacks share.                                         *)

\* Mutants: no pause between attempts, and only one attempt ever.
MayAlwaysAttempt == TRUE
MayAttemptOnce == attemptAge = Never

MayAttempt == attemptAge = Never \/ attemptAge >= ReconnectInterval

\* ensure_connected on a closed port when an attempt is due.  Opening
\* flushes the driver; it fails without a device, or by a fault.
Attempt ==
    /\ attemptAge' = 0
    /\ sinceAttempt' = 0
    /\ driver' = <<>>
    /\ \/ device /\ port' = "open" /\ parsedAge' = Never /\ UNCHANGED faults
       \/ /\ ~device
          /\ port' = "closed" /\ UNCHANGED <<parsedAge, faults>>
       \/ /\ device /\ faults < MaxFaults
          /\ port' = "closed" /\ faults' = faults + 1 /\ UNCHANGED parsedAge
    /\ UNCHANGED <<trusted, validAge, device>>

\* ensure_connected on a closed port: an attempt, or none before its time.
EnsureConnected ==
    /\ port = "closed"
    /\ IF MayAttempt
         THEN Attempt
         ELSE UNCHANGED <<linkVars, deviceVars, parsedAge>>

\* Mutant: what the last connection brought stays trusted.
CloseConnectionTrusting ==
    /\ port' = "closed"
    /\ driver' = <<>>
    /\ UNCHANGED <<trusted, validAge, attemptAge, sinceAttempt>>

\* close_connection on an open port: the link is as if never used, except
\* that the next attempt still waits for its time.
CloseConnection ==
    /\ port' = "closed"
    /\ trusted' = FALSE
    /\ validAge' = Never
    /\ driver' = <<>>
    /\ UNCHANGED <<attemptAge, sinceAttempt>>

\* Mutant: the command interfaces keep what they held.
ResetNoCommands ==
    /\ UNCHANGED command
    /\ ownCommand' = FALSE

ResetCommands ==
    /\ command' = "zero"
    /\ ownCommand' = FALSE

\* An I/O error nobody can foresee.
Fault == faults < MaxFaults /\ faults' = faults + 1

-----------------------------------------------------------------------------
(* read() and write().                                                     *)

BeginRead ==
    /\ lifecycle \in {"inactive", "active"}
    /\ phase = "read"
    /\ phase' = "write"
    /\ UNCHANGED <<lifecycle, active, robot, commandVars>>

\* A port opened by this call has just been flushed: there is nothing to read.
ReadUnconnected ==
    /\ BeginRead
    /\ EnsureConnected
    /\ UNCHANGED stateAge

\* The packets one ::read brings, and those of them that are accepted.
Batch == IF Len(driver) <= BufferPackets THEN Len(driver) ELSE BufferPackets
Accepted == {i \in 1..Batch : driver[i].valid}

\* receive_packets on a healthy port, apply_latest_state, and the watchdog.
ReadPackets ==
    /\ BeginRead
    /\ port = "open"
    /\ driver' = SubSeq(driver, Batch + 1, Len(driver))
    /\ IF Accepted # {}
         THEN /\ trusted' = TRUE
              /\ validAge' = 0
              /\ parsedAge' = 0
              /\ \E last \in Accepted :
                    /\ \A i \in Accepted : i <= last
                    /\ stateAge' = driver[last].age
         ELSE /\ trusted' = (trusted /\ validAge <= StateTimeout)
              /\ UNCHANGED <<validAge, parsedAge, stateAge>>
    /\ UNCHANGED <<port, attemptAge, sinceAttempt, device, faults>>

\* Mutant: nothing read, nothing checked.
ReadHungUpTrusting ==
    /\ BeginRead
    /\ port = "hungup"
    /\ "empty" \in HangupReads
    /\ UNCHANGED <<linkVars, deviceVars, historyVars>>

\* A port that hung up may read as empty: then only the watchdog acts.
ReadHungUp ==
    /\ BeginRead
    /\ port = "hungup"
    /\ "empty" \in HangupReads
    /\ trusted' = (trusted /\ validAge <= StateTimeout)
    /\ UNCHANGED <<port, attemptAge, sinceAttempt, validAge, deviceVars, historyVars>>

ReadError ==
    /\ BeginRead
    /\ \/ port = "open" /\ Fault
       \/ port = "hungup" /\ "error" \in HangupReads /\ UNCHANGED faults
    /\ CloseConnection
    /\ UNCHANGED <<device, historyVars>>

\* The active controllers write the command interfaces between the two.
ControllerWrites(c) ==
    /\ lifecycle = "active"
    /\ phase = "write"
    /\ command' = c
    /\ ownCommand' = TRUE
    /\ UNCHANGED <<lifecycle, active, phase, linkVars, deviceVars, robot, historyVars>>

BeginWrite ==
    /\ lifecycle \in {"inactive", "active"}
    /\ phase = "write"
    /\ phase' = "read"
    /\ UNCHANGED <<lifecycle, active, commandVars, stateAge>>

\* write() when the component is not active, or knows no valid state.
WriteNothing ==
    /\ BeginWrite
    /\ ~active \/ (port # "closed" /\ ~trusted)
    /\ UNCHANGED <<linkVars, deviceVars, robot, parsedAge>>

WriteUnconnected ==
    /\ BeginWrite
    /\ active
    /\ EnsureConnected
    /\ UNCHANGED robot

\* Mutant: an open port is enough.
MayTransmitWhenOpen == active /\ port # "closed"

MayTransmit == active /\ port # "closed" /\ trusted

WriteCommand ==
    /\ BeginWrite
    /\ MayTransmit
    /\ port = "open"
    /\ robot' = command
    /\ UNCHANGED <<linkVars, deviceVars, parsedAge>>

\* A write that fails or is short closes the port.
WriteError ==
    /\ BeginWrite
    /\ MayTransmit
    /\ \/ port = "open" /\ Fault
       \/ port = "hungup" /\ UNCHANGED faults
    /\ CloseConnection
    /\ UNCHANGED <<device, robot, parsedAge>>

-----------------------------------------------------------------------------
(* Lifecycle callbacks.                                                    *)

\* on_configure, which makes the first attempt to connect.
Configure ==
    /\ lifecycle = "unconfigured"
    /\ lifecycle' = "inactive"
    /\ phase' = "read"
    /\ ResetCommands
    /\ EnsureConnected
    /\ UNCHANGED <<active, robot, stateAge>>

Activate ==
    /\ lifecycle = "inactive"
    /\ lifecycle' = "active"
    /\ active' = TRUE
    /\ ResetCommands
    /\ UNCHANGED <<phase, linkVars, deviceVars, robot, historyVars>>

\* Whether the stop packet gets through a deactivation.
SafeStop ==
    \/ trusted /\ port = "open" /\ robot' = "zero" /\ UNCHANGED faults
    \/ trusted /\ port = "open" /\ Fault /\ UNCHANGED robot
    \/ ~(trusted /\ port = "open") /\ UNCHANGED <<robot, faults>>

\* on_deactivate: the stop packet if the robot is known to listen, then the
\* connection is closed.
Deactivate ==
    /\ lifecycle = "active"
    /\ lifecycle' = "inactive"
    /\ active' = FALSE
    /\ SafeStop
    /\ ResetCommands
    /\ IF port = "closed" THEN UNCHANGED <<linkVars, driver>> ELSE CloseConnection
    /\ UNCHANGED <<phase, device, historyVars>>

Cleanup ==
    /\ lifecycle = "inactive"
    /\ lifecycle' = "unconfigured"
    /\ IF port = "closed" THEN UNCHANGED <<linkVars, driver>> ELSE CloseConnection
    /\ UNCHANGED <<active, phase, device, faults, robot, commandVars, historyVars>>

\* RealBridge has no on_shutdown: the flag and the port stay as they are.
Shutdown ==
    /\ lifecycle \in {"unconfigured", "inactive", "active"}
    /\ lifecycle' = "finalized"
    /\ UNCHANGED <<active, phase, linkVars, deviceVars, robot, commandVars, historyVars>>

-----------------------------------------------------------------------------
(* The environment: the clock, the serial device and the H7 board.         *)

Older(age) == IF age = Never \/ age > StateTimeout THEN age ELSE age + 1

Later(age) == IF age = Never \/ age >= ReconnectInterval THEN age ELSE age + 1

Tick ==
    /\ validAge' = Older(validAge)
    /\ parsedAge' = Older(parsedAge)
    /\ stateAge' = Older(stateAge)
    /\ attemptAge' = Later(attemptAge)
    /\ sinceAttempt' = Later(sinceAttempt)
    /\ driver' = [i \in DOMAIN driver |-> [driver[i] EXCEPT !.age = Older(@)]]
    /\ UNCHANGED <<lifecycle, active, phase, port, trusted, device, faults, robot, commandVars>>

\* A state packet arrives; `valid' is whether it will pass the checks.
H7Sends(valid) ==
    /\ port = "open"
    /\ Len(driver) < DriverPackets
    /\ driver' = Append(driver, [valid |-> valid, age |-> 0])
    /\ UNCHANGED <<lifecycle, active, phase, linkVars, device, faults, robot, commandVars,
                   historyVars>>

Unplug ==
    /\ device
    /\ device' = FALSE
    /\ driver' = <<>>
    /\ port' = IF port = "open" THEN "hungup" ELSE port
    /\ UNCHANGED <<lifecycle, active, phase, attemptAge, sinceAttempt, trusted, validAge,
                   faults, robot, commandVars, historyVars>>

Plug ==
    /\ ~device
    /\ device' = TRUE
    /\ UNCHANGED <<lifecycle, active, phase, linkVars, driver, faults, robot, commandVars,
                   historyVars>>

-----------------------------------------------------------------------------
Read == ReadUnconnected \/ ReadPackets \/ ReadHungUp \/ ReadError
Write == WriteNothing \/ WriteUnconnected \/ WriteCommand \/ WriteError
LifecycleCallback == Configure \/ Activate \/ Deactivate \/ Cleanup \/ Shutdown
Environment == Tick \/ (\E valid \in BOOLEAN : H7Sends(valid)) \/ Unplug \/ Plug

Next ==
    \/ Read
    \/ Write
    \/ \E c \in Commands : ControllerWrites(c)
    \/ LifecycleCallback
    \/ Environment

Spec == Init /\ [][Next]_vars

\* The manager keeps calling read() and write(), time passes, and a board
\* that is connected keeps sending valid packets.
FairSpec ==
    /\ Spec
    /\ WF_vars(Read)
    /\ WF_vars(Write)
    /\ WF_vars(Tick)
    /\ SF_vars(H7Sends(TRUE))

\* The bridge seen as a gate: trusted state is an open gate.
Gate == INSTANCE TransmitGate
          WITH Packets <- Commands, open <- trusted
GateSpec == Gate!Spec
-----------------------------------------------------------------------------
(* Properties.                                                             *)

\* State is trusted only if a valid packet of the present connection was
\* parsed: nothing learnt on an earlier connection survives its closing.
TrustedOnThisConnection ==
    /\ port = "closed" => ~trusted
    /\ trusted => parsedAge # Never /\ parsedAge = validAge

\* No action but a controller's write makes the interfaces hold a driving
\* command, and both ends of an activation make them hold none.
CommandsAreOwn == command = "drive" => ownCommand

\* How the parts of the state fit together; inductive.
InductiveInvariant == TypeOK /\ TrustedOnThisConnection /\ CommandsAreOwn

\* A command packet reaches the robot only while the component is active,
\* and a driving one only if a controller wrote it after that activation.
DriveIsOwn ==
    [][robot' = "drive" /\ robot # "drive" => active /\ ownCommand]_vars

\* Every read() that leaves the state trusted saw a valid packet no longer
\* ago than the timeout, counted from its parsing.
ReadEndsFresh ==
    [][Read /\ trusted' => parsedAge' \in 0 .. StateTimeout]_vars

\* Two attempts to open the port are never closer than the interval, through
\* closings, reconfigurations and both callers of ensure_connected.
ReconnectIsPaced ==
    [][sinceAttempt' = 0 /\ sinceAttempt # 0 => sinceAttempt \in {Never, ReconnectInterval}]_vars

\* While the hardware stays active with its device present, the bridge ends
\* up trusting the robot's state again and again, whatever was lost before.
LinkRecovers ==
    <>[](lifecycle = "active" /\ device) => []<>trusted

\* The same, unless the port stays hung up without any error telling so.
LinkRecoversUnlessHungUp ==
    <>[](lifecycle = "active" /\ device /\ port # "hungup") => []<>trusted

\* A read() never leaves the state trusted when the state it has applied was
\* sent longer ago than the timeout.
ReadTrustsRecentState ==
    [][Read /\ trusted' => stateAge' <= StateTimeout]_vars
=============================================================================
