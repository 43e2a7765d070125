---------------------------- MODULE DoorControl ----------------------------
(***************************************************************************)
(* door_control.c and door_sensor.c: one door, moved by three tasks.       *)
(*                                                                         *)
(* door_set_closed is called by the comms task (commands of the hub), the  *)
(* interface (a visitor) and the door's own task (the open-door timer).    *)
(* It runs without a lock, for seconds: it flips the flag that says which  *)
(* way the door goes, marks a transition, walks the servo step by step and *)
(* switches the safety sensor on and off on the way.  A task may be        *)
(* preempted between any two of the steps below.                           *)
(***************************************************************************)
EXTENDS Integers

CONSTANTS
  Callers,      \* the tasks that carry out commands: comms, interface
  DoorLoop,     \* the door's own task
  CloseAngle    \* servo steps from open (0) to shut

ASSUME DoorControlAssumption ==
  /\ CloseAngle \in Nat \ {0}
  /\ DoorLoop \notin Callers

Tasks == Callers \cup {DoorLoop}

VARIABLES
  flags,        \* door_state_flags, as the set of its bits
  angle,        \* servo_last_angle
  sensor_on,    \* sensor_state # SENSOR_STATE_OFF
  measured,     \* the last sixteen measurements are all far enough
  way_clear,    \* nothing stands in the way of the door
  due,          \* door_open_duration_seconds is 15, 25, 35, ...
  pc,           \* the next step of each task
  closed,       \* the argument of its call
  seen,         \* the flags it loaded
  from,         \* steps[0] of its movement
  idx,          \* its position in steps
  overlapped    \* history: a movement began while another was under way
\* What a call no longer needs goes back to its initial value.

moveVars == <<pc, closed, seen, from, idx>>
wayVars == <<measured, way_clear>>
controlVars == <<flags, angle, sensor_on, wayVars, due, moveVars, overlapped>>

\* After door_control_init: shut, the sensor on and its buffer full of zeros.
ControlInit ==
  /\ flags = {"CLOSED"}
  /\ angle = CloseAngle
  /\ sensor_on = TRUE
  /\ measured = FALSE
  /\ way_clear \in BOOLEAN
  /\ due = FALSE
  /\ pc = [t \in Tasks |-> "idle"]
  /\ closed = [t \in Tasks |-> FALSE]
  /\ seen = [t \in Tasks |-> {}]
  /\ from = [t \in Tasks |-> 0]
  /\ idx = [t \in Tasks |-> 0]
  /\ overlapped = FALSE

door_is_closed == flags = {"CLOSED"}

GoTo(t, here, there) == pc[t] = here /\ pc' = [pc EXCEPT ![t] = there]

-----------------------------------------------------------------------------
(* door_set_closed                                                         *)

Redundant(c) == c = ("CLOSED" \in flags)

\* The flag is loaded and compared; a redundant call returns here.
Begin(t, c) ==
  /\ ~Redundant(c)
  /\ GoTo(t, "idle", "flip")
  /\ closed' = [closed EXCEPT ![t] = c]
  /\ seen' = [seen EXCEPT ![t] = flags]
  /\ overlapped' = (overlapped \/ \E u \in Tasks \ {t} : pc[u] # "idle")
  /\ UNCHANGED <<flags, angle, sensor_on, wayVars, from, idx>>

\* door_state_flags ^= DOOR_FLAG_CLOSED, on the value loaded before.
Flip(t) ==
  /\ GoTo(t, "flip", "mark")
  /\ flags' = IF "CLOSED" \in seen[t] THEN seen[t] \ {"CLOSED"}
                                      ELSE seen[t] \cup {"CLOSED"}
  /\ seen' = [seen EXCEPT ![t] = {}]
  /\ UNCHANGED <<angle, sensor_on, wayVars, due, closed, from, idx, overlapped>>

Mark(t) ==
  /\ GoTo(t, "mark", "start")
  /\ flags' = flags \cup {"TRANSITION"}
  /\ UNCHANGED <<angle, sensor_on, wayVars, due, closed, seen, from, idx,
                 overlapped>>

\* Closing goes a little further than shut and comes back at the end.
Target(c) == IF c THEN CloseAngle + 1 ELSE 0

Distance(a, b) == IF a < b THEN b - a ELSE a - b

StepCount(t) == Distance(Target(closed[t]), from[t])

\* The array has no entry for the last step but the zero it starts with.
StepAngle(t, i) ==
  IF i = StepCount(t) THEN 0
  ELSE IF Target(closed[t]) < from[t] THEN from[t] - i ELSE from[t] + i

\* Mutant: the sensor is left as the last movement left it.
SetOutUnwatched(t) ==
  /\ GoTo(t, "start", "look")
  /\ from' = [from EXCEPT ![t] = angle]
  /\ idx' = [idx EXCEPT ![t] = 1]
  /\ UNCHANGED <<flags, angle, sensor_on, wayVars, due, closed, seen, overlapped>>

\* servo_set_angle_gradual: the steps are laid out from where the servo is.
SetOut(t) ==
  /\ GoTo(t, "start", "look")
  /\ from' = [from EXCEPT ![t] = angle]
  /\ idx' = [idx EXCEPT ![t] = 1]
  /\ sensor_on' = (sensor_on \/ closed[t])
  /\ UNCHANGED <<flags, angle, wayVars, due, closed, seen, overlapped>>

\* door_sensor_leq_cm: a sensor that is off says that the way is blocked.
Blocked(t) == closed[t] /\ (~sensor_on \/ ~measured)

Advance(t) ==
  /\ idx[t] < StepCount(t)
  /\ ~Blocked(t)
  /\ GoTo(t, "look", "set")
  /\ idx' = [idx EXCEPT ![t] = @ + 1]
  /\ UNCHANGED <<flags, angle, sensor_on, wayVars, due, closed, seen, from,
                 overlapped>>

\* The door retreats while something is in the way.
Retreat(t) ==
  /\ idx[t] < StepCount(t)
  /\ Blocked(t)
  /\ GoTo(t, "look", "set")
  /\ idx' = [idx EXCEPT ![t] = IF @ > 0 THEN @ - 1 ELSE @]
  /\ UNCHANGED <<flags, angle, sensor_on, wayVars, due, closed, seen, from,
                 overlapped>>

SetAngle(t) ==
  /\ GoTo(t, "set", "look")
  /\ angle' = StepAngle(t, idx[t])
  /\ UNCHANGED <<flags, sensor_on, wayVars, due, closed, seen, from, idx,
                 overlapped>>

\* The servo is set to its target and the sensor switched off.
Arrive(t) ==
  /\ idx[t] >= StepCount(t)
  /\ GoTo(t, "look", "unmark")
  /\ angle' = Target(closed[t])
  /\ sensor_on' = FALSE
  /\ from' = [from EXCEPT ![t] = 0] /\ idx' = [idx EXCEPT ![t] = 0]
  /\ UNCHANGED <<flags, wayVars, due, closed, seen, overlapped>>

\* Mutant: a door that closes is left a little beyond its closed angle.
UnmarkBeyond(t) ==
  /\ GoTo(t, "unmark", "idle")
  /\ flags' = flags \ {"TRANSITION"}
  /\ closed' = [closed EXCEPT ![t] = FALSE]
  /\ UNCHANGED <<angle, sensor_on, wayVars, due, seen, from, idx, overlapped>>

\* A door that closes comes back to its closed angle.
Unmark(t) ==
  /\ GoTo(t, "unmark", "idle")
  /\ angle' = IF closed[t] THEN CloseAngle ELSE angle
  /\ flags' = flags \ {"TRANSITION"}
  /\ closed' = [closed EXCEPT ![t] = FALSE]
  /\ UNCHANGED <<sensor_on, wayVars, due, seen, from, idx, overlapped>>

Movement(t) ==
  \/ Flip(t) \/ Mark(t) \/ SetOut(t)
  \/ Advance(t) \/ Retreat(t) \/ SetAngle(t)
  \/ Arrive(t) \/ Unmark(t)

-----------------------------------------------------------------------------
(* The callers and what surrounds them                                     *)

\* A call of the hub or of a visitor.
Call(t, c) == Begin(t, c) /\ UNCHANGED due

\* door_control_loop, once the door has been open for too long.
CloseWhenDue ==
  /\ due
  /\ due' = FALSE
  /\ \/ Begin(DoorLoop, TRUE)
     \/ /\ pc[DoorLoop] = "idle" /\ Redundant(TRUE)
        /\ UNCHANGED <<flags, angle, sensor_on, wayVars, moveVars, overlapped>>

\* Mutant: only the time spent moving is counted.
TimerDueMoving ==
  /\ "TRANSITION" \in flags
  /\ due' = TRUE
  /\ UNCHANGED <<flags, angle, sensor_on, wayVars, moveVars, overlapped>>

\* door_timer_callback: counts while the door is open or moves.  The call is
\* due for a second, then again ten seconds later.
TimerDue ==
  /\ ~door_is_closed
  /\ due' = TRUE
  /\ UNCHANGED <<flags, angle, sensor_on, wayVars, moveVars, overlapped>>

TimerPasses ==
  /\ due' = FALSE
  /\ UNCHANGED <<flags, angle, sensor_on, wayVars, moveVars, overlapped>>

WayChanges ==
  /\ way_clear' = ~way_clear
  /\ UNCHANGED <<flags, angle, sensor_on, measured, due, moveVars, overlapped>>

\* door_sensor_record: the buffer keeps its content while the sensor is off.
Measure ==
  /\ sensor_on
  /\ measured' = way_clear
  /\ UNCHANGED <<flags, angle, sensor_on, way_clear, due, moveVars, overlapped>>

\* The unit restarts.
Reset ==
  /\ flags' = {"CLOSED"} /\ angle' = CloseAngle
  /\ sensor_on' = TRUE /\ measured' = FALSE /\ UNCHANGED way_clear
  /\ due' = FALSE /\ overlapped' = FALSE
  /\ pc' = [t \in Tasks |-> "idle"]
  /\ closed' = [t \in Tasks |-> FALSE] /\ seen' = [t \in Tasks |-> {}]
  /\ from' = [t \in Tasks |-> 0] /\ idx' = [t \in Tasks |-> 0]

ControlNext ==
  \/ \E t \in Tasks : Movement(t)
  \/ \E t \in Callers, c \in BOOLEAN : Call(t, c)
  \/ CloseWhenDue \/ TimerDue \/ TimerPasses \/ WayChanges \/ Measure \/ Reset

ControlSpec == ControlInit /\ [][ControlNext]_controlVars

\* The tasks, the timer and the sensor go on.  The door's own task looks every
\* ten milliseconds, many times while a call is due.
ControlFairness ==
  /\ \A t \in Tasks : WF_controlVars(Movement(t))
  /\ WF_controlVars(Measure) /\ WF_controlVars(TimerDue)
  /\ SF_controlVars(CloseWhenDue)

ControlFairSpec == ControlSpec /\ ControlFairness

-----------------------------------------------------------------------------
(* Properties                                                              *)

\* The types of the door's state; the servo stays within its range, also for
\* the step that has no entry in the array of steps.
ControlTypeOK ==
  /\ flags \subseteq {"CLOSED", "TRANSITION"}
  /\ angle \in 0 .. CloseAngle + 1
  /\ sensor_on \in BOOLEAN /\ measured \in BOOLEAN /\ way_clear \in BOOLEAN
  /\ due \in BOOLEAN
  /\ pc \in [Tasks -> {"idle", "flip", "mark", "start", "look", "set", "unmark"}]
  /\ closed \in [Tasks -> BOOLEAN]
  /\ seen \in [Tasks -> SUBSET {"CLOSED", "TRANSITION"}]
  /\ from \in [Tasks -> 0 .. CloseAngle + 1]
  /\ idx \in [Tasks -> 0 .. CloseAngle + 1]
  /\ overlapped \in BOOLEAN

\* A door that says it is closed is shut and one that says it is open is
\* open, unless two movements overlapped or one has not yet marked itself.
FlagsTellTheTruth ==
  \/ overlapped
  \/ \E t \in Tasks : pc[t] = "mark"
  \/ /\ door_is_closed => angle = CloseAngle
     /\ flags = {} => angle = 0

\* The safety sensor is on for the whole of a closing movement, as long as
\* no two movements ever overlapped (servo_set_angle_gradual).
SensorWatchesClosing ==
  \A t \in Tasks :
    pc[t] \in {"look", "set"} /\ closed[t] => sensor_on \/ overlapped

\* A door left open is closed once the way stays clear, again without overlap.
OpenDoorCloses ==
  <>[]way_clear => (~door_is_closed ~> door_is_closed \/ overlapped)
=============================================================================
