----------------------------- MODULE DoorProofs -----------------------------
(***************************************************************************)
(* Proofs about a door unit: DoorControl, for every number of callers and  *)
(* of steps; DoorInterface and Persistence, for any addresses and names    *)
(* and any number of power failures.                                       *)
(*                                                                         *)
(* The door: while movements do not overlap, at most one task is under way *)
(* (OneMover), so that what it finds at each step is what it left at the   *)
(* step before (MoverFinds), and between movements the flags and the servo *)
(* agree (RestAgrees).  The range of the servo needs more than its type:   *)
(* the position in the steps never passes their count (WithinSteps).       *)
(*                                                                         *)
(* The passwords: what a visitor is allowed was earned, or the interface   *)
(* has just come to its top level, where it is forgotten (AuthEarned); a   *)
(* phase for administrators that asks for input has seen the               *)
(* administrator's password (MenuAllowed).  The queue of phases is filled  *)
(* up to its tail, and reset only to its top level (Filled), also if it    *)
(* overflows between two pushes (PushTwice).                               *)
(*                                                                         *)
(* The settings: outside of a save the sector holds those of the last      *)
(* save, or was never written, or is torn (SectorKnown); within one what   *)
(* is written is a part of the memory, first to last (WrittenSoFar).       *)
(***************************************************************************)
EXTENDS DoorControl, DoorInterface, TLAPS

-----------------------------------------------------------------------------
(* The door moves                                                           *)

\* What the flags are while task t moves the door.
Going(t) == IF closed[t] THEN {"CLOSED", "TRANSITION"} ELSE {"TRANSITION"}

OneMover ==
  overlapped \/ \A t, u \in Tasks : pc[t] # "idle" /\ pc[u] # "idle" => t = u

Settled ==
  \/ flags = {"CLOSED"} /\ angle = CloseAngle
  \/ flags = {} /\ angle = 0

RestAgrees == overlapped \/ ((\A t \in Tasks : pc[t] = "idle") => Settled)

MoverFinds ==
  overlapped \/
  \A t \in Tasks :
    /\ pc[t] = "flip" => /\ Settled /\ seen[t] = flags
                         /\ closed[t] # ("CLOSED" \in flags)
    /\ pc[t] = "mark" => flags = IF closed[t] THEN {"CLOSED"} ELSE {}
    /\ pc[t] \in {"start", "look", "set", "unmark"} => flags = Going(t)
    /\ pc[t] \in {"look", "set"} /\ closed[t] => sensor_on
    /\ pc[t] = "unmark" => angle = Target(closed[t])

WithinSteps == \A t \in Tasks : pc[t] = "set" => idx[t] <= StepCount(t)

ControlInv == ControlTypeOK /\ OneMover /\ RestAgrees /\ MoverFinds /\ WithinSteps

-----------------------------------------------------------------------------

\* The invariant holds of the closed door the unit starts with.
LEMMA InitControlInv == ControlInit => ControlInv
<1> SUFFICES ASSUME ControlInit PROVE ControlInv
  OBVIOUS
<1>1. ControlTypeOK
  <2>1. angle \in 0 .. CloseAngle + 1 /\ 0 \in 0 .. CloseAngle + 1
    BY DoorControlAssumption DEF ControlInit
  <2> QED BY <2>1, Zenon DEF ControlInit, ControlTypeOK
<1>2. OneMover /\ RestAgrees /\ MoverFinds /\ WithinSteps
  BY DEF ControlInit, OneMover, RestAgrees, Settled, MoverFinds, WithinSteps
<1> QED BY <1>1, <1>2 DEF ControlInv

\* The position in the steps, and with it the servo, stays in range.
LEMMA StepInRange ==
  ASSUME ControlTypeOK, NEW t \in Tasks, NEW i \in 0 .. StepCount(t)
  PROVE  StepAngle(t, i) \in 0 .. CloseAngle + 1 /\ i \in 0 .. CloseAngle + 1
BY DoorControlAssumption DEF ControlTypeOK, StepAngle, StepCount, Target, Distance

\* A step of a movement: its own task finds what it left, and no other moves.
LEMMA MovementControlInv == ASSUME ControlInv, NEW t \in Tasks, Movement(t) PROVE ControlInv'
<1> USE DoorControlAssumption
        DEF ControlInv, ControlTypeOK, GoTo, moveVars, wayVars, WithinSteps
<1>1. CASE Flip(t)
  <2>1. ControlTypeOK' /\ WithinSteps'
    BY <1>1 DEF Flip, StepCount
  <2>2. OneMover' /\ RestAgrees'
    BY <1>1 DEF Flip, OneMover, RestAgrees
  <2>3. overlapped \/ flags' = IF closed[t] THEN {"CLOSED"} ELSE {}
    <3> pc[t] = "flip"
      BY <1>1 DEF Flip
    <3>1. \/ overlapped
          \/ /\ flags = seen[t] /\ (flags = {"CLOSED"} \/ flags = {})
             /\ closed[t] # ("CLOSED" \in flags)
      BY DEF MoverFinds, Settled
    <3>2. closed[t] \in BOOLEAN
      OBVIOUS
    <3>3. CASE flags = {} /\ flags = seen[t]
      BY <1>1, <3>1, <3>2, <3>3 DEF Flip
    <3>4. CASE flags = {"CLOSED"} /\ flags = seen[t]
      BY <1>1, <3>1, <3>2, <3>4 DEF Flip
    <3> QED BY <3>1, <3>3, <3>4
  <2>4. MoverFinds'
    BY <1>1, <2>3 DEF Flip, OneMover, MoverFinds
  <2> QED BY <2>1, <2>2, <2>4
<1>2. CASE Mark(t)
  <2>1. ControlTypeOK' /\ WithinSteps'
    BY <1>2 DEF Mark, StepCount
  <2>2. overlapped \/ flags' = Going(t)
    <3>1. overlapped \/ flags = IF closed[t] THEN {"CLOSED"} ELSE {}
      BY <1>2 DEF Mark, MoverFinds
    <3> QED BY <1>2, <3>1 DEF Mark, Going
  <2>3. OneMover' /\ RestAgrees' /\ MoverFinds'
    BY <1>2, <2>2 DEF Mark, OneMover, RestAgrees, MoverFinds, Going
  <2> QED BY <2>1, <2>3
<1>3. CASE SetOut(t)
  <2>1. ControlTypeOK' /\ WithinSteps'
    BY <1>3 DEF SetOut, StepCount
  <2>2. OneMover' /\ RestAgrees' /\ MoverFinds'
    BY <1>3 DEF SetOut, OneMover, RestAgrees, Settled, MoverFinds, Going
  <2> QED BY <2>1, <2>2
<1>4. CASE Advance(t)
  <2>1. idx[t] + 1 \in 0 .. StepCount(t)
    BY <1>4 DEF Advance, StepCount, Target, Distance
  <2>2. ControlTypeOK' /\ WithinSteps'
    BY <1>4, <2>1, StepInRange DEF Advance, StepCount
  <2>3. OneMover' /\ RestAgrees' /\ MoverFinds'
    BY <1>4 DEF Advance, OneMover, RestAgrees, Settled, MoverFinds, Going
  <2> QED BY <2>2, <2>3
<1>5. CASE Retreat(t)
  <2>1. ControlTypeOK' /\ WithinSteps'
    BY <1>5 DEF Retreat, StepCount, Target, Distance
  <2>2. OneMover' /\ RestAgrees' /\ MoverFinds'
    BY <1>5 DEF Retreat, OneMover, RestAgrees, Settled, MoverFinds, Going
  <2> QED BY <2>1, <2>2
<1>6. CASE SetAngle(t)
  <2>1. idx[t] \in 0 .. StepCount(t)
    BY <1>6 DEF SetAngle, StepCount, Target, Distance
  <2>2. ControlTypeOK' /\ WithinSteps'
    BY <1>6, <2>1, StepInRange DEF SetAngle, StepCount
  <2>3. OneMover' /\ RestAgrees' /\ MoverFinds'
    BY <1>6 DEF SetAngle, OneMover, RestAgrees, Settled, MoverFinds, Going
  <2> QED BY <2>2, <2>3
<1>7. CASE Arrive(t)
  <2>1. ControlTypeOK'
    <3>1. angle' \in 0 .. CloseAngle + 1 /\ 0 \in 0 .. CloseAngle + 1
      BY <1>7 DEF Arrive, Target
    <3>2. /\ from' \in [Tasks -> 0 .. CloseAngle + 1]
          /\ idx' \in [Tasks -> 0 .. CloseAngle + 1]
          /\ pc' \in [Tasks -> {"idle", "flip", "mark", "start", "look", "set", "unmark"}]
      BY <1>7, <3>1 DEF Arrive
    <3>3. /\ flags' \subseteq {"CLOSED", "TRANSITION"}
          /\ sensor_on' \in BOOLEAN /\ measured' \in BOOLEAN /\ way_clear' \in BOOLEAN
          /\ due' \in BOOLEAN /\ overlapped' \in BOOLEAN
          /\ seen' \in [Tasks -> SUBSET {"CLOSED", "TRANSITION"}]
          /\ closed' \in [Tasks -> BOOLEAN]
      BY <1>7 DEF Arrive
    <3> QED BY <3>1, <3>2, <3>3
  <2>2. WithinSteps'
    BY <1>7 DEF Arrive, StepCount
  <2>3. OneMover' /\ RestAgrees' /\ MoverFinds'
    BY <1>7 DEF Arrive, OneMover, RestAgrees, Settled, MoverFinds, Going
  <2> QED BY <2>1, <2>2, <2>3
<1>8. CASE Unmark(t)
  <2>1. ControlTypeOK'
    <3>1. angle' \in 0 .. CloseAngle + 1
      BY <1>8 DEF Unmark
    <3>2. flags' \subseteq {"CLOSED", "TRANSITION"}
      BY <1>8 DEF Unmark
    <3>3. /\ closed' \in [Tasks -> BOOLEAN]
          /\ pc' \in [Tasks -> {"idle", "flip", "mark",
            "start", "look", "set", "unmark"}]
      BY <1>8 DEF Unmark
    <3>4. /\ sensor_on' \in BOOLEAN /\ measured' \in BOOLEAN /\ way_clear' \in BOOLEAN
          /\ due' \in BOOLEAN /\ overlapped' \in BOOLEAN
          /\ seen' \in [Tasks -> SUBSET {"CLOSED", "TRANSITION"}]
          /\ from' \in [Tasks -> 0 .. CloseAngle + 1]
          /\ idx' \in [Tasks -> 0 .. CloseAngle + 1]
      BY <1>8 DEF Unmark
    <3> QED BY <3>1, <3>2, <3>3, <3>4
  <2>2. WithinSteps'
    BY <1>8 DEF Unmark, StepCount
  <2>3. OneMover' /\ RestAgrees' /\ MoverFinds'
    BY <1>8 DEF Unmark, OneMover, RestAgrees, Settled, MoverFinds, Going, Target
  <2> QED BY <2>1, <2>2, <2>3
<1> QED BY <1>1, <1>2, <1>3, <1>4, <1>5, <1>6, <1>7, <1>8 DEF Movement

\* A call that finds no other one under way starts from a settled door.
LEMMA BeginControlInv ==
  ASSUME ControlInv, NEW t \in Tasks, NEW c \in BOOLEAN, Begin(t, c), due' \in BOOLEAN
  PROVE  ControlInv'
<1> USE DEF ControlInv, ControlTypeOK, Begin, GoTo, moveVars, wayVars
<1>1. ControlTypeOK' /\ WithinSteps'
  BY DEF WithinSteps, StepCount
<1>2. OneMover' /\ RestAgrees' /\ MoverFinds'
  BY DEF OneMover, RestAgrees, Settled, MoverFinds, Going, Redundant
<1> QED BY <1>1, <1>2

\* The timer, the sensor and the surroundings disturb no movement.
LEMMA SurroundingsControlInv ==
  ASSUME ControlInv, due' \in BOOLEAN, measured' \in BOOLEAN, way_clear' \in BOOLEAN,
         UNCHANGED <<flags, angle, sensor_on, pc, closed, seen, from, idx, overlapped>>
  PROVE  ControlInv'
<1>1. ControlTypeOK'
  BY DEF ControlInv, ControlTypeOK
<1>2. OneMover' /\ RestAgrees' /\ MoverFinds' /\ WithinSteps'
  BY DEF ControlInv, OneMover, RestAgrees, Settled, MoverFinds, Going, WithinSteps, StepCount
<1> QED BY <1>1, <1>2 DEF ControlInv

\* Every step of the door preserves the invariant.
LEMMA NextControlInv == ControlInv /\ [ControlNext]_controlVars => ControlInv'
<1> SUFFICES ASSUME ControlInv, [ControlNext]_controlVars PROVE ControlInv'
  OBVIOUS
<1> USE DEF moveVars, wayVars
<1>1. ASSUME NEW t \in Tasks, Movement(t) PROVE ControlInv'
  BY <1>1, MovementControlInv
<1>2. ASSUME NEW t \in Callers, NEW c \in BOOLEAN, Call(t, c) PROVE ControlInv'
  BY <1>2, BeginControlInv DEF Call, Tasks, ControlInv, ControlTypeOK
<1>3. CASE CloseWhenDue
  <2>1. CASE Begin(DoorLoop, TRUE)
    BY <1>3, <2>1, BeginControlInv DEF CloseWhenDue, Tasks
  <2>2. CASE ~Begin(DoorLoop, TRUE)
    BY <1>3, <2>2, SurroundingsControlInv DEF CloseWhenDue, ControlInv, ControlTypeOK
  <2> QED BY <2>1, <2>2
<1>4. CASE TimerDue \/ TimerPasses \/ WayChanges
  BY <1>4, SurroundingsControlInv DEF TimerDue, TimerPasses, WayChanges, ControlInv, ControlTypeOK
<1>5. CASE Measure
  BY <1>5, SurroundingsControlInv DEF Measure, ControlInv, ControlTypeOK
<1>6. CASE Reset
  <2>1. ControlTypeOK'
    <3>1. angle' \in 0 .. CloseAngle + 1 /\ 0 \in 0 .. CloseAngle + 1
      BY <1>6, DoorControlAssumption DEF Reset
    <3> QED BY <1>6, <3>1, Zenon DEF Reset, ControlInv, ControlTypeOK
  <2>2. OneMover' /\ RestAgrees' /\ MoverFinds' /\ WithinSteps'
    BY <1>6 DEF Reset, OneMover, RestAgrees, Settled, MoverFinds, WithinSteps
  <2> QED BY <2>1, <2>2 DEF ControlInv
<1>7. CASE UNCHANGED controlVars
  BY <1>7, SurroundingsControlInv DEF controlVars, ControlInv, ControlTypeOK
<1> QED
  BY <1>1, <1>2, <1>3, <1>4, <1>5, <1>6, <1>7 DEF ControlNext

\* The invariant holds of every reachable state.
LEMMA AlwaysControlInv == ControlSpec => []ControlInv
<1> QED BY InitControlInv, NextControlInv, PTL DEF ControlSpec

-----------------------------------------------------------------------------

\* The servo stays within its range, also where movements overlap and at the
\* step that has no entry in the array of steps (servo_set_angle_gradual).
THEOREM ServoInRange == ControlSpec => []ControlTypeOK
<1>1. ControlInv => ControlTypeOK
  BY DEF ControlInv
<1> QED BY <1>1, AlwaysControlInv, PTL

\* The flags tell what the door does, unless movements overlap
\* (door_set_closed, door_is_closed).
THEOREM FlagsTruthful == ControlSpec => []FlagsTellTheTruth
<1>1. ControlInv => FlagsTellTheTruth
  <2> SUFFICES ASSUME ControlInv, ~overlapped, \A t \in Tasks : pc[t] # "mark"
               PROVE  (door_is_closed => angle = CloseAngle) /\ (flags = {} => angle = 0)
    BY DEF FlagsTellTheTruth
  <2>1. CASE \A t \in Tasks : pc[t] = "idle"
    BY <2>1 DEF ControlInv, RestAgrees, Settled, door_is_closed
  <2>2. ASSUME NEW t \in Tasks, pc[t] # "idle"
        PROVE  (door_is_closed => angle = CloseAngle) /\ (flags = {} => angle = 0)
    <3>1. pc[t] \in {"flip", "start", "look", "set", "unmark"}
      BY <2>2 DEF ControlInv, ControlTypeOK
    <3>2. CASE pc[t] = "flip"
      BY <3>2 DEF ControlInv, MoverFinds, Settled, door_is_closed
    <3>3. CASE pc[t] # "flip"
      BY <3>1, <3>3 DEF ControlInv, MoverFinds, Going, door_is_closed
    <3> QED BY <3>2, <3>3
  <2> QED BY <2>1, <2>2
<1> QED BY <1>1, AlwaysControlInv, PTL

\* A closing door is watched by its sensor, unless movements overlap.
THEOREM ClosingIsWatched == ControlSpec => []SensorWatchesClosing
<1>1. ControlInv => SensorWatchesClosing
  BY DEF ControlInv, MoverFinds, SensorWatchesClosing
<1> QED BY <1>1, AlwaysControlInv, PTL

-----------------------------------------------------------------------------
(* The interface and its settings                                           *)

PhaseQueue == [queue : [0 .. PHASE_QUEUE_SIZE - 1 -> Phases], index : Nat, tail : Nat,
               just_reset : BOOLEAN]

\* A queue of phases the interface can work through.
Filled(p) ==
  /\ p \in PhaseQueue
  /\ p.index <= p.tail /\ p.tail < PHASE_QUEUE_SIZE
  /\ \A i \in 0 .. p.tail : p.queue[i] # "NONE"
  /\ p.just_reset => p.index = 0 /\ p.queue[0] = "TOP"

\* At the top level, where a unit that stands still may have stopped.
AtTop == step \in {"loop", "halted"} /\ Phase = "TOP"

AuthEarned ==
  /\ is_user_auth => "user" \in earned \/ AtTop
  /\ is_admin_auth => "admin" \in earned \/ AtTop

AdminPhases == {"ADMIN_MENU", "SETPW_USER", "SETADDR", "SETNAME"}

MenuAllowed == step = "input" /\ Phase \in AdminPhases => is_admin_auth

SharedTyped == shut \in BOOLEAN /\ data_dirty \in BOOLEAN /\ log_held \in BOOLEAN

InterfaceTyped ==
  /\ Filled(phases)
  /\ is_user_auth \in BOOLEAN /\ is_admin_auth \in BOOLEAN
  /\ SharedTyped
  /\ step \in {"boot", "loop", "input", "door", "save", "send", "report", "halted"}
  /\ earned \subseteq {"user", "admin"}

InterfaceInv == InterfaceTyped /\ AuthEarned /\ MenuAllowed

\* A setting in the sector is the one entered last, a default, or not written.
NoneOlder ==
  /\ flash.i2c_addr \in {wanted.i2c_addr, DefaultAddress, Garbage}
  /\ flash.name \in {wanted.name, DefaultName, Garbage}

\* What the sector holds when nothing is being written.
SectorKnown ==
  /\ saving \in {"no", "load", "erase"} =>
       NoneOlder /\ (flash = wanted \/ torn \/ flash.fresh_flag)
  /\ saving = "no" => mem = flash

\* What it holds while fields are written.
WrittenSoFar ==
  /\ saving \in DOMAIN FieldAfter \cup {"saved"} => wanted = mem /\ NoneOlder
  /\ saving \in {"i2c_addr", "name", "saved"} => flash.fresh_flag = mem.fresh_flag
  /\ saving \in {"name", "saved"} => flash.i2c_addr = mem.i2c_addr
  /\ saving = "saved" => flash.name = mem.name

PersistenceInv ==
  PersistenceTypeOK /\ mem.fresh_flag = FALSE /\ SectorKnown /\ WrittenSoFar

-----------------------------------------------------------------------------
(* The queue of phases                                                     *)

LEMMA TopFilled == Filled(TopLevel) /\ TopLevel.just_reset /\ TopLevel.tail = 0
<1> DEFINE q == [i \in 0 .. PHASE_QUEUE_SIZE - 1 |-> IF i = 0 THEN "TOP" ELSE "NONE"]
<1>1. q \in [0 .. PHASE_QUEUE_SIZE - 1 -> Phases] /\ q[0] = "TOP"
  BY DEF Phases, PHASE_QUEUE_SIZE
<1>2. TopLevel = [queue |-> q, index |-> 0, tail |-> 0, just_reset |-> TRUE]
  BY DEF TopLevel
<1>3. TopLevel \in PhaseQueue
  BY <1>1, <1>2 DEF PhaseQueue
<1>4. \A i \in 0 .. TopLevel.tail : TopLevel.queue[i] # "NONE"
  BY <1>1, <1>2
<1> HIDE DEF q
<1> QED
  BY <1>1, <1>2, <1>3, <1>4 DEF Filled, PHASE_QUEUE_SIZE

\* Going on to the next phase, or back to the top behind the last one.
LEMMA Increments ==
  ASSUME NEW p, Filled(p), ~p.just_reset
  PROVE  Filled(PhaseIncrement(p))
<1>1. CASE p.index + 1 > p.tail \/ p.tail >= PHASE_QUEUE_SIZE
  <2>1. PhaseIncrement(p) = TopLevel
    BY <1>1 DEF PhaseIncrement, PhaseReset, Filled, PhaseQueue
  <2> QED
    BY <2>1, TopFilled
<1>2. CASE ~(p.index + 1 > p.tail \/ p.tail >= PHASE_QUEUE_SIZE)
  BY <1>2 DEF PhaseIncrement, Filled, PhaseQueue
<1> QED
  BY <1>1, <1>2

\* A queue whose place in range is given a phase is a queue.
LEMMA Placed ==
  ASSUME NEW p \in PhaseQueue, NEW k \in 0 .. PHASE_QUEUE_SIZE - 1, NEW phase \in Phases
  PROVE  LET q == [p.queue EXCEPT ![k] = phase] IN
         /\ q \in [0 .. PHASE_QUEUE_SIZE - 1 -> Phases]
         /\ q[k] = phase
         /\ \A i \in 0 .. PHASE_QUEUE_SIZE - 1 : i # k => q[i] = p.queue[i]
BY DEF PhaseQueue

\* A phase that fits goes behind the others; one that does not resets them.
LEMMA Pushes ==
  ASSUME NEW p, Filled(p), p.just_reset => p.tail = 0, NEW phase \in Phases \ {"NONE"}
  PROVE  /\ Filled(PhasePush(p, phase))
         /\ ~p.just_reset /\ PhasePush(p, phase).just_reset => PhasePush(p, phase).tail = 0
<1>0. /\ p \in PhaseQueue
      /\ p.tail \in Nat /\ p.index \in Nat /\ p.index <= p.tail /\ p.just_reset \in BOOLEAN
  BY DEF Filled, PhaseQueue
<1>1. CASE p.tail + 1 < p.index \/ p.tail + 1 >= PHASE_QUEUE_SIZE
  <2>1. ~p.just_reset
    BY <1>0, <1>1 DEF PHASE_QUEUE_SIZE
  <2>2. PhasePush(p, phase) = TopLevel
    BY <1>1, <2>1 DEF PhasePush, PhaseReset, Filled, PhaseQueue
  <2> QED
    BY <2>2, TopFilled
<1>2. CASE ~(p.tail + 1 < p.index \/ p.tail + 1 >= PHASE_QUEUE_SIZE)
  <2> DEFINE t == p.tail + 1
             q == [p.queue EXCEPT ![t] = phase]
             r == [p EXCEPT !.tail = t, !.queue = q]
  <2>1. PhasePush(p, phase) = r
    BY <1>2 DEF PhasePush
  <2>2. t \in 0 .. PHASE_QUEUE_SIZE - 1 /\ t \in Nat /\ t = p.tail + 1 /\ t # 0
    BY <1>0, <1>2 DEF PHASE_QUEUE_SIZE
  <2> HIDE DEF t
  <2>3. /\ q \in [0 .. PHASE_QUEUE_SIZE - 1 -> Phases] /\ q[t] = phase
        /\ \A i \in 0 .. PHASE_QUEUE_SIZE - 1 : i # t => q[i] = p.queue[i]
    BY <1>0, <2>2, Placed
  <2> HIDE DEF q
  <2>4. /\ r \in PhaseQueue /\ r.queue = q /\ r.tail = t
        /\ r.index = p.index /\ r.just_reset = p.just_reset
    BY <1>0, <2>2, <2>3 DEF PhaseQueue
  <2> HIDE DEF r
  <2>5. ASSUME NEW i \in 0 .. r.tail PROVE r.queue[i] # "NONE"
    <3>1. i = t \/ i \in 0 .. p.tail
      BY <1>0, <2>2, <2>4, <2>5
    <3>2. i \in 0 .. PHASE_QUEUE_SIZE - 1
      BY <2>2, <2>4, <2>5 DEF PHASE_QUEUE_SIZE
    <3> QED
      BY <2>2, <2>3, <2>4, <3>1, <3>2 DEF Filled
  <2>6. r.just_reset => r.index = 0 /\ r.queue[0] = "TOP"
    BY <2>2, <2>3, <2>4 DEF Filled, PHASE_QUEUE_SIZE
  <2>7. r.index <= r.tail /\ r.tail < PHASE_QUEUE_SIZE
    BY <1>0, <2>2, <2>4 DEF PHASE_QUEUE_SIZE
  <2>8. Filled(r)
    BY <2>4, <2>5, <2>6, <2>7 DEF Filled
  <2> QED
    BY <2>1, <2>4, <2>8
<1> QED
  BY <1>1, <1>2

\* Two phases, the first of which may have reset the queue.
LEMMA PushTwice ==
  ASSUME NEW p, Filled(p), ~p.just_reset,
         NEW a \in Phases \ {"NONE"}, NEW b \in Phases \ {"NONE"}
  PROVE  Filled(PhasePush(PhasePush(p, a), b))
BY Pushes

\* The last phase gives way to another.
LEMMA Replaces ==
  ASSUME NEW p, Filled(p), ~p.just_reset, NEW phase \in Phases \ {"NONE"}
  PROVE  Filled(PhaseReplaceLast(p, phase)) /\ ~PhaseReplaceLast(p, phase).just_reset
<1> DEFINE q == [p.queue EXCEPT ![p.tail] = phase]
           r == [p EXCEPT !.tail = p.tail, !.queue = q]
<1>1. p \in PhaseQueue /\ p.tail \in 0 .. PHASE_QUEUE_SIZE - 1 /\ p.tail \in Nat
  BY DEF Filled, PhaseQueue, PHASE_QUEUE_SIZE
<1>2. PhaseReplaceLast(p, phase) = r
  BY <1>1 DEF PhaseReplaceLast, PhaseQueue
<1>3. /\ q \in [0 .. PHASE_QUEUE_SIZE - 1 -> Phases] /\ q[p.tail] = phase
      /\ \A i \in 0 .. PHASE_QUEUE_SIZE - 1 : i # p.tail => q[i] = p.queue[i]
  BY <1>1, Placed
<1> HIDE DEF q
<1>4. /\ r \in PhaseQueue /\ r.queue = q /\ r.tail = p.tail
      /\ r.index = p.index /\ r.just_reset = p.just_reset
  BY <1>1, <1>3 DEF PhaseQueue
<1> HIDE DEF r
<1>5. ASSUME NEW i \in 0 .. r.tail PROVE r.queue[i] # "NONE"
  <2>1. i \in 0 .. p.tail /\ i \in 0 .. PHASE_QUEUE_SIZE - 1
    BY <1>1, <1>4, <1>5 DEF PHASE_QUEUE_SIZE
  <2> QED
    BY <1>3, <1>4, <2>1 DEF Filled
<1>6. Filled(r) /\ ~r.just_reset
  BY <1>4, <1>5 DEF Filled
<1> QED
  BY <1>2, <1>6

\* The phase under way, with the mark of a reset taken away.
LEMMA CurrentFilled ==
  ASSUME Filled(phases)
  PROVE  /\ Filled(Current) /\ ~Current.just_reset
         /\ Current.queue[Current.index] = Phase
BY DEF Current, Filled, PhaseQueue, Phase

\* The end of interface_loop: the queue is good, and a reset one is at the top.
LEMMA Finishes ==
  ASSUME NEW p, Filled(p), Finish(p)
  PROVE  /\ Filled(phases') /\ step' = "loop"
         /\ phases'.just_reset => AtTop'
<1>1. Filled(phases')
  BY Increments DEF Finish
<1> QED
  BY <1>1 DEF Finish, AtTop, Phase, Filled

-----------------------------------------------------------------------------
(* What a visitor may do                                                   *)

\* A phase ends with nothing allowed, or only what was earned.
LEMMA Settles ==
  ASSUME NEW p, Filled(p), Finish(p),
         is_user_auth' \in BOOLEAN, is_admin_auth' \in BOOLEAN, SharedTyped',
         earned' \subseteq {"user", "admin"},
         ~phases'.just_reset => /\ is_user_auth' => "user" \in earned'
                                /\ is_admin_auth' => "admin" \in earned'
  PROVE  InterfaceInv'
<1>1. Filled(phases') /\ step' = "loop" /\ (phases'.just_reset => AtTop')
  BY Finishes
<1>2. phases'.just_reset \in BOOLEAN
  BY <1>1 DEF Filled, PhaseQueue
<1>3. AuthEarned'
  BY <1>1, <1>2 DEF AuthEarned
<1>4. MenuAllowed'
  BY <1>1 DEF MenuAllowed
<1> QED
  BY <1>1, <1>3, <1>4 DEF InterfaceInv, InterfaceTyped

LEMMA EarnedKept ==
  ASSUME InterfaceInv, Keeping
  PROVE  /\ earned' \subseteq {"user", "admin"}
         /\ ~phases'.just_reset => earned' = earned
BY DEF Keeping, InterfaceInv, InterfaceTyped

LEMMA EndsAllowed ==
  ASSUME InterfaceInv, ~AtTop, NEW p, Filled(p), Finish(p), Keeping, UNCHANGED authVars,
         SharedTyped'
  PROVE  InterfaceInv'
<1>1. /\ is_user_auth \in BOOLEAN /\ is_admin_auth \in BOOLEAN
      /\ is_user_auth => "user" \in earned
      /\ is_admin_auth => "admin" \in earned
  BY DEF InterfaceInv, InterfaceTyped, AuthEarned
<1> QED
  BY <1>1, EarnedKept, Settles DEF authVars

LEMMA EndsForgotten ==
  ASSUME InterfaceInv, NEW p, Filled(p), Finish(p), Keeping, auth_reset_auth, SharedTyped'
  PROVE  InterfaceInv'
BY EarnedKept, Settles DEF auth_reset_auth

\* A phase goes on with another step.
LEMMA GoesOn ==
  ASSUME InterfaceInv, NEW next \in {"input", "door", "send", "report"}, GoOn(next),
         is_user_auth' \in BOOLEAN, is_admin_auth' \in BOOLEAN, SharedTyped',
         earned' \subseteq {"user", "admin"},
         is_user_auth' => "user" \in earned',
         is_admin_auth' => "admin" \in earned',
         next = "input" /\ Phase \in AdminPhases => is_admin_auth'
  PROVE  InterfaceInv'
<1>1. Filled(phases') /\ Phase' = Phase /\ step' = next
  BY CurrentFilled DEF InterfaceInv, InterfaceTyped, Phase, GoOn
<1>2. InterfaceTyped'
  BY <1>1 DEF InterfaceTyped
<1>3. AuthEarned' /\ MenuAllowed'
  BY <1>1 DEF AuthEarned, MenuAllowed
<1> QED
  BY <1>2, <1>3 DEF InterfaceInv

LEMMA GoesOnAllowed ==
  ASSUME InterfaceInv, ~AtTop, NEW next \in {"input", "door", "send", "report"}, GoOn(next),
         UNCHANGED <<authVars, earned>>, SharedTyped',
         next = "input" /\ Phase \in AdminPhases => is_admin_auth
  PROVE  InterfaceInv'
<1>1. /\ is_user_auth \in BOOLEAN /\ is_admin_auth \in BOOLEAN
      /\ earned \subseteq {"user", "admin"}
      /\ is_user_auth => "user" \in earned
      /\ is_admin_auth => "admin" \in earned
  BY DEF InterfaceInv, InterfaceTyped, AuthEarned
<1> QED
  BY <1>1, GoesOn DEF authVars

LEMMA GoesOnForgotten ==
  ASSUME InterfaceInv, NEW next \in {"input", "door", "send", "report"}, GoOn(next),
         auth_reset_auth, UNCHANGED earned, SharedTyped',
         next = "input" => Phase \notin AdminPhases
  PROVE  InterfaceInv'
BY GoesOn DEF auth_reset_auth, InterfaceInv, InterfaceTyped

\* A password is checked: what it allows is earned with it.
LEMMA PasswordChecked ==
  ASSUME InterfaceInv, ~AtTop, Phase \notin AdminPhases, SharedTyped', CheckUser \/ CheckAdmin
  PROVE  InterfaceInv'
<1>1. /\ is_user_auth \in BOOLEAN /\ is_admin_auth \in BOOLEAN
      /\ earned \subseteq {"user", "admin"}
      /\ is_user_auth => "user" \in earned
      /\ is_admin_auth => "admin" \in earned
  BY DEF InterfaceInv, InterfaceTyped, AuthEarned
<1>2. GoOn("report")
  BY DEF CheckUser, CheckAdmin
<1>3. CASE UNCHANGED <<authVars, earned>>
  BY <1>2, <1>3, GoesOnAllowed
<1>4. CASE is_user_auth' = TRUE /\ earned' = earned \cup {"user"} /\ UNCHANGED is_admin_auth
  BY <1>1, <1>2, <1>4, GoesOn
<1>5. CASE is_admin_auth' = TRUE /\ earned' = earned \cup {"admin"} /\ UNCHANGED is_user_auth
  BY <1>1, <1>2, <1>5, GoesOn
<1> QED
  BY <1>3, <1>4, <1>5 DEF CheckUser, CheckAdmin

\* The names of the phases that are put into the queue.
LEMMA PhaseNames ==
  {"CHECKPW_USER", "OPEN", "CLOSE", "BELL", "CHECKPW_ADMIN", "ADMIN_MENU", "SETPW_USER",
   "SETADDR", "SETNAME"} \subseteq Phases \ {"NONE"}
BY DEF Phases

LEMMA InterfaceStep == InterfaceInv /\ [Next]_vars => InterfaceInv'
<1> SUFFICES ASSUME InterfaceInv, [Next]_vars PROVE InterfaceInv'
  OBVIOUS
<1>0. /\ Filled(Current) /\ ~Current.just_reset
      /\ is_user_auth \in BOOLEAN /\ is_admin_auth \in BOOLEAN
  BY CurrentFilled DEF InterfaceInv, InterfaceTyped
<1>s. SharedTyped /\ (UNCHANGED sharedVars => SharedTyped')
  BY DEF sharedVars, InterfaceInv, InterfaceTyped, SharedTyped
<1>r. Filled(PhaseReset(Current))
  BY <1>0, TopFilled DEF PhaseReset
<1>p. ASSUME NEW a \in Phases \ {"NONE"}
      PROVE  /\ Filled(PhasePush(Current, a))
             /\ \A b \in Phases \ {"NONE"} :
                  /\ Filled(PhasePush(PhasePush(Current, a), b))
                  /\ Filled(PhasePush(PhaseReplaceLast(Current, a), b))
             /\ Filled(PhaseReplaceLast(Current, a))
  BY <1>0, Pushes, PushTwice, Replaces
<1> HIDE DEF InterfaceInv
<1>1. CASE TopClosed
  BY <1>s, <1>1, <1>p, PhaseNames, EndsForgotten DEF TopClosed, Loop
<1>2. CASE TopOpen
  <2>1. Phase \notin AdminPhases
    BY <1>2 DEF TopOpen, Loop, AdminPhases
  <2> QED
    BY <1>s, <1>2, <2>1, GoesOnForgotten DEF TopOpen, Loop
<1>3. CASE AdminPhase
  <2>1. ~AtTop /\ SharedTyped'
    BY <1>s, <1>3 DEF AdminPhase, Loop, AtTop
  <2>2. CASE Ask /\ is_admin_auth
    BY <2>1, <2>2, GoesOnAllowed DEF Ask
  <2>3. CASE Skip
    BY <1>0, <2>1, <2>3, EndsAllowed DEF Skip
  <2> QED
    BY <1>3, <2>2, <2>3 DEF AdminPhase
<1>4. CASE CheckPhase
  <2>1. ~AtTop /\ SharedTyped' /\ Phase \notin AdminPhases
    BY <1>s, <1>4 DEF CheckPhase, Loop, AtTop, AdminPhases
  <2>2. CASE Ask
    BY <2>1, <2>2, GoesOnAllowed DEF Ask
  <2>3. CASE Skip
    BY <1>0, <2>1, <2>3, EndsAllowed DEF Skip
  <2> QED
    BY <1>4, <2>2, <2>3 DEF CheckPhase
<1>5. CASE BellPhase
  <2>1. ~AtTop /\ SharedTyped' /\ Phase \notin AdminPhases /\ Ask
    BY <1>s, <1>5 DEF BellPhase, Loop, AtTop, AdminPhases
  <2> QED
    BY <2>1, GoesOnAllowed DEF Ask
<1>6. CASE DoorPhase
  <2>1. ~AtTop /\ SharedTyped' /\ Phase \notin AdminPhases
    BY <1>s, <1>6 DEF DoorPhase, Loop, AtTop, AdminPhases
  <2>2. CASE GoOn("door") /\ UNCHANGED <<authVars, earned>>
    BY <2>1, <2>2, GoesOnAllowed
  <2>3. CASE auth_reset_auth /\ Finish(Current) /\ Keeping
    BY <1>0, <2>1, <2>3, EndsForgotten
  <2> QED
    BY <1>6, <2>2, <2>3 DEF DoorPhase
<1>7. CASE DoorMoved
  <2>1. SharedTyped'
    BY <1>s, <1>7 DEF DoorMoved, SharedTyped
  <2> QED
    BY <1>0, <1>7, <2>1, EndsForgotten DEF DoorMoved
<1>8. CASE NameSaved
  BY <1>s, <1>8, GoesOnForgotten DEF NameSaved
<1>9. CASE InfoSent
  <2>1. ~AtTop /\ SharedTyped'
    BY <1>s, <1>9 DEF InfoSent, AtTop, SharedTyped
  <2> QED
    BY <1>9, <2>1, GoesOnAllowed DEF InfoSent
<1>10. CASE Reported
  <2>1. ~AtTop /\ SharedTyped'
    BY <1>s, <1>10 DEF Reported, AtTop
  <2>2. CASE Phase = "SETPW_USER"
    BY <1>0, <1>10, <2>1, <2>2, EndsForgotten DEF Reported
  <2>3. CASE Phase # "SETPW_USER"
    BY <1>0, <1>10, <2>1, <2>3, EndsAllowed DEF Reported
  <2> QED
    BY <2>2, <2>3
<1>11. CASE Boot
  <2>1. Filled(phases') /\ step' = "boot"
    BY <1>11, TopFilled DEF Boot
  <2> QED
    BY <1>11, <2>1 DEF Boot, auth_reset_auth, InterfaceInv, InterfaceTyped, SharedTyped, AuthEarned,
                       MenuAllowed
<1>12. CASE UNCHANGED interfaceVars
  BY <1>12 DEF interfaceVars, authVars, sharedVars, InterfaceInv, InterfaceTyped, SharedTyped,
               AuthEarned, MenuAllowed, AtTop, Phase
<1>13. CASE Start
  BY <1>13 DEF Start, authVars, InterfaceInv, InterfaceTyped, SharedTyped, AuthEarned, MenuAllowed,
               AtTop, Phase
<1>14. CASE OthersMoveDoor \/ CommsSends \/ HubCollects \/ HubKeepsLog
  <2>1. SharedTyped' /\ UNCHANGED <<phases, authVars, step, earned>>
    BY <1>s, <1>14 DEF OthersMoveDoor, CommsSends, HubCollects, HubKeepsLog, SharedTyped
  <2> QED
    BY <2>1 DEF authVars, InterfaceInv, InterfaceTyped, AuthEarned, MenuAllowed, AtTop, Phase
<1>15. CASE Halts
  <2>1. SharedTyped' /\ step' = "halted" /\ UNCHANGED <<phases, authVars, earned>>
    BY <1>s, <1>15 DEF Halts
  <2> QED
    BY <2>1 DEF authVars, InterfaceInv, InterfaceTyped, AuthEarned, MenuAllowed, AtTop, Phase
<1>16. CASE NoInput
  <2>1. ~AtTop /\ SharedTyped'
    BY <1>s, <1>16 DEF NoInput, AtTop
  <2> QED
    BY <1>16, <1>r, <2>1, EndsAllowed DEF NoInput
<1>17. CASE TopInput
  <2>1. ~AtTop /\ SharedTyped'
    BY <1>s, <1>17 DEF TopInput, Input, AtTop
  <2>2. \E p : Filled(p) /\ Finish(p)
    BY <1>17, <1>p, <1>r, PhaseNames DEF TopInput
  <2> QED
    BY <1>17, <2>1, <2>2, EndsAllowed DEF TopInput
<1>18. CASE UserInput
  <2>1. ~AtTop /\ SharedTyped' /\ Phase \notin AdminPhases
    BY <1>s, <1>18 DEF UserInput, Input, AtTop, AdminPhases
  <2>2. CASE CheckUser
    BY <2>1, <2>2, PasswordChecked
  <2>3. CASE Keeping /\ UNCHANGED authVars
    <3>1. CASE \E p : Filled(p) /\ Finish(p)
      BY <2>1, <2>3, <3>1, EndsAllowed
    <3> QED
      BY <1>18, <1>p, <2>2, <3>1, PhaseNames DEF UserInput
  <2> QED
    BY <1>18, <2>2, <2>3 DEF UserInput
<1>19. CASE AdminInput
  <2>1. ~AtTop /\ SharedTyped' /\ Phase \notin AdminPhases
    BY <1>s, <1>19 DEF AdminInput, Input, AtTop, AdminPhases
  <2> QED
    BY <1>19, <2>1, PasswordChecked DEF AdminInput
<1>20. CASE MenuInput
  <2>1. ~AtTop /\ SharedTyped'
    BY <1>s, <1>20 DEF MenuInput, Input, AtTop
  <2>2. \E p : Filled(p) /\ Finish(p)
    BY <1>0, <1>20, <1>p, <1>r, PhaseNames DEF MenuInput
  <2> QED
    BY <1>20, <2>1, <2>2, EndsAllowed DEF MenuInput
<1>21. CASE BellInput
  <2>1. ~AtTop /\ SharedTyped'
    BY <1>s, <1>21 DEF BellInput, Input, AtTop
  <2> QED
    BY <1>21, <2>1, GoesOnAllowed DEF BellInput
<1>22. CASE PasswordInput
  <2>1. ~AtTop /\ SharedTyped'
    BY <1>s, <1>22 DEF PasswordInput, Input, AtTop
  <2>2. CASE is_user_auth
    BY <1>22, <2>1, <2>2, GoesOnAllowed DEF PasswordInput
  <2>3. CASE ~is_user_auth
    BY <1>0, <1>22, <2>1, <2>3, EndsForgotten DEF PasswordInput
  <2> QED
    BY <2>2, <2>3
<1>23. CASE SettingInput
  <2>1. SharedTyped' /\ step' = "save" /\ step = "input" /\ UNCHANGED <<phases, authVars, earned>>
    BY <1>s, <1>23 DEF SettingInput, Input
  <2> QED
    BY <2>1 DEF authVars, InterfaceInv, InterfaceTyped, AuthEarned, MenuAllowed, AtTop, Phase
<1> QED
  BY <1>1, <1>2, <1>3, <1>4, <1>5, <1>6, <1>7, <1>8, <1>9, <1>10, <1>11, <1>12, <1>13, <1>14,
     <1>15, <1>16, <1>17, <1>18, <1>19, <1>20, <1>21, <1>22, <1>23
     DEF Next, Visitor, Interface, Others, Writing, DefaultsSaved, AddressSaved, PowerFails, vars

LEMMA InterfaceInit == Init => InterfaceInv
<1> SUFFICES ASSUME Init PROVE InterfaceInv
  OBVIOUS
<1>1. Filled(phases) /\ step = "boot"
  BY TopFilled DEF Init
<1> QED
  BY <1>1 DEF Init, InterfaceInv, InterfaceTyped, SharedTyped, AuthEarned, MenuAllowed

-----------------------------------------------------------------------------
(* The settings                                                            *)

LEMMA FieldNames ==
  /\ DOMAIN FieldAfter = {"fresh_flag", "i2c_addr", "name"}
  /\ FieldAfter["fresh_flag"] = "i2c_addr" /\ FieldAfter["i2c_addr"] = "name"
  /\ FieldAfter["name"] = "saved"
BY DEF FieldAfter

LEMMA Known ==
  /\ Erased \in AnySettings /\ Erased.fresh_flag = TRUE
  /\ Erased.i2c_addr = Garbage /\ Erased.name = Garbage
  /\ Defaults \in AnySettings /\ Defaults.fresh_flag = FALSE
  /\ Defaults.i2c_addr = DefaultAddress /\ Defaults.name = DefaultName
BY PersistenceAssumption DEF Erased, Defaults, Settings, AnySettings

\* Two settings with the same fields are the same.
LEMMA SameSettings ==
  ASSUME NEW a \in AnySettings, NEW b \in AnySettings,
         a.fresh_flag = b.fresh_flag, a.i2c_addr = b.i2c_addr, a.name = b.name
  PROVE  a = b
BY DEF AnySettings

LEMMA PersistenceInitial == PersistenceInit => PersistenceInv
<1> SUFFICES ASSUME PersistenceInit PROVE PersistenceInv
  OBVIOUS
<1>1. /\ saving = "load" /\ flash = Erased /\ mem = Defaults /\ wanted = Defaults
      /\ locked = FALSE /\ torn = FALSE /\ losses = 0
  BY DEF PersistenceInit
<1>2. PersistenceTypeOK
  <2>1. 0 \in 0 .. MaxPowerLosses
    BY PersistenceAssumption
  <2> QED
    BY <1>1, <2>1, Known DEF PersistenceTypeOK
<1>3. SectorKnown /\ WrittenSoFar
  BY <1>1, Known, FieldNames DEF SectorKnown, WrittenSoFar, NoneOlder
<1> QED
  BY <1>1, <1>2, <1>3, Known DEF PersistenceInv

\* What an action of the interface does to the settings.
LEMMA PersistenceMoves ==
  ASSUME [Next]_vars, PersistenceInv
  PROVE  \/ UNCHANGED persistenceVars
         \/ Load \/ Erase \/ WriteField \/ Saved
         \/ Restart /\ losses' \in 0 .. MaxPowerLosses
         \/ \E s \in AnySettings : s.fresh_flag = FALSE /\ Save(s)
<1>1. CASE UNCHANGED vars
  BY <1>1 DEF vars
<1>2. CASE SettingInput
  <2>1. mem \in AnySettings /\ mem.fresh_flag = FALSE
    BY DEF PersistenceInv, PersistenceTypeOK
  <2>2. ASSUME NEW a \in Addresses
        PROVE  /\ [mem EXCEPT !.i2c_addr = a] \in AnySettings
               /\ [mem EXCEPT !.i2c_addr = a].fresh_flag = FALSE
    BY <2>1 DEF AnySettings
  <2>3. ASSUME NEW n \in Names
        PROVE  /\ [mem EXCEPT !.name = n] \in AnySettings
               /\ [mem EXCEPT !.name = n].fresh_flag = FALSE
    BY <2>1 DEF AnySettings
  <2> QED
    BY <1>2, <2>2, <2>3 DEF SettingInput
<1>3. CASE TopInput \/ UserInput \/ AdminInput \/ MenuInput \/ BellInput \/ PasswordInput \/ NoInput
  BY <1>3 DEF TopInput, UserInput, AdminInput, MenuInput, BellInput, PasswordInput, NoInput
<1>4. CASE TopClosed \/ TopOpen \/ AdminPhase \/ CheckPhase \/ BellPhase \/ DoorPhase
  BY <1>4 DEF TopClosed, TopOpen, AdminPhase, CheckPhase, BellPhase, DoorPhase, Loop
<1>5. CASE DoorMoved \/ InfoSent \/ Reported \/ Start \/ Others
  BY <1>5 DEF DoorMoved, InfoSent, Reported, Start, Others, OthersMoveDoor, CommsSends,
              HubCollects, HubKeepsLog, Halts
<1>6. CASE NameSaved \/ DefaultsSaved \/ Writing
  BY <1>6 DEF NameSaved, DefaultsSaved, Writing
<1>7. CASE AddressSaved \/ PowerFails
  BY <1>7, PersistenceAssumption
     DEF AddressSaved, PowerFails, Boot, PersistenceInv, PersistenceTypeOK
<1> QED
  BY <1>1, <1>2, <1>3, <1>4, <1>5, <1>6, <1>7 DEF Next, Visitor, Interface

LEMMA PersistenceStep == PersistenceInv /\ [Next]_vars => PersistenceInv'
<1> SUFFICES ASSUME PersistenceInv, [Next]_vars PROVE PersistenceInv'
  OBVIOUS
<1> USE FieldNames
<1>0. /\ PersistenceTypeOK /\ mem.fresh_flag = FALSE /\ SectorKnown /\ WrittenSoFar
      /\ mem \in AnySettings /\ flash \in AnySettings
  BY DEF PersistenceInv, PersistenceTypeOK
<1>1. CASE UNCHANGED persistenceVars
  BY <1>0, <1>1 DEF persistenceVars, PersistenceInv, PersistenceTypeOK, SectorKnown, WrittenSoFar,
                    NoneOlder
<1>2. CASE Load
  <2>1. flash.fresh_flag \in BOOLEAN
    BY <1>0 DEF AnySettings
  <2> QED
    BY <1>0, <1>2, <2>1, Known DEF Load, PersistenceInv, PersistenceTypeOK, SectorKnown,
                                   WrittenSoFar, NoneOlder
<1>3. CASE Erase
  BY <1>0, <1>3, Known DEF Erase, PersistenceInv, PersistenceTypeOK, SectorKnown, WrittenSoFar,
                           NoneOlder
<1>4. CASE WriteField
  <2>1. saving = "fresh_flag" \/ saving = "i2c_addr" \/ saving = "name"
    BY <1>4 DEF WriteField
  <2>2. wanted = mem /\ NoneOlder
    BY <1>0, <2>1 DEF WrittenSoFar
  <2>3. CASE saving = "fresh_flag"
    <3>1. /\ flash' \in AnySettings /\ flash'.fresh_flag = mem.fresh_flag
          /\ flash'.i2c_addr = flash.i2c_addr /\ flash'.name = flash.name
      BY <1>0, <1>4, <2>3 DEF WriteField, AnySettings
    <3> QED
      BY <1>0, <1>4, <2>2, <2>3, <3>1 DEF WriteField, PersistenceInv, PersistenceTypeOK,
                                          SectorKnown, WrittenSoFar, NoneOlder
  <2>4. CASE saving = "i2c_addr"
    <3>1. /\ flash' \in AnySettings /\ flash'.i2c_addr = mem.i2c_addr
          /\ flash'.fresh_flag = flash.fresh_flag /\ flash'.name = flash.name
      BY <1>0, <1>4, <2>4 DEF WriteField, AnySettings
    <3> QED
      BY <1>0, <1>4, <2>2, <2>4, <3>1 DEF WriteField, PersistenceInv, PersistenceTypeOK,
                                          SectorKnown, WrittenSoFar, NoneOlder
  <2>5. CASE saving = "name"
    <3>1. /\ flash' \in AnySettings /\ flash'.name = mem.name
          /\ flash'.fresh_flag = flash.fresh_flag /\ flash'.i2c_addr = flash.i2c_addr
      BY <1>0, <1>4, <2>5 DEF WriteField, AnySettings
    <3> QED
      BY <1>0, <1>4, <2>2, <2>5, <3>1 DEF WriteField, PersistenceInv, PersistenceTypeOK,
                                          SectorKnown, WrittenSoFar, NoneOlder
  <2> QED
    BY <2>1, <2>3, <2>4, <2>5
\* A sector that was written to the end holds what was to be written.
<1>5. saving = "saved" => flash = wanted /\ mem = flash
  BY <1>0, SameSettings DEF WrittenSoFar
<1>6. CASE Saved
  BY <1>0, <1>5, <1>6 DEF Saved, PersistenceInv, PersistenceTypeOK, SectorKnown, WrittenSoFar,
                          NoneOlder
<1>7. CASE Restart /\ losses' \in 0 .. MaxPowerLosses
  <2>1. /\ NoneOlder /\ UNCHANGED <<mem, flash, wanted>> /\ saving' = "load"
        /\ locked' \in BOOLEAN /\ torn' \in BOOLEAN
    BY <1>0, <1>7 DEF Restart, PersistenceTypeOK, SectorKnown, WrittenSoFar
  <2>2. flash = wanted \/ torn' \/ flash.fresh_flag
    BY <1>0, <1>5, <1>7 DEF Restart, PersistenceTypeOK, SectorKnown
  <2> QED
    BY <1>0, <1>7, <2>1, <2>2 DEF PersistenceInv, PersistenceTypeOK, SectorKnown, WrittenSoFar,
                                  NoneOlder
<1>8. CASE \E s \in AnySettings : s.fresh_flag = FALSE /\ Save(s)
  BY <1>0, <1>8 DEF Save, PersistenceInv, PersistenceTypeOK, SectorKnown, WrittenSoFar, NoneOlder
<1> QED
  BY <1>1, <1>2, <1>3, <1>4, <1>6, <1>7, <1>8, PersistenceMoves

-----------------------------------------------------------------------------
(* The theorems                                                            *)

LEMMA Invariance == Spec => [](InterfaceInv /\ PersistenceInv)
<1>1. Init => InterfaceInv /\ PersistenceInv
  BY InterfaceInit, PersistenceInitial DEF Init
<1> QED
  BY <1>1, InterfaceStep, PersistenceStep, PTL DEF Spec

\* Every variable keeps its type; the phase queue stays within its bounds and
\* never gets to a phase that was not put there (phase_push, phase_increment).
THEOREM TypeCorrect == Spec => []TypeOK
<1>1. InterfaceInv /\ PersistenceInv => TypeOK
  <2> SUFFICES ASSUME InterfaceInv, PersistenceInv PROVE TypeOK
    OBVIOUS
  <2>1. /\ phases \in PhaseQueue /\ phases.index <= phases.tail
        /\ phases.tail < PHASE_QUEUE_SIZE
        /\ \A i \in 0 .. phases.tail : phases.queue[i] # "NONE"
    BY DEF InterfaceInv, InterfaceTyped, Filled
  <2>2. phases.index \in 0 .. phases.tail
    BY <2>1 DEF PhaseQueue
  <2> QED
    BY <2>1, <2>2 DEF PhaseQueue, Phase, TypeOK, InterfaceInv, InterfaceTyped, SharedTyped,
                      PersistenceInv
<1> QED
  BY <1>1, Invariance, PTL

\* Outside of a save the unit works with the settings of the sector, and these
\* are the ones entered last or, after a loss of power, none that is older
\* (persistence_init, persistence_save_name, persistence_save_i2c_addr).
THEOREM SettingsKept == Spec => []SettingsSurvive
<1>1. PersistenceInv => SettingsSurvive
  BY DEF PersistenceInv, SectorKnown, NoneOlder, SettingsSurvive
<1> QED
  BY <1>1, Invariance, PTL

\* The door is moved, and a setting changed, only on a password given since
\* the interface was last at its top level (interface_loop, auth_reset_auth).
THEOREM AlwaysEarned == Spec => EarnedByPassword
<1> DEFINE Earned == /\ step' = "door" /\ step # "door" => "user" \in earned
                     /\ step' = "save" /\ step # "save" => "admin" \in earned
<1>1. InterfaceInv /\ [Next]_vars => [Earned]_vars
  <2> SUFFICES ASSUME InterfaceInv, Next PROVE Earned
    OBVIOUS
  <2>1. CASE DoorPhase
    <3>1. step' = "door" => is_user_auth /\ ~AtTop
      BY <2>1 DEF DoorPhase, Finish, Loop, AtTop
    <3>2. step' # "save"
      BY <2>1 DEF DoorPhase, Finish, GoOn
    <3> QED
      BY <3>1, <3>2 DEF InterfaceInv, AuthEarned
  <2>2. CASE SettingInput
    <3>1. step = "input" /\ step' = "save" /\ Phase \in AdminPhases
      BY <2>2 DEF SettingInput, Input, AdminPhases
    <3> QED
      BY <3>1 DEF InterfaceInv, AuthEarned, MenuAllowed, AtTop
  <2>3. CASE NoInput \/ (Visitor /\ ~SettingInput)
    BY <2>3 DEF NoInput, Visitor, TopInput, UserInput, CheckUser, AdminInput, CheckAdmin, MenuInput,
                BellInput, PasswordInput, Finish, GoOn
  <2>4. CASE PowerFails \/ AddressSaved \/ Others \/ Start \/ Writing \/ DefaultsSaved
    BY <2>4 DEF PowerFails, AddressSaved, Boot, Others, OthersMoveDoor, CommsSends, HubCollects,
                HubKeepsLog, Halts, Start, Writing, DefaultsSaved, interfaceVars
  <2>5. CASE \/ TopClosed \/ TopOpen \/ AdminPhase \/ CheckPhase \/ BellPhase \/ DoorMoved
             \/ NameSaved \/ InfoSent \/ Reported
    BY <2>5 DEF TopClosed, TopOpen, AdminPhase, CheckPhase, BellPhase, DoorMoved, NameSaved,
                InfoSent, Reported, Ask, Skip, Finish, GoOn
  <2> QED
    BY <2>1, <2>2, <2>3, <2>4, <2>5 DEF Next, Interface, Visitor
<1> QED
  BY <1>1, Invariance, PTL DEF Spec, EarnedByPassword
=============================================================================
