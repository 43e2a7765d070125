--------------------------- MODULE DoorInterface ---------------------------
(***************************************************************************)
(* user_interface.c and user_auth.c: what a door unit asks its visitor.    *)
(*                                                                         *)
(* The interface works through a queue of phases.  A phase may put others  *)
(* behind itself, overwrite the last one, or return to the top.  The       *)
(* settings it changes are those of Persistence; the door it opens is      *)
(* moved by others at the same time (DoorControl), which is all that is    *)
(* said of it here.  Its reports go into the event log and a new name into *)
(* the data register, which it shares with the other tasks and the hub     *)
(* (EventPath): it waits while they keep one or the other from it.         *)
(***************************************************************************)
EXTENDS Persistence

VARIABLES
  phases,         \* phase_queue, its index and tail, phase_just_reset
  is_user_auth,
  is_admin_auth,
  step,           \* where the interface task is
  shut,           \* door_is_closed()
  data_dirty,     \* the data register waits for the hub
  log_held,       \* an interrupt took event_log_lock and did not give it
  earned          \* history: the passwords rightly given since the top level

authVars == <<is_user_auth, is_admin_auth>>
sharedVars == <<shut, data_dirty, log_held>>
interfaceVars == <<phases, authVars, step, sharedVars, earned>>
vars == <<interfaceVars, persistenceVars>>

PHASE_QUEUE_SIZE == 8
Phases == {"NONE", "TOP", "CHECKPW_USER", "OPEN", "CLOSE", "BELL", "CHECKPW_ADMIN",
           "ADMIN_MENU", "SETPW_USER", "SETADDR", "SETNAME"}

-----------------------------------------------------------------------------
(* The queue of phases                                                     *)

TopLevel ==
  [queue |-> [i \in 0 .. PHASE_QUEUE_SIZE - 1 |-> IF i = 0 THEN "TOP" ELSE "NONE"],
   index |-> 0, tail |-> 0, just_reset |-> TRUE]

\* phase_reset does nothing a second time within a phase.
PhaseReset(p) == IF p.just_reset THEN p ELSE TopLevel

\* Mutant: the last phase is never shown.
PhaseIncrementEarly(p) ==
  IF p.index + 1 >= p.tail \/ p.tail >= PHASE_QUEUE_SIZE
  THEN PhaseReset([p EXCEPT !.index = @ + 1])
  ELSE [p EXCEPT !.index = @ + 1]

\* Mutant: the index may pass the tail by one.
PhaseIncrementLate(p) ==
  IF p.index > p.tail \/ p.tail >= PHASE_QUEUE_SIZE
  THEN PhaseReset([p EXCEPT !.index = @ + 1])
  ELSE [p EXCEPT !.index = @ + 1]

PhaseIncrement(p) ==
  IF p.index + 1 > p.tail \/ p.tail >= PHASE_QUEUE_SIZE
  THEN PhaseReset([p EXCEPT !.index = @ + 1])
  ELSE [p EXCEPT !.index = @ + 1]

PhasePush(p, phase) ==
  LET tail == p.tail + 1 IN
  IF tail < p.index \/ tail >= PHASE_QUEUE_SIZE
  THEN PhaseReset([p EXCEPT !.tail = tail])
  ELSE [p EXCEPT !.tail = tail, !.queue = [@ EXCEPT ![tail] = phase]]

PhaseReplaceLast(p, phase) == [p EXCEPT !.queue = [@ EXCEPT ![p.tail] = phase]]

Phase == phases.queue[phases.index]

\* A phase starts with phase_just_reset cleared.
Current == [phases EXCEPT !.just_reset = FALSE]

\* The end of interface_loop.  What was earned is spent at the top level.
Finish(p) ==
  LET q == IF p.just_reset THEN p ELSE PhaseIncrement(p) IN
  /\ phases' = q
  /\ step' = "loop"

\* The phase goes on with another step.
GoOn(next) == step' = next /\ phases' = Current

Keeping == earned' = IF phases'.just_reset THEN {} ELSE earned

auth_reset_auth == is_user_auth' = FALSE /\ is_admin_auth' = FALSE

Init ==
  /\ PersistenceInit
  /\ phases = TopLevel
  /\ is_user_auth = FALSE /\ is_admin_auth = FALSE
  /\ step = "boot"
  /\ shut = TRUE
  /\ data_dirty = FALSE /\ log_held = FALSE
  /\ earned = {}

-----------------------------------------------------------------------------
(* interface_loop                                                          *)

Loop(phase) == step = "loop" /\ Phase = phase /\ UNCHANGED <<sharedVars, persistenceVars>>

\* The prompt is shown and the keypad scanned.
Ask == GoOn("input") /\ UNCHANGED <<authVars, earned>>

Skip == Finish(Current) /\ Keeping /\ UNCHANGED authVars

\* Mutant: what a visitor was allowed is not forgotten.
TopClosedKeepsAuth ==
  /\ Loop("TOP") /\ shut
  /\ Finish(PhasePush(PhasePush(Current, "CHECKPW_USER"), "OPEN"))
  /\ Keeping
  /\ UNCHANGED authVars

\* With the door closed the next visitor is asked for the password.
TopClosed ==
  /\ Loop("TOP") /\ shut
  /\ auth_reset_auth
  /\ Finish(PhasePush(PhasePush(Current, "CHECKPW_USER"), "OPEN"))
  /\ Keeping

TopOpen ==
  /\ Loop("TOP") /\ ~shut
  /\ auth_reset_auth
  /\ GoOn("input")
  /\ UNCHANGED earned

\* Phases for which one has to be an administrator.
AdminPhase ==
  \E phase \in {"ADMIN_MENU", "SETPW_USER", "SETADDR", "SETNAME"} :
    /\ Loop(phase)
    /\ IF is_admin_auth THEN Ask ELSE Skip

\* Mutant: a check already passed is repeated in place.
CheckPhaseStays ==
  \/ Loop("CHECKPW_USER") /\ ~is_user_auth /\ Ask
  \/ Loop("CHECKPW_ADMIN") /\ ~is_admin_auth /\ Ask
  \/ /\ Loop("CHECKPW_ADMIN") /\ is_admin_auth
     /\ phases' = Current /\ UNCHANGED <<step, authVars, earned>>

\* A password is asked for unless it was given.
CheckPhase ==
  \/ Loop("CHECKPW_USER") /\ IF is_user_auth THEN Skip ELSE Ask
  \/ Loop("CHECKPW_ADMIN") /\ IF is_admin_auth THEN Skip ELSE Ask

BellPhase == Loop("BELL") /\ Ask

\* The door is moved if it is not already there and the visitor may.
DoorPhase ==
  \E phase \in {"OPEN", "CLOSE"} :
    /\ Loop(phase)
    /\ IF shut # (phase = "CLOSE") /\ is_user_auth
       THEN GoOn("door") /\ UNCHANGED <<authVars, earned>>
       ELSE auth_reset_auth /\ Finish(Current) /\ Keeping

\* door_set_closed returns; the door is wherever its movers left it.
DoorMoved ==
  /\ step = "door"
  /\ shut' \in BOOLEAN
  /\ auth_reset_auth
  /\ Finish(Current) /\ Keeping
  /\ UNCHANGED <<data_dirty, log_held, persistenceVars>>

-----------------------------------------------------------------------------
(* input_evaluate                                                          *)

Input(phase) == step = "input" /\ Phase = phase /\ UNCHANGED sharedVars

\* Nothing was entered in time, or before the enter key.
NoInput ==
  /\ step = "input"
  /\ Finish(PhaseReset(Current)) /\ Keeping
  /\ UNCHANGED <<sharedVars, authVars, persistenceVars>>

\* A key that neither rings nor asks for the menu means the password, where
\* one is asked for.
TopInput ==
  /\ Input("TOP")
  /\ \/ Finish(PhaseReplaceLast(Current, "BELL"))
     \/ Finish(PhasePush(PhaseReplaceLast(Current, "CHECKPW_ADMIN"), "ADMIN_MENU"))
     \/ Finish(PhaseReset(Current))
  /\ Keeping
  /\ UNCHANGED <<authVars, persistenceVars>>

\* auth_check_password: right or wrong, the password is reported.
CheckUser ==
  /\ GoOn("report")
  /\ \/ is_user_auth' = TRUE /\ earned' = earned \cup {"user"} /\ UNCHANGED is_admin_auth
     \/ UNCHANGED <<authVars, earned>>

CheckAdmin ==
  /\ GoOn("report")
  /\ \/ is_admin_auth' = TRUE /\ earned' = earned \cup {"admin"} /\ UNCHANGED is_user_auth
     \/ UNCHANGED <<authVars, earned>>

UserInput ==
  /\ Input("CHECKPW_USER")
  /\ \/ CheckUser
     \/ /\ \/ Finish(PhaseReplaceLast(Current, "BELL"))
           \/ Finish(PhasePush(PhaseReplaceLast(Current, "CHECKPW_ADMIN"), "ADMIN_MENU"))
        /\ Keeping /\ UNCHANGED authVars
  /\ UNCHANGED persistenceVars

AdminInput == Input("CHECKPW_ADMIN") /\ CheckAdmin /\ UNCHANGED persistenceVars

\* Entries 4 and 5 only toggle the printing of debug messages.
MenuInput ==
  /\ Input("ADMIN_MENU")
  /\ \/ shut /\ Finish(PhasePush(PhasePush(Current, "CHECKPW_USER"), "OPEN"))
     \/ ~shut /\ Finish(PhasePush(PhasePush(Current, "CHECKPW_USER"), "CLOSE"))
     \/ Finish(PhasePush(PhasePush(Current, "CHECKPW_ADMIN"), "SETPW_USER"))
     \/ Finish(PhasePush(Current, "SETADDR"))
     \/ Finish(PhasePush(Current, "SETNAME"))
     \/ Finish(Current)
     \/ Finish(PhaseReset(Current))
  /\ Keeping
  /\ UNCHANGED <<authVars, persistenceVars>>

\* The client number goes into the event log.
BellInput ==
  /\ Input("BELL")
  /\ GoOn("report")
  /\ UNCHANGED <<authVars, earned, persistenceVars>>

\* auth_set_password asks for the user's password, and reports a change.
PasswordInput ==
  /\ Input("SETPW_USER")
  /\ IF is_user_auth THEN GoOn("report") /\ UNCHANGED <<authVars, earned>>
     ELSE auth_reset_auth /\ Finish(Current) /\ Keeping
  /\ UNCHANGED persistenceVars

SettingInput ==
  /\ \/ /\ Input("SETADDR")
        /\ \E a \in Addresses : Save([mem EXCEPT !.i2c_addr = a])
     \/ /\ Input("SETNAME")
        /\ \E n \in Names : Save([mem EXCEPT !.name = n])
  /\ step' = "save"
  /\ UNCHANGED <<phases, authVars, earned>>

NameSaved ==
  /\ step = "save" /\ Phase = "SETNAME"
  /\ Saved
  /\ auth_reset_auth
  /\ GoOn("send")
  /\ UNCHANGED <<sharedVars, earned>>

\* comms_send_info waits until the hub has read the data before, and
\* announces its own in the log.
InfoSent ==
  /\ step = "send"
  /\ ~data_dirty
  /\ data_dirty' = TRUE
  /\ GoOn("report")
  /\ UNCHANGED <<authVars, shut, log_held, earned, persistenceVars>>

\* event_log_append comes back; a new password is followed by auth_reset_auth.
\* It waits for the mutex (LogKeepsWaiting), or returns at once from a full log.
Reported ==
  /\ step = "report"
  /\ IF Phase = "SETPW_USER" THEN auth_reset_auth ELSE UNCHANGED authVars
  /\ Finish(Current) /\ Keeping
  /\ UNCHANGED <<sharedVars, persistenceVars>>

-----------------------------------------------------------------------------
(* The flash and the start of the unit                                     *)

Writing ==
  /\ step # "halted"
  /\ Load \/ Erase \/ WriteField
  /\ UNCHANGED interfaceVars

DefaultsSaved == step = "boot" /\ Saved /\ UNCHANGED interfaceVars

\* comms_init has put the unit's information into the data register.
Start ==
  /\ step = "boot" /\ saving = "no"
  /\ step' = "loop"
  /\ data_dirty' = TRUE
  /\ UNCHANGED <<phases, authVars, shut, log_held, earned, persistenceVars>>

Boot ==
  /\ Restart
  /\ phases' = TopLevel
  /\ auth_reset_auth
  /\ step' = "boot"
  /\ shut' = TRUE
  /\ data_dirty' = FALSE /\ log_held' = FALSE
  /\ earned' = {}

\* A new address takes effect with a reset, before the unit's information
\* would be sent; the lock is not given back.
AddressSaved ==
  /\ step = "save" /\ Phase = "SETADDR" /\ saving = "saved"
  /\ Boot
  /\ UNCHANGED losses

PowerFails ==
  /\ losses < MaxPowerLosses
  /\ losses' = losses + 1
  /\ Boot

-----------------------------------------------------------------------------
(* The other tasks and the hub                                             *)

Runs == step \notin {"boot", "halted"}

\* The hub and the door's own timer move the door as well.
OthersMoveDoor ==
  /\ Runs
  /\ shut' = ~shut
  /\ UNCHANGED <<phases, authVars, step, data_dirty, log_held, earned, persistenceVars>>

\* The comms task sends the unit's information from time to time.
CommsSends ==
  /\ Runs /\ ~data_dirty
  /\ data_dirty' = TRUE
  /\ UNCHANGED <<phases, authVars, step, shut, log_held, earned, persistenceVars>>

\* The hub has read all of the data register, if it ever does.
HubCollects ==
  /\ Runs /\ data_dirty
  /\ data_dirty' = FALSE
  /\ UNCHANGED <<phases, authVars, step, shut, log_held, earned, persistenceVars>>

\* The hub asks for an entry behind the log, and the interrupt that serves it
\* keeps the mutex; the next one, if there is any, gives it (RtosMutex).
HubKeepsLog ==
  /\ Runs
  /\ log_held' = ~log_held
  /\ UNCHANGED <<phases, authVars, step, shut, data_dirty, earned, persistenceVars>>

\* A task is within event_log_append when the hub's interrupt comes: the
\* kernel's assertion fails, and the unit stands still (EventPath).
Halts ==
  /\ Runs
  /\ step' = "halted"
  /\ UNCHANGED <<phases, authVars, sharedVars, earned, persistenceVars>>

Others == OthersMoveDoor \/ CommsSends \/ HubCollects \/ HubKeepsLog \/ Halts

-----------------------------------------------------------------------------

Visitor ==
  \/ TopInput \/ UserInput \/ AdminInput \/ MenuInput
  \/ BellInput \/ PasswordInput \/ SettingInput

Interface ==
  \/ TopClosed \/ TopOpen \/ AdminPhase \/ CheckPhase \/ BellPhase \/ DoorPhase
  \/ DoorMoved \/ NameSaved \/ InfoSent \/ Reported \/ AddressSaved
  \/ Writing \/ DefaultsSaved \/ Start

Next == Visitor \/ NoInput \/ Interface \/ PowerFails \/ Others

\* Prompts with a time limit; the others wait for a visitor.
Timed == step = "input" /\ Phase \notin {"ADMIN_MENU", "CHECKPW_USER"}

Spec == Init /\ [][Next]_vars

\* Events are reported at the end of a phase and within a movement.
LogKeepsWaiting == log_held /\ step \in {"report", "door"}

\* The task runs, its movements of the door end, and time limits expire.
\* Nothing makes the hub read the data register or give the log's mutex.
FairSpec ==
  /\ Spec
  /\ WF_vars(Interface /\ ~LogKeepsWaiting)
  /\ WF_vars(Timed /\ NoInput)

-----------------------------------------------------------------------------
(* Properties                                                              *)

\* The types, with the phase queue within its bounds and never at a phase
\* that was not put there (phase_push, phase_increment).
TypeOK ==
  /\ PersistenceTypeOK
  /\ phases.queue \in [0 .. PHASE_QUEUE_SIZE - 1 -> Phases]
  /\ phases.index \in 0 .. phases.tail /\ phases.tail < PHASE_QUEUE_SIZE
  /\ phases.just_reset \in BOOLEAN
  /\ Phase # "NONE"
  /\ is_user_auth \in BOOLEAN /\ is_admin_auth \in BOOLEAN
  /\ shut \in BOOLEAN /\ data_dirty \in BOOLEAN /\ log_held \in BOOLEAN
  /\ step \in {"boot", "loop", "input", "door", "save", "send", "report", "halted"}
  /\ earned \subseteq {"user", "admin"}

\* The door is moved, and a setting changed, only on a password given since
\* the interface was last at its top level, whatever the phases in between
\* and however their queue overflowed.
EarnedByPassword ==
  [][ /\ step' = "door" /\ step # "door" => "user" \in earned
      /\ step' = "save" /\ step # "save" => "admin" \in earned ]_vars

\* The interface waits for ever: for the hub to read the data register before
\* a new name can be sent, or for the mutex of the event log.
WaitsForHub ==
  \/ <>[](step = "send") /\ []<>data_dirty
  \/ <>[](step \in {"report", "door"}) /\ []<>log_held

\* The interface returns to its top level again and again, unless a prompt
\* without a time limit waits for a visitor who left, the unit stands still,
\* or the hub never frees what the interface waits for.
ReturnsToTop ==
  \/ []<>(step = "loop" /\ Phase = "TOP")
  \/ <>[](step = "input" /\ ~Timed)
  \/ <>[](step = "halted")
  \/ WaitsForHub

\* An accepted password of the door leads to a movement, unless the door is
\* already where it was to go, the unit restarts or stands still, or the
\* report of the password waits for the log for ever.
AcceptedPasswordActs ==
  \/ is_user_auth ~> \/ step \in {"door", "boot", "halted"}
                     \/ Phase = (IF shut THEN "CLOSE" ELSE "OPEN")
  \/ WaitsForHub

\* The menu's third entry changes the password of the door: whoever is asked
\* for the new one may set it.
PasswordCanBeSet == step = "input" /\ Phase = "SETPW_USER" => is_user_auth
=============================================================================
