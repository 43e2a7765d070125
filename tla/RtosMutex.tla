----------------------------- MODULE RtosMutex -----------------------------
(***************************************************************************)
(* A FreeRTOS mutex as the door unit uses it: taken and given by tasks,    *)
(* and also, through the ...FromISR calls, by the I2C interrupt            *)
(* (TAKE_..._MUTEX and GIVE_..._MUTEX in hub_comms.c and event_log.c).     *)
(*                                                                         *)
(* An interrupt never blocks: its take may fail, and the callers ignore    *)
(* that.  Its give asserts that no task holds the mutex; a failed          *)
(* assertion stops the unit with interrupts disabled (configASSERT).       *)
(***************************************************************************)
CONSTANT NoTask   \* the holder of a mutex that no task took

\* xSemaphoreCreateMutexStatic: one take is available.
Free == [avail |-> TRUE, holder |-> NoTask]

\* xSemaphoreTake by a task, which waits until the mutex is available.
TakenBy(task) == [avail |-> FALSE, holder |-> task]

\* xSemaphoreTakeFromISR: takes the mutex if it can, for no holder.
TakenFromISR(m) == [m EXCEPT !.avail = FALSE]

\* The assertion in xSemaphoreGiveFromISR.
MayGiveFromISR(m) == m.holder = NoTask

\* xSemaphoreGiveFromISR, whether or not the interrupt's take succeeded.
GivenFromISR(m) == [m EXCEPT !.avail = TRUE]

\* An interrupt took the mutex and did not give it: tasks wait until another
\* interrupt happens to give it.
Leaked(m) == ~m.avail /\ m.holder = NoTask
=============================================================================
