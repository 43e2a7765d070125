---------------------------- MODULE SharedState ----------------------------
(***************************************************************************)
(* hub_common_ipc.c, hub_common.c, hub_control_processes.c: an object in   *)
(* shared memory, guarded by a named semaphore, used by the processes of   *)
(* the hub.  The object is one of the two lists (doors, intercoms), which  *)
(* one of its users creates, or the common log, which the control daemon   *)
(* creates and which every process appends to.                             *)
(*                                                                         *)
(* The owner sets the semaphore to 0, clears the object, and posts the one *)
(* token; it does so again whenever it is launched again.  Processes end   *)
(* anywhere, also between taking the token and posting it.  A signal       *)
(* interrupts a wait: a list's user then gives up, log_append goes on as   *)
(* if it had the token, and the handler itself appends to the log.         *)
(*                                                                         *)
(* A process stands for the one of its threads that is at the object.      *)
(***************************************************************************)
EXTENDS Integers, Sequences, FiniteSets

CONSTANTS
  Kinds,       \* of objects considered: "list", "log"
  Owner,       \* creates the object; the daemon for the log
  Users,       \* the other processes
  Triers,      \* those that never block on a list
  Readers,     \* those that read the log
  LogSize,     \* HUB_MAX_LOG_COUNT
  Empty,       \* a slot without a message
  MaxCrashes,  \* bound: processes that end
  MaxSignals   \* bound: signals that matter

ASSUME SharedStateAssumption ==
  /\ Kinds \subseteq {"list", "log"} /\ Kinds # {}
  /\ Owner \notin Users /\ IsFiniteSet(Users)
  /\ Triers \subseteq Users /\ Readers \subseteq Users
  /\ Empty \notin {Owner} \cup Users
  /\ LogSize \in Nat \ {0, 1} /\ MaxCrashes \in Nat /\ MaxSignals \in Nat

Processes == {Owner} \cup Users
Slots == 0 .. LogSize - 1

VARIABLES
  kind,     \* of the object
  sem,      \* the semaphore
  pc,       \* where each process is
  below,    \* where its signal handler interrupted it, "none": no handler runs
  ring,     \* the log: who wrote each message, and the newest slot
  head,
  recent,   \* history: writers of the newest messages, newest first
  ready,    \* history: the token has been posted since the last sem_init
  lost,     \* history: tokens held by processes that ended
  caught,   \* history: processes that waited while sem_init was called
  upset,    \* history: an owner made the object anew under its users, or an
            \* interrupted wait for the log was taken for the token
  crashes, signals

logVars == <<ring, head, recent>>
bounds == <<crashes, signals>>
vars == <<kind, sem, pc, below, logVars, ready, lost, caught, upset, bounds>>

Inner == {"inside", "advanced", "leaving"}
Holding(p) == pc[p] \in Inner \/ below[p] \in Inner
Holders == {p \in Processes : Holding(p)}

\* The semaphore may be left from an earlier run: nobody unlinks it.
Init ==
  /\ kind \in Kinds
  /\ sem \in {0, 1} /\ ready = (sem = 1)
  /\ pc = [p \in Processes |-> IF p = Owner THEN "start"
                               ELSE IF kind = "log" THEN "down" ELSE "idle"]
  /\ below = [p \in Processes |-> "none"]
  /\ ring = [i \in Slots |-> Empty] /\ head = 0 /\ recent = <<>>
  /\ lost = 0 /\ caught = {} /\ upset = FALSE
  /\ crashes = 0 /\ signals = 0

Goto(p, place) == pc' = [pc EXCEPT ![p] = place]

-----------------------------------------------------------------------------
(* ipc_init_hub_log_ptrs, ipc_init_door_states_ptrs,                       *)
(* ipc_init_intercom_states_ptrs of the owner                              *)

\* Mutant: the semaphore starts with a token, and the owner posts another.
InitSemWithToken ==
  /\ pc[Owner] = "start" /\ Goto(Owner, "clearing")
  /\ sem' = 1 /\ ready' = FALSE /\ lost' = 0
  /\ caught' = {p \in Processes : pc[p] = "waiting"}
  /\ upset' = (upset \/ Holders # {})
  /\ UNCHANGED <<kind, below, logVars, bounds>>

\* sem_init on a semaphore that others may be at: what is undefined then is
\* whether those who wait are ever woken.
InitSem ==
  /\ pc[Owner] = "start" /\ Goto(Owner, "clearing")
  /\ sem' = 0 /\ ready' = FALSE /\ lost' = 0
  /\ caught' = {p \in Processes : pc[p] = "waiting"}
  /\ upset' = (upset \/ Holders # {})
  /\ UNCHANGED <<kind, below, logVars, bounds>>

ClearAndPost ==
  /\ pc[Owner] = "clearing"
  /\ Goto(Owner, IF kind = "log" THEN "looking" ELSE "idle")
  /\ ring' = [i \in Slots |-> Empty] /\ head' = 0 /\ recent' = <<>>
  /\ sem' = sem + 1 /\ ready' = TRUE
  /\ UNCHANGED <<kind, below, lost, caught, upset, bounds>>

-----------------------------------------------------------------------------
(* ipc_acquire_..., ipc_release_...                                        *)

Wait(p) ==
  /\ pc[p] = "idle" /\ (kind = "log" \/ p \notin Triers)
  /\ Goto(p, "waiting")
  /\ UNCHANGED <<kind, sem, below, logVars, ready, lost, caught, upset, bounds>>

Enter(p) ==
  /\ pc[p] = "waiting" /\ sem > 0 /\ sem' = sem - 1
  /\ Goto(p, "inside") /\ caught' = caught \ {p}
  /\ UNCHANGED <<kind, below, logVars, ready, lost, upset, bounds>>

\* sem_trywait that succeeds; a failed one changes nothing and may be repeated.
Try(p) ==
  /\ pc[p] = "idle" /\ kind = "list" /\ p \in Triers /\ sem > 0
  /\ sem' = sem - 1 /\ Goto(p, "inside")
  /\ UNCHANGED <<kind, below, logVars, ready, lost, caught, upset, bounds>>

\* Where a process goes on when what it does at the object is done: back to
\* what the signal interrupted, the daemon to its processes, or elsewhere.
Resumed(p) ==
  CASE below[p] = "waiting" -> "inside"
    [] below[p] \notin {"none", "waiting"} -> below[p]
    [] below[p] = "none" /\ kind = "log" /\ p = Owner -> "looking"
    [] OTHER -> "idle"

Finished(p) ==
  \/ pc[p] = "leaving"
  \/ pc[p] = "inside" /\ (kind = "list" \/ (p \in Readers /\ below[p] = "none"))

\* Mutant: one that has read returns without sem_post.
LeaveForgotten(p) ==
  /\ Finished(p) /\ Goto(p, Resumed(p))
  /\ sem' = IF pc[p] = "inside" THEN sem ELSE sem + 1
  /\ below' = [below EXCEPT ![p] = "none"]
  /\ upset' = (upset \/ below[p] = "waiting")
  /\ UNCHANGED <<kind, logVars, ready, lost, caught, bounds>>

Leave(p) ==
  /\ Finished(p) /\ Goto(p, Resumed(p))
  /\ sem' = sem + 1
  /\ below' = [below EXCEPT ![p] = "none"]
  /\ upset' = (upset \/ below[p] = "waiting")
  /\ UNCHANGED <<kind, logVars, ready, lost, caught, bounds>>

-----------------------------------------------------------------------------
(* log_append with the token                                               *)

\* Mutant: the last slot is never used.
AdvanceShort(p) ==
  /\ pc[p] = "inside" /\ kind = "log" /\ Goto(p, "advanced")
  /\ head' = IF head = 0 /\ ring[0] = Empty THEN 0 ELSE (head + 1) % (LogSize - 1)
  /\ UNCHANGED <<kind, sem, below, ring, recent, ready, lost, caught, upset, bounds>>

Advance(p) ==
  /\ pc[p] = "inside" /\ kind = "log" /\ Goto(p, "advanced")
  /\ head' = IF head = 0 /\ ring[0] = Empty THEN 0 ELSE (head + 1) % LogSize
  /\ UNCHANGED <<kind, sem, below, ring, recent, ready, lost, caught, upset, bounds>>

Newest(s) == SubSeq(s, 1, IF Len(s) < LogSize THEN Len(s) ELSE LogSize)

Write(p) ==
  /\ pc[p] = "advanced" /\ Goto(p, "leaving")
  /\ ring' = [ring EXCEPT ![head] = p]
  /\ recent' = Newest(<<p>> \o recent)
  /\ UNCHANGED <<kind, sem, below, head, ready, lost, caught, upset, bounds>>

-----------------------------------------------------------------------------
(* Signals, ends and launches                                              *)

\* signal_handler, or the EINTR of a list's sem_wait.
Signal(p) ==
  /\ signals < MaxSignals /\ signals' = signals + 1
  /\ IF kind = "list"
     THEN /\ pc[p] = "waiting" /\ Goto(p, "idle") /\ caught' = caught \ {p}
          /\ UNCHANGED below
     ELSE /\ pc[p] \notin {"down", "start", "clearing"} /\ below[p] = "none"
          /\ Goto(p, "waiting") /\ below' = [below EXCEPT ![p] = pc[p]]
          /\ UNCHANGED caught
  /\ UNCHANGED <<kind, sem, logVars, ready, lost, upset, crashes>>

End(p) ==
  /\ pc[p] # "down" /\ crashes < MaxCrashes /\ crashes' = crashes + 1
  /\ Goto(p, "down") /\ below' = [below EXCEPT ![p] = "none"]
  /\ lost' = IF Holding(p) THEN lost + 1 ELSE lost
  /\ caught' = caught \ {p}
  /\ UNCHANGED <<kind, sem, logVars, ready, upset, signals>>

\* processes_launch_one.  The daemon is at its processes only between two of
\* its own entries in the log; nobody launches the daemon.
Launch(p) ==
  /\ pc[p] = "down"
  /\ IF kind = "list"
     THEN Goto(p, IF p = Owner THEN "start" ELSE "idle")
     ELSE /\ p # Owner /\ pc[Owner] = "looking"
          /\ pc' = [pc EXCEPT ![p] = "idle", ![Owner] = "waiting"]
  /\ UNCHANGED <<kind, sem, below, logVars, ready, lost, caught, upset, bounds>>

\* Mutant: a round that looks at no process.
SleepAtOnce ==
  /\ pc[Owner] = "looking" /\ Goto(Owner, "idle")
  /\ UNCHANGED <<kind, sem, below, logVars, ready, lost, caught, upset, bounds>>

Sleep ==
  /\ pc[Owner] = "looking" /\ \A p \in Users : pc[p] # "down"
  /\ Goto(Owner, "idle")
  /\ UNCHANGED <<kind, sem, below, logVars, ready, lost, caught, upset, bounds>>

-----------------------------------------------------------------------------

Own == InitSem \/ ClearAndPost \/ Sleep
Go(p) == Advance(p) \/ Write(p) \/ Leave(p)

Next ==
  \/ Own
  \/ \E p \in Processes :
       Wait(p) \/ Enter(p) \/ Try(p) \/ Go(p) \/ Signal(p) \/ End(p) \/ Launch(p)

Spec == Init /\ [][Next]_vars

\* Everyone at the object goes on, processes are launched, the daemon's loop
\* keeps writing to the log, and a semaphore lets every waiter in some time.
\* Who holds a list appends to the log, which is taken to let it in.
FairSpec ==
  /\ Spec
  /\ WF_vars(Own) /\ WF_vars(Wait(Owner))
  /\ \A p \in Processes : WF_vars(Go(p)) /\ WF_vars(Launch(p)) /\ SF_vars(Enter(p))

-----------------------------------------------------------------------------
(* Properties                                                              *)

Places == {"down", "start", "clearing", "idle", "waiting", "looking"} \cup Inner

\* The types; only the log has handlers, and no message is newer than the ring
\* can tell.
TypeOK ==
  /\ kind \in Kinds /\ sem \in Nat /\ lost \in Nat
  /\ pc \in [Processes -> Places]
  /\ below \in [Processes -> Places \cup {"none"}]
  /\ ring \in [Slots -> Processes \cup {Empty}] /\ head \in Slots
  /\ ready \in BOOLEAN /\ upset \in BOOLEAN /\ caught \subseteq Processes
  /\ crashes \in 0 .. MaxCrashes /\ signals \in 0 .. MaxSignals

\* There is one token, from the owner's post to the next sem_init, and none
\* before: in the semaphore, with a process, or gone with one that ended.
TokenConserved ==
  ~upset => sem + Cardinality(Holders) + lost = IF ready THEN 1 ELSE 0

\* Nobody is at the object at the same time as another.
OneInside ==
  ~upset => Cardinality(Holders) <= 1

\* What the web server reads: from the newest slot down to an empty one.
Shown ==
  LET slot(i) == ring[(head + LogSize - i) % LogSize]
      upTo == {i \in 0 .. LogSize : \A j \in 0 .. i - 1 : slot(j) # Empty}
      length == CHOOSE n \in upTo : \A i \in upTo : i <= n
  IN  [i \in 1 .. length |-> slot(i - 1)]

\* A reader finds the newest messages, all of them, the newest first.
LogNewestFirst ==
  ~upset => \A p \in Readers : pc[p] = "inside" /\ below[p] = "none" => Shown = recent

\* A handler that waits for what its own process holds.
WaitsForItself == \E p \in Processes : pc[p] = "waiting" /\ below[p] \in Inner

\* Who waits gets in, unless the token is gone, the semaphore was made anew
\* meanwhile, or the log has no owner yet.
WaitEnds ==
  \A p \in Processes :
    pc[p] = "waiting" ~>
      \/ pc[p] # "waiting" \/ lost > 0 \/ WaitsForItself \/ p \in caught
      \/ ~ready /\ pc[Owner] = "down"

\* The daemon launches what ended, unless the log's token is gone: its loop
\* writes to the log before it looks.
EndedIsLaunched ==
  \A p \in Users :
    kind = "log" /\ pc[p] = "down" ~>
      pc[p] # "down" \/ lost > 0 \/ WaitsForItself \/ pc[Owner] = "down"
=============================================================================
