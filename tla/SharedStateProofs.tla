------------------------- MODULE SharedStateProofs -------------------------
(***************************************************************************)
(* Proofs about SharedState, for any number of processes, crashes and      *)
(* signals and a log of any size.                                          *)
(*                                                                         *)
(* The argument: while nothing is upset, a token in the semaphore means    *)
(* that nobody is inside (TokenOutside), so that whoever takes it was not  *)
(* inside already (InsideOnce).  The owner posts a token only when there   *)
(* is none (NothingPosted): it has just called sem_init, and no handler    *)
(* resumes it in between (NoClearingResumed).                              *)
(*                                                                         *)
(* The log: the slots behind the head hold the newest messages (Agrees)    *)
(* except while a process has moved the head and not written yet, and then *)
(* that process is the only writer and the slots behind its own agree      *)
(* (AgreesBefore).  Only one writes at a time because only one is inside.  *)
(***************************************************************************)
EXTENDS SharedState, FiniteSetTheorems, TLAPS

\* The owner clears the object before the token is posted.
NothingPosted == pc[Owner] = "clearing" => ~ready

\* No signal handler interrupts the clearing.
NoClearingResumed == \A p \in Processes : below[p] # "clearing"

\* A process is not inside both in its handler and in what that interrupted.
InsideOnce == ~upset => \A p \in Processes : ~(pc[p] \in Inner /\ below[p] \in Inner)

IInv == TypeOK /\ NothingPosted /\ NoClearingResumed /\ InsideOnce /\ TokenConserved

-----------------------------------------------------------------------------

\* There are finitely many processes, so that every set of them can be counted.
LEMMA Countable ==
  ASSUME NEW S \in SUBSET Processes
  PROVE  IsFiniteSet(S) /\ Cardinality(S) \in Nat
<1>1. IsFiniteSet(Processes)
  BY SharedStateAssumption, FS_Singleton, FS_Union DEF Processes
<1> QED
  BY <1>1, FS_Subset, FS_CardinalityType

\* A token in the semaphore means that nobody is inside.
LEMMA TokenOutside ==
  ASSUME TypeOK, TokenConserved, ~upset, sem > 0
  PROVE  Holders = {}
<1>1. Holders \in SUBSET Processes
  BY DEF Holders
<1>2. IsFiniteSet(Holders) /\ Cardinality(Holders) \in Nat
  BY <1>1, Countable
<1>3. Cardinality(Holders) = 0
  BY <1>2, SMT DEF TypeOK, TokenConserved
<1> QED
  BY <1>2, <1>3, FS_EmptySet

\* The places a process goes to when it is done are places.
LEMMA ResumedPlace ==
  ASSUME TypeOK, NEW p \in Processes
  PROVE  Resumed(p) \in Places
<1>1. below[p] \in Places \cup {"none"}
  BY DEF TypeOK
<1> QED
  BY <1>1 DEF Resumed, Places, Inner

-----------------------------------------------------------------------------

\* The invariant holds before any process has done anything.
LEMMA InitIInv == Init => IInv
<1> SUFFICES ASSUME Init PROVE IInv
  OBVIOUS
<1>1. TypeOK
  <2>1. pc \in [Processes -> Places] /\ below \in [Processes -> Places \cup {"none"}]
    BY DEF Init, Places
  <2>2. ring \in [Slots -> Processes \cup {Empty}] /\ head \in Slots
    BY SharedStateAssumption DEF Init, Slots
  <2>3. ready \in BOOLEAN
    BY DEF Init
  <2>4. upset \in BOOLEAN /\ caught \subseteq Processes /\ kind \in Kinds
    BY DEF Init
  <2>5. /\ sem \in Nat /\ lost \in Nat
        /\ crashes \in 0 .. MaxCrashes /\ signals \in 0 .. MaxSignals
    BY SharedStateAssumption, SMT DEF Init
  <2> QED
    BY <2>1, <2>2, <2>3, <2>4, <2>5, Zenon DEF TypeOK
<1>2. NothingPosted /\ NoClearingResumed /\ InsideOnce
  BY DEF Init, NothingPosted, NoClearingResumed, InsideOnce, Processes, Inner
<1>3. Holders = {}
  BY DEF Init, Holders, Holding, Inner, Processes
<1>4. TokenConserved
  <2>1. Cardinality(Holders) = 0
    BY <1>3, FS_EmptySet
  <2>2. (sem = 0 /\ ready = FALSE) \/ (sem = 1 /\ ready = TRUE)
    <3>1. ready = (sem = 1) /\ sem \in {0, 1}
      BY DEF Init
    <3>2. CASE sem = 0
      <4>1. ~(sem = 1)
        BY <3>2
      <4> QED
        BY <3>1, <3>2, <4>1, Zenon
    <3>3. CASE sem = 1
      BY <3>1, <3>3, Zenon
    <3> QED
      BY <3>1, <3>2, <3>3
  <2>3. lost = 0
    BY DEF Init
  <2> QED
    BY <2>1, <2>2, <2>3 DEF TokenConserved
<1> QED
  BY <1>1, <1>2, <1>4 DEF IInv

\* Every step keeps the types.
LEMMA TypeStep == TypeOK /\ [Next]_vars => TypeOK'
<1> SUFFICES ASSUME TypeOK, [Next]_vars PROVE TypeOK'
  OBVIOUS
<1> USE SharedStateAssumption DEF TypeOK, Goto, logVars, bounds
<1>1. CASE InitSem
  BY <1>1 DEF InitSem, Places
<1>2. CASE ClearAndPost
  <2>1. sem' \in Nat
    BY <1>2 DEF ClearAndPost
  <2>2. pc' \in [Processes -> Places]
    <3>1. PICK place \in Places : pc' = [pc EXCEPT ![Owner] = place]
      BY <1>2 DEF ClearAndPost, Places
    <3> QED
      BY <3>1
  <2>3. ring' \in [Slots -> Processes \cup {Empty}] /\ head' \in Slots
    BY <1>2 DEF ClearAndPost, Slots
  <2>4. ready' \in BOOLEAN /\ UNCHANGED <<kind, below, lost, caught, upset, bounds>>
    BY <1>2 DEF ClearAndPost
  <2> QED
    BY <2>1, <2>2, <2>3, <2>4
<1>3. CASE Sleep
  BY <1>3 DEF Sleep, Places
<1>4. ASSUME NEW p \in Processes, Wait(p) PROVE TypeOK'
  BY <1>4 DEF Wait, Places
<1>5. ASSUME NEW p \in Processes, Enter(p) PROVE TypeOK'
  BY <1>5 DEF Enter, Places, Inner
<1>6. ASSUME NEW p \in Processes, Try(p) PROVE TypeOK'
  BY <1>6 DEF Try, Places, Inner
<1>7. ASSUME NEW p \in Processes, Advance(p) PROVE TypeOK'
  <2>1. head' \in Slots
    BY <1>7 DEF Advance, Slots
  <2> QED
    BY <1>7, <2>1 DEF Advance, Places, Inner
<1>8. ASSUME NEW p \in Processes, Write(p) PROVE TypeOK'
  BY <1>8 DEF Write, Places, Inner
<1>9. ASSUME NEW p \in Processes, Leave(p) PROVE TypeOK'
  BY <1>9, ResumedPlace DEF Leave
<1>10. ASSUME NEW p \in Processes, Signal(p) PROVE TypeOK'
  <2>1. signals' \in 0 .. MaxSignals
    BY <1>10 DEF Signal
  <2> QED
    BY <1>10, <2>1 DEF Signal, Places
<1>11. ASSUME NEW p \in Processes, End(p) PROVE TypeOK'
  BY <1>11 DEF End, Places
<1>12. ASSUME NEW p \in Processes, Launch(p) PROVE TypeOK'
  BY <1>12 DEF Launch, Places, Processes
<1>13. CASE UNCHANGED vars
  BY <1>13 DEF vars
<1> QED
  BY <1>1, <1>2, <1>3, <1>4, <1>5, <1>6, <1>7, <1>8, <1>9, <1>10, <1>11, <1>12, <1>13
     DEF Next, Own, Go

\* Every step keeps the order of clearing and posting.
LEMMA OrderStep == IInv /\ [Next]_vars => NothingPosted' /\ NoClearingResumed'
<1> SUFFICES ASSUME IInv, [Next]_vars PROVE NothingPosted' /\ NoClearingResumed'
  OBVIOUS
<1> USE SharedStateAssumption
    DEF IInv, TypeOK, NothingPosted, NoClearingResumed, Goto, Processes
<1>1. CASE InitSem
  BY <1>1 DEF InitSem
<1>2. CASE ClearAndPost
  BY <1>2 DEF ClearAndPost
<1>3. CASE Sleep
  BY <1>3 DEF Sleep
<1>4. ASSUME NEW p \in Processes, Wait(p) \/ Enter(p) \/ Try(p) \/ Advance(p) \/ Write(p)
      PROVE  NothingPosted' /\ NoClearingResumed'
  BY <1>4 DEF Wait, Enter, Try, Advance, Write
<1>5. ASSUME NEW p \in Processes, Leave(p) PROVE NothingPosted' /\ NoClearingResumed'
  <2>1. Resumed(p) # "clearing"
    BY DEF Resumed
  <2> QED
    BY <1>5, <2>1 DEF Leave
<1>6. ASSUME NEW p \in Processes, Signal(p) PROVE NothingPosted' /\ NoClearingResumed'
  BY <1>6 DEF Signal
<1>7. ASSUME NEW p \in Processes, End(p) \/ Launch(p)
      PROVE  NothingPosted' /\ NoClearingResumed'
  BY <1>7 DEF End, Launch
<1>8. CASE UNCHANGED vars
  BY <1>8 DEF vars
<1> QED
  BY <1>1, <1>2, <1>3, <1>4, <1>5, <1>6, <1>7, <1>8 DEF Next, Own, Go

-----------------------------------------------------------------------------
(* The token                                                               *)

\* A step after which the same processes are inside, and that leaves the
\* semaphore alone, keeps the token.
LEMMA SameInside ==
  ASSUME IInv, Holders' = Holders, UNCHANGED <<sem, lost, ready, upset>>
  PROVE  TokenConserved'
  BY DEF IInv, TokenConserved

\* A process that takes the token was not inside before.
LEMMA TakesToken ==
  ASSUME IInv, NEW p \in Processes, sem > 0, sem' = sem - 1, Goto(p, "inside"),
         UNCHANGED <<below, lost, ready, upset>>
  PROVE  InsideOnce' /\ TokenConserved'
<1> SUFFICES ASSUME ~upset PROVE InsideOnce' /\ TokenConserved'
  BY DEF InsideOnce, TokenConserved
<1>1. Holders = {}
  BY TokenOutside DEF IInv
<1>2. Holders' = {p}
  BY <1>1 DEF Holders, Holding, Goto, IInv, TypeOK, Inner
<1>3. below[p] \notin Inner
  BY <1>1 DEF Holders, Holding
<1>4. InsideOnce'
  BY <1>3 DEF IInv, InsideOnce, Goto, TypeOK
<1>5. Cardinality(Holders) = 0 /\ Cardinality(Holders') = 1
  BY <1>1, <1>2, FS_EmptySet, FS_Singleton
<1>6. TokenConserved'
  BY <1>5 DEF IInv, TypeOK, TokenConserved
<1> QED
  BY <1>4, <1>6

\* A process that goes from inside leaves the others there, one fewer.
LEMMA OneFewer ==
  ASSUME IInv, NEW p \in Holders, Holders' = Holders \ {p}
  PROVE  Cardinality(Holders') = Cardinality(Holders) - 1 /\ Cardinality(Holders) \in Nat
<1>1. Holders \in SUBSET Processes
  BY DEF Holders
<1> QED
  BY <1>1, Countable, FS_RemoveElement

\* Whoever leaves gives the token back and is outside, unless its wait for
\* the log was interrupted.
LEMMA LeaveStep ==
  ASSUME IInv, NEW p \in Processes, Leave(p)
  PROVE  InsideOnce' /\ TokenConserved'
<1> SUFFICES ASSUME ~upset' PROVE InsideOnce' /\ TokenConserved'
  BY DEF InsideOnce, TokenConserved
<1>1. ~upset /\ below[p] # "waiting" /\ pc[p] \in Inner
  BY DEF Leave, Finished, Inner
<1>2. below[p] \notin Inner
  BY <1>1 DEF IInv, InsideOnce
<1>3. Resumed(p) \notin Inner
  BY <1>1, <1>2 DEF Resumed, Inner
<1>4. below'[p] = "none" /\ pc'[p] \notin Inner
  BY <1>3 DEF Leave, Goto, IInv, TypeOK
<1>5. \A o \in Processes \ {p} : pc'[o] = pc[o] /\ below'[o] = below[o]
  BY DEF Leave, Goto, IInv, TypeOK
<1>6. p \in Holders /\ Holders' = Holders \ {p}
  BY <1>1, <1>4, <1>5 DEF Holders, Holding, Inner
<1>7. InsideOnce'
  BY <1>1, <1>4, <1>5 DEF IInv, InsideOnce
<1>8. TokenConserved'
  <2>1. Cardinality(Holders') = Cardinality(Holders) - 1 /\ Cardinality(Holders) \in Nat
    BY <1>6, OneFewer
  <2> QED
    BY <1>1, <2>1, SMT DEF IInv, TypeOK, TokenConserved, Leave
<1> QED
  BY <1>7, <1>8

\* A process that ends takes the token with it if it is inside.
LEMMA EndStep ==
  ASSUME IInv, NEW p \in Processes, End(p)
  PROVE  InsideOnce' /\ TokenConserved'
<1>1. below'[p] = "none" /\ pc'[p] = "down"
  BY DEF End, Goto, IInv, TypeOK
<1>2. \A o \in Processes \ {p} : pc'[o] = pc[o] /\ below'[o] = below[o]
  BY DEF End, Goto, IInv, TypeOK
<1>3. InsideOnce'
  BY <1>1, <1>2 DEF IInv, InsideOnce, Inner, End
<1>4. Holders' = Holders \ {p}
  BY <1>1, <1>2 DEF Holders, Holding, Inner
<1>5. CASE Holding(p)
  <2>1. p \in Holders
    BY <1>5 DEF Holders
  <2>2. Cardinality(Holders') = Cardinality(Holders) - 1 /\ Cardinality(Holders) \in Nat
    BY <1>4, <2>1, OneFewer
  <2>3. TokenConserved'
    BY <1>5, <2>2, SMT DEF IInv, TypeOK, TokenConserved, End
  <2> QED
    BY <1>3, <2>3
<1>6. CASE ~Holding(p)
  <2>1. Holders' = Holders
    BY <1>4, <1>6 DEF Holders
  <2> QED
    BY <1>3, <1>6, <2>1, SameInside DEF End
<1> QED
  BY <1>5, <1>6

\* Every step keeps the token: one step of the proof per action.
LEMMA TokenStep == IInv /\ [Next]_vars => InsideOnce' /\ TokenConserved'
<1> SUFFICES ASSUME IInv, [Next]_vars PROVE InsideOnce' /\ TokenConserved'
  OBVIOUS
<1> USE SharedStateAssumption DEF Goto
<1>1. CASE InitSem
  <2> SUFFICES ASSUME ~upset' PROVE InsideOnce' /\ TokenConserved'
    BY DEF InsideOnce, TokenConserved
  <2>1. ~upset /\ Holders = {}
    BY <1>1 DEF InitSem
  <2>2. Holders' = {}
    BY <1>1, <2>1 DEF InitSem, Holders, Holding, Inner, IInv, TypeOK
  <2>3. InsideOnce'
    BY <2>2 DEF InsideOnce, Holders, Holding
  <2>4. TokenConserved'
    BY <1>1, <2>2, FS_EmptySet DEF InitSem, TokenConserved
  <2> QED
    BY <2>3, <2>4
<1>2. CASE ClearAndPost
  <2>1. Holders' = Holders /\ InsideOnce'
    BY <1>2 DEF ClearAndPost, Holders, Holding, InsideOnce, Inner, IInv, TypeOK
  <2>2. ~ready
    BY <1>2 DEF ClearAndPost, IInv, NothingPosted
  <2>3. Cardinality(Holders) \in Nat
    BY Countable DEF Holders
  <2> QED
    BY <1>2, <2>1, <2>2, <2>3 DEF ClearAndPost, TokenConserved, IInv, TypeOK
<1>3. CASE Sleep
  <2>1. Holders' = Holders /\ InsideOnce'
    BY <1>3 DEF Sleep, Holders, Holding, InsideOnce, Inner, IInv, TypeOK
  <2> QED
    BY <1>3, <2>1, SameInside DEF Sleep
<1>4. ASSUME NEW p \in Processes, Wait(p) PROVE InsideOnce' /\ TokenConserved'
  <2>1. Holders' = Holders /\ InsideOnce'
    BY <1>4 DEF Wait, Holders, Holding, InsideOnce, Inner, IInv, TypeOK
  <2> QED
    BY <1>4, <2>1, SameInside DEF Wait
<1>5. ASSUME NEW p \in Processes, Enter(p) PROVE InsideOnce' /\ TokenConserved'
  BY <1>5, TakesToken DEF Enter
<1>6. ASSUME NEW p \in Processes, Try(p) PROVE InsideOnce' /\ TokenConserved'
  BY <1>6, TakesToken DEF Try
<1>7. ASSUME NEW p \in Processes, Advance(p) PROVE InsideOnce' /\ TokenConserved'
  <2>1. Holders' = Holders /\ InsideOnce'
    BY <1>7 DEF Advance, Holders, Holding, InsideOnce, Inner, IInv, TypeOK
  <2> QED
    BY <1>7, <2>1, SameInside DEF Advance
<1>8. ASSUME NEW p \in Processes, Write(p) PROVE InsideOnce' /\ TokenConserved'
  <2>1. Holders' = Holders /\ InsideOnce'
    BY <1>8 DEF Write, Holders, Holding, InsideOnce, Inner, IInv, TypeOK
  <2> QED
    BY <1>8, <2>1, SameInside DEF Write
<1>9. ASSUME NEW p \in Processes, Leave(p) PROVE InsideOnce' /\ TokenConserved'
  BY <1>9, LeaveStep
<1>10. ASSUME NEW p \in Processes, Signal(p) PROVE InsideOnce' /\ TokenConserved'
  <2>1. Holders' = Holders /\ InsideOnce'
    BY <1>10 DEF Signal, Holders, Holding, InsideOnce, Inner, IInv, TypeOK
  <2> QED
    BY <1>10, <2>1, SameInside DEF Signal
<1>11. ASSUME NEW p \in Processes, End(p) PROVE InsideOnce' /\ TokenConserved'
  BY <1>11, EndStep
<1>12. ASSUME NEW p \in Processes, Launch(p) PROVE InsideOnce' /\ TokenConserved'
  <2>1. Holders' = Holders /\ InsideOnce'
    BY <1>12 DEF Launch, Holders, Holding, InsideOnce, Inner, IInv, TypeOK
  <2> QED
    BY <1>12, <2>1, SameInside DEF Launch
<1>13. CASE UNCHANGED vars
  <2>1. Holders' = Holders /\ InsideOnce'
    BY <1>13 DEF vars, Holders, Holding, InsideOnce, IInv
  <2> QED
    BY <1>13, <2>1, SameInside DEF vars
<1> QED
  BY <1>1, <1>2, <1>3, <1>4, <1>5, <1>6, <1>7, <1>8, <1>9, <1>10, <1>11, <1>12, <1>13
     DEF Next, Own, Go

-----------------------------------------------------------------------------
(* The log                                                                 *)

\* The slot i messages before the newest.
Back(h, i) == ring[(h + LogSize - i) % LogSize]

\* The ring holds the newest messages, from slot h down, and nothing else; it
\* begins at slot 0.
Agrees(h) ==
  /\ \A i \in 0 .. LogSize - 1 : Back(h, i) = IF i < Len(recent) THEN recent[i + 1] ELSE Empty
  /\ recent = <<>> => h = 0

\* The next slot but for the message is where the newest will be.
AgreesBefore ==
  \A i \in 0 .. LogSize - 2 :
    Back(head, i + 1) = IF i < Len(recent) THEN recent[i + 1] ELSE Empty

\* Processes between choosing a slot and writing to it.
Writers == {p \in Processes : pc[p] = "advanced" \/ below[p] = "advanced"}

RecentTyped == recent \in Seq(Processes) /\ Len(recent) <= LogSize

LogAgrees ==
  ~upset /\ ready /\ lost = 0 =>
    IF Writers = {} THEN Agrees(head)
    ELSE AgreesBefore /\ (recent = <<>> => head = 0)

LogInv == IInv /\ RecentTyped /\ LogAgrees

\* Slots are counted around the ring.
LEMMA Around ==
  ASSUME NEW x \in 0 .. 2 * LogSize - 1
  PROVE  x % LogSize = IF x < LogSize THEN x ELSE x - LogSize
<1>1. LogSize \in Nat \ {0, 1}
  BY SharedStateAssumption
<1>2. CASE x \in 0 .. LogSize - 1
  BY <1>1, <1>2
<1>3. CASE x \in LogSize .. 2 * LogSize - 1
  BY <1>1, <1>3
<1> QED
  BY <1>1, <1>2, <1>3

\* The newest slot is the head itself; going back a step from the next slot is
\* going back to this one.
LEMMA BackFrom ==
  ASSUME TypeOK, NEW h \in Slots
  PROVE  /\ Back(h, 0) = ring[h]
         /\ (h + 1) % LogSize \in Slots
         /\ \A i \in 0 .. LogSize - 2 : Back((h + 1) % LogSize, i + 1) = Back(h, i)
         /\ \A i \in 1 .. LogSize - 1 : /\ (h + LogSize - i) % LogSize \in Slots
                                        /\ (h + LogSize - i) % LogSize # h
<1>0. LogSize \in Nat \ {0, 1} /\ h \in 0 .. LogSize - 1
  BY SharedStateAssumption DEF Slots
<1>1. (h + LogSize - 0) % LogSize = h
  BY <1>0, Around
<1>2. (h + 1) % LogSize = IF h + 1 < LogSize THEN h + 1 ELSE 0
  BY <1>0, Around
<1>3. ASSUME NEW i \in 0 .. LogSize - 2
      PROVE  Back((h + 1) % LogSize, i + 1) = Back(h, i)
  <2>1. CASE h + 1 < LogSize
    <3>1. ((h + 1) % LogSize) + LogSize - (i + 1) = h + LogSize - i
      BY <1>0, <1>2, <2>1
    <3> QED
      BY <3>1 DEF Back
  <2>2. CASE h + 1 = LogSize
    <3>1. (0 + LogSize - (i + 1)) % LogSize = LogSize - (i + 1)
      BY <1>0, Around
    <3>2. (h + LogSize - i) % LogSize = LogSize - (i + 1)
      BY <1>0, <2>2, Around
    <3> QED
      BY <1>0, <1>2, <2>2, <3>1, <3>2 DEF Back
  <2> QED
    BY <1>0, <2>1, <2>2
<1>4. ASSUME NEW i \in 1 .. LogSize - 1
      PROVE  /\ (h + LogSize - i) % LogSize \in Slots
             /\ (h + LogSize - i) % LogSize # h
  <2>1. (h + LogSize - i) % LogSize = IF h < i THEN h + LogSize - i ELSE h - i
    BY <1>0, Around
  <2> QED
    BY <1>0, <2>1 DEF Slots
<1>5. Back(h, 0) = ring[h] /\ (h + 1) % LogSize \in Slots
  BY <1>0, <1>1, <1>2 DEF Back, Slots
<1> QED
  BY <1>3, <1>4, <1>5, Zenon

\* While nothing is upset or lost, a process that chose a slot is alone.
LEMMA WriterAlone ==
  ASSUME IInv, ~upset, NEW p \in Processes, pc[p] \in Inner
  PROVE  /\ lost = 0 /\ ready
         /\ Writers = IF pc[p] = "advanced" THEN {p} ELSE {}
<1>1. p \in Holders /\ Holders \in SUBSET Processes
  BY DEF Holders, Holding
<1>2. IsFiniteSet(Holders) /\ Cardinality(Holders) \in Nat /\ Cardinality(Holders) # 0
  BY <1>1, Countable, FS_EmptySet
<1>3. Cardinality(Holders) = 1 /\ lost = 0 /\ ready
  BY <1>2, SMT DEF IInv, TypeOK, TokenConserved
<1>4. \A q \in Holders : q = p
  <2>1. PICK x : Holders = {x}
    BY <1>2, <1>3, FS_Singleton
  <2> QED
    BY <1>1, <2>1
<1>5. \A q \in Writers : q \in Holders
  BY DEF Writers, Holders, Holding, Inner
<1>6. below[p] # "advanced"
  BY DEF IInv, InsideOnce, Inner
<1> QED
  BY <1>3, <1>4, <1>5, <1>6, Zenon DEF Writers

\* The slot of a message is chosen.
LEMMA AdvanceKeeps ==
  ASSUME LogInv, NEW p \in Processes, Advance(p)
  PROVE  RecentTyped' /\ LogAgrees'
<1> USE DEF LogInv
<1>1. RecentTyped' /\ UNCHANGED <<ring, recent, ready, lost, upset, below>>
  BY DEF Advance, RecentTyped
<1> SUFFICES ASSUME ~upset PROVE LogAgrees'
  BY <1>1 DEF LogAgrees
<1>2. TypeOK /\ head \in Slots /\ LogSize \in Nat \ {0, 1} /\ RecentTyped
  BY SharedStateAssumption DEF IInv, TypeOK
<1>3. Agrees(head)
  <2>1. pc[p] = "inside"
    BY DEF Advance
  <2> QED
    BY <2>1, WriterAlone DEF LogAgrees, Inner
<1>4. p \in Writers'
  BY <1>2 DEF Advance, Goto, Writers, TypeOK
<1>5. Len(recent) \in Nat /\ (recent = <<>> <=> Len(recent) = 0)
  BY <1>2 DEF RecentTyped
<1>6. ring[head] = IF 0 < Len(recent) THEN recent[1] ELSE Empty
  <2>1. Back(head, 0) = ring[head] /\ 0 \in 0 .. LogSize - 1
    BY <1>2, BackFrom
  <2> QED
    BY <1>3, <2>1 DEF Agrees
<1>7. 0 < Len(recent) => ring[head] # Empty
  <2>1. 0 < Len(recent) => recent[1] \in Processes
    BY <1>2, <1>5 DEF RecentTyped
  <2> QED
    BY <1>6, <2>1, SharedStateAssumption DEF Processes
<1>8. CASE recent = <<>>
  <2>1. head = 0 /\ ring[0] = Empty /\ head' = 0
    BY <1>3, <1>5, <1>6, <1>8 DEF Agrees, Advance
  <2>2. ASSUME NEW i \in 0 .. LogSize - 2
        PROVE  Back(head, i + 1) = Empty
    <3>1. i + 1 \in 0 .. LogSize - 1 /\ ~(i + 1 < Len(recent))
      BY <1>2, <1>5, <1>8
    <3> QED
      BY <1>3, <3>1 DEF Agrees
  <2>3. AgreesBefore'
    BY <1>1, <1>5, <1>8, <2>1, <2>2 DEF AgreesBefore, Back
  <2> QED
    BY <1>4, <2>1, <2>3 DEF LogAgrees
<1>9. CASE recent # <<>>
  <2>1. head' = (head + 1) % LogSize
    BY <1>5, <1>7, <1>9 DEF Advance
  <2>2. ASSUME NEW i \in 0 .. LogSize - 2
        PROVE  Back(head', i + 1) = IF i < Len(recent) THEN recent[i + 1] ELSE Empty
    <3>1. Back(head', i + 1) = Back(head, i)
      BY <1>2, <2>1, BackFrom
    <3>2. i \in 0 .. LogSize - 1
      BY <1>2
    <3> QED
      BY <1>3, <3>1, <3>2 DEF Agrees
  <2>3. AgreesBefore'
    BY <1>1, <2>2 DEF AgreesBefore, Back
  <2> QED
    BY <1>1, <1>4, <1>9, <2>3 DEF LogAgrees
<1> QED
  BY <1>8, <1>9

\* The message is written.
LEMMA WriteKeeps ==
  ASSUME LogInv, NEW p \in Processes, Write(p)
  PROVE  RecentTyped' /\ LogAgrees'
<1> USE DEF LogInv
<1>0. TypeOK /\ head \in Slots /\ LogSize \in Nat \ {0, 1} /\ RecentTyped
  BY SharedStateAssumption DEF IInv, TypeOK
<1> DEFINE all == <<p>> \o recent
<1>1. /\ all \in Seq(Processes) /\ Len(all) = Len(recent) + 1 /\ all[1] = p
      /\ \A i \in 1 .. Len(recent) : all[i + 1] = recent[i]
  BY <1>0 DEF RecentTyped
<1> HIDE DEF all
<1>2. /\ recent' \in Seq(Processes)
      /\ Len(recent') = IF Len(recent) < LogSize THEN Len(recent) + 1 ELSE LogSize
      /\ recent'[1] = p
      /\ \A i \in 1 .. LogSize - 1 : i < Len(recent') => recent'[i + 1] = recent[i]
  <2>1. recent' = Newest(all)
    BY DEF Write, all
  <2>2. Len(recent) \in Nat /\ Len(recent) <= LogSize
    BY <1>0 DEF RecentTyped
  <2>3. recent' = SubSeq(all, 1, IF Len(recent) < LogSize THEN Len(recent) + 1 ELSE LogSize)
    BY <1>0, <1>1, <2>1, <2>2 DEF Newest
  <2> QED
    BY <1>0, <1>1, <2>2, <2>3
<1>3. RecentTyped'
  BY <1>0, <1>2 DEF RecentTyped
<1> SUFFICES ASSUME ~upset PROVE LogAgrees'
  BY <1>3 DEF LogAgrees, Write
<1>4. pc[p] = "advanced" /\ Writers = {p}
  <2>1. pc[p] = "advanced"
    BY DEF Write
  <2> QED
    BY <2>1, WriterAlone DEF Inner
<1>5. AgreesBefore
  BY <1>4, WriterAlone DEF LogAgrees, Inner
<1>6. Writers' = {}
  <2>1. below[p] # "advanced" /\ pc'[p] = "leaving"
    BY <1>0, <1>4 DEF IInv, InsideOnce, Inner, Write, Goto, TypeOK
  <2>2. \A q \in Processes \ {p} : pc'[q] = pc[q] /\ q \notin Writers
    BY <1>0, <1>4 DEF Write, Goto, TypeOK
  <2> QED
    BY <2>1, <2>2 DEF Writers, Write
<1>7. ring'[head] = p /\ head' = head /\ \A k \in Slots \ {head} : ring'[k] = ring[k]
  BY <1>0 DEF Write, TypeOK
<1>8. recent' # <<>>
  BY <1>0, <1>2 DEF RecentTyped
<1>9. ASSUME NEW i \in 0 .. LogSize - 1
      PROVE  Back(head, i)' = IF i < Len(recent') THEN recent'[i + 1] ELSE Empty
  <2>1. CASE i = 0
    <3>1. Back(head, 0)' = ring'[head]
      <4>1. (head + LogSize - 0) % LogSize = head
        BY <1>0, Around DEF Slots
      <4> QED
        BY <1>7, <4>1 DEF Back
    <3> QED
      BY <1>0, <1>2, <1>7, <2>1, <3>1 DEF RecentTyped
  <2>2. CASE i # 0
    <3>1. i \in 1 .. LogSize - 1 /\ i - 1 \in 0 .. LogSize - 2 /\ (i - 1) + 1 = i
      BY <1>0, <2>2
    <3>2. Back(head, i)' = Back(head, i)
      BY <1>0, <1>7, <3>1, BackFrom DEF Back
    <3>3. Back(head, i) = IF i - 1 < Len(recent) THEN recent[i] ELSE Empty
      BY <1>5, <3>1 DEF AgreesBefore
    <3>4. i - 1 < Len(recent) <=> i < Len(recent')
      BY <1>0, <1>2, <3>1 DEF RecentTyped
    <3>5. i < Len(recent') => recent'[i + 1] = recent[i]
      BY <1>2, <3>1
    <3> QED
      BY <3>2, <3>3, <3>4, <3>5
  <2> QED
    BY <2>1, <2>2
<1>10. Agrees(head)'
  BY <1>7, <1>8, <1>9 DEF Agrees, Back
<1> QED
  BY <1>6, <1>7, <1>10 DEF LogAgrees

\* The other steps leave the log alone, and the processes that write to it.
LEMMA SameLog ==
  ASSUME LogInv, UNCHANGED logVars, Writers' = Writers,
         ~upset' /\ ready' /\ lost' = 0 => ~upset /\ ready /\ lost = 0
  PROVE  RecentTyped' /\ LogAgrees'
BY DEF LogInv, RecentTyped, LogAgrees, Agrees, AgreesBefore, Back, logVars

LEMMA LogStep == LogInv /\ [Next]_vars => RecentTyped' /\ LogAgrees'
<1> SUFFICES ASSUME LogInv, [Next]_vars PROVE RecentTyped' /\ LogAgrees'
  OBVIOUS
<1>0. TypeOK /\ LogSize \in Nat \ {0, 1} /\ NoClearingResumed /\ Owner \in Processes
  BY SharedStateAssumption DEF LogInv, IInv, TypeOK, Processes
<1>1. CASE InitSem
  BY <1>1 DEF InitSem, LogInv, RecentTyped, LogAgrees, logVars
<1>2. CASE ClearAndPost
  <2>1. recent' = <<>> /\ head' = 0 /\ ring' = [i \in Slots |-> Empty]
    BY <1>2 DEF ClearAndPost
  <2>2. RecentTyped'
    BY <1>0, <2>1 DEF RecentTyped
  <2>3. ASSUME NEW i \in 0 .. LogSize - 1 PROVE Back(0, i)' = Empty
    <3>1. (0 + LogSize - i) % LogSize \in Slots
      BY <1>0, Around DEF Slots
    <3> QED
      BY <2>1, <3>1 DEF Back
  <2>4. ASSUME NEW i \in 0 .. LogSize - 2 PROVE Back(0, i + 1)' = Empty
    BY <1>0, <2>3
  <2>5. Agrees(head)' /\ AgreesBefore'
    BY <2>1, <2>3, <2>4 DEF Agrees, AgreesBefore, Back
  <2> QED
    BY <2>1, <2>2, <2>5 DEF LogAgrees
<1>3. CASE Sleep
  BY <1>0, <1>3, SameLog DEF Sleep, Writers, Goto, TypeOK
<1>4. ASSUME NEW p \in Processes, Wait(p) \/ Enter(p) \/ Try(p)
      PROVE  RecentTyped' /\ LogAgrees'
  BY <1>0, <1>4, SameLog DEF Wait, Enter, Try, Writers, Goto, TypeOK
<1>5. ASSUME NEW p \in Processes, Advance(p) PROVE RecentTyped' /\ LogAgrees'
  BY <1>5, AdvanceKeeps
<1>6. ASSUME NEW p \in Processes, Write(p) PROVE RecentTyped' /\ LogAgrees'
  BY <1>6, WriteKeeps
<1>7. ASSUME NEW p \in Processes, Leave(p) PROVE RecentTyped' /\ LogAgrees'
  <2>1. CASE upset'
    BY <1>7, <2>1 DEF Leave, LogInv, RecentTyped, LogAgrees, logVars
  <2>2. CASE ~upset'
    <3>1. ~upset /\ below[p] # "waiting" /\ pc[p] \in Inner \ {"advanced"}
      BY <1>7, <2>2 DEF Leave, Finished, Inner
    <3>2. below[p] \notin Inner
      BY <3>1 DEF LogInv, IInv, InsideOnce
    <3>3. Resumed(p) \notin Inner
      BY <3>1, <3>2 DEF Resumed, Inner
    <3>4. Writers' = Writers
      BY <1>0, <1>7, <3>1, <3>2, <3>3 DEF Leave, Writers, Goto, TypeOK, Inner
    <3> QED
      BY <1>7, <3>1, <3>4, SameLog DEF Leave
  <2> QED
    BY <2>1, <2>2
<1>8. ASSUME NEW p \in Processes, Signal(p) PROVE RecentTyped' /\ LogAgrees'
  BY <1>0, <1>8, SameLog DEF Signal, Writers, Goto, TypeOK
<1>9. ASSUME NEW p \in Processes, End(p) PROVE RecentTyped' /\ LogAgrees'
  <2>1. CASE Holding(p)
    <3>1. lost' # 0
      BY <1>0, <1>9, <2>1 DEF End, TypeOK
    <3> QED
      BY <1>9, <3>1 DEF End, LogInv, RecentTyped, LogAgrees, logVars
  <2>2. CASE ~Holding(p)
    <3>1. Writers' = Writers
      BY <1>0, <1>9, <2>2 DEF End, Writers, Holding, Inner, Goto, TypeOK
    <3> QED
      BY <1>9, <2>2, <3>1, SameLog DEF End
  <2> QED
    BY <2>1, <2>2
<1>10. ASSUME NEW p \in Processes, Launch(p) PROVE RecentTyped' /\ LogAgrees'
  BY <1>0, <1>10, SameLog DEF Launch, Writers, Goto, TypeOK
<1>11. CASE UNCHANGED vars
  BY <1>11, SameLog DEF vars, Writers
<1> QED
  BY <1>1, <1>2, <1>3, <1>4, <1>5, <1>6, <1>7, <1>8, <1>9, <1>10, <1>11 DEF Next, Own, Go

\* The log is empty before any process has done anything.
LEMMA InitLog == Init => RecentTyped /\ LogAgrees
<1> SUFFICES ASSUME Init PROVE RecentTyped /\ LogAgrees
  OBVIOUS
<1>0. LogSize \in Nat \ {0, 1} /\ recent = <<>> /\ head = 0 /\ ring = [i \in Slots |-> Empty]
  BY SharedStateAssumption DEF Init
<1>1. ASSUME NEW i \in 0 .. LogSize - 1 PROVE Back(0, i) = Empty
  <2>1. (0 + LogSize - i) % LogSize \in Slots
    BY <1>0, Around DEF Slots
  <2> QED
    BY <1>0, <2>1 DEF Back
<1>2. Agrees(head)
  BY <1>0, <1>1 DEF Agrees
<1>3. Writers = {}
  BY DEF Init, Writers, Processes
<1> QED
  BY <1>0, <1>2, <1>3 DEF RecentTyped, LogAgrees

-----------------------------------------------------------------------------

\* The inductive invariant holds in every reachable state.
THEOREM Invariance == Spec => []IInv
<1>1. IInv /\ [Next]_vars => IInv'
  BY TypeStep, OrderStep, TokenStep DEF IInv
<1> QED
  BY <1>1, InitIInv, PTL DEF Spec

\* The variables of the object and of its processes keep their types, the
\* log's head in the ring included (log_append).
THEOREM TypeCorrect == Spec => []TypeOK
<1> QED
  BY Invariance, PTL DEF IInv

\* There is exactly one token from the owner's post on: in the semaphore, with
\* a process, or gone with one that ended (ipc_acquire_..., ipc_release_...,
\* processes_terminate_one).
THEOREM TokenKept == Spec => []TokenConserved
<1> QED
  BY Invariance, PTL DEF IInv

\* Nobody is at the object at the same time as another, until an owner makes
\* it anew under its users or a signal lets log_append in without the token.
THEOREM OneAtATime == Spec => []OneInside
<1>1. IInv => OneInside
  <2> SUFFICES ASSUME IInv, ~upset PROVE Cardinality(Holders) <= 1
    BY DEF OneInside
  <2>1. Cardinality(Holders) \in Nat
    BY Countable DEF Holders
  <2> QED
    BY <2>1 DEF IInv, TypeOK, TokenConserved
<1> QED
  BY <1>1, Invariance, PTL

\* A reader finds the newest messages, all of them and the newest first
\* (log_append, and the web server's answer to a request for the log).
THEOREM ReadsNewest == Spec => []LogNewestFirst
<1>1. LogInv => LogNewestFirst
  <2> SUFFICES ASSUME LogInv, ~upset, NEW p \in Readers, pc[p] = "inside"
               PROVE  Shown = recent
    BY DEF LogNewestFirst
  <2>0. /\ LogSize \in Nat \ {0, 1} /\ recent \in Seq(Processes)
        /\ Len(recent) \in 0 .. LogSize
    BY SharedStateAssumption DEF LogInv, RecentTyped
  <2>1. Agrees(head)
    <3>1. p \in Processes /\ pc[p] \in Inner /\ pc[p] # "advanced"
      BY SharedStateAssumption DEF Processes, Inner
    <3> QED
      BY <3>1, WriterAlone DEF LogInv, LogAgrees
  <2>2. ASSUME NEW i \in 0 .. LogSize - 1
        PROVE  /\ Back(head, i) # Empty <=> i < Len(recent)
               /\ i < Len(recent) => Back(head, i) = recent[i + 1]
    <3>1. Back(head, i) = IF i < Len(recent) THEN recent[i + 1] ELSE Empty
      BY <2>1 DEF Agrees
    <3>2. i < Len(recent) => recent[i + 1] \in Processes
      BY <2>0
    <3> QED
      BY <3>1, <3>2, SharedStateAssumption DEF Processes
  <2> DEFINE slot(i) == ring[(head + LogSize - i) % LogSize]
             upTo == {i \in 0 .. LogSize : \A k \in 0 .. i - 1 : slot(k) # Empty}
             length == CHOOSE n \in upTo : \A i \in upTo : i <= n
  <2>3. \A n \in 0 .. LogSize : n \in upTo <=> n <= Len(recent)
    <3> SUFFICES ASSUME NEW n \in 0 .. LogSize
                 PROVE  (\A k \in 0 .. n - 1 : Back(head, k) # Empty) <=> n <= Len(recent)
      BY DEF Back
    <3>1. CASE n <= Len(recent)
      <4>1. ASSUME NEW k \in 0 .. n - 1 PROVE Back(head, k) # Empty
        BY <2>0, <2>2, <3>1
      <4> QED
        BY <3>1, <4>1
    <3>2. CASE ~(n <= Len(recent))
      <4>1. Len(recent) \in 0 .. n - 1 /\ Len(recent) \in 0 .. LogSize - 1
        BY <2>0, <3>2
      <4>2. Back(head, Len(recent)) = Empty
        BY <2>0, <2>2, <4>1
      <4> QED
        BY <3>2, <4>1, <4>2
    <3> QED
      BY <3>1, <3>2
  <2>4. length = Len(recent)
    <3>1. Len(recent) \in upTo /\ \A i \in upTo : i <= Len(recent)
      BY <2>0, <2>3
    <3>2. length \in upTo /\ \A i \in upTo : i <= length
      BY <3>1
    <3>3. length <= Len(recent) /\ Len(recent) <= length /\ length \in 0 .. LogSize
      BY <3>1, <3>2
    <3> HIDE DEF length
    <3> QED
      BY <2>0, <3>3
  <2>5. Shown = [i \in 1 .. length |-> slot(i - 1)]
    BY Zenon DEF Shown
  <2> HIDE DEF length
  <2>6. ASSUME NEW i \in 1 .. Len(recent) PROVE slot(i - 1) = recent[i]
    <3>1. i - 1 \in 0 .. LogSize - 1 /\ i - 1 < Len(recent) /\ (i - 1) + 1 = i
      BY <2>0
    <3> QED
      BY <2>2, <3>1 DEF Back
  <2>7. Shown = [i \in 1 .. Len(recent) |-> recent[i]]
    BY <2>4, <2>5, <2>6
  <2> QED
    BY <2>0, <2>7
<1>2. Init => LogInv
  BY InitIInv, InitLog DEF LogInv
<1>3. LogInv /\ [Next]_vars => LogInv'
  BY LogStep, TypeStep, OrderStep, TokenStep DEF LogInv, IInv
<1> QED
  BY <1>1, <1>2, <1>3, PTL DEF Spec
=============================================================================
