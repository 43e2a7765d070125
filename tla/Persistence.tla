---------------------------- MODULE Persistence ----------------------------
(***************************************************************************)
(* persistence.c and flash_rw.c: the settings a door unit keeps in one     *)
(* flash sector.                                                           *)
(*                                                                         *)
(* A save erases the sector and writes the settings back, first to last;   *)
(* the unit may lose power at any point of it.  The passwords have fields  *)
(* of the sector too, but nothing ever saves or loads them.                *)
(***************************************************************************)
EXTENDS Naturals

CONSTANTS
  Addresses, Names,            \* what a user may enter
  DefaultAddress, DefaultName, \* what a unit starts with
  Garbage,                     \* a field that was not wholly written
  MaxPowerLosses               \* bound: how often the power fails

ASSUME PersistenceAssumption ==
  /\ DefaultAddress \in Addresses /\ DefaultName \in Names
  /\ Garbage \notin Addresses \cup Names
  /\ MaxPowerLosses \in Nat

VARIABLES
  mem,       \* inmem_latest_data
  flash,     \* the sector
  saving,    \* the next step of a save or of a start, "no" outside of them
  locked,    \* persistence_lock is taken
  torn,      \* history: the last save to reach the sector was cut short
  wanted,    \* history: the settings the last save was to write
  losses

persistenceVars == <<mem, flash, saving, locked, torn, wanted, losses>>

Settings(fresh, addr, name) == [fresh_flag |-> fresh, i2c_addr |-> addr, name |-> name]

Erased == Settings(TRUE, Garbage, Garbage)
Defaults == Settings(FALSE, DefaultAddress, DefaultName)

\* A unit whose settings were never saved: the sector is erased.
PersistenceInit ==
  /\ flash = Erased
  /\ mem = Defaults
  /\ saving = "load"
  /\ locked = FALSE
  /\ torn = FALSE
  /\ wanted = Defaults
  /\ losses = 0

-----------------------------------------------------------------------------
(* persistence_init                                                        *)

\* The settings are read; a sector that was never written gets the defaults.
Load ==
  /\ saving = "load"
  /\ IF flash.fresh_flag
     THEN mem' = Defaults /\ saving' = "erase"
     ELSE mem' = flash /\ saving' = "no"
  /\ UNCHANGED <<flash, locked, torn, wanted, losses>>

-----------------------------------------------------------------------------
(* persistence_save_i2c_addr and persistence_save_name                     *)

Save(settings) ==
  /\ saving = "no" /\ ~locked
  /\ locked' = TRUE
  /\ mem' = settings
  /\ saving' = "erase"
  /\ UNCHANGED <<flash, torn, wanted, losses>>

\* Mutant: the sector is written over.
EraseNothing ==
  /\ saving = "erase"
  /\ wanted' = mem
  /\ saving' = "fresh_flag"
  /\ UNCHANGED <<mem, flash, locked, torn, losses>>

\* flash_erase_sector
Erase ==
  /\ saving = "erase"
  /\ flash' = Erased
  /\ wanted' = mem
  /\ saving' = "fresh_flag"
  /\ UNCHANGED <<mem, locked, torn, losses>>

FieldAfter == [fresh_flag |-> "i2c_addr", i2c_addr |-> "name", name |-> "saved"]

\* flash_write goes from the first byte to the last.
WriteField ==
  /\ saving \in DOMAIN FieldAfter
  /\ flash' = [flash EXCEPT ![saving] = mem[saving]]
  /\ saving' = FieldAfter[saving]
  /\ UNCHANGED <<mem, locked, torn, wanted, losses>>

\* A name is saved, or the defaults are: the lock is free.
Saved ==
  /\ saving = "saved"
  /\ saving' = "no"
  /\ locked' = FALSE
  /\ torn' = FALSE
  /\ UNCHANGED <<mem, flash, wanted, losses>>

\* The unit starts again; the sector is as it was.
Restart ==
  /\ saving' = "load"
  /\ locked' = FALSE
  /\ torn' = ((torn /\ saving # "saved") \/ saving \in DOMAIN FieldAfter)
  /\ UNCHANGED <<mem, flash, wanted>>

-----------------------------------------------------------------------------
(* Properties                                                              *)

AnySettings == [fresh_flag : BOOLEAN, i2c_addr : Addresses \cup {Garbage},
                name : Names \cup {Garbage}]

\* The types of the settings and of the steps.
PersistenceTypeOK ==
  /\ mem \in AnySettings /\ flash \in AnySettings /\ wanted \in AnySettings
  /\ saving \in DOMAIN FieldAfter \cup {"no", "load", "erase", "saved"}
  /\ locked \in BOOLEAN /\ torn \in BOOLEAN
  /\ losses \in 0 .. MaxPowerLosses

\* Outside of a save the unit works with what the sector holds, and these are
\* the settings last entered, unless the power failed within a save: then each
\* of them is the one entered last, a default, or visibly not written, never
\* an older one.
SettingsSurvive ==
  saving = "no" =>
    /\ mem = flash
    /\ mem = wanted \/ torn
    /\ mem.i2c_addr \in {wanted.i2c_addr, DefaultAddress, Garbage}
    /\ mem.name \in {wanted.name, DefaultName, Garbage}
=============================================================================
