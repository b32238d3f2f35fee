------------------------------ MODULE NvsStore ------------------------------
(***************************************************************************)
(* src/espbase/nvs_store.{hpp,cpp}: one boot's use of the store, from      *)
(* init_flash through open and migrate_schema to close.                    *)
(*                                                                         *)
(* Flash is external: writes reach it in order, some of them perhaps only  *)
(* at the commit, so a reset keeps any prefix of those not yet committed.  *)
(* Any call may fail.  The stored data is the format each of its keys has  *)
(* been written in; the migration, the application's, rewrites every key   *)
(* in the format of the target version.                                    *)
(***************************************************************************)
EXTENDS Naturals, Sequences, SequencesExt, EspResult

CONSTANTS
  Keys,        \* the application's keys, in the order its migration writes them
  MaxVersion   \* bound: the newest schema version

SchemaKey == "_schema_ver"

\* The name of the version's key is reserved.
ASSUME NvsAssumption == Keys \in Seq(STRING \ {SchemaKey}) /\ MaxVersion \in Nat \ {0}

VARIABLES
  flash,    \* what is durable: the version, if any, and the keys' formats
  damaged,  \* nvs_flash_init finds no free pages, or a newer layout
  store     \* what this boot has done:
            \*   writes           those that may not have reached the flash
            \*   handle_          the NvsStore's, and whether flash has it open
            \*   at               where the main task is
            \*   current_version  migrate_schema's local
            \*   migrated         how many keys migration_func has rewritten

nvsVars == <<flash, damaged, store>>

Missing == 0   \* no such key; a missing version is taken for version 0
AllKeys == ToSet(Keys) \cup {SchemaKey}
Erased == [k \in AllKeys |-> Missing]

NvsTypeOK ==
  /\ flash \in [AllKeys -> 0..MaxVersion]
  /\ damaged \in BOOLEAN
  /\ store.writes \in Seq(AllKeys \X (1..MaxVersion))
  /\ store \in [writes : {store.writes}, handle_ : {0, 1}, current_version : 0..MaxVersion,
                migrated : 0..Len(Keys),
                at : {"todo", "open", "read", "migrate", "commit", "migrated", "failed",
                      "closed"}]

\* What the flash f holds after the writes ws: of each key the last one.
WritesOf(k, ws) == {n \in DOMAIN ws : ws[n][1] = k}
After(f, ws) ==
  [k \in AllKeys |-> IF WritesOf(k, ws) = {} THEN f[k] ELSE ws[Max(WritesOf(k, ws))][2]]

\* What a reader of the open store sees.
Visible == After(flash, store.writes)

NvsFresh == [writes |-> <<>>, handle_ |-> 0, at |-> "todo", current_version |-> 0,
             migrated |-> 0]

NvsInit == flash = Erased /\ damaged \in BOOLEAN /\ store = NvsFresh

\* A reset: some prefix of the writes under way is durable.
NvsBoot == /\ \E n \in 0..Len(store.writes) : flash' = After(flash, SubSeq(store.writes, 1, n))
           /\ store' = NvsFresh
           /\ UNCHANGED damaged

EraseFlash == flash' = Erased /\ damaged' = FALSE

-----------------------------------------------------------------------------
(* The calls.  Each refuses to work without a handle.                      *)

InvalidState == "ESP_ERR_INVALID_STATE"
NotFound == "ESP_ERR_NVS_NOT_FOUND"

\* set_u32, where nvs_set_u32 returns err: its result, and the writes after it.
SetU32(k, v, err) ==
  IF store.handle_ = 0 THEN [err |-> InvalidState, writes |-> store.writes]
  ELSE [err |-> err,
        writes |-> IF IsError(err) THEN store.writes ELSE Append(store.writes, <<k, v>>)]

\* get_u32, where flash can be read unless err says otherwise.
GetU32(k, err) ==
  IF store.handle_ = 0 THEN Fail(InvalidState)
  ELSE IF IsError(err) THEN Fail(err)
  ELSE IF Visible[k] = Missing THEN Fail(NotFound)
  ELSE Ok(Visible[k])

\* init_flash: a partition that cannot be used is erased.
InitFlash ==
  /\ store.at = "todo"
  /\ \/ /\ IF damaged THEN EraseFlash ELSE UNCHANGED <<flash, damaged>>
        /\ store' = [store EXCEPT !.at = "open"]
     \/ store' = [store EXCEPT !.at = "failed"] /\ UNCHANGED <<flash, damaged>>

Open ==
  /\ store.at = "open"
  /\ \/ store' = [store EXCEPT !.at = "read", !.handle_ = 1]
     \/ store' = [store EXCEPT !.at = "failed"]
  /\ UNCHANGED <<flash, damaged>>

-----------------------------------------------------------------------------
(* migrate_schema(target, migration_func) *)

\* A version that is not there is version 0; any other failure ends the call.
ReadVersion(target) ==
  /\ store.at = "read"
  /\ \E err \in {"ESP_OK", "ESP_FAIL"} :
       LET res     == GetU32(SchemaKey, err)
           current == IF IsOk(res) THEN res.value ELSE 0
       IN store' = IF ~IsOk(res) /\ res.err # NotFound
                   THEN [store EXCEPT !.at = "failed"]
                   ELSE [store EXCEPT !.current_version = current,
                           !.at = IF current < target THEN "migrate" ELSE "migrated"]
  /\ UNCHANGED <<flash, damaged>>

\* Faulty variant: the version is written before the keys.
MigrateKeyVersionFirst(target) ==
  /\ store.at = "migrate" /\ store.migrated < Len(Keys)
  /\ LET n == store.migrated + 1
     IN store' = [store EXCEPT !.migrated = n,
                    !.writes = (IF n = 1 THEN Append(@, <<SchemaKey, target>>) ELSE @)
                               \o << <<Keys[n], target>> >>]
  /\ UNCHANGED <<flash, damaged>>

\* migration_func has no way to report a failure, and is taken not to fail.
MigrateKey(target) ==
  /\ store.at = "migrate" /\ store.migrated < Len(Keys)
  /\ LET n == store.migrated + 1
     IN store' = [store EXCEPT !.migrated = n,
                    !.writes = SetU32(Keys[n], target, "ESP_OK").writes]
  /\ UNCHANGED <<flash, damaged>>

SetVersion(target) ==
  /\ store.at = "migrate" /\ store.migrated = Len(Keys)
  /\ \E err \in {"ESP_OK", "ESP_ERR_NVS_NOT_ENOUGH_SPACE"} :
       LET res == SetU32(SchemaKey, target, err)
       IN store' = [store EXCEPT !.writes = res.writes,
                                 !.at = IF IsError(res.err) THEN "failed" ELSE "commit"]
  /\ UNCHANGED <<flash, damaged>>

Commit ==
  /\ store.at = "commit"
  /\ \/ store' = [store EXCEPT !.at = "migrated", !.writes = <<>>] /\ flash' = Visible
     \/ store' = [store EXCEPT !.at = "failed"] /\ UNCHANGED flash
  /\ UNCHANGED damaged

\* The destructor, too, closes a store that has a handle.
Close ==
  /\ store.at \in {"migrated", "failed"} /\ store.handle_ # 0
  /\ store' = [store EXCEPT !.handle_ = 0, !.at = IF @ = "migrated" THEN "closed" ELSE @]
  /\ UNCHANGED <<flash, damaged>>

NvsStep(target) == \/ InitFlash \/ Open \/ ReadVersion(target) \/ MigrateKey(target)
                   \/ SetVersion(target) \/ Commit \/ Close

-----------------------------------------------------------------------------
(* Properties *)

VersionCovered(f) == \A k \in ToSet(Keys) : f[k] >= f[SchemaKey]

\* A recorded version is never ahead of the data, wherever a reset cut the writes
\* off; and a migration that has succeeded, possibly after one that was cut off or
\* failed, leaves at least the target version.
SchemaSound(target) ==
  /\ VersionCovered(flash)
  /\ VersionCovered(Visible)
  /\ store.at \in {"migrated", "closed"} => Visible[SchemaKey] >= target
=============================================================================
