-------------------------- MODULE NvsStore_proofs --------------------------
(***************************************************************************)
(* Proofs about NvsStore for every list of keys and every target version:  *)
(* wherever a reset cuts a migration off, the recorded version does not    *)
(* run ahead of the data.                                                  *)
(*                                                                         *)
(* SchemaSound speaks of the flash and of what a reader sees; inductive is *)
(* NvsInv, which says what the writes on their way are: the keys in their  *)
(* order, the version behind all of them, none when the flash is current.  *)
(* A lemma holds for one target; a boot may bring another.                 *)
(***************************************************************************)
EXTENDS NvsStore, SequenceTheorems, WellFoundedInduction, TLAPS

Formats == 0..MaxVersion

\* What a migration to the target has written so far.
MigrationTo(target, ws) ==
  /\ ws \in Seq(AllKeys \X (1..MaxVersion))
  /\ Len(ws) <= Len(Keys) + 1
  /\ \A n \in 1..Len(ws) :
       ws[n] = IF n <= Len(Keys) THEN <<Keys[n], target>> ELSE <<SchemaKey, target>>

NvsRecord ==
  [writes : Seq(AllKeys \X (1..MaxVersion)), handle_ : {0, 1}, current_version : Formats,
   migrated : 0..Len(Keys),
   at : {"todo", "open", "read", "migrate", "commit", "migrated", "failed", "closed"}]

NvsInv(target) ==
  /\ flash \in [AllKeys -> Formats] /\ damaged \in BOOLEAN /\ store \in NvsRecord
  /\ VersionCovered(flash)
  /\ MigrationTo(target, store.writes)
  /\ store.writes # <<>> => flash[SchemaKey] < target
  /\ store.at \in {"todo", "open", "read"} => store.writes = <<>> /\ store.migrated = 0
  /\ store.at \in {"read", "migrate", "commit"} => store.handle_ = 1
  /\ store.at = "migrate" => flash[SchemaKey] < target /\ Len(store.writes) = store.migrated
  /\ store.at = "commit" => flash[SchemaKey] < target /\ Len(store.writes) = Len(Keys) + 1
  /\ store.at \in {"migrated", "closed"} => store.writes = <<>> /\ flash[SchemaKey] >= target

\* Of finitely many writes there is a last one.
LEMMA LastWrite == \A n \in Nat : \A S \in SUBSET (1..n) : S # {} => Max(S) \in S
<1> SUFFICES ASSUME NEW n \in Nat, NEW S \in SUBSET (1..n), S # {}
             PROVE  Max(S) \in S
  OBVIOUS
<1> DEFINE T == {n - x : x \in S}
<1>1. T # {} /\ T \subseteq Nat
  <2>1. \A x \in S : n - x \in Nat
    OBVIOUS
  <2> QED
    BY <2>1, Zenon
<1>2. PICK m \in T : \A k \in T : ~(k < m)
  <2>1. PICK m \in T : \A k \in T : ~ <<k, m>> \in OpToRel(<, Nat)
    BY <1>1, NatLessThanWellFounded, WFMin
  <2> QED
    BY <1>1, <2>1 DEF OpToRel
<1>3. PICK x \in S : m = n - x
  OBVIOUS
<1>4. \A y \in S : x >= y
  BY <1>2, <1>3
<1> QED
  BY <1>4 DEF Max

\* The keys, among them the version's.
LEMMA KeysAreKeys ==
  /\ SchemaKey \in AllKeys
  /\ \A n \in 1..Len(Keys) : Keys[n] \in AllKeys /\ Keys[n] # SchemaKey
  /\ Len(Keys) \in Nat
  /\ \A k \in ToSet(Keys) : k \in AllKeys /\ \E n \in 1..Len(Keys) : k = Keys[n]
  BY NvsAssumption DEF AllKeys, ToSet

\* The next write of a migration, a key's or the version's.
LEMMA MigrationGrows ==
  ASSUME NEW target \in 1..MaxVersion, NEW ws, MigrationTo(target, ws),
         Len(ws) <= Len(Keys), NEW w \in AllKeys \X (1..MaxVersion),
         w = IF Len(ws) + 1 <= Len(Keys) THEN <<Keys[Len(ws) + 1], target>>
                                         ELSE <<SchemaKey, target>>
  PROVE  MigrationTo(target, Append(ws, w)) /\ Len(Append(ws, w)) = Len(ws) + 1
<1> DEFINE m == Len(ws)
           next == Append(ws, w)
<1>1. /\ ws \in Seq(AllKeys \X (1..MaxVersion)) /\ m \in Nat /\ Len(Keys) \in Nat
      /\ \A n \in 1..m :
           ws[n] = IF n <= Len(Keys) THEN <<Keys[n], target>> ELSE <<SchemaKey, target>>
  BY KeysAreKeys DEF MigrationTo
<1>2. /\ next \in Seq(AllKeys \X (1..MaxVersion)) /\ Len(next) = m + 1
      /\ \A n \in 1..m : next[n] = ws[n]
      /\ next[m + 1] = w
  BY <1>1, AppendProperties
<1> HIDE DEF m, next
<1>3. m + 1 <= Len(Keys) + 1 /\ \A n \in 1..(m + 1) : n \in 1..m \/ n = m + 1
  BY <1>1 DEF m
<1>4. \A n \in 1..(m + 1) :
        next[n] = IF n <= Len(Keys) THEN <<Keys[n], target>> ELSE <<SchemaKey, target>>
  BY <1>1, <1>2, <1>3 DEF m
<1>5. MigrationTo(target, next) /\ Len(next) = m + 1
  BY <1>2, <1>3, <1>4 DEF MigrationTo
<1> QED
  BY <1>5 DEF m, next

\* What a cut-off or complete migration leaves: each key it has written has the
\* target's format, and the version is written when every key is.
LEMMA AfterMigration ==
  ASSUME NEW f \in [AllKeys -> Formats], NEW target \in 1..MaxVersion,
         NEW ws, MigrationTo(target, ws)
  PROVE  /\ After(f, ws) \in [AllKeys -> Formats]
         /\ \A k \in AllKeys : After(f, ws)[k] \in {f[k], target}
         /\ Len(ws) > Len(Keys) => \A k \in AllKeys : After(f, ws)[k] = target
         /\ Len(ws) <= Len(Keys) => After(f, ws)[SchemaKey] = f[SchemaKey]
         /\ ws = <<>> => After(f, ws) = f
<1>1. Len(ws) \in Nat /\ DOMAIN ws = 1..Len(ws) /\ Len(Keys) \in Nat /\ MaxVersion \in Nat
  BY NvsAssumption, KeysAreKeys DEF MigrationTo
<1>2. \A k \in AllKeys : After(f, ws)[k] = IF WritesOf(k, ws) = {} THEN f[k] ELSE target
  <2> SUFFICES ASSUME NEW k \in AllKeys, WritesOf(k, ws) # {}
               PROVE  ws[Max(WritesOf(k, ws))][2] = target
    BY DEF After
  <2>1. WritesOf(k, ws) \subseteq 1..Len(ws)
    BY <1>1 DEF WritesOf
  <2>2. Max(WritesOf(k, ws)) \in 1..Len(ws)
    BY <1>1, <2>1, LastWrite
  <2>3. \A n \in 1..Len(ws) : ws[n] \in {<<Keys[n], target>>, <<SchemaKey, target>>}
    BY DEF MigrationTo
  <2> QED
    BY <2>2, <2>3
<1>3. After(f, ws) \in [AllKeys -> Formats]
  BY <1>1, <1>2 DEF After, Formats
<1>4. ASSUME Len(ws) > Len(Keys), NEW k \in AllKeys
      PROVE  WritesOf(k, ws) # {}
  <2>1. Len(ws) = Len(Keys) + 1
    <3>1. Len(ws) <= Len(Keys) + 1
      BY DEF MigrationTo
    <3>2. \A a, b \in Nat : a <= b + 1 /\ a > b => a = b + 1
      OBVIOUS
    <3> QED
      BY <1>1, <1>4, <3>1, <3>2, Zenon
  <2>2. CASE k = SchemaKey
    <3>1. Len(ws) \in DOMAIN ws /\ ws[Len(ws)] = <<SchemaKey, target>>
      BY <1>1, <2>1 DEF MigrationTo
    <3> QED
      BY <2>2, <3>1 DEF WritesOf
  <2>3. CASE k # SchemaKey
    <3>1. PICK n \in 1..Len(Keys) : k = Keys[n]
      BY <2>3, KeysAreKeys DEF AllKeys
    <3>2. n \in DOMAIN ws /\ ws[n] = <<k, target>>
      BY <1>1, <2>1, <3>1 DEF MigrationTo
    <3> QED
      BY <3>2 DEF WritesOf
  <2> QED
    BY <2>2, <2>3
<1>5. ASSUME Len(ws) <= Len(Keys)
      PROVE  WritesOf(SchemaKey, ws) = {}
  BY <1>1, <1>5, KeysAreKeys DEF MigrationTo, WritesOf
<1>6. ASSUME ws = <<>>
      PROVE  After(f, ws) = f
  <2>1. \A k \in AllKeys : WritesOf(k, ws) = {}
    BY <1>6 DEF WritesOf
  <2> QED
    BY <1>3, <2>1 DEF After
<1> QED
  BY <1>2, <1>3, <1>4, <1>5, <1>6, KeysAreKeys

\* So the version stays covered if it was.
LEMMA AfterCovered ==
  ASSUME NEW f \in [AllKeys -> Formats], NEW target \in 1..MaxVersion,
         NEW ws, MigrationTo(target, ws), VersionCovered(f),
         ws # <<>> => f[SchemaKey] < target
  PROVE  VersionCovered(After(f, ws))
<1> USE KeysAreKeys DEF Formats, VersionCovered
<1>1. MaxVersion \in Nat /\ Len(ws) \in Nat
  BY NvsAssumption DEF MigrationTo
<1>2. CASE ws = <<>>
  BY <1>2, AfterMigration
<1>3. CASE ws # <<>> /\ Len(ws) <= Len(Keys)
  <2>1. /\ \A k \in AllKeys : After(f, ws)[k] \in {f[k], target}
        /\ After(f, ws)[SchemaKey] = f[SchemaKey]
    BY <1>3, AfterMigration
  <2> QED
    BY <1>1, <1>3, <2>1
<1>4. CASE Len(ws) > Len(Keys)
  <2>1. \A k \in AllKeys : After(f, ws)[k] = target
    BY <1>4, AfterMigration
  <2> QED
    BY <1>1, <2>1
<1> QED
  BY <1>1, <1>2, <1>3, <1>4

-----------------------------------------------------------------------------
\* The empty flash is covered, and nothing is on its way.
LEMMA NoWrites ==
  /\ Erased \in [AllKeys -> Formats] /\ VersionCovered(Erased)
  /\ NvsFresh \in NvsRecord
  /\ \A target \in 1..MaxVersion : MigrationTo(target, <<>>)
<1>1. MaxVersion \in Nat /\ Len(Keys) \in Nat
  BY NvsAssumption
<1>2. <<>> \in Seq(AllKeys \X (1..MaxVersion)) /\ Len(<<>>) = 0
  BY EmptySeq
<1>3. Erased \in [AllKeys -> Formats] /\ VersionCovered(Erased)
  BY <1>1, KeysAreKeys DEF Erased, Missing, Formats, VersionCovered
<1>4. NvsFresh \in NvsRecord
  BY <1>1, <1>2 DEF NvsFresh, NvsRecord, Formats
<1> QED
  BY <1>1, <1>2, <1>3, <1>4 DEF MigrationTo

\* A boot, whichever version its image asks for, finds the version covered.
LEMMA NvsBootInv ==
  ASSUME NEW target \in 1..MaxVersion, NEW next \in 1..MaxVersion, NvsInv(target), NvsBoot
  PROVE  NvsInv(next)'
<1>1. PICK n \in 0..Len(store.writes) : flash' = After(flash, SubSeq(store.writes, 1, n))
  BY DEF NvsBoot
<1> DEFINE ws == SubSeq(store.writes, 1, n)
<1>2. /\ store.writes \in Seq(AllKeys \X (1..MaxVersion)) /\ Len(store.writes) \in Nat
      /\ flash \in [AllKeys -> Formats] /\ damaged \in BOOLEAN /\ VersionCovered(flash)
      /\ MigrationTo(target, store.writes)
  BY DEF NvsInv, NvsRecord
<1>3. /\ ws \in Seq(AllKeys \X (1..MaxVersion)) /\ Len(ws) = n
      /\ \A i \in 1..n : ws[i] = store.writes[i]
  BY <1>1, <1>2, SubSeqProperties
<1>4. MigrationTo(target, ws)
  <2>1. /\ Len(store.writes) <= Len(Keys) + 1
        /\ \A i \in 1..Len(store.writes) :
             store.writes[i] = IF i <= Len(Keys) THEN <<Keys[i], target>> ELSE <<SchemaKey, target>>
    BY <1>2 DEF MigrationTo
  <2> HIDE DEF ws
  <2>2. n <= Len(Keys) + 1 /\ 1..n \subseteq 1..Len(store.writes)
    BY <1>1, <1>2, <2>1, KeysAreKeys
  <2> QED
    BY <1>3, <2>1, <2>2 DEF MigrationTo
<1>5. ws # <<>> => flash[SchemaKey] < target
  BY <1>1, <1>2, <1>3, EmptySeq DEF NvsInv
<1> HIDE DEF ws
<1>6. flash' \in [AllKeys -> Formats] /\ VersionCovered(flash)'
  BY <1>1, <1>2, <1>4, <1>5, AfterMigration, AfterCovered DEF VersionCovered, ws
<1>7. store' = NvsFresh /\ damaged' = damaged
  BY DEF NvsBoot
<1>8. store' \in NvsRecord /\ MigrationTo(next, store.writes)'
  BY <1>7, NoWrites DEF NvsFresh, MigrationTo
<1> QED
  BY <1>2, <1>6, <1>7, <1>8 DEF NvsInv, NvsFresh

\* Before the store is open the flash may be erased, by init_flash or by the
\* crash-loop check.
LEMMA NvsEraseInv ==
  ASSUME NEW target \in 1..MaxVersion, NvsInv(target), store.at = "todo",
         EraseFlash, store' = store \/ store' = [store EXCEPT !.at = "open"]
  PROVE  NvsInv(target)'
<1>1. /\ store \in NvsRecord /\ store.writes = <<>> /\ store.migrated = 0
      /\ MigrationTo(target, store.writes)
  BY DEF NvsInv
<1>2. /\ store' \in NvsRecord /\ store'.writes = <<>> /\ store'.at \in {"todo", "open"}
      /\ store'.migrated = 0
  BY <1>1 DEF NvsRecord
<1>3. flash' = Erased /\ damaged' = FALSE
  BY DEF EraseFlash
<1> QED
  BY <1>1, <1>2, <1>3, NoWrites DEF NvsInv, VersionCovered

\* Each of the calls, which may fail, keeps the invariant for the image's target.
LEMMA NvsStepInv ==
  ASSUME NEW target \in 1..MaxVersion, NvsInv(target), NvsStep(target)
  PROVE  NvsInv(target)'
<1>0. /\ store \in NvsRecord /\ flash \in [AllKeys -> Formats] /\ damaged \in BOOLEAN
      /\ MigrationTo(target, store.writes) /\ VersionCovered(flash)
      /\ Len(store.writes) \in Nat /\ Len(Keys) \in Nat /\ MaxVersion \in Nat
  BY NvsAssumption, KeysAreKeys DEF NvsInv, NvsRecord
<1>1. CASE InitFlash
  <2>1. CASE EraseFlash /\ store' = [store EXCEPT !.at = "open"]
    BY <1>1, <2>1, NvsEraseInv DEF InitFlash
  <2>2. CASE /\ UNCHANGED <<flash, damaged>>
             /\ \/ store' = [store EXCEPT !.at = "open"]
                \/ store' = [store EXCEPT !.at = "failed"]
    <3>1. /\ store' \in NvsRecord /\ store'.at \in {"open", "failed"}
          /\ UNCHANGED <<store.writes, store.migrated>> /\ store.at = "todo"
      BY <1>0, <1>1, <2>2 DEF NvsRecord, InitFlash
    <3> QED
      BY <1>0, <2>2, <3>1 DEF NvsInv, VersionCovered
  <2> QED
    BY <1>1, <2>1, <2>2 DEF InitFlash
<1>2. CASE Open
  <2>1. /\ store' \in NvsRecord
        /\ (store'.at = "read" /\ store'.handle_ = 1) \/ store'.at = "failed"
        /\ UNCHANGED <<store.writes, store.migrated, flash, damaged>> /\ store.at = "open"
    BY <1>0, <1>2 DEF NvsRecord, Open
  <2> QED
    BY <1>0, <2>1 DEF NvsInv, VersionCovered
<1>3. CASE ReadVersion(target)
  <2>1. /\ store.at = "read" /\ UNCHANGED <<flash, damaged>> /\ store.writes = <<>>
        /\ store.handle_ = 1 /\ store.migrated = 0
    BY <1>3 DEF ReadVersion, NvsInv
  <2>2. PICK err \in {"ESP_OK", "ESP_FAIL"} :
          LET res     == GetU32(SchemaKey, err)
              current == IF IsOk(res) THEN res.value ELSE 0
          IN store' = IF ~IsOk(res) /\ res.err # NotFound
                      THEN [store EXCEPT !.at = "failed"]
                      ELSE [store EXCEPT !.current_version = current,
                              !.at = IF current < target THEN "migrate" ELSE "migrated"]
    BY <1>3 DEF ReadVersion
  <2>3. Visible = flash
    <3>1. /\ flash \in [AllKeys -> Formats] /\ MigrationTo(target, store.writes)
          /\ store.writes = <<>>
      BY <1>0, <2>1
    <3>2. After(flash, store.writes) = flash
      BY <3>1, AfterMigration
    <3> QED
      BY <3>2 DEF Visible
  <2>4. flash[SchemaKey] \in Formats
    BY <1>0, KeysAreKeys
  <2>5. CASE store' = [store EXCEPT !.at = "failed"]
    <3>1. /\ store' \in NvsRecord /\ store'.at = "failed" /\ UNCHANGED store.writes
      BY <1>0, <2>5 DEF NvsRecord
    <3> QED
      BY <1>0, <2>1, <3>1 DEF NvsInv, VersionCovered
  <2>6. CASE store' = [store EXCEPT !.current_version = flash[SchemaKey],
                         !.at = IF flash[SchemaKey] < target THEN "migrate" ELSE "migrated"]
    <3>1. /\ store' \in NvsRecord /\ UNCHANGED <<store.writes, store.handle_, store.migrated>>
          /\ store'.at = IF flash[SchemaKey] < target THEN "migrate" ELSE "migrated"
      BY <1>0, <2>4, <2>6 DEF NvsRecord
    <3> QED
      BY <1>0, <2>1, <2>4, <3>1 DEF NvsInv, VersionCovered, Formats
  <2>7. \/ store' = [store EXCEPT !.at = "failed"]
        \/ store' = [store EXCEPT !.current_version = flash[SchemaKey],
                       !.at = IF flash[SchemaKey] < target THEN "migrate" ELSE "migrated"]
    <3>1. CASE err = "ESP_FAIL"
      <4>1. GetU32(SchemaKey, err) = Fail("ESP_FAIL")
        BY <2>1, <3>1 DEF GetU32, IsError
      <4>2. ~IsOk(Fail("ESP_FAIL")) /\ Fail("ESP_FAIL").err # NotFound
        BY DEF IsOk, Fail, NotFound
      <4> QED
        BY <2>2, <4>1, <4>2
    <3>2. CASE err = "ESP_OK" /\ flash[SchemaKey] = Missing
      <4>1. GetU32(SchemaKey, err) = Fail(NotFound)
        BY <2>1, <2>3, <3>2 DEF GetU32, IsError
      <4>2. ~IsOk(Fail(NotFound)) /\ Fail(NotFound).err = NotFound
        BY DEF IsOk, Fail, NotFound
      <4> QED
        BY <2>2, <3>2, <4>1, <4>2 DEF Missing
    <3>3. CASE err = "ESP_OK" /\ flash[SchemaKey] # Missing
      <4>1. GetU32(SchemaKey, err) = Ok(flash[SchemaKey])
        BY <2>1, <2>3, <3>3 DEF GetU32, IsError
      <4>2. IsOk(Ok(flash[SchemaKey])) /\ Ok(flash[SchemaKey]).value = flash[SchemaKey]
        BY DEF IsOk, Ok
      <4> QED
        BY <2>2, <4>1, <4>2
    <3> QED
      BY <3>1, <3>2, <3>3
  <2> QED
    BY <2>5, <2>6, <2>7
<1>4. CASE MigrateKey(target)
  <2> DEFINE n == store.migrated + 1
             write == <<Keys[n], target>>
             ws == Append(store.writes, write)
  <2>1. /\ store.at = "migrate" /\ n \in 1..Len(Keys) /\ UNCHANGED <<flash, damaged>>
        /\ store.handle_ = 1 /\ Len(store.writes) = n - 1 /\ flash[SchemaKey] < target
    BY <1>0, <1>4 DEF MigrateKey, NvsInv, NvsRecord
  <2>2. store' = [store EXCEPT !.migrated = n, !.writes = ws]
    BY <1>4, <2>1 DEF MigrateKey, SetU32, IsError
  <2>3. write \in AllKeys \X (1..MaxVersion)
    BY <2>1, KeysAreKeys
  <2> HIDE DEF write
  <2>4. MigrationTo(target, ws) /\ Len(ws) = n
    <3>1. Len(store.writes) <= Len(Keys) /\ Len(store.writes) + 1 = n /\ n <= Len(Keys)
      BY <1>0, <2>1
    <3> HIDE DEF n
    <3>2. write = IF Len(store.writes) + 1 <= Len(Keys)
                  THEN <<Keys[Len(store.writes) + 1], target>> ELSE <<SchemaKey, target>>
      BY <3>1 DEF write
    <3> QED
      BY <1>0, <2>3, <3>1, <3>2, MigrationGrows
  <2> HIDE DEF n, ws
  <2>5. ws \in Seq(AllKeys \X (1..MaxVersion)) /\ n \in 0..Len(Keys)
    BY <1>0, <2>1, <2>4 DEF MigrationTo
  <2>6. /\ store' \in NvsRecord /\ store'.writes = ws /\ store'.migrated = n
        /\ UNCHANGED <<store.at, store.handle_>>
    BY <1>0, <2>2, <2>5 DEF NvsRecord
  <2> QED
    BY <1>0, <2>1, <2>4, <2>6 DEF NvsInv, VersionCovered
<1>5. CASE SetVersion(target)
  <2> DEFINE write == <<SchemaKey, target>>
             ws == Append(store.writes, write)
  <2>1. /\ store.at = "migrate" /\ UNCHANGED <<flash, damaged>>
        /\ store.handle_ = 1 /\ Len(store.writes) = Len(Keys) /\ flash[SchemaKey] < target
    BY <1>5 DEF SetVersion, NvsInv
  <2>2. \/ store' = [store EXCEPT !.writes = ws, !.at = "commit"]
        \/ store' = [store EXCEPT !.writes = store.writes, !.at = "failed"]
    <3>1. PICK err \in {"ESP_OK", "ESP_ERR_NVS_NOT_ENOUGH_SPACE"} :
            store' = [store EXCEPT !.writes = SetU32(SchemaKey, target, err).writes,
                        !.at = IF IsError(SetU32(SchemaKey, target, err).err)
                               THEN "failed" ELSE "commit"]
      BY <1>5 DEF SetVersion
    <3>2. SetU32(SchemaKey, target, err) =
            [err |-> err, writes |-> IF IsError(err) THEN store.writes ELSE ws]
      BY <2>1 DEF SetU32
    <3>3. CASE err = "ESP_OK"
      BY <3>1, <3>2, <3>3 DEF IsError
    <3>4. CASE err = "ESP_ERR_NVS_NOT_ENOUGH_SPACE"
      BY <3>1, <3>2, <3>4 DEF IsError
    <3> QED
      BY <3>3, <3>4
  <2>3. write \in AllKeys \X (1..MaxVersion)
    BY KeysAreKeys
  <2> HIDE DEF write
  <2>4. MigrationTo(target, ws) /\ Len(ws) = Len(Keys) + 1
    BY <1>0, <2>1, <2>3, MigrationGrows DEF write
  <2> HIDE DEF ws
  <2>5. ws \in Seq(AllKeys \X (1..MaxVersion))
    BY <2>4 DEF MigrationTo
  <2>6. CASE store' = [store EXCEPT !.writes = ws, !.at = "commit"]
    <3>1. /\ store' \in NvsRecord /\ store'.writes = ws /\ store'.at = "commit"
          /\ UNCHANGED store.handle_
      BY <1>0, <2>5, <2>6 DEF NvsRecord
    <3> QED
      BY <1>0, <2>1, <2>4, <3>1 DEF NvsInv, VersionCovered
  <2>7. CASE store' = [store EXCEPT !.writes = store.writes, !.at = "failed"]
    <3>1. /\ store' \in NvsRecord /\ UNCHANGED store.writes /\ store'.at = "failed"
      BY <1>0, <2>7 DEF NvsRecord
    <3> QED
      BY <1>0, <2>1, <3>1 DEF NvsInv, VersionCovered
  <2> QED
    BY <2>2, <2>6, <2>7
<1>6. CASE Commit
  <2>1. /\ store.at = "commit" /\ UNCHANGED damaged
        /\ Len(store.writes) = Len(Keys) + 1 /\ flash[SchemaKey] < target
    BY <1>6 DEF Commit, NvsInv
  <2>2. CASE store' = [store EXCEPT !.at = "migrated", !.writes = <<>>] /\ flash' = Visible
    <3>1. flash' \in [AllKeys -> Formats] /\ VersionCovered(flash)'
      BY <1>0, <2>1, <2>2, AfterMigration, AfterCovered DEF Visible, VersionCovered
    <3>2. flash'[SchemaKey] = target
      BY <1>0, <2>1, <2>2, AfterMigration, KeysAreKeys DEF Visible
    <3>3. /\ store' \in NvsRecord /\ store'.writes = <<>> /\ store'.at = "migrated"
      BY <1>0, <2>2, EmptySeq DEF NvsRecord
    <3> QED
      BY <1>0, <2>1, <3>1, <3>2, <3>3, NoWrites DEF NvsInv, MigrationTo
  <2>3. CASE store' = [store EXCEPT !.at = "failed"] /\ UNCHANGED flash
    <3>1. /\ store' \in NvsRecord /\ UNCHANGED store.writes /\ store'.at = "failed"
      BY <1>0, <2>3 DEF NvsRecord
    <3> QED
      BY <1>0, <2>1, <2>3, <3>1 DEF NvsInv, VersionCovered
  <2> QED
    BY <1>6, <2>2, <2>3 DEF Commit
<1>7. CASE Close
  <2>1. /\ store' \in NvsRecord /\ UNCHANGED <<store.writes, flash, damaged>>
        /\ (store.at = "migrated" /\ store'.at = "closed") \/ store'.at = "failed"
    BY <1>0, <1>7 DEF Close, NvsRecord
  <2> QED
    BY <1>0, <2>1 DEF NvsInv, VersionCovered
<1> QED
  BY <1>1, <1>2, <1>3, <1>4, <1>5, <1>6, <1>7 DEF NvsStep

\* What the invariant is for.
LEMMA NvsInvSound ==
  ASSUME NEW target \in 1..MaxVersion, NvsInv(target)
  PROVE  NvsTypeOK /\ SchemaSound(target)
<1>1. flash \in [AllKeys -> Formats] /\ MigrationTo(target, store.writes)
  BY DEF NvsInv
<1>2. VersionCovered(Visible)
  BY <1>1, AfterCovered DEF NvsInv, Visible
<1>3. store.writes = <<>> => Visible = flash
  BY <1>1, AfterMigration DEF Visible
<1>4. NvsTypeOK
  BY DEF NvsInv, NvsRecord, NvsTypeOK, Formats
<1> QED
  BY <1>2, <1>3, <1>4 DEF NvsInv, SchemaSound
=============================================================================
