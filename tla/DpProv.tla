-------------------------------- MODULE DpProv --------------------------------
(***************************************************************************)
(* components/dp_prov/dp_prov.c: the table of adopted nodes the gateway    *)
(* keeps in RAM and as one NVS blob.  A fixed number of slots, an occupied *)
(* slot being one with a unicast address; a second, older blob layout (v1, *)
(* without node ids) that the load migrates; a load at boot that may fail, *)
(* and is then tried again by the next record or forget.                   *)
(***************************************************************************)
EXTENDS Naturals, FiniteSets

CONSTANTS Addrs, Berths, NodeIds, NoEntry, MaxRecords,
          NoAddr,       \* unicast_addr 0: an empty slot
          NoBerth,      \* berth_id "" of an empty slot
          NoNode,       \* node_id "": the backend sent none, or a v1 record
          Faults        \* which NVS operations may fail: subset of FaultNames

FaultNames == {"write",   \* save_table fails, the old blob stays
               "open",    \* nvs_open fails in load_table
               "read"}    \* nvs_get_blob fails in load_table

ASSUME MaxRecordsAssumption == MaxRecords \in Nat \ {0}
ASSUME NoEntryAssumption == NoEntry \notin [berth : Berths, node : NodeIds]
ASSUME NoAddrAssumption == NoAddr \notin Addrs
ASSUME NodeIdsAssumption == NoNode \in NodeIds
ASSUME FaultsAssumption == Faults \subseteq FaultNames

VARIABLES table,   \* s_table: its count and its slots
          loaded,  \* s_loaded
          nvs,     \* the blob under "berths"
          ret      \* the last record or forget call and what it returned

vars == <<table, loaded, nvs, ret>>

Slots == 1..MaxRecords
EmptySlot == [addr |-> NoAddr, berth |-> NoBerth, node |-> NoNode]
Record == [addr : Addrs, berth : Berths, node : NodeIds]
Table == [count : 0..MaxRecords, slots : [Slots -> Record \cup {EmptySlot}]]
ZeroTable == [count |-> 0, slots |-> [i \in Slots |-> EmptySlot]]

Layouts == {"absent", "v1", "v2", "other"}
Codes == {"ok", "nvs", "no-mem", "load"}
Entry == [berth : Berths, node : NodeIds]
NoRet == [call |-> "none", addr |-> NoAddr, entry |-> NoEntry, err |-> "ok"]

TypeOK ==
  /\ table \in Table
  /\ loaded \in BOOLEAN
  /\ nvs \in [layout : Layouts, table : Table]
  /\ ret \in [call : {"none", "record", "forget"}, addr : Addrs \cup {NoAddr},
              entry : Entry \cup {NoEntry}, err : Codes]

-----------------------------------------------------------------------------
(* The table as a set of slots.                                            *)

Occupied(t) == {i \in Slots : t.slots[i] # EmptySlot}
Holding(t, a) == {i \in Slots : t.slots[i].addr = a}
First(S) == CHOOSE i \in S : \A j \in S : i <= j

(* The map a table stands for; lookup_berth and lookup_node_id scan for    *)
(* the first slot with the address.                                        *)
View(t) ==
  [a \in Addrs |->
     IF Holding(t, a) = {} THEN NoEntry
     ELSE LET r == t.slots[First(Holding(t, a))]
          IN [berth |-> r.berth, node |-> r.node]]

(* Mutant: the count is left alone.                                        *)
NoLess(c, n) == IF n >= 0 THEN c ELSE 0

(* if (count) count--, n times.                                            *)
Less(c, n) == IF n <= c THEN c - n ELSE 0

Clear(t, S) ==
  [count |-> Less(t.count, Cardinality(S)),
   slots |-> [i \in Slots |-> IF i \in S THEN EmptySlot ELSE t.slots[i]]]

(* Mutant: the address test of the eviction is inverted.                   *)
StaleOfSameAddr(t, a, b) ==
  {i \in Slots : t.slots[i].addr = a /\ t.slots[i].berth = b}

(* The hot-swap loop: records of the berth under another address.          *)
Stale(t, a, b) ==
  {i \in Slots : t.slots[i].addr \notin {NoAddr, a} /\ t.slots[i].berth = b}

(* Mutant: an empty slot before the address's own is taken.                *)
FirstFit(t, a) == Holding(t, a) \cup Holding(t, NoAddr)

(* The slot search: the address's own slot, else the first empty one.      *)
Candidates(t, a) ==
  IF Holding(t, a) # {} THEN Holding(t, a) ELSE Holding(t, NoAddr)

(* Mutant: an overwritten record is counted again.                         *)
StoreCounted(t, r) ==
  LET i == First(Candidates(t, r.addr))
  IN [count |-> t.count + 1, slots |-> [t.slots EXCEPT ![i] = r]]

Store(t, r) ==
  LET i == First(Candidates(t, r.addr))
  IN [count |-> IF Holding(t, r.addr) = {} THEN t.count + 1 ELSE t.count,
      slots |-> [t.slots EXCEPT ![i] = r]]

(* Mutant: a v1 table is wiped, as one of an unknown version is.           *)
MigratedToNothing(t) == [t EXCEPT !.count = 0, !.slots = ZeroTable.slots]

(* migrate_from_v1: count and records copied, node ids empty.              *)
Migrated(t) ==
  [t EXCEPT !.slots = [i \in Slots |-> [t.slots[i] EXCEPT !.node = NoNode]]]

-----------------------------------------------------------------------------
(* Mutant: the error of nvs_set_blob is lost behind nvs_commit's.          *)
SavesAlwaysOk(old, t) ==
  {[nvs |-> [layout |-> "v2", table |-> t], err |-> "ok"]}
    \cup IF "write" \in Faults THEN {[nvs |-> old, err |-> "ok"]} ELSE {}

(* save_table: what is in flash afterwards, and the code it returns.       *)
Saves(old, t) ==
  {[nvs |-> [layout |-> "v2", table |-> t], err |-> "ok"]}
    \cup IF "write" \in Faults THEN {[nvs |-> old, err |-> "nvs"]} ELSE {}

(* load_table: what the table and the flash hold afterwards.  A v1 blob is *)
(* rewritten as v2 at once; any other size or version is taken for empty;  *)
(* so is a blob that cannot be read, because the table in RAM has version  *)
(* 0 then and the version test comes before the error test.  Only a failed *)
(* nvs_open, or a v1 blob whose second read fails, is reported.            *)
LoadResult(t, n, ok) == [table |-> t, nvs |-> n, ok |-> ok]

Loads ==
  (CASE nvs.layout = "v2" -> {LoadResult(nvs.table, nvs, TRUE)}
     [] nvs.layout = "v1" ->
          {LoadResult(Migrated(nvs.table), s.nvs, TRUE) :
             s \in Saves(nvs, Migrated(nvs.table))}
     [] OTHER -> {LoadResult(ZeroTable, nvs, TRUE)})
  \cup IF "read" \in Faults THEN {LoadResult(ZeroTable, nvs, TRUE)} ELSE {}
  \cup IF "open" \in Faults \/ ("read" \in Faults /\ nvs.layout = "v1")
       THEN {LoadResult(table, nvs, FALSE)} ELSE {}

(* The load that record and forget begin with.                             *)
Ready == IF loaded THEN {LoadResult(table, nvs, TRUE)} ELSE Loads

(* dp_prov_init, from app_main and again from dp_gateway_init.             *)
Load ==
  /\ ~loaded
  /\ \E l \in Loads : table' = l.table /\ nvs' = l.nvs /\ loaded' = l.ok
  /\ UNCHANGED ret

(* dp_prov_record_node with valid arguments.                               *)
RecordNode(a, e) ==
  \E l \in Ready :
    LET t == Clear(l.table, Stale(l.table, a, e.berth))
        r == [addr |-> a, berth |-> e.berth, node |-> e.node]
        Returns(err) ==
          ret' = [call |-> "record", addr |-> a, entry |-> e, err |-> err]
    IN /\ loaded' = l.ok
       /\ \/ /\ ~l.ok
             /\ Returns("load")
             /\ UNCHANGED <<table, nvs>>
          \/ /\ l.ok
             /\ Candidates(t, a) = {}
             /\ Returns("no-mem")
             /\ table' = t
             /\ nvs' = l.nvs
          \/ /\ l.ok
             /\ Candidates(t, a) # {}
             /\ table' = Store(t, r)
             /\ \E s \in Saves(l.nvs, table') : nvs' = s.nvs /\ Returns(s.err)

(* dp_prov_forget_unicast: the first slot with the address, if any.        *)
ForgetUnicast(a) ==
  \E l \in Ready :
    LET held == Holding(l.table, a)
        Returns(err) ==
          ret' = [call |-> "forget", addr |-> a, entry |-> NoEntry, err |-> err]
    IN /\ loaded' = l.ok
       /\ \/ /\ ~l.ok
             /\ Returns("load")
             /\ UNCHANGED <<table, nvs>>
          \/ /\ l.ok
             /\ held = {}
             /\ Returns("ok")
             /\ table' = l.table
             /\ nvs' = l.nvs
          \/ /\ l.ok
             /\ held # {}
             /\ table' = Clear(l.table, {First(held)})
             /\ \E s \in Saves(l.nvs, table') : nvs' = s.nvs /\ Returns(s.err)

(* A power cycle: RAM is zeroed, flash stays.                              *)
Reboot ==
  /\ table' = ZeroTable
  /\ loaded' = FALSE
  /\ UNCHANGED <<nvs, ret>>

(* dp_prov_factory_reset: erase, then restart.                             *)
FactoryReset ==
  /\ table' = ZeroTable
  /\ loaded' = FALSE
  /\ nvs' = [layout |-> "absent", table |-> ZeroTable]
  /\ ret' = NoRet

-----------------------------------------------------------------------------
UniqueAddr(t) ==
  \A i, j \in Occupied(t) : t.slots[i].addr = t.slots[j].addr => i = j

UniqueBerth(t) ==
  \A i, j \in Occupied(t) : t.slots[i].berth = t.slots[j].berth => i = j

CountExact(t) == t.count = Cardinality(Occupied(t))

(* A blob an earlier run of this code, or of its v1, can have written.     *)
WellFormed(n) ==
  /\ n.layout \in {"absent", "other"} => n.table = ZeroTable
  /\ UniqueAddr(n.table) /\ UniqueBerth(n.table) /\ CountExact(n.table)
  /\ n.layout = "v1" => \A i \in Slots : n.table.slots[i].node = NoNode

Init ==
  /\ table = ZeroTable
  /\ loaded = FALSE
  /\ nvs \in {n \in [layout : Layouts, table : Table] : WellFormed(n)}
  /\ ret = NoRet

Next ==
  \/ Load
  \/ \E a \in Addrs, e \in Entry : RecordNode(a, e)
  \/ \E a \in Addrs : ForgetUnicast(a)
  \/ Reboot
  \/ FactoryReset

Spec == Init /\ [][Next]_vars

-----------------------------------------------------------------------------
(* One address, one record; one berth, one record: in RAM and in the blob  *)
(* (the hot-swap eviction and the slot search of dp_prov_record_node, over *)
(* any sequence of records, forgets, failed saves and reboots).            *)
OneRecordPerAddr == UniqueAddr(table) /\ UniqueAddr(nvs.table)
OneRecordPerBerth == UniqueBerth(table) /\ UniqueBerth(nvs.table)

(* The count kept beside the slots is the number of occupied slots, though *)
(* evictions, forgets, stores and the migration each keep it by hand.      *)
CountsOccupied == CountExact(table) /\ CountExact(nvs.table)

(* A record call that returned ESP_OK is on flash, and stays there through *)
(* any number of reboots and loads until the next call.                    *)
OkIsDurable ==
  (ret.call = "record" /\ ret.err = "ok")
    => View(nvs.table)[ret.addr] = ret.entry

(* The map the rest of the gateway relies on: what lookups see, or, before *)
(* the load, what the flash holds.  DpProv implements BerthMap under it.   *)
(* Until a load has succeeded the lookups themselves find nothing          *)
(* (dp_prov.c:148): after a failed one the map is kept in flash only.      *)
EffectiveMap == IF loaded THEN View(table) ELSE View(nvs.table)

Abstract == INSTANCE BerthMap
              WITH berths <- EffectiveMap, savedBerths <- View(nvs.table)

ImplementsBerthMap == Abstract!MapSpec

(* Starting up loses no mapping, be the blob of this layout or the older   *)
(* one: "so already-adopted gateways don't lose their unicast->berth       *)
(* mappings" (dp_prov.c:46-47).                                            *)
BootKeepsMappings == [][Load => EffectiveMap' = EffectiveMap]_vars
=============================================================================
