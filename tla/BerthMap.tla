------------------------------- MODULE BerthMap -------------------------------
(***************************************************************************)
(* What components/dp_prov promises to the rest of the gateway: a map from *)
(* unicast addresses to the berth (and backend node id) adopted there, one *)
(* copy in RAM and one in flash.  At most one address holds a berth, and   *)
(* recording a berth under a new address evicts the old one (hot swap).    *)
(* The slot table, its versions and its loading are in DpProv, which       *)
(* implements this specification; Provisioner and Gateway use the map      *)
(* through the operators below.                                            *)
(***************************************************************************)
EXTENDS Addresses, Naturals, FiniteSets

CONSTANTS Berths,       \* berth ids the backend assigns
          NodeIds,      \* backend node ids; may include a value for "none sent"
          NoEntry,      \* an address with no mapping
          MaxRecords    \* DP_PROV_MAX_RECORDS

VARIABLES berths,       \* the map as lookups see it
          savedBerths   \* the map a reboot restores

mapVars == <<berths, savedBerths>>

Entry == [berth : Berths, node : NodeIds]
Maps == [Addrs -> Entry \cup {NoEntry}]
NoMap == [a \in Addrs |-> NoEntry]

MapTypeOK == berths \in Maps /\ savedBerths \in Maps

Mapped(m) == {a \in Addrs : m[a] # NoEntry}

(* The addresses that lose berth e.berth when it is recorded under a.      *)
Evicted(m, a, e) == {x \in Mapped(m) \ {a} : m[x].berth = e.berth}

Bind(m, a, e) ==
  [x \in Addrs |-> IF x = a THEN e
                   ELSE IF x \in Evicted(m, a, e) THEN NoEntry ELSE m[x]]

Unbind(m, a) == [m EXCEPT ![a] = NoEntry]

(* No slot is left for a: it holds none, evicts none, and all are taken.   *)
Full(m, a, e) ==
  /\ m[a] = NoEntry
  /\ Evicted(m, a, e) = {}
  /\ Cardinality(Mapped(m)) = MaxRecords

(* dp_prov_record_node: stored, stored in RAM only because the flash write *)
(* failed, or refused with nothing changed.                                *)
RecordSaved(a, e) ==
  /\ ~Full(berths, a, e)
  /\ berths' = Bind(berths, a, e)
  /\ savedBerths' = berths'

RecordUnsaved(a, e) ==
  /\ ~Full(berths, a, e)
  /\ berths' = Bind(berths, a, e)
  /\ UNCHANGED savedBerths

RecordRefused(a, e) == Full(berths, a, e) /\ UNCHANGED mapVars

(* Mutant: the record is looked for and not cleared.                       *)
ForgetNothing(a) == a \in Addrs /\ UNCHANGED mapVars

(* dp_prov_forget_unicast: an address without a record is not written.     *)
ForgetSaved(a) ==
  /\ berths' = Unbind(berths, a)
  /\ savedBerths' = IF berths[a] = NoEntry THEN savedBerths ELSE berths'

ForgetUnsaved(a) ==
  /\ berths[a] # NoEntry
  /\ berths' = Unbind(berths, a)
  /\ UNCHANGED savedBerths

(* A power cycle, and dp_prov_factory_reset.                               *)
RestoreMap == berths' = savedBerths /\ UNCHANGED savedBerths
WipeMap == berths' = NoMap /\ savedBerths' = NoMap

-----------------------------------------------------------------------------
MapInit == berths \in Maps /\ savedBerths = berths

MapNext ==
  \/ \E a \in Addrs, e \in Entry :
       RecordSaved(a, e) \/ RecordUnsaved(a, e) \/ RecordRefused(a, e)
  \/ \E a \in Addrs : ForgetSaved(a) \/ ForgetUnsaved(a)
  \/ RestoreMap
  \/ WipeMap

MapSpec == MapInit /\ [][MapNext]_mapVars
=============================================================================
