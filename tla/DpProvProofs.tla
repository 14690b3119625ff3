----------------------------- MODULE DpProvProofs -----------------------------
(***************************************************************************)
(* Proofs about DpProv, for any number of slots, addresses and berths:     *)
(* types, one record per address and per berth, the exact count, that what *)
(* was answered ok is on flash, and, as long as no read of the flash       *)
(* fails, that the table implements BerthMap.                              *)
(***************************************************************************)
EXTENDS DpProv, FiniteSetTheorems, FunctionTheorems, WellFoundedInduction, TLAPS

(* A table as the code keeps it.                                           *)
Good(t) == t \in Table /\ UniqueAddr(t) /\ UniqueBerth(t) /\ CountExact(t)

(* The inductive invariant.                                                *)
IInv == TypeOK /\ Good(table) /\ WellFormed(nvs) /\ OkIsDurable

-----------------------------------------------------------------------------
(* Slots, and the first of some of them.                                   *)

LEMMA SlotsFinite == IsFiniteSet(Slots) /\ Cardinality(Slots) = MaxRecords
BY FS_Interval, MaxRecordsAssumption DEF Slots

Below == {pair \in Nat \X Nat : pair[1] < pair[2]}

LEMMA FirstIsOne ==
  ASSUME NEW S \in SUBSET Slots, S # {}
  PROVE  First(S) \in S
<1>1. S \subseteq Nat
  BY DEF Slots
<1>2. IsWellFoundedOn(Below, Nat)
  BY NatLessThanWellFounded, Zenon DEF OpToRel, Below
<1>3. PICK m \in S : \A y \in S : <<y, m>> \notin Below
  BY <1>1, <1>2, WFMin
<1>4. ASSUME NEW y \in S PROVE m <= y
  <2>1. <<y, m>> \in Nat \X Nat /\ ~(y < m)
    BY <1>1, <1>3 DEF Below
  <2> QED
    BY <1>1, <2>1
<1> QED
  BY <1>4 DEF First

LEMMA SlotTypes ==
  ASSUME NEW t \in Table, NEW i \in Slots
  PROVE  /\ t.slots[i] \in Record \cup {EmptySlot}
         /\ i \in Occupied(t) => t.slots[i] \in Record /\ t.slots[i].addr \in Addrs
         /\ i \notin Occupied(t) => t.slots[i] = EmptySlot /\ t.slots[i].addr = NoAddr
BY DEF Table, Record, EmptySlot, Occupied

(* The records of an address are among the occupied slots, at most one.    *)
LEMMA HoldingIsOne ==
  ASSUME NEW t \in Table, UniqueAddr(t), NEW a \in Addrs, NEW i \in Holding(t, a)
  PROVE  Holding(t, a) = {i} /\ i \in Occupied(t) /\ First(Holding(t, a)) = i
<1>1. \A j \in Holding(t, a) : j \in Occupied(t) /\ t.slots[j].addr = a
  BY SlotTypes, NoAddrAssumption DEF Holding
<1>2. Holding(t, a) = {i}
  BY <1>1 DEF UniqueAddr
<1>3. First({i}) = i
  BY FirstIsOne DEF Holding
<1> QED
  BY <1>1, <1>2, <1>3

-----------------------------------------------------------------------------
(* Emptying slots.                                                         *)

LEMMA OccupiedFinite ==
  ASSUME NEW t
  PROVE  IsFiniteSet(Occupied(t)) /\ Cardinality(Occupied(t)) \in Nat
BY SlotsFinite, FS_Subset, FS_CardinalityType DEF Occupied

LEMMA ClearSlots ==
  ASSUME NEW t, NEW S, NEW i \in Slots
  PROVE  Clear(t, S).slots[i] = IF i \in S THEN EmptySlot ELSE t.slots[i]
BY DEF Clear

LEMMA ClearOccupied ==
  ASSUME NEW t, NEW S
  PROVE  Occupied(Clear(t, S)) = Occupied(t) \ S
BY ClearSlots DEF Occupied

LEMMA ClearGood ==
  ASSUME NEW t, Good(t), NEW S \in SUBSET Occupied(t)
  PROVE  Good(Clear(t, S))
<1> DEFINE u == Clear(t, S)
<1>1. /\ t \in Table /\ t.count \in 0 .. MaxRecords
      /\ t.count = Cardinality(Occupied(t)) /\ MaxRecords \in Nat
  BY MaxRecordsAssumption DEF Good, Table, CountExact
<1>2. /\ IsFiniteSet(S) /\ Cardinality(S) \in Nat /\ Cardinality(S) <= t.count
  BY <1>1, OccupiedFinite, FS_Subset, FS_CardinalityType
<1>3. Cardinality(Occupied(t) \ S) = t.count - Cardinality(S)
  <2>1. Occupied(t) \cap S = S
    OBVIOUS
  <2> QED
    BY <1>1, <2>1, OccupiedFinite, FS_Difference
<1>4. u.count = t.count - Cardinality(S) /\ u.count \in 0 .. MaxRecords
  BY <1>1, <1>2 DEF Clear, Less
<1>5. u \in Table
  <2>1. u.slots = [i \in Slots |-> IF i \in S THEN EmptySlot ELSE t.slots[i]]
    BY DEF Clear
  <2>2. u.slots \in [Slots -> Record \cup {EmptySlot}]
    BY <1>1, <2>1 DEF Table
  <2>3. u = [count |-> u.count, slots |-> u.slots]
    BY DEF Clear
  <2> QED
    BY <1>4, <2>2, <2>3 DEF Table
<1>6. CountExact(u)
  BY <1>3, <1>4, ClearOccupied DEF CountExact
<1>7. \A i \in Occupied(u) : i \in Occupied(t) /\ u.slots[i] = t.slots[i]
  BY ClearOccupied, ClearSlots DEF Occupied
<1>8. UniqueAddr(u) /\ UniqueBerth(u)
  BY <1>7 DEF Good, UniqueAddr, UniqueBerth
<1> QED
  BY <1>5, <1>6, <1>8 DEF Good

LEMMA ClearNothing ==
  ASSUME NEW t \in Table
  PROVE  Clear(t, {}) = t
<1>1. Less(t.count, Cardinality({})) = t.count
  BY FS_EmptySet DEF Less, Table
<1>2. [i \in Slots |-> IF i \in {} THEN EmptySlot ELSE t.slots[i]] = t.slots
  BY DEF Table
<1> QED
  BY <1>1, <1>2 DEF Clear, Table

(* What a hot swap evicts are records, and the slots of a are not among    *)
(* them.                                                                   *)
LEMMA StaleAre ==
  ASSUME NEW t \in Table, NEW a, NEW b
  PROVE  /\ Stale(t, a, b) \subseteq Occupied(t)
         /\ \A i \in Slots : i \in Stale(t, a, b) <=>
              i \in Occupied(t) /\ t.slots[i].addr # a /\ t.slots[i].berth = b
BY SlotTypes, NoAddrAssumption DEF Stale

-----------------------------------------------------------------------------
(* Storing a record.                                                       *)

LEMMA EmptySlots ==
  ASSUME NEW t \in Table
  PROVE  Holding(t, NoAddr) = Slots \ Occupied(t)
BY SlotTypes, NoAddrAssumption DEF Holding, Occupied

(* The slot a record goes to: its address's, or an empty one.              *)
LEMMA StorePlace ==
  ASSUME NEW t, Good(t), NEW r \in Record, Candidates(t, r.addr) # {}
  PROVE  LET i == First(Candidates(t, r.addr))
         IN /\ i \in Slots
            /\ \/ i \in Occupied(t) /\ Holding(t, r.addr) = {i} /\ t.slots[i].addr = r.addr
               \/ i \notin Occupied(t) /\ Holding(t, r.addr) = {}
<1> DEFINE i == First(Candidates(t, r.addr))
<1>1. t \in Table /\ UniqueAddr(t) /\ r.addr \in Addrs
  BY DEF Good, Record
<1>2. Candidates(t, r.addr) \subseteq Slots
  BY DEF Candidates, Holding
<1>3. i \in Candidates(t, r.addr)
  BY <1>2, FirstIsOne
<1>4. CASE Holding(t, r.addr) # {}
  <2>1. i \in Holding(t, r.addr)
    BY <1>3, <1>4 DEF Candidates
  <2> HIDE DEF i
  <2>2. Holding(t, r.addr) = {i} /\ i \in Occupied(t)
    BY <1>1, <2>1, HoldingIsOne
  <2>3. i \in Slots /\ t.slots[i].addr = r.addr
    BY <2>1 DEF Holding
  <2> QED
    BY <2>2, <2>3 DEF i
<1>5. CASE Holding(t, r.addr) = {}
  <2>1. i \in Slots \ Occupied(t)
    BY <1>1, <1>3, <1>5, EmptySlots DEF Candidates
  <2> QED
    BY <1>5, <2>1
<1> QED
  BY <1>4, <1>5

LEMMA StoreGood ==
  ASSUME NEW t, Good(t), NEW r \in Record, Candidates(t, r.addr) # {},
         Stale(t, r.addr, r.berth) = {}
  PROVE  Good(Store(t, r))
<1> DEFINE i == First(Candidates(t, r.addr))
           u == Store(t, r)
<1>1. /\ t \in Table /\ t.count = Cardinality(Occupied(t)) /\ MaxRecords \in Nat
      /\ t.slots \in [Slots -> Record \cup {EmptySlot}] /\ r # EmptySlot
  BY MaxRecordsAssumption, NoAddrAssumption DEF Good, Table, CountExact, Record, EmptySlot
<1>2. /\ i \in Slots
      /\ \/ i \in Occupied(t) /\ Holding(t, r.addr) = {i} /\ t.slots[i].addr = r.addr
         \/ i \notin Occupied(t) /\ Holding(t, r.addr) = {}
  BY StorePlace
<1>3. /\ u.slots = [t.slots EXCEPT ![i] = r]
      /\ u.count = IF Holding(t, r.addr) = {} THEN t.count + 1 ELSE t.count
      /\ u = [count |-> u.count, slots |-> u.slots]
  BY DEF Store
<1> HIDE DEF i, u
<1>4. Occupied(u) = Occupied(t) \cup {i}
  BY <1>1, <1>2, <1>3 DEF Occupied
<1>5. u.count = Cardinality(Occupied(u))
  <2>1. Cardinality(Occupied(u)) =
          IF i \in Occupied(t) THEN Cardinality(Occupied(t)) ELSE Cardinality(Occupied(t)) + 1
    BY <1>4, OccupiedFinite, FS_AddElement, Zenon
  <2>2. i \in Occupied(t) <=> Holding(t, r.addr) # {}
    BY ONLY <1>2
  <2> QED
    BY ONLY <1>1, <1>3, <2>1, <2>2
<1>6. u.count \in 0 .. MaxRecords
  <2>1. Occupied(u) \in SUBSET Slots
    BY DEF Occupied
  <2>2. Cardinality(Occupied(u)) <= MaxRecords
    BY <2>1, SlotsFinite, FS_Subset
  <2> QED
    BY <1>1, <1>5, <2>2, OccupiedFinite
<1>7. u \in Table
  <2>1. u.slots \in [Slots -> Record \cup {EmptySlot}]
    BY <1>1, <1>3
  <2> QED
    BY <1>3, <1>6, <2>1 DEF Table
<1>8. /\ u.slots[i] = r
      /\ \A j \in Occupied(u) \ {i} : /\ j \in Occupied(t) /\ u.slots[j] = t.slots[j]
                                     /\ t.slots[j].addr # r.addr
                                     /\ t.slots[j].berth # r.berth
  <2>1. u.slots[i] = r
    BY <1>1, <1>2, <1>3
  <2>2. ASSUME NEW j \in Occupied(u) \ {i}
        PROVE  /\ j \in Occupied(t) /\ u.slots[j] = t.slots[j]
               /\ t.slots[j].addr # r.addr /\ t.slots[j].berth # r.berth
    <3>1. j \in Occupied(t) /\ j \in Slots /\ u.slots[j] = t.slots[j]
      BY <1>1, <1>3, <1>4 DEF Occupied
    <3>2. t.slots[j].addr # r.addr
      BY <1>2, <3>1 DEF Holding
    <3>3. t.slots[j].berth # r.berth
      BY <1>1, <3>1, <3>2, StaleAre
    <3> QED
      BY <3>1, <3>2, <3>3
  <2> QED
    BY <2>1, <2>2
<1>9. UniqueAddr(u) /\ UniqueBerth(u)
  BY <1>8 DEF Good, UniqueAddr, UniqueBerth
<1> QED
  BY <1>5, <1>7, <1>9 DEF Good, CountExact, u

-----------------------------------------------------------------------------
(* The map a table stands for.                                             *)

LEMMA ViewAt ==
  ASSUME NEW t \in Table, UniqueAddr(t), NEW i \in Occupied(t)
  PROVE  View(t)[t.slots[i].addr] = [berth |-> t.slots[i].berth, node |-> t.slots[i].node]
<1> DEFINE a == t.slots[i].addr
<1>1. i \in Slots /\ a \in Addrs
  BY SlotTypes DEF Occupied
<1>2. i \in Holding(t, a)
  BY <1>1 DEF Holding
<1>3. Holding(t, a) # {} /\ First(Holding(t, a)) = i
  BY <1>1, <1>2, HoldingIsOne
<1> QED
  BY <1>1, <1>3 DEF View

LEMMA ViewOff ==
  ASSUME NEW t \in Table, NEW a \in Addrs,
         \A i \in Occupied(t) : t.slots[i].addr # a
  PROVE  View(t)[a] = NoEntry
<1>1. Holding(t, a) = {}
  BY SlotTypes, NoAddrAssumption DEF Holding
<1> QED
  BY <1>1 DEF View

LEMMA ViewTypes ==
  ASSUME NEW t \in Table, UniqueAddr(t)
  PROVE  /\ View(t) \in [Addrs -> Entry \cup {NoEntry}]
         /\ \A a \in Addrs : View(t)[a] # NoEntry <=>
              \E i \in Occupied(t) : t.slots[i].addr = a
<1>1. ASSUME NEW i \in Occupied(t)
      PROVE  View(t)[t.slots[i].addr] \in Entry
  <2>1. t.slots[i] \in Record
    BY SlotTypes DEF Occupied
  <2>2. t.slots[i].berth \in Berths /\ t.slots[i].node \in NodeIds
    BY <2>1 DEF Record
  <2>3. View(t)[t.slots[i].addr] = [berth |-> t.slots[i].berth, node |-> t.slots[i].node]
    BY ViewAt
  <2> QED
    BY <2>2, <2>3 DEF Entry
<1>2. ASSUME NEW a \in Addrs
      PROVE  /\ View(t)[a] \in Entry \cup {NoEntry}
             /\ View(t)[a] # NoEntry <=> \E i \in Occupied(t) : t.slots[i].addr = a
  BY <1>1, ViewOff, NoEntryAssumption DEF Entry
<1>3. View(t) = [a \in Addrs |-> View(t)[a]]
  BY DEF View
<1> QED
  BY <1>2, <1>3

(* A table whose records are those of another, less some, stands for its   *)
(* map, less those.                                                        *)
LEMMA ViewSub ==
  ASSUME NEW t, NEW u, Good(t), Good(u),
         \A i \in Occupied(u) : i \in Occupied(t) /\ u.slots[i] = t.slots[i]
  PROVE  \A a \in Addrs : View(u)[a] =
           IF \E i \in Occupied(u) : u.slots[i].addr = a THEN View(t)[a] ELSE NoEntry
<1> USE DEF Good
<1>1. ASSUME NEW i \in Occupied(u)
      PROVE  View(u)[u.slots[i].addr] = View(t)[u.slots[i].addr]
  <2>1. /\ View(u)[u.slots[i].addr] = [berth |-> u.slots[i].berth, node |-> u.slots[i].node]
        /\ View(t)[t.slots[i].addr] = [berth |-> t.slots[i].berth, node |-> t.slots[i].node]
    BY ViewAt
  <2> QED
    BY <2>1
<1> QED
  BY <1>1, ViewOff

LEMMA ZeroGood ==
  /\ Good(ZeroTable) /\ Occupied(ZeroTable) = {}
  /\ \A a \in Addrs : View(ZeroTable)[a] = NoEntry
<1>1. ZeroTable \in Table
  BY MaxRecordsAssumption DEF ZeroTable, Table
<1>2. Occupied(ZeroTable) = {}
  BY DEF ZeroTable, Occupied
<1> QED
  BY <1>1, <1>2, FS_EmptySet, ViewOff
  DEF Good, UniqueAddr, UniqueBerth, CountExact, ZeroTable

(* As many addresses are mapped as slots are occupied.                     *)
LEMMA MappedCount ==
  ASSUME NEW t, Good(t)
  PROVE  Cardinality({a \in Addrs : View(t)[a] # NoEntry}) = t.count
<1> DEFINE S == Occupied(t)
           M == {a \in Addrs : View(t)[a] # NoEntry}
           f == [i \in S |-> t.slots[i].addr]
<1>1. t \in Table /\ UniqueAddr(t) /\ t.count = Cardinality(S)
  BY DEF Good, CountExact
<1>2. f \in [S -> M]
  BY <1>1, ViewTypes, SlotTypes DEF Occupied
<1>3. \A i, j \in S : f[i] = f[j] => i = j
  BY <1>1 DEF UniqueAddr
<1>4. \A a \in M : \E i \in S : f[i] = a
  BY <1>1, ViewTypes
<1>5. ExistsBijection(S, M)
  <2>1. f \in Bijection(S, M)
    BY <1>2, <1>3, <1>4, Fun_IsBij
  <2> QED
    BY <2>1 DEF ExistsBijection
<1> QED
  BY <1>1, <1>5, OccupiedFinite, FS_Bijection

-----------------------------------------------------------------------------
(* What recording and forgetting do to the map.                            *)

RecordOf(a, e) == [addr |-> a, berth |-> e.berth, node |-> e.node]
Swapped(t, a, e) == Clear(t, Stale(t, a, e.berth))

LEMMA SwappedGood ==
  ASSUME NEW t, Good(t), NEW a \in Addrs, NEW e \in Entry
  PROVE  /\ Good(Swapped(t, a, e)) /\ RecordOf(a, e) \in Record
         /\ Stale(Swapped(t, a, e), a, e.berth) = {}
         /\ \A i \in Slots : i \in Occupied(Swapped(t, a, e)) <=>
              /\ i \in Occupied(t)
              /\ t.slots[i].addr = a \/ t.slots[i].berth # e.berth
         /\ \A i \in Occupied(Swapped(t, a, e)) : Swapped(t, a, e).slots[i] = t.slots[i]
<1> DEFINE S == Stale(t, a, e.berth)
           u == Swapped(t, a, e)
<1>1. t \in Table /\ S \subseteq Occupied(t)
  BY StaleAre DEF Good
<1>2. Good(u)
  BY <1>1, ClearGood DEF Swapped
<1>3. Occupied(u) = Occupied(t) \ S
  BY ClearOccupied DEF Swapped
<1>4. \A i \in Occupied(u) : u.slots[i] = t.slots[i]
  BY <1>3, ClearSlots DEF Swapped, Occupied
<1> HIDE DEF u
<1>5. \A i \in Slots : i \in Occupied(u) <=>
        /\ i \in Occupied(t)
        /\ t.slots[i].addr = a \/ t.slots[i].berth # e.berth
  BY <1>1, <1>3, StaleAre
<1>6. Stale(u, a, e.berth) = {}
  <2>1. u \in Table
    BY <1>2 DEF Good
  <2> QED
    BY <1>4, <1>5, <2>1, StaleAre DEF Stale
<1>7. RecordOf(a, e) \in Record
  BY DEF RecordOf, Record, Entry
<1> QED
  BY <1>2, <1>4, <1>5, <1>6, <1>7 DEF u

LEMMA RecordBinds ==
  ASSUME NEW t, Good(t), NEW a \in Addrs, NEW e \in Entry,
         Candidates(Swapped(t, a, e), a) # {}
  PROVE  LET u == Store(Swapped(t, a, e), RecordOf(a, e))
         IN Good(u) /\ View(u) = Abstract!Bind(View(t), a, e) /\ View(u)[a] = e
<1> DEFINE s == Swapped(t, a, e)
           r == RecordOf(a, e)
           u == Store(s, r)
           i == First(Candidates(s, r.addr))
<1>1. /\ Good(s) /\ r \in Record /\ Stale(s, a, e.berth) = {}
      /\ \A j \in Slots : j \in Occupied(s) <=>
           j \in Occupied(t) /\ (t.slots[j].addr = a \/ t.slots[j].berth # e.berth)
      /\ \A j \in Occupied(s) : s.slots[j] = t.slots[j]
      /\ r.addr = a /\ r.berth = e.berth /\ r.node = e.node
  BY SwappedGood DEF RecordOf
<1> HIDE DEF s, r
<1>2. Good(u)
  BY <1>1, StoreGood DEF s
<1>3. /\ i \in Slots
      /\ \/ i \in Occupied(s) /\ Holding(s, a) = {i} /\ s.slots[i].addr = a
         \/ i \notin Occupied(s) /\ Holding(s, a) = {}
  BY <1>1, StorePlace DEF s
<1>4. u.slots = [s.slots EXCEPT ![i] = r] /\ s.slots \in [Slots -> Record \cup {EmptySlot}]
  BY <1>1 DEF Store, Good, Table
<1>5. r # EmptySlot
  BY <1>1, NoAddrAssumption DEF Record, EmptySlot
<1> HIDE DEF u, i
<1>6. /\ i \in Occupied(u) /\ u.slots[i] = r
      /\ \A j \in Slots \ {i} : j \in Occupied(u) <=> j \in Occupied(s)
      /\ \A j \in Slots \ {i} : u.slots[j] = s.slots[j]
  BY <1>3, <1>4, <1>5 DEF Occupied
<1>7. View(u)[a] = e
  <2>1. View(u)[a] = [berth |-> e.berth, node |-> e.node]
    BY <1>1, <1>2, <1>6, ViewAt DEF Good
  <2> QED
    BY <2>1 DEF Entry
<1>8. ASSUME NEW x \in Addrs, x # a
      PROVE  View(u)[x] = Abstract!Bind(View(t), a, e)[x]
  <2>1. t \in Table /\ UniqueAddr(t) /\ u \in Table /\ UniqueAddr(u)
    BY <1>2 DEF Good
  <2>2. CASE \E j \in Occupied(t) : t.slots[j].addr = x
    <3>1. PICK j \in Occupied(t) : t.slots[j].addr = x
      BY <2>2
    <3>2. /\ j \in Slots /\ View(t)[x] # NoEntry /\ View(t)[x].berth = t.slots[j].berth
          /\ View(t)[x] = [berth |-> t.slots[j].berth, node |-> t.slots[j].node]
      BY <2>1, <3>1, ViewAt, ViewTypes DEF Occupied
    <3>3. CASE t.slots[j].berth = e.berth
      <4>1. \A k \in Occupied(u) : u.slots[k].addr # x
        BY <1>1, <1>6, <1>8, <2>1, <3>1, <3>2, <3>3 DEF Occupied, UniqueAddr
      <4> QED
        BY <1>8, <2>1, <3>2, <3>3, <4>1, ViewOff
        DEF Abstract!Bind, Abstract!Evicted, Abstract!Mapped
    <3>4. CASE t.slots[j].berth # e.berth
      <4>1. j \in Occupied(s) /\ s.slots[j] = t.slots[j]
        BY <1>1, <3>1, <3>2, <3>4
      <4>2. j # i
        BY <1>3, <1>8, <3>1, <4>1
      <4>3. j \in Occupied(u) /\ u.slots[j] = t.slots[j]
        BY <1>6, <3>2, <4>1, <4>2
      <4>4. View(u)[x] = View(t)[x]
        BY <2>1, <3>1, <3>2, <4>3, ViewAt
      <4> QED
        BY <1>8, <3>2, <3>4, <4>4 DEF Abstract!Bind, Abstract!Evicted, Abstract!Mapped
    <3> QED
      BY <3>3, <3>4
  <2>3. CASE \A j \in Occupied(t) : t.slots[j].addr # x
    <3>1. \A k \in Occupied(u) : u.slots[k].addr # x
      BY <1>1, <1>6, <1>8, <2>3 DEF Occupied
    <3>2. View(t)[x] = NoEntry /\ View(u)[x] = NoEntry
      BY <2>1, <2>3, <3>1, ViewOff
    <3> QED
      BY <1>8, <3>2 DEF Abstract!Bind, Abstract!Evicted, Abstract!Mapped
  <2> QED
    BY <2>2, <2>3
<1>9. View(u) = Abstract!Bind(View(t), a, e)
  <2>1. Abstract!Bind(View(t), a, e)[a] = e
    BY DEF Abstract!Bind
  <2>2. \A x \in Addrs : View(u)[x] = Abstract!Bind(View(t), a, e)[x]
    BY <1>7, <1>8, <2>1
  <2>3. View(u) = [x \in Addrs |-> View(u)[x]]
    BY DEF View
  <2>4. Abstract!Bind(View(t), a, e) = [x \in Addrs |-> Abstract!Bind(View(t), a, e)[x]]
    BY DEF Abstract!Bind
  <2> QED
    BY <2>2, <2>3, <2>4
<1> QED
  BY <1>2, <1>7, <1>9 DEF u, s, r

(* A mapped address that records the berth is a slot the swap evicts.      *)
LEMMA EvictedAre ==
  ASSUME NEW t, Good(t), NEW a \in Addrs, NEW e \in Entry
  PROVE  Abstract!Evicted(View(t), a, e) = {} <=> Stale(t, a, e.berth) = {}
<1>1. t \in Table /\ UniqueAddr(t)
  BY DEF Good
<1>2. ASSUME NEW i \in Stale(t, a, e.berth)
      PROVE  t.slots[i].addr \in Abstract!Evicted(View(t), a, e)
  <2>1. i \in Slots /\ i \in Occupied(t) /\ t.slots[i].addr # a /\ t.slots[i].berth = e.berth
    BY <1>1, <1>2, StaleAre DEF Stale
  <2>2. t.slots[i].addr \in Addrs
    BY <1>1, <2>1, SlotTypes
  <2>3. /\ View(t)[t.slots[i].addr] # NoEntry
        /\ View(t)[t.slots[i].addr].berth = e.berth
    <3>1. View(t)[t.slots[i].addr] = [berth |-> t.slots[i].berth, node |-> t.slots[i].node]
      BY <1>1, <2>1, ViewAt
    <3> QED
      BY <1>1, <2>1, <2>2, <3>1, ViewTypes
  <2> QED
    BY <2>1, <2>2, <2>3 DEF Abstract!Evicted, Abstract!Mapped
<1>3. ASSUME NEW x \in Abstract!Evicted(View(t), a, e)
      PROVE  Stale(t, a, e.berth) # {}
  <2>1. x \in Addrs /\ x # a /\ View(t)[x] # NoEntry /\ View(t)[x].berth = e.berth
    BY <1>3 DEF Abstract!Evicted, Abstract!Mapped
  <2>2. PICK i \in Occupied(t) : t.slots[i].addr = x
    BY <1>1, <2>1, ViewTypes
  <2>3. View(t)[x] = [berth |-> t.slots[i].berth, node |-> t.slots[i].node]
    BY <1>1, <2>2, ViewAt
  <2>4. i \in Slots /\ t.slots[i].berth = e.berth
    BY <2>1, <2>3 DEF Occupied
  <2> QED
    BY <1>1, <2>1, <2>2, <2>4, StaleAre
<1> QED
  BY <1>2, <1>3

LEMMA SameCardinality == \A S : Abstract!Cardinality(S) = Cardinality(S)
BY Zenon DEF Abstract!Cardinality, Cardinality

LEMMA FullSlots ==
  ASSUME NEW t, Good(t)
  PROVE  Cardinality(Abstract!Mapped(View(t))) = MaxRecords <=> Occupied(t) = Slots
<1>1. Cardinality(Abstract!Mapped(View(t))) = Cardinality(Occupied(t))
  BY MappedCount DEF Abstract!Mapped, Good, CountExact
<1>2. Occupied(t) \in SUBSET Slots
  BY DEF Occupied
<1> QED
  BY <1>1, <1>2, SlotsFinite, FS_Subset

LEMMA RefusedIsFull ==
  ASSUME NEW t, Good(t), NEW a \in Addrs, NEW e \in Entry
  PROVE  /\ Candidates(Swapped(t, a, e), a) = {} <=> Abstract!Full(View(t), a, e)
         /\ Candidates(Swapped(t, a, e), a) = {} => Swapped(t, a, e) = t
<1> DEFINE s == Swapped(t, a, e)
<1>1. t \in Table /\ s \in Table /\ UniqueAddr(t)
  BY SwappedGood DEF Good
<1>2. ASSUME Candidates(s, a) = {}
      PROVE  Stale(t, a, e.berth) = {} /\ Occupied(t) = Slots
  <2>1. Holding(s, NoAddr) = {}
    BY <1>2 DEF Candidates
  <2>2. Slots \subseteq Occupied(s)
    BY <1>1, <2>1, EmptySlots
  <2>3. Occupied(s) = Occupied(t) \ Stale(t, a, e.berth) /\ Stale(t, a, e.berth) \subseteq Slots
    BY ClearOccupied DEF Swapped, Stale
  <2> QED
    BY <2>2, <2>3 DEF Occupied
<1>3. Stale(t, a, e.berth) = {} => s = t
  BY <1>1, ClearNothing DEF Swapped
<1>4. (Holding(t, a) = {}) <=> View(t)[a] = NoEntry
  <2>1. \A i \in Slots : i \in Holding(t, a) <=> i \in Occupied(t) /\ t.slots[i].addr = a
    BY <1>1, SlotTypes, NoAddrAssumption DEF Holding
  <2>2. Holding(t, a) \subseteq Slots /\ Occupied(t) \subseteq Slots
    BY DEF Holding, Occupied
  <2> QED
    BY <1>1, <2>1, <2>2, ViewTypes
<1>5. (Holding(t, NoAddr) = {}) <=> Occupied(t) = Slots
  BY <1>1, EmptySlots DEF Occupied
<1>6. Abstract!Full(View(t), a, e) <=>
        View(t)[a] = NoEntry /\ Stale(t, a, e.berth) = {} /\ Occupied(t) = Slots
  BY EvictedAre, FullSlots, SameCardinality DEF Abstract!Full
<1> HIDE DEF s
<1>7. Candidates(s, a) = {} => s = t /\ Abstract!Full(View(t), a, e)
  BY <1>2, <1>3, <1>4, <1>6 DEF Candidates
<1>8. Abstract!Full(View(t), a, e) => Candidates(s, a) = {}
  BY <1>3, <1>4, <1>5, <1>6 DEF Candidates
<1> QED
  BY <1>7, <1>8 DEF s

LEMMA ForgetUnbinds ==
  ASSUME NEW t, Good(t), NEW a \in Addrs
  PROVE  /\ Holding(t, a) = {} => Abstract!Unbind(View(t), a) = View(t) /\ View(t)[a] = NoEntry
         /\ Holding(t, a) # {} =>
              LET u == Clear(t, {First(Holding(t, a))})
              IN /\ Good(u) /\ View(u) = Abstract!Unbind(View(t), a)
                 /\ View(t)[a] # NoEntry
<1>1. t \in Table /\ UniqueAddr(t) /\ View(t) \in [Addrs -> Entry \cup {NoEntry}]
  BY ViewTypes DEF Good
<1>2. CASE Holding(t, a) = {}
  BY <1>1, <1>2 DEF Abstract!Unbind, View
<1>3. ASSUME NEW i \in Holding(t, a)
      PROVE  LET u == Clear(t, {First(Holding(t, a))})
             IN /\ Good(u) /\ View(u) = Abstract!Unbind(View(t), a)
                /\ View(t)[a] # NoEntry
  <2> DEFINE u == Clear(t, {i})
  <2>1. i \in Occupied(t) /\ First(Holding(t, a)) = i /\ t.slots[i].addr = a
    BY <1>1, <1>3, HoldingIsOne DEF Holding
  <2>2. Good(u)
    BY <2>1, ClearGood
  <2>3. Occupied(u) = Occupied(t) \ {i}
    BY ClearOccupied
  <2>4. \A j \in Occupied(u) : u.slots[j] = t.slots[j]
    BY <2>3, ClearSlots DEF Occupied
  <2> HIDE DEF u
  <2>5. ASSUME NEW x \in Addrs
        PROVE  View(u)[x] = IF x = a THEN NoEntry ELSE View(t)[x]
    <3>1. (\E j \in Occupied(u) : u.slots[j].addr = x) <=>
            x # a /\ \E j \in Occupied(t) : t.slots[j].addr = x
      BY <1>1, <2>1, <2>3, <2>4 DEF UniqueAddr
    <3>2. View(u)[x] = IF \E j \in Occupied(u) : u.slots[j].addr = x THEN View(t)[x] ELSE NoEntry
      BY <2>2, <2>3, <2>4, ViewSub
    <3> QED
      BY <1>1, <3>1, <3>2, ViewTypes
  <2>6. View(u) = Abstract!Unbind(View(t), a)
    <3>1. View(u) = [x \in Addrs |-> View(u)[x]]
      BY DEF View
    <3> QED
      BY <1>1, <2>5, <3>1 DEF Abstract!Unbind
  <2>7. View(t)[a] # NoEntry
    BY <1>1, <2>1, ViewTypes
  <2> QED
    BY <2>1, <2>2, <2>6, <2>7 DEF u
<1> QED
  BY <1>2, <1>3

-----------------------------------------------------------------------------
(* The flash: saving, and loading from it.                                 *)

GoodBlob(n) == n \in [layout : Layouts, table : Table] /\ WellFormed(n)

LEMMA BlobTable ==
  ASSUME NEW n, GoodBlob(n)
  PROVE  /\ Good(n.table)
         /\ n.layout \notin {"v1", "v2"} => n.table = ZeroTable
         /\ n.layout = "v1" => Migrated(n.table) = n.table
<1>1. /\ n.table \in Table /\ Good(n.table) /\ n.layout \in Layouts
      /\ n.layout \in {"absent", "other"} => n.table = ZeroTable
      /\ n.layout = "v1" => \A i \in Slots : n.table.slots[i].node = NoNode
  BY DEF GoodBlob, WellFormed, Good
<1>2. ASSUME n.layout = "v1" PROVE Migrated(n.table) = n.table
  <2>1. ASSUME NEW i \in Slots
        PROVE  [n.table.slots[i] EXCEPT !.node = NoNode] = n.table.slots[i]
    <3>1. n.table.slots[i] \in Record \cup {EmptySlot} /\ n.table.slots[i].node = NoNode
      BY <1>1, <1>2, SlotTypes
    <3> QED
      BY <3>1 DEF Record, EmptySlot
  <2>2. [i \in Slots |-> [n.table.slots[i] EXCEPT !.node = NoNode]] = n.table.slots
    BY <1>1, <2>1 DEF Table
  <2> QED
    BY <1>1, <2>2 DEF Migrated, Table
<1> QED
  BY <1>1, <1>2 DEF Layouts

LEMMA SavedBlob ==
  ASSUME NEW old, GoodBlob(old), NEW t, Good(t), NEW s \in Saves(old, t)
  PROVE  /\ GoodBlob(s.nvs) /\ s.err \in Codes
         /\ (s.nvs = [layout |-> "v2", table |-> t]) \/ (s.nvs = old /\ s.err # "ok")
<1>1. GoodBlob([layout |-> "v2", table |-> t])
  BY DEF GoodBlob, WellFormed, Good, Layouts
<1> QED
  BY <1>1 DEF Saves, Codes

LEMMA SavedTable ==
  ASSUME NEW old, NEW t, NEW s \in Saves(old, t), s.err = "ok"
  PROVE  s.nvs.table = t
BY DEF Saves

(* A load keeps what the flash stands for, and finds that map, unless a    *)
(* read fails.                                                             *)
LEMMA LoadKeeps ==
  ASSUME GoodBlob(nvs), Good(table), NEW l \in Loads
  PROVE  /\ Good(l.table) /\ GoodBlob(l.nvs) /\ l.ok \in BOOLEAN
         /\ l.nvs.table = nvs.table
         /\ ~l.ok => l.table = table /\ l.nvs = nvs
         /\ l.ok /\ "read" \notin Faults => l.table = nvs.table
<1>1. /\ Good(nvs.table)
      /\ nvs.layout \notin {"v1", "v2"} => nvs.table = ZeroTable
      /\ nvs.layout = "v1" => Migrated(nvs.table) = nvs.table
  BY BlobTable
<1>2. CASE l = LoadResult(ZeroTable, nvs, TRUE) /\ "read" \in Faults
  BY <1>2, ZeroGood DEF LoadResult
<1>3. CASE l = LoadResult(table, nvs, FALSE)
  BY <1>3 DEF LoadResult
<1>4. CASE nvs.layout = "v2" /\ l = LoadResult(nvs.table, nvs, TRUE)
  BY <1>1, <1>4 DEF LoadResult
<1>5. CASE nvs.layout = "v1" /\ \E s \in Saves(nvs, Migrated(nvs.table)) :
             l = LoadResult(Migrated(nvs.table), s.nvs, TRUE)
  <2>1. PICK s \in Saves(nvs, nvs.table) : l = LoadResult(nvs.table, s.nvs, TRUE)
    BY <1>1, <1>5
  <2>2. GoodBlob(s.nvs) /\ s.nvs.table = nvs.table
    <3>1. /\ GoodBlob(s.nvs)
          /\ (s.nvs = [layout |-> "v2", table |-> nvs.table]) \/ (s.nvs = nvs)
      BY <1>1, <2>1, SavedBlob
    <3> QED
      BY <3>1
  <2> QED
    BY <1>1, <2>1, <2>2 DEF LoadResult
<1>6. CASE nvs.layout \notin {"v1", "v2"} /\ l = LoadResult(ZeroTable, nvs, TRUE)
  BY <1>1, <1>6, ZeroGood DEF LoadResult
<1> QED
  BY <1>2, <1>3, <1>4, <1>5, <1>6 DEF Loads

LEMMA ReadyKeeps ==
  ASSUME GoodBlob(nvs), Good(table), loaded \in BOOLEAN, NEW l \in Ready
  PROVE  /\ Good(l.table) /\ GoodBlob(l.nvs) /\ l.ok \in BOOLEAN
         /\ l.nvs.table = nvs.table
         /\ ~l.ok => l.table = table /\ l.nvs = nvs /\ ~loaded
         /\ l.ok /\ "read" \notin Faults => View(l.table) = EffectiveMap
<1>1. CASE loaded
  <2>1. l = [table |-> table, nvs |-> nvs, ok |-> TRUE]
    BY <1>1 DEF Ready, LoadResult
  <2>2. l.table = table /\ l.nvs = nvs /\ l.ok = TRUE
    BY <2>1
  <2> QED
    BY <1>1, <2>2 DEF EffectiveMap
<1>2. CASE ~loaded
  BY <1>2, LoadKeeps DEF Ready, EffectiveMap
<1> QED
  BY <1>1, <1>2

-----------------------------------------------------------------------------
(* The invariant.                                                          *)

RetTypeOK == ret \in [call : {"none", "record", "forget"}, addr : Addrs \cup {NoAddr},
                      entry : Entry \cup {NoEntry}, err : Codes]

LEMMA IInvParts ==
  IInv <=> /\ Good(table) /\ GoodBlob(nvs) /\ loaded \in BOOLEAN /\ RetTypeOK /\ OkIsDurable
BY DEF IInv, TypeOK, Good, GoodBlob, RetTypeOK

LEMMA IInvPartsNext ==
  IInv' <=> /\ Good(table') /\ GoodBlob(nvs') /\ loaded' \in BOOLEAN /\ RetTypeOK'
            /\ OkIsDurable'
BY DEF IInv, TypeOK, Good, GoodBlob, RetTypeOK

(* A step that leaves the flash's map and the last answer alone.           *)
LEMMA DurableKept ==
  ASSUME OkIsDurable, ret' = ret, nvs'.table = nvs.table
  PROVE  OkIsDurable'
BY DEF OkIsDurable

LEMMA LoadStep ==
  ASSUME IInv, Load
  PROVE  IInv'
<1>1. PICK l \in Loads : table' = l.table /\ nvs' = l.nvs /\ loaded' = l.ok
  BY DEF Load
<1>2. /\ Good(l.table) /\ GoodBlob(l.nvs) /\ l.ok \in BOOLEAN
      /\ l.nvs.table = nvs.table /\ ret' = ret
  BY LoadKeeps, IInvParts DEF Load
<1>3. RetTypeOK' /\ OkIsDurable'
  BY <1>1, <1>2, IInvParts, DurableKept DEF RetTypeOK
<1> QED
  BY <1>1, <1>2, <1>3, IInvPartsNext

(* The three outcomes of a record call.                                    *)
RecordReturns(a, e, err) ==
  ret' = [call |-> "record", addr |-> a, entry |-> e, err |-> err]

RecordOutcome(l, a, e) ==
  \/ /\ ~l.ok /\ RecordReturns(a, e, "load") /\ UNCHANGED <<table, nvs>>
  \/ /\ l.ok /\ Candidates(Swapped(l.table, a, e), a) = {}
     /\ RecordReturns(a, e, "no-mem")
     /\ table' = Swapped(l.table, a, e) /\ nvs' = l.nvs
  \/ /\ l.ok /\ Candidates(Swapped(l.table, a, e), a) # {}
     /\ table' = Store(Swapped(l.table, a, e), RecordOf(a, e))
     /\ \E s \in Saves(l.nvs, table') : nvs' = s.nvs /\ RecordReturns(a, e, s.err)

LEMMA RecordCases ==
  ASSUME NEW a \in Addrs, NEW e \in Entry, RecordNode(a, e)
  PROVE  \E l \in Ready : loaded' = l.ok /\ RecordOutcome(l, a, e)
BY DEF RecordNode, RecordOutcome, RecordReturns, Swapped, RecordOf

LEMMA RecordRetTypes ==
  ASSUME NEW a \in Addrs, NEW e \in Entry, NEW err \in Codes, RecordReturns(a, e, err)
  PROVE  RetTypeOK'
BY DEF RecordReturns, RetTypeOK

LEMMA RecordStep ==
  ASSUME IInv, NEW a \in Addrs, NEW e \in Entry, RecordNode(a, e)
  PROVE  IInv'
<1>1. PICK l \in Ready : loaded' = l.ok /\ RecordOutcome(l, a, e)
  BY RecordCases
<1>2. /\ Good(l.table) /\ GoodBlob(l.nvs) /\ l.ok \in BOOLEAN
      /\ ~l.ok => l.table = table /\ l.nvs = nvs
  BY ReadyKeeps, IInvParts
<1>3. CASE ~l.ok /\ RecordReturns(a, e, "load") /\ UNCHANGED <<table, nvs>>
  <2>1. RetTypeOK'
    BY <1>3, RecordRetTypes DEF Codes
  <2>2. OkIsDurable'
    BY <1>3 DEF RecordReturns, OkIsDurable
  <2> QED
    BY <1>1, <1>2, <1>3, <2>1, <2>2, IInvPartsNext
<1>4. CASE /\ l.ok /\ RecordReturns(a, e, "no-mem")
           /\ table' = Swapped(l.table, a, e) /\ nvs' = l.nvs
  <2>1. RetTypeOK'
    BY <1>4, RecordRetTypes DEF Codes
  <2>2. OkIsDurable'
    BY <1>4 DEF RecordReturns, OkIsDurable
  <2>3. Good(table')
    BY <1>2, <1>4, SwappedGood
  <2> QED
    BY <1>1, <1>2, <1>4, <2>1, <2>2, <2>3, IInvPartsNext
<1>5. ASSUME l.ok, Candidates(Swapped(l.table, a, e), a) # {},
             table' = Store(Swapped(l.table, a, e), RecordOf(a, e)),
             NEW s \in Saves(l.nvs, table'), nvs' = s.nvs, RecordReturns(a, e, s.err)
      PROVE  IInv'
  <2>1. Good(table') /\ View(table')[a] = e
    BY <1>2, <1>5, RecordBinds
  <2>2. GoodBlob(nvs') /\ s.err \in Codes /\ (s.err = "ok" => nvs'.table = table')
    <3>1. Good(table') /\ GoodBlob(l.nvs) /\ s \in Saves(l.nvs, table')
      BY <1>2, <1>5, <2>1
    <3>2. GoodBlob(s.nvs) /\ s.err \in Codes
      BY <3>1, SavedBlob
    <3>3. s.err = "ok" => s.nvs.table = table'
      BY <3>1, SavedTable
    <3> QED
      BY <1>5, <3>2, <3>3
  <2>3. RetTypeOK'
    BY <1>5, <2>2, RecordRetTypes
  <2>4. OkIsDurable'
    BY <1>5, <2>1, <2>2 DEF RecordReturns, OkIsDurable
  <2> QED
    BY <1>1, <1>2, <2>1, <2>2, <2>3, <2>4, IInvPartsNext
<1> QED
  BY <1>1, <1>3, <1>4, <1>5 DEF RecordOutcome

(* The three outcomes of a forget call.                                    *)
ForgetReturns(a, err) ==
  ret' = [call |-> "forget", addr |-> a, entry |-> NoEntry, err |-> err]

ForgetOutcome(l, a) ==
  \/ ~l.ok /\ ForgetReturns(a, "load") /\ UNCHANGED <<table, nvs>>
  \/ /\ l.ok /\ Holding(l.table, a) = {} /\ ForgetReturns(a, "ok")
     /\ table' = l.table /\ nvs' = l.nvs
  \/ /\ l.ok /\ Holding(l.table, a) # {}
     /\ table' = Clear(l.table, {First(Holding(l.table, a))})
     /\ \E s \in Saves(l.nvs, table') : nvs' = s.nvs /\ ForgetReturns(a, s.err)

LEMMA ForgetCases ==
  ASSUME NEW a \in Addrs, ForgetUnicast(a)
  PROVE  \E l \in Ready : loaded' = l.ok /\ ForgetOutcome(l, a)
BY DEF ForgetUnicast, ForgetOutcome, ForgetReturns

LEMMA ForgetRetTypes ==
  ASSUME NEW a \in Addrs, NEW err \in Codes, ForgetReturns(a, err)
  PROVE  RetTypeOK' /\ OkIsDurable'
BY DEF ForgetReturns, RetTypeOK, OkIsDurable

LEMMA ForgetStep ==
  ASSUME IInv, NEW a \in Addrs, ForgetUnicast(a)
  PROVE  IInv'
<1>1. PICK l \in Ready : loaded' = l.ok /\ ForgetOutcome(l, a)
  BY ForgetCases
<1>2. /\ Good(l.table) /\ GoodBlob(l.nvs) /\ l.ok \in BOOLEAN
      /\ ~l.ok => l.table = table /\ l.nvs = nvs
  BY ReadyKeeps, IInvParts
<1>3. CASE ~l.ok /\ ForgetReturns(a, "load") /\ UNCHANGED <<table, nvs>>
  <2>1. RetTypeOK' /\ OkIsDurable'
    BY <1>3, ForgetRetTypes DEF Codes
  <2> QED
    BY <1>1, <1>2, <1>3, <2>1, IInvPartsNext
<1>4. CASE l.ok /\ ForgetReturns(a, "ok") /\ table' = l.table /\ nvs' = l.nvs
  <2>1. RetTypeOK' /\ OkIsDurable'
    BY <1>4, ForgetRetTypes DEF Codes
  <2> QED
    BY <1>1, <1>2, <1>4, <2>1, IInvPartsNext
<1>5. ASSUME l.ok, Holding(l.table, a) # {},
             table' = Clear(l.table, {First(Holding(l.table, a))}),
             NEW s \in Saves(l.nvs, table'), nvs' = s.nvs, ForgetReturns(a, s.err)
      PROVE  IInv'
  <2>1. Good(table')
    BY <1>2, <1>5, ForgetUnbinds
  <2>2. GoodBlob(nvs') /\ s.err \in Codes
    <3>1. GoodBlob(s.nvs) /\ s.err \in Codes
      BY <1>2, <1>5, <2>1, SavedBlob
    <3> QED
      BY <1>5, <3>1
  <2>3. RetTypeOK' /\ OkIsDurable'
    BY <1>5, <2>2, ForgetRetTypes
  <2> QED
    BY <1>1, <1>2, <1>5, <2>1, <2>2, <2>3, IInvPartsNext
<1> QED
  BY <1>1, <1>3, <1>4, <1>5 DEF ForgetOutcome

LEMMA RebootStep ==
  ASSUME IInv, Reboot
  PROVE  IInv'
<1>1. Good(table') /\ GoodBlob(nvs') /\ loaded' \in BOOLEAN /\ nvs'.table = nvs.table
  BY ZeroGood, IInvParts DEF Reboot
<1>2. RetTypeOK' /\ OkIsDurable'
  BY <1>1, IInvParts, DurableKept DEF Reboot, RetTypeOK
<1> QED
  BY <1>1, <1>2, IInvPartsNext

LEMMA NoRetFits == NoRet \in [call : {"none", "record", "forget"}, addr : Addrs \cup {NoAddr},
                              entry : Entry \cup {NoEntry}, err : Codes]
BY DEF NoRet, Codes

LEMMA FactoryResetStep ==
  ASSUME FactoryReset
  PROVE  IInv'
<1>1. Good(table') /\ loaded' \in BOOLEAN
  BY ZeroGood DEF FactoryReset
<1>2. GoodBlob([layout |-> "absent", table |-> ZeroTable])
  BY ZeroGood DEF GoodBlob, WellFormed, Good, Layouts
<1>3. GoodBlob(nvs')
  BY <1>2 DEF FactoryReset
<1>4. RetTypeOK' /\ OkIsDurable'
  BY NoRetFits DEF FactoryReset, RetTypeOK, OkIsDurable, NoRet
<1> QED
  BY <1>1, <1>3, <1>4, IInvPartsNext

LEMMA InitHolds == Init => IInv
<1> SUFFICES ASSUME Init PROVE IInv
  OBVIOUS
<1>1. Good(table) /\ GoodBlob(nvs) /\ loaded \in BOOLEAN
  BY ZeroGood DEF Init, GoodBlob
<1>2. RetTypeOK /\ OkIsDurable
  BY NoRetFits DEF Init, RetTypeOK, OkIsDurable, NoRet
<1> QED
  BY <1>1, <1>2, IInvParts

LEMMA NextKeeps == IInv /\ [Next]_vars => IInv'
<1> SUFFICES ASSUME IInv, [Next]_vars PROVE IInv'
  OBVIOUS
<1>1. CASE Load
  BY <1>1, LoadStep
<1>2. ASSUME NEW a \in Addrs, NEW e \in Entry, RecordNode(a, e) PROVE IInv'
  BY <1>2, RecordStep
<1>3. ASSUME NEW a \in Addrs, ForgetUnicast(a) PROVE IInv'
  BY <1>3, ForgetStep
<1>4. CASE Reboot
  BY <1>4, RebootStep
<1>5. CASE FactoryReset
  BY <1>5, FactoryResetStep
<1>6. CASE UNCHANGED vars
  <2>1. RetTypeOK' /\ OkIsDurable'
    BY <1>6, IInvParts, DurableKept DEF vars, RetTypeOK
  <2> QED
    BY <1>6, <2>1, IInvParts, IInvPartsNext DEF vars
<1> QED
  BY <1>1, <1>2, <1>3, <1>4, <1>5, <1>6 DEF Next

(* Whatever records, forgets, evictions, failed saves, failed loads and    *)
(* reboots follow one another, in RAM and in flash the table stays one     *)
(* this code can have written (dp_prov_record_node, dp_prov_forget_unicast,*)
(* load_table, save_table).                                                *)
THEOREM TableInvariant == Spec => []IInv
<1>1. IInv /\ [Next]_vars => IInv'
  BY NextKeeps
<1> QED
  BY InitHolds, <1>1, PTL DEF Spec

(* Every variable of the table's module keeps its type: the count stays    *)
(* within the slots, the slots hold whole records or nothing.              *)
THEOREM TypesKept == Spec => []TypeOK
<1>1. IInv => TypeOK
  BY DEF IInv
<1> QED
  BY <1>1, TableInvariant, PTL

(* No address is recorded twice, in RAM or in flash (the slot search of    *)
(* dp_prov_record_node).                                                   *)
THEOREM AddrsUnique == Spec => []OneRecordPerAddr
<1>1. IInv => OneRecordPerAddr
  BY DEF IInv, Good, WellFormed, OneRecordPerAddr
<1> QED
  BY <1>1, TableInvariant, PTL

(* No berth is recorded twice, in RAM or in flash (the hot-swap eviction   *)
(* of dp_prov_record_node).                                                *)
THEOREM BerthsUnique == Spec => []OneRecordPerBerth
<1>1. IInv => OneRecordPerBerth
  BY DEF IInv, Good, WellFormed, OneRecordPerBerth
<1> QED
  BY <1>1, TableInvariant, PTL

(* The count kept by hand beside the slots is the number of occupied ones. *)
THEOREM CountsKept == Spec => []CountsOccupied
<1>1. IInv => CountsOccupied
  BY DEF IInv, Good, WellFormed, CountsOccupied
<1> QED
  BY <1>1, TableInvariant, PTL

(* A record call that answered ESP_OK is on flash until the next call,     *)
(* through any reboots and loads (save_table, load_table).                 *)
THEOREM OkStaysOnFlash == Spec => []OkIsDurable
<1>1. IInv => OkIsDurable
  BY DEF IInv
<1> QED
  BY <1>1, TableInvariant, PTL

-----------------------------------------------------------------------------
(* The table implements BerthMap, as long as no read of the flash fails.   *)

(* The two variables of BerthMap after a step.                             *)
LEMMA MapsNext ==
  /\ EffectiveMap' = IF loaded' THEN View(table') ELSE View(nvs'.table)
  /\ View(nvs.table)' = View(nvs'.table)
BY DEF EffectiveMap, View, Holding, First

LEMMA LoadStutters ==
  ASSUME "read" \notin Faults, IInv, Load
  PROVE  EffectiveMap' = EffectiveMap /\ View(nvs.table)' = View(nvs.table)
<1>1. PICK l \in Loads : table' = l.table /\ nvs' = l.nvs /\ loaded' = l.ok
  BY DEF Load
<1>2. /\ l.nvs.table = nvs.table /\ ~loaded /\ l.ok \in BOOLEAN
      /\ l.ok => l.table = nvs.table
  BY LoadKeeps, IInvParts DEF Load
<1> QED
  BY <1>1, <1>2, MapsNext DEF EffectiveMap

LEMMA RecordImplements ==
  ASSUME "read" \notin Faults, IInv, NEW a \in Addrs, NEW e \in Entry, RecordNode(a, e)
  PROVE  \/ UNCHANGED <<EffectiveMap, View(nvs.table)>>
         \/ Abstract!RecordSaved(a, e)
         \/ Abstract!RecordUnsaved(a, e)
         \/ Abstract!RecordRefused(a, e)
<1>1. PICK l \in Ready : loaded' = l.ok /\ RecordOutcome(l, a, e)
  BY RecordCases
<1>2. /\ Good(l.table) /\ GoodBlob(l.nvs) /\ l.nvs.table = nvs.table
      /\ ~l.ok => ~loaded
      /\ l.ok => View(l.table) = EffectiveMap
  BY ReadyKeeps, IInvParts
<1>3. CASE ~l.ok /\ UNCHANGED <<table, nvs>>
  BY <1>1, <1>2, <1>3, MapsNext DEF EffectiveMap
<1>4. CASE /\ l.ok /\ Candidates(Swapped(l.table, a, e), a) = {}
           /\ table' = Swapped(l.table, a, e) /\ nvs' = l.nvs
  <2>1. Abstract!Full(EffectiveMap, a, e) /\ table' = l.table
    BY <1>2, <1>4, RefusedIsFull
  <2>2. EffectiveMap' = EffectiveMap /\ View(nvs.table)' = View(nvs.table)
    BY <1>1, <1>2, <1>4, <2>1, MapsNext
  <2> QED
    BY <2>1, <2>2 DEF Abstract!RecordRefused, Abstract!mapVars
<1>5. ASSUME l.ok, Candidates(Swapped(l.table, a, e), a) # {},
             table' = Store(Swapped(l.table, a, e), RecordOf(a, e)),
             NEW s \in Saves(l.nvs, table'), nvs' = s.nvs
      PROVE  Abstract!RecordSaved(a, e) \/ Abstract!RecordUnsaved(a, e)
  <2>1. ~Abstract!Full(EffectiveMap, a, e)
    BY <1>2, <1>5, RefusedIsFull
  <2>2. View(table') = Abstract!Bind(EffectiveMap, a, e)
    BY <1>2, <1>5, RecordBinds
  <2>3. EffectiveMap' = View(table')
    BY <1>1, <1>5, MapsNext
  <2>4. nvs'.table = table' \/ nvs' = l.nvs
    BY <1>5 DEF Saves
  <2>5. View(nvs.table)' = EffectiveMap' \/ View(nvs.table)' = View(nvs.table)
    BY <1>2, <2>3, <2>4, MapsNext
  <2> QED
    BY <2>1, <2>2, <2>3, <2>5 DEF Abstract!RecordSaved, Abstract!RecordUnsaved
<1> QED
  BY <1>1, <1>3, <1>4, <1>5 DEF RecordOutcome

LEMMA ForgetImplements ==
  ASSUME "read" \notin Faults, IInv, NEW a \in Addrs, ForgetUnicast(a)
  PROVE  \/ UNCHANGED <<EffectiveMap, View(nvs.table)>>
         \/ Abstract!ForgetSaved(a)
         \/ Abstract!ForgetUnsaved(a)
<1>1. PICK l \in Ready : loaded' = l.ok /\ ForgetOutcome(l, a)
  BY ForgetCases
<1>2. /\ Good(l.table) /\ GoodBlob(l.nvs) /\ l.nvs.table = nvs.table
      /\ ~l.ok => ~loaded
      /\ l.ok => View(l.table) = EffectiveMap
  BY ReadyKeeps, IInvParts
<1>3. CASE ~l.ok /\ UNCHANGED <<table, nvs>>
  BY <1>1, <1>2, <1>3, MapsNext DEF EffectiveMap
<1>4. CASE l.ok /\ table' = l.table /\ nvs' = l.nvs
  BY <1>1, <1>2, <1>4, MapsNext
<1>5. ASSUME l.ok, Holding(l.table, a) # {},
             table' = Clear(l.table, {First(Holding(l.table, a))}),
             NEW s \in Saves(l.nvs, table'), nvs' = s.nvs
      PROVE  Abstract!ForgetSaved(a) \/ Abstract!ForgetUnsaved(a)
  <2>1. EffectiveMap[a] # NoEntry /\ View(table') = Abstract!Unbind(EffectiveMap, a)
    BY <1>2, <1>5, ForgetUnbinds
  <2>2. EffectiveMap' = View(table')
    BY <1>1, <1>5, MapsNext
  <2>3. nvs'.table = table' \/ nvs' = l.nvs
    BY <1>5 DEF Saves
  <2>4. View(nvs.table)' = EffectiveMap' \/ View(nvs.table)' = View(nvs.table)
    BY <1>2, <2>2, <2>3, MapsNext
  <2> QED
    BY <2>1, <2>2, <2>4 DEF Abstract!ForgetSaved, Abstract!ForgetUnsaved
<1> QED
  BY <1>1, <1>3, <1>4, <1>5 DEF ForgetOutcome

LEMMA InitImplements == Init => Abstract!MapInit
<1> SUFFICES ASSUME Init PROVE Abstract!MapInit
  OBVIOUS
<1>1. EffectiveMap = View(nvs.table)
  BY DEF Init, EffectiveMap
<1>2. View(nvs.table) \in [Addrs -> Entry \cup {NoEntry}]
  BY InitHolds, IInvParts, ViewTypes DEF GoodBlob, WellFormed
<1> QED
  BY <1>1, <1>2 DEF Abstract!MapInit, Abstract!Maps, Abstract!Entry, Entry

LEMMA NextImplements ==
  ASSUME "read" \notin Faults, IInv, [Next]_vars
  PROVE  [Abstract!MapNext]_(Abstract!mapVars)
<1> USE DEF Abstract!mapVars
<1>1. CASE Load
  BY <1>1, LoadStutters
<1>2. ASSUME NEW a \in Addrs, NEW e \in Entry, RecordNode(a, e)
      PROVE  [Abstract!MapNext]_(Abstract!mapVars)
  <2>1. e \in Abstract!Entry
    BY DEF Abstract!Entry, Entry
  <2> QED
    BY <1>2, <2>1, RecordImplements DEF Abstract!MapNext
<1>3. ASSUME NEW a \in Addrs, ForgetUnicast(a)
      PROVE  [Abstract!MapNext]_(Abstract!mapVars)
  BY <1>3, ForgetImplements DEF Abstract!MapNext
<1>4. CASE Reboot
  <2>1. EffectiveMap' = View(nvs.table) /\ View(nvs.table)' = View(nvs.table)
    BY <1>4, MapsNext DEF Reboot
  <2> QED
    BY <2>1 DEF Abstract!MapNext, Abstract!RestoreMap
<1>5. CASE FactoryReset
  <2>1. View(ZeroTable) = Abstract!NoMap
    <3>1. View(ZeroTable) = [a \in Addrs |-> View(ZeroTable)[a]]
      BY DEF View
    <3> QED
      BY <3>1, ZeroGood DEF Abstract!NoMap
  <2>2. ~loaded' /\ nvs'.table = ZeroTable
    BY <1>5 DEF FactoryReset
  <2>3. EffectiveMap' = Abstract!NoMap /\ View(nvs.table)' = Abstract!NoMap
    BY <2>1, <2>2, MapsNext
  <2> QED
    BY <2>3 DEF Abstract!MapNext, Abstract!WipeMap
<1>6. CASE UNCHANGED vars
  BY <1>6, MapsNext DEF vars, EffectiveMap
<1> QED
  BY <1>1, <1>2, <1>3, <1>4, <1>5, <1>6 DEF Next

(* The slot table with its count, its two blob layouts, its lazy load and  *)
(* its failing saves is, to its callers, BerthMap: one step of the code is *)
(* one step of the map or none.  It needs that nvs_get_blob never fails on *)
(* a blob that is there, because load_table takes such a blob for empty.   *)
THEOREM TableIsMap ==
  ASSUME "read" \notin Faults
  PROVE  Spec => ImplementsBerthMap
<1>1. IInv /\ [Next]_vars => [Abstract!MapNext]_(Abstract!mapVars)
  BY NextImplements
<1> QED
  BY <1>1, InitImplements, TableInvariant, PTL DEF Spec, ImplementsBerthMap, Abstract!MapSpec

(* Starting up loses no mapping, be the blob of this layout or of v1       *)
(* (load_table, migrate_from_v1; dp_prov.c:46-47), under the same          *)
(* assumption, which the code needs for the reason above.                  *)
THEOREM BootKeeps ==
  ASSUME "read" \notin Faults
  PROVE  Spec => BootKeepsMappings
<1>1. IInv /\ [Next]_vars => [Load => EffectiveMap' = EffectiveMap]_vars
  BY LoadStutters
<1> QED
  BY <1>1, TableInvariant, PTL DEF Spec, BootKeepsMappings

=============================================================================
