---------------------------- MODULE HooksProofs -----------------------------
(***************************************************************************)
(* Proofs about Hooks: the tables stay sound under every sequence of calls *)
(* of the host and of its callbacks, a deleted hook is never called again, *)
(* and a walk calls every hook that was due, once.                         *)
(***************************************************************************)
EXTENDS Hooks, TLAPS, SequenceTheorems, FiniteSetTheorems

WalkRecs == [pc : {"scan", "call"}, type : Types, address : Addresses, slot : 1..MaxHooks+1,
             remaining : Int, handled : BOOLEAN, due : SUBSET Handles, gone : SUBSET Handles,
             called : Seq(Handles)]

\* What every index of the escape list rests on: one entry per instruction, and an
\* index rebuilt from the list as it is.
IndexOK ==
  /\ index = RebuiltIndex(escapes)
  /\ \A j, k \in DOMAIN escapes : escapes[j].id = escapes[k].id => j = k

-----------------------------------------------------------------------------
(* Operators                                                               *)

\* cpueaxh_rebuild_escape_index: for a list with one entry per instruction the index of
\* an instruction is the position of its entry, and 0 if there is none.
LEMMA RebuiltIndexExact ==
  ASSUME NEW list \in Seq(EscEntries), NEW i \in EscapeIds,
         \A j, k \in DOMAIN list : list[j].id = list[k].id => j = k
  PROVE  /\ RebuiltIndex(list)[i] \in Nat
         /\ \A k \in DOMAIN list : list[k].id = i => RebuiltIndex(list)[i] = k
         /\ RebuiltIndex(list)[i] # 0 =>
              RebuiltIndex(list)[i] \in DOMAIN list /\ list[RebuiltIndex(list)[i]].id = i
<1> DEFINE at == {k \in DOMAIN list : list[k].id = i}
<1>1. RebuiltIndex(list)[i] = IF at = {} THEN 0 ELSE CHOOSE k \in at : \A j \in at : j <= k
  BY DEF RebuiltIndex
<1>2. DOMAIN list \subseteq Nat \ {0}
  OBVIOUS
<1>3. CASE at = {}
  BY <1>1, <1>3
<1>4. CASE at # {}
  <2>1. PICK k \in at : TRUE
    BY <1>4
  <2>2. at = {k}
    BY <2>1
  <2>3. \A j \in at : j <= k
    BY <1>2, <2>1, <2>2
  <2>4. (CHOOSE m \in at : \A j \in at : j <= m) = k
    BY <2>2, <2>3
  <2> QED
    BY <1>1, <1>2, <1>4, <2>2, <2>4
<1> QED
  BY <1>3, <1>4

LEMMA RebuiltIndexType ==
  ASSUME NEW list \in Seq(EscEntries),
         \A j, k \in DOMAIN list : list[j].id = list[k].id => j = k
  PROVE  RebuiltIndex(list) \in [EscapeIds -> Nat]
<1>1. \A i \in EscapeIds : RebuiltIndex(list)[i] \in Nat
  BY RebuiltIndexExact
<1> QED
  BY <1>1 DEF RebuiltIndex

\* The memmove of cpueaxh_escape_del: entries before the deleted one stay, later ones
\* move down by one, and none is lost or made up.
LEMMA RemoveAtEntries ==
  ASSUME NEW S, NEW list \in Seq(S), NEW k \in DOMAIN list
  PROVE  /\ RemoveAt(list, k) \in Seq(S)
         /\ Len(RemoveAt(list, k)) = Len(list) - 1
         /\ \A j \in 1..Len(list)-1 : RemoveAt(list, k)[j] = IF j < k THEN list[j] ELSE list[j+1]
<1> DEFINE a == SubSeq(list, 1, k-1)
           b == SubSeq(list, k+1, Len(list))
<1>1. k \in 1..Len(list) /\ Len(list) \in Nat
  OBVIOUS
<1>2. a \in Seq(S) /\ Len(a) = k - 1 /\ \A j \in 1..k-1 : a[j] = list[j]
  BY <1>1, SubSeqProperties
<1>3. b \in Seq(S) /\ Len(b) = Len(list) - k /\ \A j \in 1..Len(list)-k : b[j] = list[k+j]
  BY <1>1, SubSeqProperties
<1>4. RemoveAt(list, k) = a \o b
  BY DEF RemoveAt
<1> HIDE DEF a, b
<1>5. Len(a) + Len(b) = Len(list) - 1
  BY <1>1, <1>2, <1>3
<1>6. /\ a \o b \in Seq(S) /\ Len(a \o b) = Len(list) - 1
      /\ \A j \in 1..Len(list)-1 : (a \o b)[j] = IF j <= Len(a) THEN a[j] ELSE b[j - Len(a)]
  <2>1. \A i \in 1..Len(a) + Len(b) :
           (a \o b)[i] = IF i <= Len(a) THEN a[i] ELSE b[i - Len(a)]
    BY <1>2, <1>3, ConcatProperties, Zenon
  <2>2. a \o b \in Seq(S) /\ Len(a \o b) = Len(a) + Len(b)
    BY <1>2, <1>3, ConcatProperties, Zenon
  <2> QED
    BY <1>5, <2>1, <2>2, Zenon
<1>7. ASSUME NEW j \in 1..Len(list)-1
      PROVE  (a \o b)[j] = IF j < k THEN list[j] ELSE list[j+1]
  <2>1. CASE j < k
    BY <1>1, <1>2, <1>6, <1>7, <2>1
  <2>2. CASE ~(j < k)
    <3>1. j-(k-1) \in 1..Len(list)-k /\ k + (j-(k-1)) = j + 1 /\ ~(j <= k-1)
      BY <1>1, <1>7, <2>2
    <3>2. b[j-(k-1)] = list[k + (j-(k-1))]
      BY <1>3, <3>1
    <3> QED
      BY <1>2, <1>6, <1>7, <2>2, <3>1, <3>2
  <2> QED
    BY <2>1, <2>2
<1> QED
  BY <1>4, <1>6, <1>7

-----------------------------------------------------------------------------
(* The tables                                                              *)

\* The inductive invariant of the tables.
Tables == TypeOK /\ CountsExact /\ HandlesUnique /\ IndexOK

\* A registered hook has all the fields of an entry; the set of hooks of a type is finite.
LEMMA UsedEntries ==
  ASSUME TypeOK
  PROVE  /\ \A s \in UsedSlots : /\ s \in Slots
                                 /\ hooks[s] \in [used : {TRUE}, handle : Handles,
                                                  type : Types, range : Ranges]
                                 /\ hooks[s].handle \in Handles /\ hooks[s].type \in Types
         /\ \A s \in Slots \ UsedSlots : hooks[s] = Free
         /\ \A t : IsFiniteSet(OfType(t)) /\ Cardinality(OfType(t)) \in Nat
<1>1. ASSUME NEW s \in Slots
      PROVE  /\ s \in UsedSlots => hooks[s] \in [used : {TRUE}, handle : Handles,
                                                  type : Types, range : Ranges]
             /\ s \notin UsedSlots => hooks[s] = Free
  <2>1. hooks[s] \in HookEntries
    BY DEF TypeOK
  <2>2. Free.used = FALSE
    BY DEF Free
  <2>3. \A e \in [used : {TRUE}, handle : Handles, type : Types, range : Ranges] : e.used = TRUE
    OBVIOUS
  <2> QED
    BY <2>1, <2>2, <2>3, Zenon DEF HookEntries, UsedSlots
<1>2. IsFiniteSet(Slots)
  BY FS_Interval, HooksAssumption DEF Slots
<1>3. ASSUME NEW t
      PROVE  IsFiniteSet(OfType(t)) /\ Cardinality(OfType(t)) \in Nat
  <2>1. OfType(t) \subseteq Slots
    BY DEF OfType, UsedSlots
  <2> QED
    BY <1>2, <2>1, FS_Subset, FS_CardinalityType
<1>4. UsedSlots \subseteq Slots
  BY DEF UsedSlots
<1> QED
  BY <1>1, <1>3, <1>4

LEMMA EscapeEntries ==
  ASSUME TypeOK, NEW k \in DOMAIN escapes
  PROVE  /\ escapes[k] \in EscEntries /\ escapes[k].handle \in Handles
         /\ escapes[k].id \in EscapeIds
<1>1. escapes[k] \in EscEntries
  BY DEF TypeOK
<1> QED
  BY <1>1 DEF EscEntries

\* cpueaxh_hook_add fills one free slot with a new handle and leaves the others alone.
LEMMA HookAddEffect ==
  ASSUME TypeOK, NEW t \in Types, NEW range \in Ranges, HookAdd(t, range)
  PROVE  /\ \E s \in Slots :
              /\ s \notin UsedSlots /\ UsedSlots' = UsedSlots \cup {s}
              /\ hooks'[s].handle = next /\ hooks'[s].type = t
              /\ \A r \in UsedSlots : r # s /\ hooks'[r] = hooks[r]
         /\ hooks' \in [Slots -> HookEntries]
         /\ counts' = [counts EXCEPT ![t] = @ + 1]
         /\ next' = next + 1 /\ next \in Handles /\ next \in Nat /\ next' \in 1..MaxHandle+1
         /\ UNCHANGED <<escapes, index, walk>>
         /\ walk.pc # "scan" /\ (walk.pc = "call" => "add" \in Reentrant[walk.type])
<1> DEFINE entry == [used |-> TRUE, handle |-> next, type |-> t, range |-> range]
<1>1. PICK s \in Slots \ UsedSlots : hooks' = [hooks EXCEPT ![s] = entry]
  BY DEF HookAdd
<1>2. /\ counts' = [counts EXCEPT ![t] = @ + 1] /\ next' = next + 1 /\ next <= MaxHandle
      /\ UNCHANGED <<escapes, index, walk>>
      /\ walk.pc # "scan" /\ (walk.pc = "call" => "add" \in Reentrant[walk.type])
  BY DEF HookAdd, HostRuns
<1>3. next \in Handles /\ next' \in 1..MaxHandle+1 /\ next \in Nat
  BY <1>2, HooksAssumption DEF TypeOK, Handles
<1>4. entry \in HookEntries /\ entry.used = TRUE /\ entry.type = t /\ entry.handle = next
  BY <1>3 DEF HookEntries
<1> HIDE DEF entry
<1>5. hooks \in [Slots -> HookEntries] /\ hooks' \in [Slots -> HookEntries]
  BY <1>1, <1>4 DEF TypeOK
<1>6. hooks'[s] = entry /\ \A r \in Slots : r # s => hooks'[r] = hooks[r]
  BY <1>1, <1>5
<1>7. UsedSlots' = UsedSlots \cup {s} /\ s \notin UsedSlots /\ UsedSlots \subseteq Slots
  BY <1>1, <1>4, <1>6, Zenon DEF UsedSlots
<1>8. \A r \in UsedSlots : r # s /\ hooks'[r] = hooks[r]
  BY <1>6, <1>7
<1> QED
  BY <1>1, <1>2, <1>3, <1>4, <1>5, <1>6, <1>7, <1>8

\* cpueaxh_hook_add keeps the tables.
LEMMA HookAddTables ==
  ASSUME Tables, NEW t \in Types, NEW range \in Ranges, HookAdd(t, range)
  PROVE  Tables'
<1>0. TypeOK /\ CountsExact /\ HandlesUnique /\ IndexOK
  BY DEF Tables
<1>1. PICK s \in Slots :
        /\ s \notin UsedSlots /\ UsedSlots' = UsedSlots \cup {s}
        /\ hooks'[s].handle = next /\ hooks'[s].type = t
        /\ \A r \in UsedSlots : r # s /\ hooks'[r] = hooks[r]
  BY <1>0, HookAddEffect
<1>2. /\ counts' = [counts EXCEPT ![t] = @ + 1] /\ hooks' \in [Slots -> HookEntries]
      /\ UNCHANGED <<escapes, index, walk>>
  BY <1>0, HookAddEffect
<1>3. next' = next + 1 /\ next \in Handles /\ next \in Nat /\ next' \in 1..MaxHandle+1
  BY <1>0, HookAddEffect
<1>4. TypeOK'
  <2>1. counts' \in [Types -> Nat]
    BY <1>0, <1>2 DEF TypeOK
  <2> QED
    BY <1>0, <1>2, <1>3, <2>1 DEF TypeOK
<1>5. CountsExact'
  <2> SUFFICES ASSUME NEW u \in Types
               PROVE  counts'[u] = Cardinality(OfType(u)')
    BY DEF CountsExact
  <2>1. OfType(u)' = {r \in UsedSlots' : hooks'[r].type = u}
    BY DEF OfType
  <2>2. CASE u = t
    <3>1. OfType(u)' = OfType(u) \cup {s} /\ s \notin OfType(u)
      BY <1>1, <2>1, <2>2, Zenon DEF OfType
    <3>2. Cardinality(OfType(u)') = Cardinality(OfType(u)) + 1
      BY <1>0, <3>1, UsedEntries, FS_AddElement
    <3> QED
      BY <1>0, <1>2, <2>2, <3>2 DEF CountsExact, TypeOK
  <2>3. CASE u # t
    <3>1. OfType(u)' = OfType(u)
      BY <1>1, <2>1, <2>3, Zenon DEF OfType
    <3> QED
      BY <1>0, <1>2, <2>3, <3>1 DEF CountsExact, TypeOK
  <2> QED
    BY <2>2, <2>3
<1>6. HandlesUnique'
  <2>1. \A h \in HookHandles \cup EscHandles : h < next /\ h # next /\ h < next'
    <3>1. HookHandles \subseteq Handles
      BY <1>0, UsedEntries DEF HookHandles
    <3>2. EscHandles \subseteq Handles
      BY <1>0, EscapeEntries DEF EscHandles
    <3> QED
      BY <1>0, <1>3, <3>1, <3>2 DEF HandlesUnique, Handles
  <2>2. next < next'
    BY <1>3
  <2>3. EscHandles' = EscHandles
    BY <1>2 DEF EscHandles
  <2>4. HookHandles' = HookHandles \cup {next}
    BY <1>1, Zenon DEF HookHandles
  <2>5. \A q, r \in UsedSlots' : hooks'[q].handle = hooks'[r].handle => q = r
    <3>1. \A r \in UsedSlots : hooks'[r].handle = hooks[r].handle /\ hooks[r].handle # next
      BY <1>1, <2>1 DEF HookHandles
    <3> QED
      BY <1>0, <1>1, <3>1 DEF HandlesUnique
  <2>6. \A j, k \in DOMAIN escapes' : escapes'[j].handle = escapes'[k].handle => j = k
    BY <1>0, <1>2 DEF HandlesUnique
  <2>7. HookHandles' \cap EscHandles' = {}
    BY <1>0, <2>1, <2>3, <2>4 DEF HandlesUnique
  <2>8. \A h \in HookHandles' \cup EscHandles' : h < next'
    BY <2>1, <2>2, <2>3, <2>4
  <2> QED
    BY <2>5, <2>6, <2>7, <2>8 DEF HandlesUnique
<1>7. IndexOK'
  BY <1>0, <1>2 DEF IndexOK, RebuiltIndex
<1> QED
  BY <1>4, <1>5, <1>6, <1>7 DEF Tables

\* A walk in progress is a full record, and remembering a deleted handle changes
\* nothing else of it.
LEMMA GoneFields ==
  ASSUME TypeOK, NEW h \in Handles
  PROVE  /\ walk.pc \in {"none", "scan", "call"}
         /\ walk.pc = "none" => walk = NoWalk /\ Gone(h) = walk
         /\ walk.pc # "none" => /\ walk \in WalkRecs /\ Gone(h) \in WalkRecs
                                /\ Gone(h) = [walk EXCEPT !.gone = walk.gone \cup {h}]
         /\ Gone(h).pc = walk.pc
<1>1. walk = NoWalk \/ walk \in WalkRecs
  BY DEF TypeOK, Walks, WalkRecs
<1>2. NoWalk.pc = "none"
  BY DEF NoWalk
<1>3. ASSUME walk \in WalkRecs
      PROVE  /\ walk.pc \in {"scan", "call"} /\ Gone(h) \in WalkRecs /\ Gone(h).pc = walk.pc
             /\ Gone(h) = [walk EXCEPT !.gone = walk.gone \cup {h}]
  <2>1. walk.pc \in {"scan", "call"}
    BY <1>3 DEF WalkRecs
  <2>2. Gone(h) = [walk EXCEPT !.gone = walk.gone \cup {h}]
    BY <2>1 DEF Gone
  <2>3. walk.gone \cup {h} \in SUBSET Handles
    BY <1>3 DEF WalkRecs
  <2>4. Gone(h) \in WalkRecs
    BY <1>3, <2>2, <2>3 DEF WalkRecs
  <2>5. Gone(h).pc = walk.pc
    BY <1>3, <2>2 DEF WalkRecs
  <2> QED
    BY <2>1, <2>2, <2>4, <2>5
<1> QED
  BY <1>1, <1>2, <1>3 DEF Gone

\* cpueaxh_hook_del frees the slot of the handle and leaves the others alone.
LEMMA HookDelEffect ==
  ASSUME TypeOK, NEW h \in Handles, HookDel(h)
  PROVE  /\ \E s \in UsedSlots :
              /\ hooks[s].handle = h /\ hooks[s].type \in Types
              /\ UsedSlots' = UsedSlots \ {s}
              /\ \A r \in UsedSlots' : hooks'[r] = hooks[r]
              /\ counts' = [counts EXCEPT ![hooks[s].type] =
                   IF counts[hooks[s].type] > 1 THEN counts[hooks[s].type] - 1 ELSE 0]
         /\ hooks' \in [Slots -> HookEntries]
         /\ walk' = Gone(h) /\ UNCHANGED <<escapes, index, next>>
         /\ walk.pc # "scan"
<1>1. PICK s \in UsedSlots :
        /\ hooks[s].handle = h
        /\ hooks' = [hooks EXCEPT ![s] = Free]
        /\ counts' = [counts EXCEPT ![hooks[s].type] =
                        IF counts[hooks[s].type] > 1 THEN counts[hooks[s].type] - 1 ELSE 0]
  BY DEF HookDel
<1>2. walk' = Gone(h) /\ UNCHANGED <<escapes, index, next>> /\ walk.pc # "scan"
  BY DEF HookDel, HostRuns
<1>3. s \in Slots /\ hooks[s].type \in Types
  BY UsedEntries
<1>4. Free \in HookEntries /\ Free.used = FALSE
  BY DEF HookEntries, Free
<1>5. hooks \in [Slots -> HookEntries] /\ hooks' \in [Slots -> HookEntries]
  BY <1>1, <1>4 DEF TypeOK
<1>6. hooks'[s] = Free /\ \A r \in Slots : r # s => hooks'[r] = hooks[r]
  BY <1>1, <1>3, <1>5
<1>7. UsedSlots' = UsedSlots \ {s} /\ UsedSlots \subseteq Slots
  BY <1>1, <1>4, <1>6, Zenon DEF UsedSlots
<1>8. \A r \in UsedSlots' : hooks'[r] = hooks[r]
  BY <1>6, <1>7
<1> QED
  BY <1>1, <1>2, <1>3, <1>5, <1>7, <1>8

\* cpueaxh_hook_del of a hook keeps the tables.
LEMMA HookDelTables ==
  ASSUME Tables, NEW h \in Handles, HookDel(h)
  PROVE  Tables'
<1>0. TypeOK /\ CountsExact /\ HandlesUnique /\ IndexOK
  BY DEF Tables
<1>1. PICK s \in UsedSlots :
        /\ hooks[s].handle = h /\ hooks[s].type \in Types
        /\ UsedSlots' = UsedSlots \ {s}
        /\ \A r \in UsedSlots' : hooks'[r] = hooks[r]
        /\ counts' = [counts EXCEPT ![hooks[s].type] =
             IF counts[hooks[s].type] > 1 THEN counts[hooks[s].type] - 1 ELSE 0]
  BY <1>0, HookDelEffect
<1>2. hooks' \in [Slots -> HookEntries] /\ walk' = Gone(h) /\ UNCHANGED <<escapes, index, next>>
  BY <1>0, HookDelEffect
<1>3. TypeOK'
  <2>1. counts' \in [Types -> Nat]
    BY <1>0, <1>1 DEF TypeOK
  <2>2. walk' \in Walks /\ walk'.pc = walk.pc
    BY <1>0, <1>2, GoneFields DEF Walks, WalkRecs
  <2>3. walk'.pc = "call" => walk'.slot \in Slots
    <3> SUFFICES ASSUME walk.pc = "call" PROVE walk'.slot \in Slots
      BY <2>2
    <3>1. walk \in WalkRecs /\ walk' = [walk EXCEPT !.gone = walk.gone \cup {h}]
      BY <1>0, <1>2, GoneFields
    <3> QED
      BY <1>0, <3>1 DEF WalkRecs, TypeOK
  <2> QED
    BY <1>0, <1>2, <2>1, <2>2, <2>3 DEF TypeOK
<1>4. CountsExact'
  <2> SUFFICES ASSUME NEW u \in Types
               PROVE  counts'[u] = Cardinality(OfType(u)')
    BY DEF CountsExact
  <2>1. OfType(u)' = {r \in UsedSlots' : hooks'[r].type = u}
    BY DEF OfType
  <2>2. CASE u = hooks[s].type
    <3>1. OfType(u)' = OfType(u) \ {s} /\ s \in OfType(u)
      BY <1>1, <2>1, <2>2, Zenon DEF OfType
    <3>2. /\ Cardinality(OfType(u)') = Cardinality(OfType(u)) - 1
          /\ Cardinality(OfType(u)') \in Nat /\ Cardinality(OfType(u)) \in Nat
      BY <1>0, <3>1, UsedEntries, FS_RemoveElement, FS_CardinalityType
    <3>3. counts[u] = Cardinality(OfType(u))
      BY <1>0 DEF CountsExact
    <3>4. counts'[u] = IF counts[u] > 1 THEN counts[u] - 1 ELSE 0
      BY <1>0, <1>1, <2>2 DEF TypeOK
    <3> QED
      BY <3>2, <3>3, <3>4
  <2>3. CASE u # hooks[s].type
    <3>1. OfType(u)' = OfType(u)
      BY <1>1, <2>1, <2>3, Zenon DEF OfType
    <3> QED
      BY <1>0, <1>1, <2>3, <3>1 DEF CountsExact, TypeOK
  <2> QED
    BY <2>2, <2>3
<1>5. HandlesUnique'
  <2>1. \A r \in UsedSlots' : r \in UsedSlots /\ hooks'[r] = hooks[r]
    BY <1>1
  <2>2. HookHandles' \subseteq HookHandles /\ EscHandles' = EscHandles
    BY <1>2, <2>1 DEF HookHandles, EscHandles
  <2> QED
    BY <1>0, <1>2, <2>1, <2>2 DEF HandlesUnique
<1>6. IndexOK'
  BY <1>0, <1>2 DEF IndexOK, RebuiltIndex
<1> QED
  BY <1>3, <1>4, <1>5, <1>6 DEF Tables

\* What the hook side of the tables says does not change with the escape list.
LEMMA EscapeStepTables ==
  ASSUME Tables, UNCHANGED <<hooks, counts, walk>>,
         escapes' \in Seq(EscEntries), next' \in 1..MaxHandle+1, next' >= next,
         index' = RebuiltIndex(escapes'),
         \A j, k \in DOMAIN escapes' : escapes'[j].id = escapes'[k].id => j = k,
         \A j, k \in DOMAIN escapes' : escapes'[j].handle = escapes'[k].handle => j = k,
         \A k \in DOMAIN escapes' :
           \/ escapes'[k].handle \in EscHandles
           \/ escapes'[k].handle = next /\ next < next'
  PROVE  Tables'
<1>0. TypeOK /\ CountsExact /\ HandlesUnique
  BY DEF Tables
<1>1. IndexOK'
  BY DEF IndexOK, RebuiltIndex
<1>2. TypeOK'
  BY <1>0, RebuiltIndexType DEF TypeOK
<1>3. UsedSlots' = UsedSlots /\ HookHandles' = HookHandles /\ \A t : OfType(t)' = OfType(t)
  BY DEF UsedSlots, HookHandles, OfType
<1>4. CountsExact'
  BY <1>0, <1>3 DEF CountsExact
<1>5. HandlesUnique'
  <2>1. next \in Int /\ next' \in Int
    BY <1>0 DEF TypeOK
  <2>2. HookHandles \cup EscHandles \subseteq Int
    <3>1. \A s \in UsedSlots : hooks[s].handle \in Handles
      BY <1>0, UsedEntries
    <3>2. \A k \in DOMAIN escapes : escapes[k].handle \in Handles
      BY <1>0, EscapeEntries
    <3>3. Handles \subseteq Int
      BY DEF Handles
    <3> QED
      BY <3>1, <3>2, <3>3 DEF HookHandles, EscHandles
  <2>3. \A h \in HookHandles \cup EscHandles : h < next /\ h < next'
    BY <1>0, <2>1, <2>2 DEF HandlesUnique
  <2>4. \A h \in EscHandles' : h \in EscHandles \/ (h = next /\ next < next')
    BY DEF EscHandles
  <2>5. HookHandles' \cap EscHandles' = {}
    BY <1>0, <1>3, <2>1, <2>2, <2>3, <2>4 DEF HandlesUnique
  <2>6. \A h \in HookHandles' \cup EscHandles' : h < next'
    BY <1>3, <2>3, <2>4
  <2> QED
    BY <1>0, <1>3, <2>5, <2>6 DEF HandlesUnique
<1> QED
  BY <1>1, <1>2, <1>4, <1>5 DEF Tables

\* cpueaxh_escape_add keeps the tables.
LEMMA EscapeAddTables ==
  ASSUME Tables, NEW i \in EscapeIds, NEW range \in Ranges, EscapeAdd(i, range)
  PROVE  Tables'
<1> DEFINE entry == [handle |-> next, id |-> i, range |-> range]
<1>0. TypeOK /\ HandlesUnique /\ IndexOK
  BY DEF Tables
<1>1. /\ escapes' = Append(escapes, entry) /\ index' = RebuiltIndex(escapes')
      /\ next' = next + 1 /\ next <= MaxHandle /\ LookupEscape(i) = 0
      /\ UNCHANGED <<hooks, counts, walk>>
  BY DEF EscapeAdd
<1>2. next \in Handles /\ next' \in 1..MaxHandle+1 /\ next' >= next /\ next < next'
  BY <1>0, <1>1, HooksAssumption DEF TypeOK, Handles
<1>3. entry \in EscEntries /\ entry.id = i /\ entry.handle = next
  BY <1>2 DEF EscEntries
<1> HIDE DEF entry
<1>4. escapes \in Seq(EscEntries) /\ Len(escapes) \in Nat /\ DOMAIN escapes = 1..Len(escapes)
  BY <1>0 DEF TypeOK
<1>5. /\ escapes' \in Seq(EscEntries)
      /\ DOMAIN escapes' = 1..Len(escapes)+1
      /\ \A k \in DOMAIN escapes : escapes'[k] = escapes[k]
      /\ escapes'[Len(escapes)+1] = entry
  BY <1>1, <1>3, <1>4, AppendProperties
<1>6. \A k \in DOMAIN escapes' : k \in DOMAIN escapes \/ k = Len(escapes) + 1
  BY <1>4, <1>5
\* An instruction the lookup does not find has no entry.
<1>7. \A k \in DOMAIN escapes : escapes[k].id # i
  <2> SUFFICES ASSUME NEW k \in DOMAIN escapes, escapes[k].id = i
               PROVE  FALSE
    OBVIOUS
  <2>1. index[i] = k
    BY <1>0, <1>4, RebuiltIndexExact DEF IndexOK
  <2>2. k # 0 /\ k <= Len(escapes)
    BY <1>4
  <2> QED
    BY <1>1, <2>1, <2>2 DEF LookupEscape
<1>8. \A j, k \in DOMAIN escapes' : escapes'[j].id = escapes'[k].id => j = k
  BY <1>0, <1>3, <1>5, <1>6, <1>7 DEF IndexOK
<1>9. \A k \in DOMAIN escapes : escapes[k].handle \in EscHandles /\ escapes[k].handle # next
  <2> SUFFICES ASSUME NEW k \in DOMAIN escapes
               PROVE  escapes[k].handle \in EscHandles /\ escapes[k].handle # next
    OBVIOUS
  <2>1. escapes[k].handle \in EscHandles
    BY DEF EscHandles
  <2>2. escapes[k].handle < next
    BY <1>0, <2>1 DEF HandlesUnique
  <2>3. escapes[k].handle \in Int /\ next \in Int
    BY <1>0, <1>2, EscapeEntries DEF Handles
  <2> QED
    BY <2>1, <2>2, <2>3
<1>10. \A j, k \in DOMAIN escapes' : escapes'[j].handle = escapes'[k].handle => j = k
  BY <1>0, <1>3, <1>5, <1>6, <1>9 DEF HandlesUnique
<1>11. \A k \in DOMAIN escapes' :
         \/ escapes'[k].handle \in EscHandles
         \/ escapes'[k].handle = next /\ next < next'
  BY <1>2, <1>3, <1>5, <1>6, <1>9
<1> QED
  BY <1>1, <1>2, <1>5, <1>8, <1>10, <1>11, EscapeStepTables

\* cpueaxh_hook_del and cpueaxh_escape_del of an escape keep the tables.
LEMMA EscapeDelTables ==
  ASSUME Tables, NEW h \in Handles, EscapeDel(h)
  PROVE  Tables'
<1>0. TypeOK /\ HandlesUnique /\ IndexOK
  BY DEF Tables
<1>1. PICK k \in DOMAIN escapes : escapes' = RemoveAt(escapes, k)
  BY DEF EscapeDel
<1>2. index' = RebuiltIndex(escapes') /\ UNCHANGED <<hooks, counts, next, walk>>
  BY DEF EscapeDel
<1>3. next' \in 1..MaxHandle+1 /\ next' >= next
  BY <1>0, <1>2 DEF TypeOK
<1>4. /\ escapes \in Seq(EscEntries) /\ Len(escapes) \in Nat
      /\ DOMAIN escapes = 1..Len(escapes)
  BY <1>0 DEF TypeOK
<1>5. /\ escapes' \in Seq(EscEntries)
      /\ DOMAIN escapes' = 1..Len(escapes)-1
      /\ \A j \in 1..Len(escapes)-1 : escapes'[j] = IF j < k THEN escapes[j] ELSE escapes[j+1]
  <2>1. escapes' \in Seq(EscEntries) /\ Len(escapes') = Len(escapes) - 1
    BY <1>1, <1>4, RemoveAtEntries
  <2>2. \A j \in 1..Len(escapes)-1 :
          RemoveAt(escapes, k)[j] = IF j < k THEN escapes[j] ELSE escapes[j+1]
    BY <1>4, RemoveAtEntries
  <2>3. DOMAIN escapes' = 1..Len(escapes)-1
    BY <2>1
  <2> QED
    BY <1>1, <2>1, <2>2, <2>3, Zenon
<1> DEFINE from(j) == IF j < k THEN j ELSE j + 1
<1>6. \A j \in DOMAIN escapes' : from(j) \in DOMAIN escapes /\ escapes'[j] = escapes[from(j)]
  BY <1>4, <1>5
<1>7. \A i, j \in DOMAIN escapes' : from(i) = from(j) => i = j
  BY <1>4, <1>5
<1> HIDE DEF from
<1>8. \A i, j \in DOMAIN escapes' : escapes'[i].id = escapes'[j].id => i = j
  BY <1>0, <1>6, <1>7 DEF IndexOK
<1>9. \A i, j \in DOMAIN escapes' : escapes'[i].handle = escapes'[j].handle => i = j
  BY <1>0, <1>6, <1>7 DEF HandlesUnique
<1>10. \A j \in DOMAIN escapes' : escapes'[j].handle \in EscHandles
  BY <1>6 DEF EscHandles
<1> QED
  BY <1>2, <1>3, <1>5, <1>8, <1>9, <1>10, EscapeStepTables

\* The steps of a walk leave the tables alone.
WalkOnly == UNCHANGED <<hooks, counts, escapes, index, next>>

LEMMA WalkStepTables ==
  ASSUME Tables, WalkOnly, walk' \in Walks, walk'.pc = "call" => walk'.slot \in Slots
  PROVE  Tables'
<1>0. TypeOK /\ CountsExact /\ HandlesUnique /\ IndexOK
  BY DEF Tables
<1>1. TypeOK'
  BY <1>0 DEF TypeOK, WalkOnly
<1>2. /\ UsedSlots' = UsedSlots /\ HookHandles' = HookHandles /\ EscHandles' = EscHandles
      /\ \A t : OfType(t)' = OfType(t)
  BY DEF UsedSlots, HookHandles, EscHandles, OfType, WalkOnly
<1>3. CountsExact'
  BY <1>0, <1>2 DEF CountsExact, WalkOnly
<1>4. HandlesUnique'
  BY <1>0, <1>2 DEF HandlesUnique, WalkOnly
<1>5. IndexOK'
  BY <1>0 DEF IndexOK, RebuiltIndex, WalkOnly
<1> QED
  BY <1>1, <1>3, <1>4, <1>5 DEF Tables

\* The shape of a walk that begins, and its first fields.
LEMMA BeginWalkShape ==
  ASSUME TypeOK, NEW t \in Types, NEW a \in Addresses, BeginWalk(t, a)
  PROVE  walk' \in WalkRecs /\ walk'.pc = "scan" /\ WalkOnly
<1> DEFINE due == {hooks[s].handle : s \in Matches(t, a)}
           left == IF t \in CodeTypes THEN counts[t] ELSE 0
<1>1. walk' = [pc |-> "scan", type |-> t, address |-> a, slot |-> 1, remaining |-> left,
               handled |-> FALSE, due |-> due, gone |-> {}, called |-> <<>>]
  BY DEF BeginWalk
<1>2. due \in SUBSET Handles
  BY UsedEntries DEF Matches, OfType
<1>3. left \in Int
  BY DEF TypeOK
<1>4. 1 \in 1..MaxHooks+1 /\ <<>> \in Seq(Handles)
  BY HooksAssumption
<1> HIDE DEF due, left
<1>5. walk' \in WalkRecs /\ walk'.pc = "scan"
  BY <1>1, <1>2, <1>3, <1>4 DEF WalkRecs
<1> QED
  BY <1>5 DEF BeginWalk, WalkOnly

\* The three ways of Visit: what each leaves in the walk.
Passes  == /\ walk.slot \notin OfType(walk.type)
           /\ walk' = [walk EXCEPT !.slot = walk.slot + 1]
Ignores == /\ walk.slot \in OfType(walk.type) \ Matches(walk.type, walk.address)
           /\ walk' = [walk EXCEPT !.slot = walk.slot + 1, !.remaining = CountedOff]
Calls   == /\ walk.slot \in Matches(walk.type, walk.address)
           /\ walk' = [walk EXCEPT !.pc = "call", !.remaining = CountedOff,
                                   !.called = Append(walk.called, hooks[walk.slot].handle)]

LEMMA VisitShape ==
  ASSUME TypeOK, Visit
  PROVE  /\ walk \in WalkRecs /\ walk.pc = "scan" /\ walk.slot \in Slots /\ WalkOnly
         /\ walk' \in WalkRecs /\ walk'.type = walk.type /\ walk'.address = walk.address
         /\ walk'.due = walk.due /\ walk'.gone = walk.gone
         /\ \/ /\ Passes /\ walk'.pc = "scan" /\ walk'.slot = walk.slot + 1
               /\ walk'.remaining = walk.remaining /\ walk'.called = walk.called
            \/ /\ Ignores /\ walk'.pc = "scan" /\ walk'.slot = walk.slot + 1
               /\ walk'.remaining = CountedOff /\ walk'.called = walk.called
            \/ /\ Calls /\ walk'.pc = "call" /\ walk'.slot = walk.slot
               /\ walk'.remaining = CountedOff
               /\ walk'.called = Append(walk.called, hooks[walk.slot].handle)
<1>1. walk.pc = "scan" /\ ~WalkOver /\ WalkOnly /\ (Passes \/ Ignores \/ Calls)
  BY DEF Visit, Passes, Ignores, Calls, WalkOnly
<1>2. walk \in WalkRecs
  BY <1>1 DEF TypeOK, Walks, WalkRecs, NoWalk
<1>3. walk.slot \in Slots
  BY <1>1, <1>2, HooksAssumption DEF WalkOver, WalkRecs, Slots
<1>4. walk.slot + 1 \in 1..MaxHooks+1
  BY <1>3, HooksAssumption DEF Slots
<1>5. CountedOff \in Int
  BY <1>2 DEF WalkRecs, CountedOff
<1>6. CASE Passes
  <2>1. walk' = [walk EXCEPT !.slot = walk.slot + 1]
    BY <1>6 DEF Passes
  <2> QED
    BY <1>1, <1>2, <1>3, <1>4, <1>6, <2>1 DEF WalkRecs
<1>7. CASE Ignores
  <2>1. walk' = [walk EXCEPT !.slot = walk.slot + 1, !.remaining = CountedOff]
    BY <1>7 DEF Ignores
  <2> QED
    BY <1>1, <1>2, <1>3, <1>4, <1>5, <1>7, <2>1 DEF WalkRecs
<1>8. CASE Calls
  <2> DEFINE list == Append(walk.called, hooks[walk.slot].handle)
  <2>1. walk' = [walk EXCEPT !.pc = "call", !.remaining = CountedOff, !.called = list]
    BY <1>8 DEF Calls
  <2>2. hooks[walk.slot].handle \in Handles
    BY <1>8, UsedEntries DEF Calls, Matches, OfType
  <2>3. list \in Seq(Handles)
    BY <1>2, <2>2, AppendProperties DEF WalkRecs
  <2> HIDE DEF list
  <2>4. walk' \in WalkRecs /\ walk'.pc = "call" /\ walk'.slot = walk.slot
    BY <1>2, <1>5, <2>1, <2>3 DEF WalkRecs
  <2>5. /\ walk'.type = walk.type /\ walk'.address = walk.address /\ walk'.due = walk.due
        /\ walk'.gone = walk.gone /\ walk'.remaining = CountedOff /\ walk'.called = list
    BY <1>2, <2>1 DEF WalkRecs
  <2> QED
    BY <1>1, <1>2, <1>3, <1>8, <2>4, <2>5 DEF list
<1> QED
  BY <1>1, <1>6, <1>7, <1>8

LEMMA CallbackReturnShape ==
  ASSUME TypeOK, NEW handled \in BOOLEAN, CallbackReturn(handled)
  PROVE  /\ walk \in WalkRecs /\ walk.pc = "call" /\ walk.slot \in Slots /\ WalkOnly
         /\ walk' \in WalkRecs /\ walk'.pc = "scan" /\ walk'.slot = walk.slot + 1
         /\ walk'.type = walk.type /\ walk'.address = walk.address /\ walk'.due = walk.due
         /\ walk'.gone = walk.gone /\ walk'.remaining = walk.remaining
         /\ walk'.called = walk.called
<1>1. /\ walk.pc = "call" /\ WalkOnly
      /\ walk' = [walk EXCEPT !.pc = "scan", !.slot = walk.slot + 1,
                              !.handled = walk.handled \/ handled]
  BY DEF CallbackReturn, WalkOnly
<1>2. walk \in WalkRecs /\ walk.slot \in Slots
  BY <1>1 DEF TypeOK, Walks, WalkRecs, NoWalk
<1>3. walk.slot + 1 \in 1..MaxHooks+1
  BY <1>2, HooksAssumption DEF Slots
<1> DEFINE answer == walk.handled \/ handled
<1>4. answer \in BOOLEAN
  OBVIOUS
<1> QED
  BY <1>1, <1>2, <1>3, <1>4 DEF WalkRecs

LEMMA InitTables == Init => Tables
<1> SUFFICES ASSUME Init PROVE Tables
  OBVIOUS
<1>1. /\ hooks = [s \in Slots |-> Free] /\ counts = [t \in Types |-> 0] /\ escapes = <<>>
      /\ index = [i \in EscapeIds |-> 0] /\ next = 1 /\ walk = NoWalk
  BY DEF Init
<1>2. Free \in HookEntries /\ Free.used = FALSE /\ NoWalk \in Walks /\ NoWalk.pc = "none"
  BY DEF HookEntries, Free, Walks, NoWalk
<1>3. DOMAIN escapes = {} /\ escapes \in Seq(EscEntries)
  BY <1>1
<1>4. TypeOK
  BY <1>1, <1>2, <1>3, HooksAssumption DEF TypeOK
<1>5. UsedSlots = {} /\ \A t : OfType(t) = {}
  BY <1>1, <1>2 DEF UsedSlots, OfType
<1>6. CountsExact
  BY <1>1, <1>5, FS_EmptySet DEF CountsExact
<1>7. HandlesUnique
  BY <1>3, <1>5 DEF HandlesUnique, HookHandles, EscHandles
<1>8. IndexOK
  BY <1>1, <1>3 DEF IndexOK, RebuiltIndex
<1> QED
  BY <1>4, <1>6, <1>7, <1>8 DEF Tables

LEMMA NextTables == Tables /\ [Next]_vars => Tables'
<1> SUFFICES ASSUME Tables, [Next]_vars PROVE Tables'
  OBVIOUS
<1>0. TypeOK /\ (walk.pc = "call" => walk.slot \in Slots) /\ walk \in Walks
  BY DEF Tables, TypeOK
<1>1. ASSUME NEW t \in Types, NEW range \in Ranges, HookAdd(t, range) PROVE Tables'
  BY <1>1, HookAddTables
<1>2. ASSUME NEW i \in EscapeIds, NEW range \in Ranges, EscapeAdd(i, range) PROVE Tables'
  BY <1>2, EscapeAddTables
<1>3. ASSUME NEW h \in Handles, HookDel(h) PROVE Tables'
  BY <1>3, HookDelTables
<1>4. ASSUME NEW h \in Handles, EscapeDel(h) PROVE Tables'
  BY <1>4, EscapeDelTables
<1>5. ASSUME UNCHANGED vars PROVE Tables'
  BY <1>0, <1>5, WalkStepTables DEF vars, WalkOnly
<1>6. ASSUME NEW t \in Types, SkipWalk(t) PROVE Tables'
  BY <1>5, <1>6 DEF SkipWalk
<1>7. ASSUME NEW t \in Types, NEW a \in Addresses, BeginWalk(t, a) PROVE Tables'
  <2>1. walk' \in Walks /\ walk'.pc # "call" /\ WalkOnly
    BY <1>0, <1>7, BeginWalkShape DEF Walks, WalkRecs
  <2> QED
    BY <2>1, WalkStepTables
<1>8. ASSUME Visit PROVE Tables'
  <2>1. walk' \in Walks /\ (walk'.pc = "call" => walk'.slot \in Slots) /\ WalkOnly
    BY <1>0, <1>8, VisitShape DEF Walks, WalkRecs
  <2> QED
    BY <2>1, WalkStepTables
<1>9. ASSUME NEW handled \in BOOLEAN, CallbackReturn(handled) PROVE Tables'
  <2>1. walk' \in Walks /\ walk'.pc # "call" /\ WalkOnly
    BY <1>0, <1>9, CallbackReturnShape DEF Walks, WalkRecs
  <2> QED
    BY <2>1, WalkStepTables
<1>10. ASSUME EndWalk PROVE Tables'
  <2>1. walk' \in Walks /\ walk'.pc # "call" /\ WalkOnly
    BY <1>10 DEF EndWalk, Walks, NoWalk, WalkOnly
  <2> QED
    BY <2>1, WalkStepTables
<1> QED
  BY <1>1, <1>2, <1>3, <1>4, <1>5, <1>6, <1>7, <1>8, <1>9, <1>10 DEF Next, WalkNext

LEMMA TablesInvariant == Spec => []Tables
  BY InitTables, NextTables, PTL DEF Spec

\* With one entry per instruction and an index rebuilt from the list, the lookup finds
\* exactly the entries of an instruction.
LEMMA IndexFindsEntry == Tables => EscapeIndexExact
<1> SUFFICES ASSUME Tables, NEW i \in EscapeIds, NEW a \in Addresses
             PROVE  EscapeCallback(i, a) =
                      {escapes[k].handle : k \in {j \in DOMAIN escapes :
                         escapes[j].id = i /\ RangeContains(escapes[j].range, a)}}
  BY DEF EscapeIndexExact
<1>1. /\ escapes \in Seq(EscEntries) /\ Len(escapes) \in Nat
      /\ DOMAIN escapes = 1..Len(escapes) /\ IndexOK
  BY DEF Tables, TypeOK
<1>2. /\ \A k \in DOMAIN escapes : escapes[k].id = i => index[i] = k
      /\ index[i] # 0 => index[i] \in DOMAIN escapes /\ escapes[index[i]].id = i
  BY <1>1, RebuiltIndexExact DEF IndexOK
<1>3. CASE \E k \in DOMAIN escapes : escapes[k].id = i
  <2>1. PICK k \in DOMAIN escapes : escapes[k].id = i
    BY <1>3
  <2>2. index[i] = k /\ k # 0 /\ k <= Len(escapes)
    BY <1>1, <1>2, <2>1
  <2>3. LookupEscape(i) = k
    BY <2>1, <2>2 DEF LookupEscape
  <2>4. \A j \in DOMAIN escapes : escapes[j].id = i => j = k
    BY <1>2, <2>2
  <2> QED
    BY <2>1, <2>2, <2>3, <2>4, Zenon DEF EscapeCallback
<1>4. CASE ~\E k \in DOMAIN escapes : escapes[k].id = i
  <2>1. LookupEscape(i) = 0
    BY <1>2, <1>4 DEF LookupEscape
  <2> QED
    BY <1>4, <2>1 DEF EscapeCallback
<1> QED
  BY <1>3, <1>4

\* cpueaxh_hook_add, cpueaxh_hook_del, cpueaxh_escape_add and cpueaxh_escape_del: for any
\* number of slots, types and instructions, and whatever callbacks call, the counts are
\* the numbers of hooks, handles stay unique and the escape index finds every entry.
THEOREM TablesSound == Spec => []TableSound
<1>1. Tables => TableSound
  BY IndexFindsEntry DEF Tables, TableSound
<1> QED
  BY <1>1, TablesInvariant, PTL

-----------------------------------------------------------------------------
(* The walks                                                               *)

\* The slots a walk has still to look at; the slot of a callback that is running is
\* behind it.
Ahead(w) == {s \in Slots : IF w.pc = "call" THEN s > w.slot ELSE s >= w.slot}

Walking == walk.pc # "none"

\* A handle deleted during the walk is an old one and no longer in the table.
GoneOK == Walking => \A h \in walk.gone : h < next /\ h \notin HookHandles

\* No hook was called twice, and none that was called is registered ahead of the walk.
CalledOK ==
  Walking => /\ \A k \in DOMAIN walk.called : walk.called[k] < next
             /\ \A k \in DOMAIN walk.called, s \in UsedSlots \cap Ahead(walk) :
                  hooks[s].handle # walk.called[k]
             /\ IsInjective(walk.called)

\* A hook that was due and still exists was called or is ahead.
DueOK ==
  Walking => \A h \in walk.due \ walk.gone :
    \/ h \in CalledIn(walk)
    \/ \E s \in Matches(walk.type, walk.address) \cap Ahead(walk) : hooks[s].handle = h

\* The inductive invariant of the walks.
WalkOK == GoneOK /\ CalledOK /\ DueOK

\* How the slots ahead change: only Visit passes one.
LEMMA AheadSteps ==
  ASSUME TypeOK
  PROVE  /\ Visit => Ahead(walk') = Ahead(walk) \ {walk.slot} /\ walk.slot \in Ahead(walk)
         /\ \A handled \in BOOLEAN : CallbackReturn(handled) => Ahead(walk') = Ahead(walk)
         /\ \A h \in Handles : Walking => Ahead(Gone(h)) = Ahead(walk)
<1>1. ASSUME Visit
      PROVE  Ahead(walk') = Ahead(walk) \ {walk.slot} /\ walk.slot \in Ahead(walk)
  <2>1. walk.pc = "scan" /\ walk.slot \in Slots
    BY <1>1, VisitShape
  <2>2. \/ walk'.pc = "scan" /\ walk'.slot = walk.slot + 1
        \/ walk'.pc = "call" /\ walk'.slot = walk.slot
    BY <1>1, VisitShape
  <2>3. \A s \in Slots : s \in Int
    BY DEF Slots
  <2> QED
    BY <2>1, <2>2, <2>3 DEF Ahead
<1>2. ASSUME NEW handled \in BOOLEAN, CallbackReturn(handled)
      PROVE  Ahead(walk') = Ahead(walk)
  <2>1. walk.pc = "call" /\ walk.slot \in Slots /\ walk'.pc = "scan" /\ walk'.slot = walk.slot + 1
    BY <1>2, CallbackReturnShape
  <2>2. \A s \in Slots : s \in Int
    BY DEF Slots
  <2> QED
    BY <2>1, <2>2 DEF Ahead
<1>3. ASSUME NEW h \in Handles, Walking
      PROVE  Ahead(Gone(h)) = Ahead(walk)
  <2>1. walk \in WalkRecs /\ Gone(h) = [walk EXCEPT !.gone = walk.gone \cup {h}]
    BY <1>3, GoneFields DEF Walking
  <2>2. Gone(h).pc = walk.pc /\ Gone(h).slot = walk.slot
    BY <2>1 DEF WalkRecs
  <2> QED
    BY <2>2 DEF Ahead
<1> QED
  BY <1>1, <1>2, <1>3

\* Handles in the table and in a walk are numbers.
LEMMA HandleNumbers ==
  ASSUME TypeOK
  PROVE  /\ Handles \subseteq Int /\ next \in Int
         /\ \A s \in UsedSlots : hooks[s].handle \in Handles
         /\ Walking => /\ walk \in WalkRecs /\ walk.gone \subseteq Handles
                       /\ \A k \in DOMAIN walk.called : walk.called[k] \in Handles
<1>1. Handles \subseteq Int /\ next \in Int
  BY DEF Handles, TypeOK
<1>2. Walking => walk \in WalkRecs
  BY DEF Walking, TypeOK, Walks, WalkRecs, NoWalk
<1>3. ASSUME walk \in WalkRecs
      PROVE  walk.gone \subseteq Handles /\ \A k \in DOMAIN walk.called : walk.called[k] \in Handles
  <2>1. walk.gone \in SUBSET Handles /\ walk.called \in Seq(Handles)
    BY <1>3 DEF WalkRecs
  <2> QED
    BY <2>1
<1> QED
  BY <1>1, <1>2, <1>3, UsedEntries

LEMMA HookAddWalk ==
  ASSUME Tables, WalkOK, NEW t \in Types, NEW range \in Ranges, HookAdd(t, range)
  PROVE  WalkOK'
<1>0. TypeOK /\ GoneOK /\ CalledOK /\ DueOK
  BY DEF Tables, WalkOK
<1>1. PICK s \in Slots :
        /\ s \notin UsedSlots /\ UsedSlots' = UsedSlots \cup {s} /\ hooks'[s].handle = next
        /\ \A r \in UsedSlots : r # s /\ hooks'[r] = hooks[r]
  BY <1>0, HookAddEffect
<1>2. next' = next + 1 /\ next \in Nat /\ walk' = walk
  BY <1>0, HookAddEffect
<1> SUFFICES ASSUME Walking PROVE WalkOK'
  BY <1>2 DEF WalkOK, GoneOK, CalledOK, DueOK, Walking
<1>3. /\ \A h \in walk.gone : h \in Int
      /\ \A k \in DOMAIN walk.called : walk.called[k] \in Int
  BY <1>0, HandleNumbers
<1>4. HookHandles' = HookHandles \cup {next}
  BY <1>1, Zenon DEF HookHandles
<1>5. GoneOK'
  BY <1>0, <1>2, <1>3, <1>4 DEF GoneOK, Walking
<1>6. CalledOK'
  <2>1. \A k \in DOMAIN walk.called : walk.called[k] < next' /\ walk.called[k] # next
    BY <1>0, <1>2, <1>3 DEF CalledOK
  <2>2. \A k \in DOMAIN walk.called, r \in UsedSlots' \cap Ahead(walk) :
          hooks'[r].handle # walk.called[k]
    BY <1>0, <1>1, <2>1 DEF CalledOK
  <2> QED
    BY <1>0, <1>2, <2>1, <2>2 DEF CalledOK, Walking
<1>7. DueOK'
  <2>1. \A r \in Matches(walk.type, walk.address) :
          r \in Matches(walk.type, walk.address)' /\ hooks'[r] = hooks[r]
    BY <1>1, <1>2 DEF Matches, OfType
  <2>2. Ahead(walk)' = Ahead(walk) /\ CalledIn(walk)' = CalledIn(walk)
    BY <1>2
  <2> QED
    BY <1>0, <1>2, <2>1, <2>2 DEF DueOK, Walking
<1> QED
  BY <1>5, <1>6, <1>7 DEF WalkOK

LEMMA HookDelWalk ==
  ASSUME Tables, WalkOK, NEW h \in Handles, HookDel(h)
  PROVE  WalkOK'
<1>0. TypeOK /\ HandlesUnique /\ GoneOK /\ CalledOK /\ DueOK
  BY DEF Tables, WalkOK
<1>1. PICK s \in UsedSlots :
        /\ hooks[s].handle = h /\ UsedSlots' = UsedSlots \ {s}
        /\ \A r \in UsedSlots' : hooks'[r] = hooks[r]
  BY <1>0, HookDelEffect
<1>2. walk' = Gone(h) /\ next' = next
  BY <1>0, HookDelEffect
<1>3. walk'.pc = walk.pc
  BY <1>0, <1>2, GoneFields
<1> SUFFICES ASSUME Walking PROVE WalkOK'
  BY <1>3 DEF WalkOK, GoneOK, CalledOK, DueOK, Walking
<1>4. walk \in WalkRecs /\ walk' = [walk EXCEPT !.gone = walk.gone \cup {h}]
  BY <1>0, <1>2, GoneFields DEF Walking
<1>5. /\ walk'.gone = walk.gone \cup {h} /\ walk'.called = walk.called /\ walk'.due = walk.due
      /\ walk'.type = walk.type /\ walk'.address = walk.address
  BY <1>4 DEF WalkRecs
<1>6. Ahead(walk)' = Ahead(walk)
  BY <1>0, <1>2, AheadSteps
<1>7. GoneOK'
  <2>1. h < next
    BY <1>0, <1>1 DEF HandlesUnique, HookHandles
  <2>2. \A r \in UsedSlots' : r \in UsedSlots /\ hooks'[r].handle = hooks[r].handle
                              /\ hooks[r].handle # h
    BY <1>0, <1>1 DEF HandlesUnique
  <2>3. HookHandles' \subseteq HookHandles \ {h}
    BY <2>2 DEF HookHandles
  <2> QED
    BY <1>0, <1>2, <1>5, <2>1, <2>3 DEF GoneOK, Walking
<1>8. CalledOK'
  BY <1>0, <1>1, <1>2, <1>5, <1>6 DEF CalledOK, Walking
<1>9. DueOK'
  <2>1. \A r \in Matches(walk.type, walk.address) :
          hooks[r].handle # h => /\ r \in Matches(walk.type, walk.address)'
                                 /\ hooks'[r] = hooks[r]
    BY <1>1, <1>5 DEF Matches, OfType
  <2>2. CalledIn(walk)' = CalledIn(walk)
    BY <1>5 DEF CalledIn
  <2>3. \A g \in walk'.due \ walk'.gone : g \in walk.due \ walk.gone /\ g # h
    BY <1>5
  <2> QED
    BY <1>0, <1>6, <2>1, <2>2, <2>3 DEF DueOK, Walking
<1> QED
  BY <1>7, <1>8, <1>9 DEF WalkOK

\* Steps that change neither the hooks nor the walk.
LEMMA OtherStepWalk ==
  ASSUME TypeOK, WalkOK, UNCHANGED <<hooks, walk>>, next' \in Int, next' >= next
  PROVE  WalkOK'
<1>1. /\ UsedSlots' = UsedSlots /\ HookHandles' = HookHandles
      /\ Matches(walk.type, walk.address)' = Matches(walk.type, walk.address)
  BY DEF UsedSlots, HookHandles, Matches, OfType
<1>2. GoneOK'
  BY <1>1, HandleNumbers DEF WalkOK, GoneOK, Walking
<1>3. CalledOK'
  BY <1>1, HandleNumbers DEF WalkOK, CalledOK, Walking
<1>4. DueOK'
  BY <1>1 DEF WalkOK, DueOK, Walking
<1> QED
  BY <1>2, <1>3, <1>4 DEF WalkOK

LEMMA BeginWalkOK ==
  ASSUME TypeOK, NEW t \in Types, NEW a \in Addresses, BeginWalk(t, a)
  PROVE  WalkOK'
<1>1. /\ walk'.pc = "scan" /\ walk'.type = t /\ walk'.address = a /\ walk'.slot = 1
      /\ walk'.due = {hooks[s].handle : s \in Matches(t, a)}
      /\ walk'.gone = {} /\ walk'.called = <<>>
      /\ hooks' = hooks
  BY DEF BeginWalk
<1>2. Ahead(walk') = Slots
  BY <1>1 DEF Ahead, Slots
<1>3. Matches(walk.type, walk.address)' = Matches(t, a) /\ Matches(t, a) \subseteq Slots
  BY <1>1 DEF Matches, OfType, UsedSlots
<1>4. DOMAIN walk'.called = {}
  BY <1>1
<1>5. GoneOK'
  BY <1>1 DEF GoneOK
<1>6. CalledOK'
  BY <1>4 DEF CalledOK, IsInjective
<1>7. DueOK'
  BY <1>1, <1>2, <1>3 DEF DueOK
<1> QED
  BY <1>5, <1>6, <1>7 DEF WalkOK

LEMMA VisitWalk ==
  ASSUME Tables, WalkOK, Visit
  PROVE  WalkOK'
<1>0. TypeOK /\ HandlesUnique /\ GoneOK /\ CalledOK /\ DueOK /\ Walking
  BY DEF Tables, WalkOK, Visit, Walking
<1>1. /\ walk \in WalkRecs /\ walk'.type = walk.type /\ walk'.address = walk.address
      /\ walk'.due = walk.due /\ walk'.gone = walk.gone /\ hooks' = hooks /\ next' = next
  BY <1>0, VisitShape DEF WalkOnly
<1>2. Ahead(walk)' = Ahead(walk) \ {walk.slot} /\ walk.slot \in Ahead(walk)
  BY <1>0, AheadSteps
<1>3. /\ UsedSlots' = UsedSlots /\ HookHandles' = HookHandles
      /\ Matches(walk.type, walk.address)' = Matches(walk.type, walk.address)
  BY <1>1 DEF UsedSlots, HookHandles, Matches, OfType
<1>4. GoneOK'
  BY <1>0, <1>1, <1>3 DEF GoneOK, Walking
<1>5. CASE walk'.called = walk.called /\ walk.slot \notin Matches(walk.type, walk.address)
  <2>1. CalledOK'
    BY <1>0, <1>1, <1>2, <1>3, <1>5 DEF CalledOK
  <2>2. CalledIn(walk)' = CalledIn(walk)
    BY <1>5 DEF CalledIn
  <2>3. DueOK'
    BY <1>0, <1>1, <1>2, <1>3, <1>5, <2>2 DEF DueOK
  <2> QED
    BY <1>4, <2>1, <2>3 DEF WalkOK
<1>6. CASE /\ walk.slot \in Matches(walk.type, walk.address)
           /\ walk'.called = Append(walk.called, hooks[walk.slot].handle)
  <2> DEFINE n == Len(walk.called) + 1
             new == hooks[walk.slot].handle
  <2>1. walk.slot \in UsedSlots
    BY <1>6 DEF Matches, OfType
  <2>2. new \in Handles
    BY <1>0, <2>1, UsedEntries
  <2>3. walk.called \in Seq(Handles) /\ Len(walk.called) \in Nat
    BY <1>1 DEF WalkRecs
  <2>4. /\ DOMAIN walk'.called = DOMAIN walk.called \cup {n} /\ walk'.called[n] = new
        /\ n \notin DOMAIN walk.called
        /\ \A k \in DOMAIN walk.called : walk'.called[k] = walk.called[k]
    <3>1. /\ walk'.called \in Seq(Handles) /\ Len(walk'.called) = n /\ walk'.called[n] = new
          /\ \A k \in 1..Len(walk.called) : walk'.called[k] = walk.called[k]
      BY <1>6, <2>2, <2>3, AppendProperties
    <3>2. DOMAIN walk.called = 1..Len(walk.called) /\ DOMAIN walk'.called = 1..n
      BY <2>3, <3>1
    <3>3. 1..n = 1..Len(walk.called) \cup {n} /\ n \notin 1..Len(walk.called)
      BY <2>3
    <3> QED
      BY <3>1, <3>2, <3>3
  <2>5. new < next /\ \A k \in DOMAIN walk.called : walk.called[k] # new
    BY <1>0, <1>2, <2>1 DEF HandlesUnique, HookHandles, CalledOK
  <2> HIDE DEF n, new
  <2>6. \A r \in UsedSlots \cap Ahead(walk)' :
          /\ hooks[r].handle # new
          /\ \A k \in DOMAIN walk.called : hooks[r].handle # walk.called[k]
    BY <1>0, <1>2, <2>1 DEF HandlesUnique, CalledOK, new
  <2>7. CalledOK'
    <3>1. \A k \in DOMAIN walk'.called : walk'.called[k] < next'
      BY <1>0, <1>1, <2>4, <2>5 DEF CalledOK
    <3>2. \A k \in DOMAIN walk'.called, r \in UsedSlots' \cap Ahead(walk)' :
            hooks'[r].handle # walk'.called[k]
      BY <1>1, <1>3, <2>4, <2>6
    <3>3. IsInjective(walk'.called)
      BY <1>0, <2>4, <2>5 DEF CalledOK, IsInjective
    <3> QED
      BY <3>1, <3>2, <3>3 DEF CalledOK
  <2>8. CalledIn(walk)' = CalledIn(walk) \cup {new}
    BY <2>4 DEF CalledIn
  <2>9. DueOK'
    BY <1>0, <1>1, <1>2, <1>3, <2>8 DEF DueOK, new
  <2> QED
    BY <1>4, <2>7, <2>9 DEF WalkOK
<1> QED
  BY <1>0, <1>5, <1>6, VisitShape DEF Passes, Ignores, Calls, Matches

LEMMA CallbackReturnWalk ==
  ASSUME TypeOK, WalkOK, NEW handled \in BOOLEAN, CallbackReturn(handled)
  PROVE  WalkOK'
<1>0. GoneOK /\ CalledOK /\ DueOK /\ Walking
  BY DEF WalkOK, CallbackReturn, Walking
<1>1. /\ walk'.type = walk.type /\ walk'.address = walk.address /\ walk'.due = walk.due
      /\ walk'.gone = walk.gone /\ walk'.called = walk.called /\ hooks' = hooks /\ next' = next
  BY CallbackReturnShape DEF WalkOnly
<1>2. Ahead(walk)' = Ahead(walk)
  BY AheadSteps
<1>3. /\ UsedSlots' = UsedSlots /\ HookHandles' = HookHandles
      /\ Matches(walk.type, walk.address)' = Matches(walk.type, walk.address)
      /\ CalledIn(walk)' = CalledIn(walk)
  BY <1>1 DEF UsedSlots, HookHandles, Matches, OfType, CalledIn
<1>4. GoneOK' /\ CalledOK'
  BY <1>0, <1>1, <1>2, <1>3 DEF GoneOK, CalledOK
<1>5. DueOK'
  BY <1>0, <1>1, <1>2, <1>3 DEF DueOK
<1> QED
  BY <1>4, <1>5 DEF WalkOK

LEMMA NextWalk == Tables /\ WalkOK /\ [Next]_vars => WalkOK'
<1> SUFFICES ASSUME Tables, WalkOK, [Next]_vars PROVE WalkOK'
  OBVIOUS
<1>0. TypeOK /\ next \in Nat
  BY DEF Tables, TypeOK
<1>1. ASSUME NEW t \in Types, NEW range \in Ranges, HookAdd(t, range) PROVE WalkOK'
  BY <1>1, HookAddWalk
<1>2. ASSUME NEW h \in Handles, HookDel(h) PROVE WalkOK'
  BY <1>2, HookDelWalk
<1>3. ASSUME NEW i \in EscapeIds, NEW range \in Ranges, EscapeAdd(i, range) PROVE WalkOK'
  BY <1>0, <1>3, OtherStepWalk DEF EscapeAdd
<1>4. ASSUME NEW h \in Handles, EscapeDel(h) PROVE WalkOK'
  BY <1>0, <1>4, OtherStepWalk DEF EscapeDel
<1>5. ASSUME UNCHANGED vars PROVE WalkOK'
  BY <1>0, <1>5, OtherStepWalk DEF vars
<1>6. ASSUME NEW t \in Types, SkipWalk(t) PROVE WalkOK'
  BY <1>5, <1>6 DEF SkipWalk
<1>7. ASSUME NEW t \in Types, NEW a \in Addresses, BeginWalk(t, a) PROVE WalkOK'
  BY <1>0, <1>7, BeginWalkOK
<1>8. ASSUME Visit PROVE WalkOK'
  BY <1>8, VisitWalk
<1>9. ASSUME NEW handled \in BOOLEAN, CallbackReturn(handled) PROVE WalkOK'
  BY <1>0, <1>9, CallbackReturnWalk
<1>10. ASSUME EndWalk PROVE WalkOK'
  BY <1>10 DEF EndWalk, NoWalk, WalkOK, GoneOK, CalledOK, DueOK, Walking
<1> QED
  BY <1>1, <1>2, <1>3, <1>4, <1>5, <1>6, <1>7, <1>8, <1>9, <1>10 DEF Next, WalkNext

LEMMA WalksOK == Spec => [](Tables /\ WalkOK)
<1>1. Init => WalkOK
  BY DEF Init, NoWalk, WalkOK, GoneOK, CalledOK, DueOK, Walking
<1> QED
  BY <1>1, InitTables, NextTables, NextWalk, PTL DEF Spec

\* Only a visit starts a callback.
LEMMA OnlyVisitCalls ==
  ASSUME TypeOK, [Next]_vars, walk.pc = "scan", walk'.pc = "call"
  PROVE  Visit
<1>1. walk' # walk
  OBVIOUS
<1>2. \A t, range : ~HookAdd(t, range) /\ \A i : ~EscapeAdd(i, range)
  BY DEF HookAdd, EscapeAdd, HostRuns
<1>3. \A h : ~HookDel(h) /\ ~EscapeDel(h)
  BY DEF HookDel, EscapeDel, HostRuns
<1>4. \A t, a : ~SkipWalk(t) /\ ~BeginWalk(t, a)
  BY DEF SkipWalk, BeginWalk
<1>5. ~EndWalk /\ \A handled : ~CallbackReturn(handled)
  BY DEF EndWalk, NoWalk, CallbackReturn
<1> QED
  BY <1>1, <1>2, <1>3, <1>4, <1>5 DEF Next, WalkNext, vars

\* cpueaxh_hook_del: a walk reads the table anew at every slot and handles are never
\* used again, so no walk calls a hook that was deleted since it began.
THEOREM DeletedNeverCalled == Spec => NotCalledOnceDeleted
<1>1. ASSUME Tables, WalkOK, [Next]_vars, walk.pc = "scan", walk'.pc = "call"
      PROVE  Last(walk'.called) \notin walk.gone
  <2>0. TypeOK /\ GoneOK
    BY <1>1 DEF Tables, WalkOK
  <2>1. Visit
    BY <1>1, <2>0, OnlyVisitCalls
  <2>2. /\ walk \in WalkRecs /\ walk.slot \in Matches(walk.type, walk.address)
        /\ walk'.called = Append(walk.called, hooks[walk.slot].handle)
    BY <1>1, <2>0, <2>1, VisitShape DEF Calls
  <2>3. walk.slot \in UsedSlots
    BY <2>2 DEF Matches, OfType
  <2>4. hooks[walk.slot].handle \in Handles /\ hooks[walk.slot].handle \in HookHandles
    BY <2>0, <2>3, UsedEntries DEF HookHandles
  <2>5. walk.called \in Seq(Handles)
    BY <2>2 DEF WalkRecs
  <2>6. Last(walk'.called) = hooks[walk.slot].handle
    BY <2>2, <2>4, <2>5, AppendProperties DEF Last
  <2> QED
    BY <1>1, <2>0, <2>4, <2>6 DEF GoneOK, Walking
<1>2. Tables /\ WalkOK /\ [Next]_vars =>
        [walk.pc = "scan" /\ walk'.pc = "call" => Last(walk'.called) \notin walk.gone]_vars
  BY <1>1
<1> QED
  BY <1>2, WalksOK, PTL DEF Spec, NotCalledOnceDeleted

-----------------------------------------------------------------------------
(* Completeness of the walks                                               *)

\* The callbacks of code hooks add no hooks.  Without this cpueaxh_dispatch_code_hooks,
\* which counts the hooks of the type off, counts a hook added behind it in the place of
\* one that is due.
NoCodeAdd == \A t \in CodeTypes : "add" \notin Reentrant[t]

\* The countdown of a code walk never falls below the number of hooks ahead.
RemainingOK ==
  Walking /\ walk.type \in CodeTypes =>
    Cardinality(OfType(walk.type) \cap Ahead(walk)) <= walk.remaining

\* Sets of slots have cardinalities, and smaller ones smaller ones.
LEMMA SlotSets ==
  ASSUME NEW S \in SUBSET Slots
  PROVE  /\ IsFiniteSet(S) /\ Cardinality(S) \in Nat
         /\ \A T \in SUBSET S : Cardinality(T) \in Nat /\ Cardinality(T) <= Cardinality(S)
<1>1. IsFiniteSet(Slots)
  BY FS_Interval, HooksAssumption DEF Slots
<1>2. IsFiniteSet(S)
  BY <1>1, FS_Subset
<1> QED
  BY <1>2, FS_Subset, FS_CardinalityType

LEMMA NextRemaining ==
  ASSUME NoCodeAdd
  PROVE  Tables /\ RemainingOK /\ [Next]_vars => RemainingOK'
<1> SUFFICES ASSUME Tables, RemainingOK, [Next]_vars, Walking', walk'.type \in CodeTypes
             PROVE  Cardinality((OfType(walk.type) \cap Ahead(walk))') <= walk'.remaining
  BY DEF RemainingOK
<1>0. TypeOK /\ CountsExact /\ (walk.pc = "none" => walk = NoWalk)
  BY DEF Tables, TypeOK, Walks
<1> DEFINE left == OfType(walk.type) \cap Ahead(walk)
<1>1. left \in SUBSET Slots /\ left' \in SUBSET Slots
  BY DEF Ahead
<1> HIDE DEF left
<1>2. Cardinality(left) \in Nat /\ Cardinality(left') \in Nat
  BY <1>1, SlotSets
<1> SUFFICES Cardinality(left') <= walk'.remaining
  BY DEF left
\* No step but the first of a walk has more hooks ahead, and none that keeps the
\* countdown.
<1>3. ASSUME Walking, walk'.type = walk.type, left' \subseteq left,
             walk'.remaining = walk.remaining
      PROVE  Cardinality(left') <= walk'.remaining
  <2>1. Cardinality(left) <= walk.remaining
    BY <1>3 DEF RemainingOK, left
  <2>2. Cardinality(left') <= Cardinality(left)
    BY <1>1, <1>3, SlotSets
  <2>3. walk.remaining \in Int
    BY <1>0, <1>3, HandleNumbers DEF WalkRecs
  <2> QED
    BY <1>2, <1>3, <2>1, <2>2, <2>3
<1>4. ASSUME NEW t \in Types, NEW range \in Ranges, HookAdd(t, range) PROVE FALSE
  <2>1. walk' = walk /\ walk.pc # "scan" /\ (walk.pc = "call" => "add" \in Reentrant[walk.type])
    BY <1>0, <1>4, HookAddEffect
  <2>2. walk.pc = "call"
    BY <1>0, <2>1, HandleNumbers DEF Walking, WalkRecs
  <2> QED
    BY <2>1, <2>2 DEF NoCodeAdd
<1>5. ASSUME NEW h \in Handles, HookDel(h) PROVE Cardinality(left') <= walk'.remaining
  <2>1. walk' = Gone(h)
    BY <1>0, <1>5, HookDelEffect
  <2>2. Walking
    BY <1>0, <2>1, GoneFields DEF Walking
  <2>3. walk \in WalkRecs /\ walk' = [walk EXCEPT !.gone = walk.gone \cup {h}]
    BY <1>0, <2>1, <2>2, GoneFields DEF Walking
  <2>4. walk'.type = walk.type /\ walk'.remaining = walk.remaining
    BY <2>3 DEF WalkRecs
  <2>5. Ahead(walk)' = Ahead(walk)
    BY <1>0, <2>1, <2>2, AheadSteps
  <2>6. \A r \in UsedSlots' : r \in UsedSlots /\ hooks'[r] = hooks[r]
    BY <1>0, <1>5, HookDelEffect
  <2>7. left' \subseteq left
    BY <2>4, <2>5, <2>6 DEF left, OfType
  <2> QED
    BY <1>3, <2>2, <2>4, <2>7
<1>6. ASSUME UNCHANGED <<hooks, walk>> PROVE Cardinality(left') <= walk'.remaining
  <2>1. left' = left
    BY <1>6 DEF left, OfType, UsedSlots
  <2> QED
    BY <1>3, <1>6, <2>1 DEF Walking
<1>7. ASSUME NEW t \in Types, NEW a \in Addresses, BeginWalk(t, a)
      PROVE  Cardinality(left') <= walk'.remaining
  <2>1. walk'.type = t /\ walk'.remaining = IF t \in CodeTypes THEN counts[t] ELSE 0
    BY <1>7 DEF BeginWalk
  <2>2. walk'.remaining = Cardinality(OfType(t))
    BY <1>0, <2>1 DEF CountsExact
  <2>3. left' \subseteq OfType(t) /\ OfType(t) \subseteq Slots
    BY <1>7, <2>1 DEF BeginWalk, left, OfType, UsedSlots
  <2> QED
    BY <2>2, <2>3, SlotSets
<1>8. ASSUME Visit PROVE Cardinality(left') <= walk'.remaining
  <2>1. /\ walk \in WalkRecs /\ walk'.type = walk.type /\ hooks' = hooks /\ Walking
        /\ \/ walk.slot \notin OfType(walk.type) /\ walk'.remaining = walk.remaining
           \/ walk.slot \in OfType(walk.type) /\ walk'.remaining = CountedOff
    BY <1>0, <1>8, VisitShape DEF WalkOnly, Walking, Passes, Ignores, Calls, Matches
  <2>2. Ahead(walk)' = Ahead(walk) \ {walk.slot} /\ walk.slot \in Ahead(walk)
    BY <1>0, <1>8, AheadSteps
  <2>3. left' = left \ {walk.slot}
    BY <2>1, <2>2 DEF left, OfType, UsedSlots
  <2>4. CASE walk.slot \notin OfType(walk.type)
    BY <1>3, <2>1, <2>3, <2>4
  <2>5. CASE walk.slot \in OfType(walk.type)
    <3>1. walk.slot \in left
      BY <2>2, <2>5 DEF left
    <3>2. Cardinality(left') = Cardinality(left) - 1
      BY <1>1, <2>3, <3>1, SlotSets, FS_RemoveElement
    <3>3. walk'.remaining = walk.remaining - 1 /\ walk.remaining \in Int
      BY <2>1, <2>5 DEF CountedOff, WalkRecs
    <3>4. Cardinality(left) <= walk.remaining
      BY <2>1 DEF RemainingOK, left
    <3> QED
      BY <1>2, <3>2, <3>3, <3>4
  <2> QED
    BY <2>4, <2>5
<1>9. ASSUME NEW handled \in BOOLEAN, CallbackReturn(handled)
      PROVE  Cardinality(left') <= walk'.remaining
  <2>1. /\ walk'.type = walk.type /\ walk'.remaining = walk.remaining /\ hooks' = hooks
        /\ Walking
    BY <1>0, <1>9, CallbackReturnShape DEF WalkOnly, Walking
  <2>2. Ahead(walk)' = Ahead(walk)
    BY <1>0, <1>9, AheadSteps
  <2>3. left' = left
    BY <2>1, <2>2 DEF left, OfType, UsedSlots
  <2> QED
    BY <1>3, <2>1, <2>3
<1>10. ASSUME EndWalk PROVE FALSE
  BY <1>10 DEF EndWalk, NoWalk, Walking
<1>11. \A i, range : EscapeAdd(i, range) => UNCHANGED <<hooks, walk>>
  BY DEF EscapeAdd
<1>12. \A h : EscapeDel(h) => UNCHANGED <<hooks, walk>>
  BY DEF EscapeDel
<1>13. (UNCHANGED vars => UNCHANGED <<hooks, walk>>) /\ \A t : SkipWalk(t) => UNCHANGED <<hooks, walk>>
  BY DEF SkipWalk, vars
<1> QED
  BY <1>4, <1>5, <1>6, <1>7, <1>8, <1>9, <1>10, <1>11, <1>12, <1>13 DEF Next, WalkNext

\* cpueaxh_dispatch_code_hooks and the notify functions, for any table size, any number
\* of types and any reentrant calls but those NoCodeAdd excludes: when a walk ends it has
\* called every hook that was due when it began and was not deleted since, and none twice.
THEOREM WalksComplete ==
  ASSUME NoCodeAdd
  PROVE  Spec => WalkComplete
<1>1. ASSUME Tables, WalkOK, RemainingOK, [Next]_vars, walk.pc = "scan", walk'.pc = "none"
      PROVE  walk.due \ walk.gone \subseteq CalledIn(walk) /\ IsInjective(walk.called)
  <2>0. TypeOK /\ CalledOK /\ DueOK /\ Walking
    BY <1>1 DEF Tables, WalkOK, Walking
  <2>1. WalkOver
    <3>1. \A t, range : ~HookAdd(t, range) /\ \A i : ~EscapeAdd(i, range)
      BY <1>1 DEF HookAdd, EscapeAdd, HostRuns
    <3>2. \A h : ~HookDel(h) /\ ~EscapeDel(h)
      BY <1>1 DEF HookDel, EscapeDel, HostRuns
    <3>3. \A t, a : ~SkipWalk(t) /\ ~BeginWalk(t, a)
      BY <1>1 DEF SkipWalk, BeginWalk
    <3>4. ~Visit
      BY <1>1, <2>0, VisitShape
    <3>5. \A handled : ~CallbackReturn(handled)
      BY <1>1 DEF CallbackReturn
    <3>6. walk' # walk
      BY <1>1
    <3> QED
      BY <1>1, <3>1, <3>2, <3>3, <3>4, <3>5, <3>6 DEF Next, WalkNext, EndWalk, vars
  <2>2. walk \in WalkRecs
    BY <2>0, HandleNumbers
  <2>3. OfType(walk.type) \cap Ahead(walk) = {}
    <3>1. CASE walk.slot > MaxHooks
      <4>1. \A s \in Slots : ~(s >= walk.slot)
        BY <2>2, <3>1, HooksAssumption DEF Slots, WalkRecs
      <4> QED
        BY <1>1, <4>1 DEF Ahead
    <3>2. CASE walk.type \in CodeTypes /\ walk.remaining = 0
      <4> DEFINE left == OfType(walk.type) \cap Ahead(walk)
      <4>1. Cardinality(left) <= 0
        BY <1>1, <2>0, <3>2 DEF RemainingOK
      <4>2. left \in SUBSET Slots
        BY DEF Ahead
      <4> HIDE DEF left
      <4>3. IsFiniteSet(left) /\ Cardinality(left) = 0
        BY <4>1, <4>2, SlotSets
      <4>4. left = {}
        BY <4>3, FS_EmptySet
      <4> QED
        BY <4>4 DEF left
    <3> QED
      BY <2>1, <3>1, <3>2 DEF WalkOver
  <2>4. Matches(walk.type, walk.address) \cap Ahead(walk) = {}
    BY <2>3 DEF Matches
  <2> QED
    BY <2>0, <2>4 DEF DueOK, CalledOK
<1>2. Tables /\ WalkOK /\ RemainingOK /\ [Next]_vars =>
        [walk.pc = "scan" /\ walk'.pc = "none" =>
           /\ walk.due \ walk.gone \subseteq CalledIn(walk)
           /\ IsInjective(walk.called)]_vars
  BY <1>1
<1>3. Init => RemainingOK
  BY DEF Init, NoWalk, RemainingOK, Walking
<1>4. Tables /\ RemainingOK /\ [Next]_vars => RemainingOK'
  BY NextRemaining
<1> QED
  BY <1>2, <1>3, <1>4, WalksOK, PTL DEF Spec, WalkComplete

=============================================================================
