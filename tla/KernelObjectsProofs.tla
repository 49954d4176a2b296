------------------------- MODULE KernelObjectsProofs -------------------------
(***************************************************************************)
(* KernelObjects: handles are counted exactly, names lead to live objects,  *)
(* stale references are rejected and a live handle keeps its object, for    *)
(* any names and any bounds.                                                *)
(***************************************************************************)
EXTENDS KernelObjects, FiniteSetTheorems, TLAPS

(* The free list q: its values were minted
   below n, are not live in e, and occur once. *)
FreeList(q, e, n) ==
  /\ q \in Seq(Handles)
  /\ \A i \in 1 .. Len(q) : e[q[i]] = 0 /\ q[i] < n
  /\ \A i, j \in 1 .. Len(q) : q[i] = q[j] => i = j

(* The handle table: e the entries, g the generations, q the free list, n the
   next value, st the closed incarnations.  A value that was never minted is not
   live, and a closed incarnation is older than its value's generation. *)
TableOK(e, g, q, n, st) ==
  /\ e \in [Handles -> 0 .. MaxObjects]
  /\ g \in [Handles -> 0 .. MaxGeneration]
  /\ n \in 1 .. MaxHandles + 1
  /\ st \subseteq Handles \X (0 .. MaxGeneration)
  /\ FreeList(q, e, n)
  /\ \A h \in Handles : h >= n => e[h] = 0
  /\ \A p \in st : p[2] < g[p[1]]

TableInv == TableOK(entries, generations, closed_handle_values, next_handle, stale)

(* Objects not created yet are dead and nothing refers to them. *)
ObjectInv ==
  /\ kind \in [Ids -> Kinds \cup {"none"}]
  /\ name \in [Ids -> Names \cup {NoName}]
  /\ names \in [Names -> 0 .. MaxObjects]
  /\ handle_counts \in [Ids -> Nat]
  /\ next_id \in 1 .. MaxObjects + 1
  /\ \A o \in Ids : o >= next_id => kind[o] = "none"
  /\ NamesResolve

MiscInv ==
  /\ protected \subseteq Handles
  /\ claims \subseteq Ids
  /\ opened \in [Ids -> 0 .. MaxOpened]
  /\ NoLeakedClaim

(* HandlesCounted of the entries e, the counts c and the object types k. *)
To(e, o) == {h \in Handles : e[h] = o}
Counted(e, c, k) ==
  \A o \in Ids : /\ c[o] = Cardinality(To(e, o))
                 /\ k[o] # "none" <=> To(e, o) # {}

SameBut(k, k2, o) == \A p \in Ids : p # o => k2[p] = k[p]

IInv ==
  /\ TableInv
  /\ ObjectInv
  /\ Counted(entries, handle_counts, kind)
  /\ MiscInv

-----------------------------------------------------------------------------
(* Sets of handles. *)

LEMMA HandlesFinite == IsFiniteSet(Handles)
BY Bounds, FS_Interval DEF Handles

LEMMA Counting ==
  ASSUME NEW S, IsFiniteSet(S), NEW x
  PROVE  /\ Cardinality(S) \in Nat
         /\ S = {} <=> Cardinality(S) = 0
         /\ x \notin S => Cardinality(S \cup {x}) = Cardinality(S) + 1
         /\ x \in S => Cardinality(S \ {x}) = Cardinality(S) - 1
BY Zenon, FS_CardinalityType, FS_EmptySet, FS_AddElement, FS_RemoveElement

LEMMA ToFinite == \A e, o : IsFiniteSet(To(e, o))
BY HandlesFinite, FS_Subset DEF To

(* Sequences: what removing the first and adding a last element leaves. *)
LEMMA TailFacts ==
  ASSUME NEW S, NEW q \in Seq(S), q # << >>
  PROVE  /\ Len(q) \in Nat /\ Len(q) >= 1 /\ Head(q) = q[1] /\ q[1] \in S
         /\ Tail(q) \in Seq(S) /\ Len(Tail(q)) = Len(q) - 1
         /\ \A i \in 1 .. Len(q) - 1 : Tail(q)[i] = q[i + 1]
OBVIOUS

LEMMA AppendFacts ==
  ASSUME NEW S, NEW q \in Seq(S), NEW x \in S
  PROVE  /\ Len(q) \in Nat
         /\ Append(q, x) \in Seq(S) /\ Len(Append(q, x)) = Len(q) + 1
         /\ \A i \in 1 .. Len(q) : Append(q, x)[i] = q[i] /\ q[i] \in S
         /\ Append(q, x)[Len(q) + 1] = x
OBVIOUS

LEMMA TakeFreeList ==
  ASSUME NEW q, NEW e, NEW n, NEW o, NEW e2,
         FreeList(q, e, n), q # << >>,
         \A h \in Handles : h # q[1] => e2[h] = e[h]
  PROVE  /\ FreeList(Tail(q), e2, n)
         /\ Head(q) = q[1] /\ q[1] \in Handles /\ e[q[1]] = 0 /\ q[1] < n
         /\ \A i \in 1 .. Len(Tail(q)) : Tail(q)[i] # q[1]
<1>1. /\ Len(q) \in Nat /\ Len(q) >= 1 /\ Head(q) = q[1] /\ q[1] \in Handles
      /\ Tail(q) \in Seq(Handles) /\ Len(Tail(q)) = Len(q) - 1
      /\ \A i \in 1 .. Len(q) - 1 : Tail(q)[i] = q[i + 1]
  BY TailFacts DEF FreeList
<1>2. 1 \in 1 .. Len(q) /\ \A i \in 1 .. Len(q) - 1 : i + 1 \in 1 .. Len(q) /\ i + 1 # 1
  BY <1>1
<1>3. \A i \in 1 .. Len(q) : q[i] \in Handles
  BY DEF FreeList
<1>4. \A i \in 1 .. Len(q) - 1 : Tail(q)[i] # q[1]
  BY <1>1, <1>2 DEF FreeList
<1>5. \A i \in 1 .. Len(q) - 1 : e2[Tail(q)[i]] = 0 /\ Tail(q)[i] < n
  BY <1>1, <1>2, <1>3, <1>4 DEF FreeList
<1>6. \A i, j \in 1 .. Len(q) - 1 : Tail(q)[i] = Tail(q)[j] => i = j
  <2>1. TAKE i, j \in 1 .. Len(q) - 1
  <2>2. HAVE Tail(q)[i] = Tail(q)[j]
  <2>3. q[i + 1] = q[j + 1]
    BY Zenon, <1>1, <2>2
  <2>4. i + 1 = j + 1
    BY <1>2, <2>3 DEF FreeList
  <2>5. QED
    BY <2>4, <1>1
<1>7. QED
  BY <1>1, <1>2, <1>4, <1>5, <1>6 DEF FreeList

LEMMA CloseFreeList ==
  ASSUME NEW q, NEW e, NEW n, NEW h \in Handles, NEW e2,
         FreeList(q, e, n), e[h] # 0, h < n, e2[h] = 0,
         \A g \in Handles : g # h => e2[g] = e[g]
  PROVE  FreeList(Append(q, h), e2, n)
<1>1. /\ Len(q) \in Nat
      /\ Append(q, h) \in Seq(Handles) /\ Len(Append(q, h)) = Len(q) + 1
      /\ \A i \in 1 .. Len(q) : Append(q, h)[i] = q[i] /\ q[i] \in Handles
      /\ Append(q, h)[Len(q) + 1] = h
  BY AppendFacts DEF FreeList
<1>2. \A i \in 1 .. Len(q) + 1 : i \in 1 .. Len(q) \/ i = Len(q) + 1
  BY <1>1
<1>3. \A i \in 1 .. Len(q) : q[i] # h
  BY DEF FreeList
<1>4. \A i \in 1 .. Len(q) + 1 : e2[Append(q, h)[i]] = 0 /\ Append(q, h)[i] < n
  BY <1>1, <1>2, <1>3 DEF FreeList
<1>5. \A i, j \in 1 .. Len(q) + 1 : Append(q, h)[i] = Append(q, h)[j] => i = j
  BY <1>1, <1>2, <1>3 DEF FreeList
<1>6. QED
  BY <1>1, <1>4, <1>5 DEF FreeList

-----------------------------------------------------------------------------
(* The table. *)

(* The value that insert takes from the free list q, or else n. *)
Fresh(q, n) == IF q # << >> THEN q[1] ELSE n
Rest(q) == IF q # << >> THEN Tail(q) ELSE << >>
After(q, n) == IF q # << >> THEN n ELSE n + 1

(* HandleTable::insert takes a value that is not live and keeps the table in
   order. *)
LEMMA TakeTable ==
  ASSUME NEW e, NEW g, NEW q, NEW n, NEW st, TableOK(e, g, q, n, st),
         NEW o \in Ids, Fresh(q, n) \in Handles
  PROVE  /\ e[Fresh(q, n)] = 0
         /\ TableOK([e EXCEPT ![Fresh(q, n)] = o], g, Rest(q), After(q, n), st)
<1> DEFINE e2 == [e EXCEPT ![Fresh(q, n)] = o]
<1>1. /\ e2 \in [Handles -> 0 .. MaxObjects]
      /\ \A h \in Handles : h # Fresh(q, n) => e2[h] = e[h]
  BY Bounds DEF TableOK, Ids
<1>2. CASE q # << >>
  <2>1. Fresh(q, n) = q[1] /\ Rest(q) = Tail(q) /\ After(q, n) = n
    BY <1>2 DEF Fresh, Rest, After
  <2>2. FreeList(Tail(q), e2, n) /\ e[q[1]] = 0 /\ q[1] < n /\ q[1] \in Handles
    BY ZenonT(30), <1>1, <1>2, <2>1, TakeFreeList DEF TableOK
  <2>3. \A h \in Handles : h >= n => e2[h] = 0
    BY <1>1, <2>1, <2>2 DEF TableOK, Handles
  <2>4. QED
    BY <1>1, <2>1, <2>2, <2>3 DEF TableOK
<1>3. CASE q = << >>
  <2>1. Fresh(q, n) = n /\ Rest(q) = << >> /\ After(q, n) = n + 1 /\ n \in Handles
    BY <1>3 DEF Fresh, Rest, After
  <2>2. FreeList(<< >>, e2, n + 1)
    BY DEF FreeList
  <2>3. e[n] = 0 /\ n + 1 \in 1 .. MaxHandles + 1
    BY <2>1, Bounds DEF TableOK, Handles
  <2>4. \A h \in Handles : h >= n + 1 => e2[h] = 0
    BY <1>1, <2>1, Bounds DEF TableOK, Handles
  <2>5. QED
    BY <1>1, <2>1, <2>2, <2>3, <2>4 DEF TableOK
<1>4. QED
  BY <1>2, <1>3

LEMMA FreshDead ==
  ASSUME NEW e, NEW g, NEW q, NEW n, NEW st, TableOK(e, g, q, n, st), Fresh(q, n) \in Handles
  PROVE  e[Fresh(q, n)] = 0
<1>1. CASE q # << >>
  <2>1. FreeList(q, e, n) /\ Fresh(q, n) = q[1]
    BY <1>1 DEF TableOK, Fresh
  <2>2. QED
    BY Zenon, <1>1, <2>1, TakeFreeList
<1>2. CASE q = << >>
  BY <1>2 DEF TableOK, Fresh, Handles
<1>3. QED
  BY <1>1, <1>2

(* HandleTable::close_raw keeps the table in order. *)
LEMMA CloseTable ==
  ASSUME NEW e, NEW g, NEW q, NEW n, NEW st, TableOK(e, g, q, n, st),
         NEW h \in Handles, e[h] # 0, g[h] < MaxGeneration
  PROVE  TableOK([e EXCEPT ![h] = 0], [g EXCEPT ![h] = @ + 1], Append(q, h), n,
                 st \cup {<<h, g[h]>>})
<1> DEFINE e2 == [e EXCEPT ![h] = 0]
           g2 == [g EXCEPT ![h] = @ + 1]
<1>1. /\ e2 \in [Handles -> 0 .. MaxObjects]
      /\ e2[h] = 0
      /\ \A i \in Handles : i # h => e2[i] = e[i]
  BY Bounds DEF TableOK
<1>2. /\ g2 \in [Handles -> 0 .. MaxGeneration]
      /\ g2[h] = g[h] + 1 /\ g[h] \in 0 .. MaxGeneration
      /\ \A i \in Handles : i # h => g2[i] = g[i]
  BY Bounds DEF TableOK
<1>3. h < n
  BY DEF TableOK, Handles
<1>4. FreeList(Append(q, h), e2, n)
  BY Zenon, <1>1, <1>3, CloseFreeList DEF TableOK
<1>5. st \cup {<<h, g[h]>>} \subseteq Handles \X (0 .. MaxGeneration)
  BY <1>2 DEF TableOK
<1>6. \A p \in st \cup {<<h, g[h]>>} : p[2] < g2[p[1]]
  <2>1. TAKE p \in st \cup {<<h, g[h]>>}
  <2>2. CASE p = <<h, g[h]>>
    BY <1>2, <2>2, Bounds
  <2>3. CASE p \in st
    <3>1. p[1] \in Handles /\ p[2] \in 0 .. MaxGeneration /\ p[2] < g[p[1]]
      BY <2>3 DEF TableOK
    <3>2. g[p[1]] \in 0 .. MaxGeneration
      BY <3>1 DEF TableOK
    <3>3. g2[p[1]] = g[p[1]] \/ g2[p[1]] = g[p[1]] + 1
      BY <1>2, <3>1
    <3>4. QED
      BY <3>1, <3>2, <3>3, Bounds
  <2>4. QED
    BY <2>1, <2>2, <2>3
<1>7. \A i \in Handles : i >= n => e2[i] = 0
  BY <1>1 DEF TableOK
<1>8. QED
  BY <1>1, <1>2, <1>4, <1>5, <1>6, <1>7 DEF TableOK

-----------------------------------------------------------------------------
(* The counts. *)

(* handle_added: minting a handle keeps the counts exact. *)
LEMMA TakeCounted ==
  ASSUME NEW e \in [Handles -> 0 .. MaxObjects], NEW c \in [Ids -> Nat], NEW k, NEW k2,
         Counted(e, c, k), NEW o \in Ids, NEW f \in Handles, e[f] = 0,
         k2[o] # "none", SameBut(k, k2, o)
  PROVE  /\ Counted([e EXCEPT ![f] = o], [c EXCEPT ![o] = @ + 1], k2)
         /\ [c EXCEPT ![o] = @ + 1] \in [Ids -> Nat]
<1> DEFINE e2 == [e EXCEPT ![f] = o]
           c2 == [c EXCEPT ![o] = @ + 1]
<1>1. To(e2, o) = To(e, o) \cup {f} /\ f \notin To(e, o) /\ o # 0
  BY Bounds DEF To, Ids
<1>2. \A p \in Ids : p # o => To(e2, p) = To(e, p)
  BY Bounds DEF To, Ids
<1>3. Cardinality(To(e2, o)) = Cardinality(To(e, o)) + 1
  <2>1. IsFiniteSet(To(e, o))
    BY ToFinite
  <2>2. Cardinality(To(e, o) \cup {f}) = Cardinality(To(e, o)) + 1
    BY <1>1, <2>1, Counting
  <2>3. QED
    BY Zenon, <1>1, <2>2
<1>4. c2[o] = c[o] + 1 /\ \A p \in Ids : p # o => c2[p] = c[p]
  OBVIOUS
<1>5. To(e2, o) # {}
  BY Zenon, <1>1
<1>6. Counted(e2, c2, k2)
  BY Zenon, <1>2, <1>3, <1>4, <1>5 DEF Counted, SameBut
<1>7. QED
  BY <1>6

(* handle_removed: closing a handle keeps the counts exact, and the object dies
   with its last handle. *)
LEMMA CloseCounted ==
  ASSUME NEW e \in [Handles -> 0 .. MaxObjects], NEW c \in [Ids -> Nat], NEW k, NEW k2,
         Counted(e, c, k), NEW o \in Ids, NEW h \in Handles, e[h] = o,
         c[o] > 1 => k2[o] = k[o], ~(c[o] > 1) => k2[o] = "none", SameBut(k, k2, o)
  PROVE  /\ Counted([e EXCEPT ![h] = 0], [c EXCEPT ![o] = @ - 1], k2)
         /\ [c EXCEPT ![o] = @ - 1] \in [Ids -> Nat]
         /\ c[o] >= 1 /\ k[o] # "none"
<1> DEFINE e2 == [e EXCEPT ![h] = 0]
           c2 == [c EXCEPT ![o] = @ - 1]
<1>1. To(e2, o) = To(e, o) \ {h} /\ h \in To(e, o) /\ o # 0
  BY Bounds DEF To, Ids
<1>2. \A p \in Ids : p # o => To(e2, p) = To(e, p)
  BY Bounds DEF To, Ids
<1>3. /\ Cardinality(To(e2, o)) = Cardinality(To(e, o)) - 1
      /\ Cardinality(To(e, o)) \in Nat /\ Cardinality(To(e2, o)) \in Nat
      /\ To(e2, o) = {} <=> Cardinality(To(e2, o)) = 0
  <2>1. IsFiniteSet(To(e, o)) /\ IsFiniteSet(To(e2, o))
    BY ToFinite
  <2>2. Cardinality(To(e, o) \ {h}) = Cardinality(To(e, o)) - 1 /\ Cardinality(To(e, o)) \in Nat
    BY <1>1, <2>1, Counting
  <2>3. Cardinality(To(e2, o)) \in Nat /\ (To(e2, o) = {} <=> Cardinality(To(e2, o)) = 0)
    BY Zenon, <2>1, Counting
  <2>4. QED
    BY Zenon, <1>1, <2>2, <2>3
<1>4. c2[o] = c[o] - 1 /\ \A p \in Ids : p # o => c2[p] = c[p]
  OBVIOUS
<1>5. c[o] = Cardinality(To(e, o)) /\ k[o] # "none" /\ c[o] >= 1
  BY <1>1, <1>3 DEF Counted
<1>6. k2[o] # "none" <=> To(e2, o) # {}
  <2>1. c[o] > 1 <=> Cardinality(To(e2, o)) # 0
    BY <1>3, <1>5
  <2>2. CASE c[o] > 1
    BY Zenon, <1>3, <1>5, <2>1, <2>2
  <2>3. CASE ~(c[o] > 1)
    BY Zenon, <1>3, <2>1, <2>3
  <2>4. QED
    BY Zenon, <2>2, <2>3
<1>7. Counted(e2, c2, k2)
  BY ZenonT(30), <1>2, <1>3, <1>4, <1>5, <1>6 DEF Counted, SameBut
<1>8. c2 \in [Ids -> Nat]
  BY <1>5
<1>9. QED
  BY <1>5, <1>7, <1>8

-----------------------------------------------------------------------------
(* The operations. *)

(* insert_object_id, in the terms of TakeTable. *)
LEMMA InsertTakes ==
  ASSUME TableInv, NEW o, insert_object_id(o)
  PROVE  /\ Fresh(closed_handle_values, next_handle) \in Handles
         /\ entries' = [entries EXCEPT ![Fresh(closed_handle_values, next_handle)] = o]
         /\ closed_handle_values' = Rest(closed_handle_values)
         /\ next_handle' = After(closed_handle_values, next_handle)
         /\ handle_counts' = [handle_counts EXCEPT ![o] = @ + 1]
         /\ opened[o] < MaxOpened
         /\ opened' = [opened EXCEPT ![o] = @ + 1]
<1>1. FreshValue = Fresh(closed_handle_values, next_handle)
  <2>1. closed_handle_values # << >> => Head(closed_handle_values) = closed_handle_values[1]
    BY TailFacts DEF TableInv, TableOK, FreeList
  <2>2. QED
    BY <2>1 DEF FreshValue, Fresh
<1>2. QED
  BY <1>1 DEF insert_object_id, Rest, After

(* A handle is minted to an object that is alive. *)
LEMMA TakeInv ==
  ASSUME IInv, NEW o \in Ids, kind[o] # "none",
         Fresh(closed_handle_values, next_handle) \in Handles,
         entries' = [entries EXCEPT ![Fresh(closed_handle_values, next_handle)] = o],
         closed_handle_values' = Rest(closed_handle_values),
         next_handle' = After(closed_handle_values, next_handle),
         handle_counts' = [handle_counts EXCEPT ![o] = @ + 1],
         UNCHANGED <<generations, protected, kind, name, names, next_id, claims, stale>>,
         opened' \in [Ids -> 0 .. MaxOpened]
  PROVE  IInv'
<1> DEFINE f == Fresh(closed_handle_values, next_handle)
<1>1. entries[f] = 0 /\ TableInv'
  BY Zenon, TakeTable DEF IInv, TableInv
<1>2. Counted(entries, handle_counts, kind)' /\ handle_counts' \in [Ids -> Nat]
  <2>1. entries \in [Handles -> 0 .. MaxObjects] /\ handle_counts \in [Ids -> Nat]
    BY DEF IInv, TableInv, TableOK, ObjectInv
  <2>2. Counted(entries', handle_counts', kind) /\ handle_counts' \in [Ids -> Nat]
    BY Zenon, <1>1, <2>1, TakeCounted DEF IInv, SameBut
  <2>3. QED
    BY <2>2 DEF Counted, To
<1>3. ObjectInv'
  BY <1>2 DEF IInv, ObjectInv, NamesResolve
<1>4. MiscInv'
  BY DEF IInv, MiscInv, NoLeakedClaim
<1>5. QED
  BY <1>1, <1>2, <1>3, <1>4 DEF IInv

(* Opening, creating under a taken name and duplicating. *)
LEMMA MintInv ==
  ASSUME IInv, NEW o \in Ids, kind[o] # "none", Mint(o)
  PROVE  IInv'
<1>1. insert_object_id(o) /\ UNCHANGED <<generations, protected, kind, name, names, next_id, claims, stale>>
  BY DEF Mint, objects
<1>2. opened' \in [Ids -> 0 .. MaxOpened]
  BY <1>1, Bounds DEF insert_object_id, IInv, MiscInv
<1>3. QED
  BY <1>1, <1>2, InsertTakes, TakeInv DEF IInv

(* A new object, with or without a name. *)
LEMMA InsertInv ==
  ASSUME IInv, NEW k \in Kinds, NEW n \in Names \cup {NoName}, insert_object_named(k, n),
         claims' = claims \/ (k = "file" /\ claims' = claims \cup {next_id})
  PROVE  IInv'
<1> DEFINE f == Fresh(closed_handle_values, next_handle)
           o == next_id
<1>1. /\ o \in Ids /\ next_id' = next_id + 1
      /\ kind' = [kind EXCEPT ![o] = k]
      /\ name' = [name EXCEPT ![o] = n]
      /\ names' = IF n \in Names THEN [names EXCEPT ![n] = o] ELSE names
      /\ insert_object_id(o)
      /\ UNCHANGED <<generations, protected, stale>>
  BY DEF insert_object_named
<1>2. /\ f \in Handles
      /\ entries' = [entries EXCEPT ![f] = o]
      /\ closed_handle_values' = Rest(closed_handle_values)
      /\ next_handle' = After(closed_handle_values, next_handle)
      /\ handle_counts' = [handle_counts EXCEPT ![o] = @ + 1]
      /\ opened[o] < MaxOpened
      /\ opened' = [opened EXCEPT ![o] = @ + 1]
  BY <1>1, InsertTakes DEF IInv
<1>3. entries[f] = 0 /\ TableInv'
  BY Zenon, <1>1, <1>2, TakeTable DEF IInv, TableInv
<1>4. /\ k # "none" /\ kind' \in [Ids -> Kinds \cup {"none"}] /\ kind'[o] = k /\ kind[o] = "none"
      /\ \A p \in Ids : p # o => kind'[p] = kind[p]
  BY <1>1 DEF IInv, ObjectInv, Kinds, Ids
<1>5. Counted(entries, handle_counts, kind)' /\ handle_counts' \in [Ids -> Nat]
  <2>1. entries \in [Handles -> 0 .. MaxObjects] /\ handle_counts \in [Ids -> Nat]
    BY DEF IInv, TableInv, TableOK, ObjectInv
  <2>2. /\ o \in Ids /\ f \in Handles /\ entries[f] = 0 /\ kind'[o] # "none"
        /\ Counted(entries, handle_counts, kind)
    BY <1>1, <1>2, <1>3, <1>4 DEF IInv
  <2>3. SameBut(kind, kind', o)
    BY <1>4 DEF SameBut
  <2> HIDE DEF f, o
  <2>4. /\ Counted([entries EXCEPT ![f] = o], [handle_counts EXCEPT ![o] = @ + 1], kind')
        /\ [handle_counts EXCEPT ![o] = @ + 1] \in [Ids -> Nat]
    BY Zenon, <2>1, <2>2, <2>3, TakeCounted
  <2>5. Counted(entries', handle_counts', kind') /\ handle_counts' \in [Ids -> Nat]
    BY <1>2, <2>4
  <2>6. QED
    BY <2>5 DEF Counted, To
<1>6. ObjectInv'
  <2>1. name' \in [Ids -> Names \cup {NoName}] /\ names' \in [Names -> 0 .. MaxObjects]
    BY <1>1, Bounds DEF IInv, ObjectInv, Ids
  <2>2. next_id' \in 1 .. MaxObjects + 1 /\ \A p \in Ids : p >= next_id' => kind'[p] = "none"
    BY <1>1, <1>4, Bounds DEF IInv, ObjectInv, Ids
  <2>3. NamesResolve'
    <3>1. SUFFICES ASSUME NEW m \in Names, names'[m] # 0
                   PROVE  kind'[names'[m]] # "none" /\ name'[names'[m]] = m
      BY DEF NamesResolve
    <3>2. CASE m = n
      BY <1>1, <1>4, <3>2 DEF IInv, ObjectInv
    <3>3. CASE m # n
      <4>1. names'[m] = names[m] /\ names[m] \in Ids
        BY <1>1, <3>1, <3>3, Bounds DEF IInv, ObjectInv, Ids
      <4>2. kind[names[m]] # "none" /\ name[names[m]] = m /\ names[m] # o
        BY <1>4, <3>1, <4>1 DEF IInv, ObjectInv, NamesResolve
      <4>3. QED
        BY <1>1, <1>4, <4>1, <4>2 DEF IInv, ObjectInv
    <3>4. QED
      BY <3>2, <3>3
  <2>4. QED
    BY <1>4, <1>5, <2>1, <2>2, <2>3 DEF ObjectInv
<1>7. MiscInv'
  <2>1. opened' \in [Ids -> 0 .. MaxOpened] /\ protected' \subseteq Handles
    BY <1>1, <1>2, Bounds DEF IInv, MiscInv
  <2>2. claims' \subseteq Ids /\ \A p \in claims' : kind'[p] = "file"
    BY <1>1, <1>4 DEF IInv, MiscInv, NoLeakedClaim
  <2>3. QED
    BY <2>1, <2>2 DEF MiscInv, NoLeakedClaim
<1>8. QED
  BY <1>3, <1>5, <1>6, <1>7 DEF IInv

(* close_handle and close_socket on a handle that is not protected.  The share
   claim is released with the last handle. *)
LEMMA CloseInv ==
  ASSUME IInv, NEW h \in Live, close_raw(h), handle_removed(entries[h]), next_id' = next_id,
         opened' = [opened EXCEPT ![entries[h]] = IF @ > 0 THEN @ - 1 ELSE 0],
         claims' = claims \/ claims' = claims \ {entries[h]},
         handle_counts[entries[h]] = 1 => entries[h] \notin claims'
  PROVE  IInv'
<1> DEFINE o == entries[h]
<1>1. h \in Handles /\ entries[h] = o /\ o \in Ids
  BY Bounds DEF Live, IInv, TableInv, TableOK, Ids
<1>2. TableInv' /\ entries' = [entries EXCEPT ![h] = 0]
  <2>1. /\ generations[h] < MaxGeneration
        /\ entries' = [entries EXCEPT ![h] = 0]
        /\ generations' = [generations EXCEPT ![h] = @ + 1]
        /\ closed_handle_values' = Append(closed_handle_values, h)
        /\ stale' = stale \cup {<<h, generations[h]>>}
        /\ next_handle' = next_handle
    BY DEF close_raw
  <2>2. h \in Handles /\ entries[h] # 0
    BY DEF Live
  <2>3. QED
    BY Zenon, <2>1, <2>2, CloseTable DEF IInv, TableInv
<1>3. /\ handle_counts' = [handle_counts EXCEPT ![o] = @ - 1]
      /\ handle_counts[o] > 1 => UNCHANGED <<kind, name, names>>
      /\ ~(handle_counts[o] > 1) =>
            /\ kind' = [kind EXCEPT ![o] = "none"]
            /\ name' = [name EXCEPT ![o] = NoName]
            /\ names' = IF name[o] \in Names THEN [names EXCEPT ![name[o]] = 0] ELSE names
  BY DEF handle_removed
<1>4. /\ handle_counts[o] > 1 => kind'[o] = kind[o]
      /\ ~(handle_counts[o] > 1) => kind'[o] = "none"
      /\ \A p \in Ids : p # o => kind'[p] = kind[p]
      /\ kind' \in [Ids -> Kinds \cup {"none"}]
  BY <1>1, <1>3 DEF IInv, ObjectInv
<1>5. /\ Counted(entries, handle_counts, kind)' /\ handle_counts' \in [Ids -> Nat]
      /\ handle_counts[o] >= 1 /\ handle_counts[o] \in Nat
  <2>1. /\ entries \in [Handles -> 0 .. MaxObjects] /\ handle_counts \in [Ids -> Nat]
        /\ Counted(entries, handle_counts, kind)
    BY DEF IInv, TableInv, TableOK, ObjectInv
  <2>0. SameBut(kind, kind', o)
    BY <1>4 DEF SameBut
  <2> HIDE DEF o
  <2>2. /\ Counted([entries EXCEPT ![h] = 0], [handle_counts EXCEPT ![o] = @ - 1], kind')
        /\ [handle_counts EXCEPT ![o] = @ - 1] \in [Ids -> Nat]
        /\ handle_counts[o] >= 1
    BY Zenon, <1>1, <1>4, <2>1, <2>0, CloseCounted
  <2>3. Counted(entries', handle_counts', kind') /\ handle_counts' \in [Ids -> Nat]
    BY <1>2, <1>3, <2>2
  <2>4. QED
    BY <1>1, <2>1, <2>2, <2>3 DEF Counted, To
<1>6. ObjectInv'
  <2>1. CASE handle_counts[o] > 1
    BY <1>3, <1>5, <2>1 DEF IInv, ObjectInv, NamesResolve
  <2>2. CASE ~(handle_counts[o] > 1)
    <3>1. name' \in [Ids -> Names \cup {NoName}] /\ names' \in [Names -> 0 .. MaxObjects]
      BY <1>1, <1>3, <2>2, Bounds DEF IInv, ObjectInv
    <3>2. \A p \in Ids : p >= next_id' => kind'[p] = "none"
      BY <1>4, <2>2 DEF IInv, ObjectInv
    <3>3. NamesResolve'
      <4>1. SUFFICES ASSUME NEW m \in Names, names'[m] # 0
                     PROVE  kind'[names'[m]] # "none" /\ name'[names'[m]] = m
        BY DEF NamesResolve
      <4>2. m # name[o] /\ names'[m] = names[m] /\ names[m] \in Ids
        <5>1. /\ names \in [Names -> 0 .. MaxObjects] /\ MaxObjects \in Nat
              /\ names' = IF name[o] \in Names THEN [names EXCEPT ![name[o]] = 0] ELSE names
          BY <1>3, <2>2, Bounds DEF IInv, ObjectInv
        <5>2. QED
          BY <4>1, <5>1 DEF Ids
      <4>3. kind[names[m]] # "none" /\ name[names[m]] = m /\ names[m] # o
        BY <4>1, <4>2 DEF IInv, ObjectInv, NamesResolve
      <4>4. QED
        BY <1>3, <1>4, <2>2, <4>2, <4>3, SMTT(30) DEF IInv, ObjectInv
    <3>4. QED
      BY <1>4, <1>5, <3>1, <3>2, <3>3 DEF IInv, ObjectInv
  <2>3. QED
    BY <2>1, <2>2
<1>7. MiscInv'
  <2>1. opened' \in [Ids -> 0 .. MaxOpened]
    BY <1>1, Bounds, SMTT(30) DEF IInv, MiscInv
  <2>2. protected' \subseteq Handles /\ claims' \subseteq Ids
    BY DEF IInv, MiscInv, close_raw
  <2>3. \A p \in claims' : kind'[p] = "file"
    <3>1. TAKE p \in claims'
    <3>2. p \in claims /\ p \in Ids /\ kind[p] = "file"
      BY DEF IInv, MiscInv, NoLeakedClaim
    <3>3. CASE p = o
      <4>1. handle_counts[o] > 1
        BY <1>5, <3>1, <3>3
      <4>2. QED
        BY <1>4, <3>2, <3>3, <4>1
    <3>4. QED
      BY <1>4, <3>2, <3>3
  <2>4. QED
    BY <2>1, <2>2, <2>3 DEF MiscInv, NoLeakedClaim
<1>8. QED
  BY <1>2, <1>5, <1>6, <1>7 DEF IInv

(* duplicate_handle with DUPLICATE_CLOSE_SOURCE. *)
LEMMA MoveInv ==
  ASSUME IInv, NEW h \in Handles, MoveHandle(h)
  PROVE  IInv'
<1> DEFINE q == closed_handle_values
           f == Fresh(q, next_handle)
           o == entries[h]
<1>1. FreshValue = f
  <2>1. q # << >> => Head(q) = q[1]
    BY TailFacts DEF IInv, TableInv, TableOK, FreeList
  <2>2. QED
    BY <2>1 DEF FreshValue, Fresh
<1>2. /\ f \in Handles /\ entries[h] # 0 /\ o \in Ids
      /\ next_handle' = After(q, next_handle)
      /\ UNCHANGED <<protected, kind, name, names, next_id, claims, opened>>
  BY <1>1, Bounds DEF MoveHandle, After, objects, Live, IInv, TableInv, TableOK, Ids
<1>3. kind[o] # "none"
  BY Zenon, <1>2 DEF IInv, Counted, To
<1>4. CASE h \in protected
  <2>1. /\ entries' = [entries EXCEPT ![f] = o]
        /\ q' = Rest(q)
        /\ handle_counts' = [handle_counts EXCEPT ![o] = @ + 1]
        /\ UNCHANGED <<generations, stale>>
    BY <1>1, <1>4 DEF MoveHandle, Rest
  <2>2. opened' \in [Ids -> 0 .. MaxOpened]
    BY <1>2 DEF IInv, MiscInv
  <2>3. QED
    BY Zenon, <1>2, <1>3, <2>1, <2>2, TakeInv
<1>5. CASE h \notin protected
  <2> DEFINE e1 == [entries EXCEPT ![f] = o]
             c1 == [handle_counts EXCEPT ![o] = @ + 1]
  <2>1. /\ generations[h] < MaxGeneration
        /\ entries' = [entries EXCEPT ![f] = o, ![h] = 0]
        /\ q' = Append(Rest(q), h)
        /\ generations' = [generations EXCEPT ![h] = @ + 1]
        /\ stale' = stale \cup {<<h, generations[h]>>}
        /\ handle_counts' = handle_counts
    BY <1>1, <1>5 DEF MoveHandle, Rest
  <2>2. entries[f] = 0 /\ TableOK(e1, generations, Rest(q), After(q, next_handle), stale)
    BY <1>2, TakeTable DEF IInv, TableInv
  <2>3. e1 \in [Handles -> 0 .. MaxObjects] /\ e1[h] = o /\ o # 0
    BY <1>2, <2>2 DEF TableOK
  <2>4. entries' = [e1 EXCEPT ![h] = 0]
    BY <2>1
  <2>5. TableInv'
    <3> HIDE DEF e1
    <3>1. TableOK([e1 EXCEPT ![h] = 0], [generations EXCEPT ![h] = @ + 1], Append(Rest(q), h),
                  After(q, next_handle), stale \cup {<<h, generations[h]>>})
      BY Zenon, <2>1, <2>2, <2>3, CloseTable
    <3>2. TableOK(entries', generations', q', next_handle', stale')
      BY Zenon, <1>2, <2>1, <2>4, <3>1
    <3>3. QED
      BY <3>2 DEF TableInv, TableOK, FreeList
  <2>6. Counted(entries, handle_counts, kind)'
    <3>1. /\ entries \in [Handles -> 0 .. MaxObjects] /\ handle_counts \in [Ids -> Nat]
          /\ Counted(entries, handle_counts, kind)
      BY DEF IInv, TableInv, TableOK, ObjectInv
    <3>2. SameBut(kind, kind, o)
      BY DEF SameBut
    <3>3. Counted(e1, c1, kind) /\ c1 \in [Ids -> Nat]
      BY Zenon, <1>2, <1>3, <2>2, <3>1, <3>2, TakeCounted
    <3>4. c1[o] > 1
      <4>1. To(entries, o) # {}
        BY DEF To
      <4>2. handle_counts[o] >= 1
        <5>1. IsFiniteSet(To(entries, o))
          BY ToFinite
        <5>2. Cardinality(To(entries, o)) # 0 /\ Cardinality(To(entries, o)) \in Nat
          BY Zenon, <4>1, <5>1, Counting
        <5>3. QED
          BY <1>2, <3>1, <4>1, <5>2 DEF Counted
      <4>3. QED
        BY <1>2, <3>1, <4>2
    <3>5. Counted([e1 EXCEPT ![h] = 0], [c1 EXCEPT ![o] = @ - 1], kind)
      <4> HIDE DEF e1, c1
      <4>1. QED
        BY Zenon, <1>2, <2>3, <3>2, <3>3, <3>4, CloseCounted
    <3>6. [c1 EXCEPT ![o] = @ - 1] = handle_counts
      <4> DEFINE c2 == [c1 EXCEPT ![o] = c1[o] - 1]
      <4>1. \A p \in Ids : c2[p] = handle_counts[p]
        BY <1>2, <3>1
      <4>2. c2 = [p \in Ids |-> c2[p]] /\ handle_counts = [p \in Ids |-> handle_counts[p]]
        BY <3>1, <3>3
      <4> HIDE DEF c2
      <4>3. c2 = handle_counts
        BY <4>1, <4>2
      <4>4. QED
        BY <4>3 DEF c2
    <3>7. Counted(entries', handle_counts', kind')
      <4>1. kind' = kind /\ handle_counts' = handle_counts
        BY <1>2, <2>1
      <4> HIDE DEF e1, c1
      <4>2. QED
        BY Zenon, <2>4, <3>5, <3>6, <4>1
    <3>8. QED
      BY <3>7 DEF Counted, To
  <2>7. ObjectInv' /\ MiscInv'
    BY <1>2, <2>1 DEF IInv, ObjectInv, NamesResolve, MiscInv, NoLeakedClaim
  <2>8. QED
    BY <2>5, <2>6, <2>7 DEF IInv
<1>6. QED
  BY <1>4, <1>5

-----------------------------------------------------------------------------
(* The invariant. *)

LEMMA InitInv == Init => IInv
<1> SUFFICES ASSUME Init PROVE IInv
  OBVIOUS
<1>1. TableInv
  BY Bounds DEF Init, TableInv, TableOK, FreeList, Handles
<1>2. ObjectInv
  BY Bounds DEF Init, ObjectInv, NamesResolve, Ids
<1>3. Counted(entries, handle_counts, kind)
  <2>1. \A o \in Ids : To(entries, o) = {}
    BY DEF Init, To, Ids
  <2>2. QED
    BY Zenon, <2>1, FS_EmptySet DEF Init, Counted
<1>4. MiscInv
  BY Bounds DEF Init, MiscInv, NoLeakedClaim
<1>5. QED
  BY <1>1, <1>2, <1>3, <1>4 DEF IInv

(* What a name resolves to is alive. *)
LEMMA ResolvedAlive ==
  ASSUME IInv, NEW n, Resolved(n) # 0
  PROVE  Resolved(n) \in Ids /\ kind[Resolved(n)] # "none"
BY Bounds DEF IInv, ObjectInv, NamesResolve, Resolved, Ids

(* A call that returns an existing handle, and one that changes a protection,
   change nothing the invariant relates. *)
LEMMA SameInv ==
  ASSUME IInv, UNCHANGED <<table, objects, handle_counts, stale>>,
         protected' \subseteq Handles, opened' \in [Ids -> 0 .. MaxOpened],
         claims' \subseteq claims
  PROVE  IInv'
<1> USE DEF table, objects
<1>1. TableInv'
  BY DEF IInv, TableInv, TableOK, FreeList
<1>2. ObjectInv'
  BY DEF IInv, ObjectInv, NamesResolve
<1>3. Counted(entries, handle_counts, kind)'
  BY DEF IInv, Counted, To
<1>4. MiscInv'
  BY DEF IInv, MiscInv, NoLeakedClaim
<1>5. QED
  BY <1>1, <1>2, <1>3, <1>4 DEF IInv

LEMMA ExistingInv ==
  ASSUME IInv, NEW o \in Ids, ReturnExisting(o)
  PROVE  IInv'
<1>1. opened' \in [Ids -> 0 .. MaxOpened]
  BY Bounds DEF ReturnExisting, IInv, MiscInv
<1>2. /\ UNCHANGED <<table, objects, handle_counts, stale>>
      /\ protected' \subseteq Handles /\ claims' \subseteq claims
  BY DEF ReturnExisting, IInv, MiscInv
<1>3. QED
  BY <1>1, <1>2, SameInv

LEMMA NextInv == IInv /\ [Next]_vars => IInv'
<1> SUFFICES ASSUME IInv, [Next]_vars PROVE IInv'
  OBVIOUS
<1>1. \A n \in Names \cup {NoName} : CreateEvent(n) => IInv'
  BY MintInv, InsertInv, ResolvedAlive DEF CreateEvent, Kinds
<1>2. \A n \in Names \cup {NoName} : CreateSection(n) => IInv'
  BY MintInv, InsertInv, ResolvedAlive DEF CreateSection, Kinds
<1>3. \A n \in Names \cup {NoName}, k \in {"mutex", "semaphore"} : CreateNamed(k, n) => IInv'
  BY ExistingInv, InsertInv, ResolvedAlive DEF CreateNamed, Kinds
<1>4. \A n \in Names : OpenEvent(n) \/ OpenNamed(n) => IInv'
  BY MintInv, ExistingInv, ResolvedAlive DEF OpenEvent, OpenNamed
<1>5. CreateFile \/ InsertSocket => IInv'
  BY InsertInv DEF CreateFile, InsertSocket, Kinds
<1>6. ASSUME NEW h \in Handles, CloseHandle(h) PROVE IInv'
  <2>1. h \in Live /\ ReleaseClaim(entries[h])
    BY <1>6 DEF CloseHandle
  <2>2. CASE h \in protected
    <3>1. UNCHANGED <<table, protected, objects, handle_counts, stale, opened>> /\ claims' \subseteq claims
      BY <1>6, <2>2 DEF CloseHandle, ReleaseClaim
    <3>2. QED
      BY <3>1, SameInv DEF IInv, MiscInv
  <2>3. CASE h \notin protected
    <3>1. /\ close_raw(h) /\ handle_removed(entries[h]) /\ next_id' = next_id
          /\ opened' = [opened EXCEPT ![entries[h]] = IF @ > 0 THEN @ - 1 ELSE 0]
      BY <1>6, <2>3 DEF CloseHandle
    <3>2. /\ claims' = claims \/ claims' = claims \ {entries[h]}
          /\ handle_counts[entries[h]] = 1 => entries[h] \notin claims'
      BY <2>1 DEF ReleaseClaim
    <3>3. QED
      BY Zenon, <2>1, <3>1, <3>2, CloseInv
  <2>4. QED
    BY <2>2, <2>3
<1>7. ASSUME NEW h \in Handles, CloseSocket(h) PROVE IInv'
  <2>1. h \in Live /\ entries[h] \notin claims
    BY <1>7 DEF CloseSocket, IInv, MiscInv, NoLeakedClaim
  <2>2. /\ close_raw(h) /\ handle_removed(entries[h]) /\ next_id' = next_id /\ claims' = claims
        /\ opened' = [opened EXCEPT ![entries[h]] = IF @ > 0 THEN @ - 1 ELSE 0]
    BY <1>7 DEF CloseSocket
  <2>3. QED
    BY Zenon, <2>1, <2>2, CloseInv
<1>8. ASSUME NEW h \in Handles, DuplicateHandle(h) PROVE IInv'
  <2>1. entries[h] \in Ids /\ kind[entries[h]] # "none"
    <3>1. entries[h] # 0 /\ entries[h] \in 0 .. MaxObjects
      BY <1>8 DEF DuplicateHandle, Live, IInv, TableInv, TableOK
    <3>2. entries[h] \in Ids /\ To(entries, entries[h]) # {}
      BY <3>1, Bounds DEF To, Ids
    <3>3. QED
      BY <3>2 DEF IInv, Counted
  <2>2. QED
    BY <1>8, <2>1, MintInv DEF DuplicateHandle
<1>9. \A h \in Handles : MoveHandle(h) => IInv'
  BY MoveInv
<1>10. ASSUME NEW h \in Handles, SetProtection(h) PROVE IInv'
  BY <1>10, SameInv DEF SetProtection, IInv, MiscInv
<1>11. CASE UNCHANGED vars
  BY <1>11, SameInv DEF vars, IInv, MiscInv
<1>12. QED
  BY <1>1, <1>2, <1>3, <1>4, <1>5, <1>6, <1>7, <1>8, <1>9, <1>10, <1>11 DEF Next

LEMMA InvImplies == IInv => TypeOK /\ HandlesCounted /\ NamesResolve /\ StaleRejected /\ NoLeakedClaim
<1> SUFFICES ASSUME IInv PROVE TypeOK /\ HandlesCounted /\ NamesResolve /\ StaleRejected /\ NoLeakedClaim
  OBVIOUS
<1>1. TypeOK
  BY DEF IInv, TableInv, TableOK, FreeList, ObjectInv, MiscInv, TypeOK
<1>2. HandlesCounted
  BY DEF IInv, Counted, To, HandlesCounted, HandlesTo
<1>3. NamesResolve /\ NoLeakedClaim
  BY DEF IInv, ObjectInv, MiscInv
<1>4. StaleRejected
  <2>1. SUFFICES ASSUME NEW p \in stale PROVE generations[p[1]] # p[2]
    BY DEF StaleRejected
  <2>2. p[2] < generations[p[1]] /\ p[2] \in 0 .. MaxGeneration /\ p[1] \in Handles
    BY DEF IInv, TableInv, TableOK
  <2>3. generations[p[1]] \in 0 .. MaxGeneration
    BY <2>2 DEF IInv, TableInv, TableOK
  <2>4. QED
    BY <2>2, <2>3, Bounds
<1>5. QED
  BY <1>1, <1>2, <1>3, <1>4

(* ObjectManager and HandleTable: through every sequence of creates, opens,
   duplicates, moves and closes the counts are the numbers of handles, names
   lead to live objects, closed incarnations are rejected and no share claim
   outlives its file. *)
THEOREM KernelObjectsSafety ==
  Spec => [](TablesAgree /\ StaleRejected)
<1>1. Init => IInv
  BY InitInv
<1>2. IInv /\ [Next]_vars => IInv'
  BY NextInv
<1>3. IInv => TablesAgree /\ StaleRejected
  BY InvImplies DEF TablesAgree
<1>4. QED
  BY <1>1, <1>2, <1>3, PTL DEF Spec

(* HandleTable::insert never mints a live value: while a handle stays live it
   refers to the same object, whatever else is opened, moved or closed. *)
THEOREM HandleStability == Spec => HandleKeepsObject
<1> DEFINE Keeps == \A h \in Handles : entries[h] # 0 /\ entries'[h] # 0 => entries'[h] = entries[h]
<1>1. IInv /\ [Next]_vars => [Keeps]_vars
  <2> SUFFICES ASSUME IInv, Next PROVE Keeps
    OBVIOUS
  <2>1. \A o : insert_object_id(o) => Keeps
    <3>1. SUFFICES ASSUME NEW o, insert_object_id(o) PROVE Keeps
      OBVIOUS
    <3> DEFINE f == Fresh(closed_handle_values, next_handle)
    <3>2. f \in Handles /\ entries' = [entries EXCEPT ![f] = o]
      BY <3>1, InsertTakes DEF IInv
    <3>3. entries[f] = 0
      BY <3>2, FreshDead DEF IInv, TableInv
    <3>4. QED
      BY <3>2, <3>3 DEF IInv, TableInv, TableOK
  <2>2. \A h \in Handles : close_raw(h) => Keeps
    BY DEF close_raw, IInv, TableInv, TableOK
  <2>3. entries' = entries => Keeps
    OBVIOUS
  <2>4. \A h \in Handles : MoveHandle(h) => Keeps
    <3>1. SUFFICES ASSUME NEW h \in Handles, MoveHandle(h) PROVE Keeps
      OBVIOUS
    <3>2. FreshValue = Fresh(closed_handle_values, next_handle)
      <4>1. closed_handle_values # << >> => Head(closed_handle_values) = closed_handle_values[1]
        BY TailFacts DEF IInv, TableInv, TableOK, FreeList
      <4>2. QED
        BY <4>1 DEF FreshValue, Fresh
    <3>3. FreshValue \in Handles /\ entries[FreshValue] = 0
      <4>1. FreshValue \in Handles
        BY <3>1 DEF MoveHandle
      <4>2. TableOK(entries, generations, closed_handle_values, next_handle, stale)
        BY DEF IInv, TableInv
      <4>3. QED
        BY Zenon, <3>2, <4>1, <4>2, FreshDead
    <3>4. \/ entries' = [entries EXCEPT ![FreshValue] = entries[h]]
          \/ entries' = [entries EXCEPT ![FreshValue] = entries[h], ![h] = 0]
      BY <3>1 DEF MoveHandle
    <3>5. QED
      BY <3>3, <3>4 DEF IInv, TableInv, TableOK
  <2>5. \A n \in Names \cup {NoName} : CreateEvent(n) \/ CreateSection(n) => Keeps
    BY <2>1 DEF CreateEvent, CreateSection, insert_object_named, Mint
  <2>6. \A n \in Names \cup {NoName}, k \in {"mutex", "semaphore"} : CreateNamed(k, n) => Keeps
    BY <2>1, <2>3 DEF CreateNamed, insert_object_named, ReturnExisting, table
  <2>7. \A n \in Names : OpenEvent(n) \/ OpenNamed(n) => Keeps
    BY <2>1, <2>3 DEF OpenEvent, OpenNamed, Mint, ReturnExisting, table
  <2>8. CreateFile \/ InsertSocket => Keeps
    BY <2>1 DEF CreateFile, InsertSocket, insert_object_named
  <2>9. \A h \in Handles : CloseHandle(h) \/ CloseSocket(h) => Keeps
    BY <2>2, <2>3 DEF CloseHandle, CloseSocket, table
  <2>10. \A h \in Handles : DuplicateHandle(h) \/ SetProtection(h) => Keeps
    BY <2>1, <2>3 DEF DuplicateHandle, SetProtection, Mint, table
  <2> HIDE DEF Keeps
  <2>11. QED
    BY <2>4, <2>5, <2>6, <2>7, <2>8, <2>9, <2>10 DEF Next
<1>2. Init => IInv
  BY InitInv
<1>3. IInv /\ [Next]_vars => IInv'
  BY NextInv
<1>4. QED
  BY <1>1, <1>2, <1>3, PTL DEF Spec, HandleKeepsObject

=============================================================================
