--------------------------- MODULE PngImageProofs ---------------------------
(***************************************************************************)
(* Proofs about libpng_wrapper: who owns which buffer, and what the        *)
(* objects show, for every number of objects and calls, all sizes of       *)
(* images and whatever fails.                                              *)
(***************************************************************************)
EXTENDS PngImage, FiniteSetTheorems, TLAPS

Structs ==
  [self : Nat, rows : Nat, image : Nat, width : Nat, height : Nat, bit_depth : Int]

TypeOK ==
  /\ data \in [Objects -> Structs]
  /\ internal \in Structs
  /\ IsFiniteSet(DOMAIN heap)
  /\ object \in Objects /\ name \in Names
  /\ DOMAIN files = Names
  /\ \A f \in Names : files[f].w \in Nat /\ files[f].h \in Nat /\ files[f].bit_depth \in Int

Complete(d) == d.self # 0 /\ d.rows # 0 /\ d.image # 0

(* Who owns the allocations ids, if the objects hold the structs dt and    *)
(* the load under way holds loading.                                       *)
Owners(ids, dt, loading) ==
  /\ \A i \in ids : i \in Buffers(loading) \/ \E o \in Objects : i \in Buffers(dt[o])
  /\ Buffers(loading) \subseteq ids
  /\ \A o \in Objects : Buffers(dt[o]) \subseteq ids
Apart(dt, loading) ==
  /\ Distinct(loading)
  /\ \A o \in Objects : /\ Distinct(dt[o])
                        /\ dt[o] = NoData \/ Complete(dt[o])
                        /\ Buffers(dt[o]) \cap Buffers(loading) = {}
  /\ \A o, p \in Objects : o # p => Buffers(dt[o]) \cap Buffers(dt[p]) = {}
Sound(ids, dt, loading) == Owners(ids, dt, loading) /\ Apart(dt, loading)

(* How far a load has come, and that nothing is open when none is.         *)
Closed == ~ fp /\ ~ structs /\ internal = NoData
Progress ==
  /\ pc \in {"idle", "load open", "load structs", "load info", "load image", "load pixels", "load swap",
             "load catch", "save open", "save structs", "save image", "save catch"}
  /\ pc \in {"idle", "load open", "save open"} => Closed
  /\ pc \in {"load structs", "save structs", "save image", "save catch"} => internal = NoData
  /\ pc = "load info" => internal.self # 0 /\ internal.rows = 0 /\ internal.image = 0
  /\ pc = "load image" => internal.self # 0 /\ internal.rows # 0 /\ internal.image = 0
  /\ pc \in {"load pixels", "load swap"} => Complete(internal)
  /\ pc = "load swap" => ~ fp

OwnershipInv == TypeOK /\ Progress /\ (~ poisoned => Sound(DOMAIN heap, data, internal))

-----------------------------------------------------------------------------
(* Memory.                                                                 *)

(* operator new returns memory that was not allocated.                     *)
LEMMA FreshIsNew ==
  ASSUME NEW used, IsFiniteSet(used)
  PROVE  Fresh(used) \in Nat \ {0} /\ Fresh(used) \notin used
<1> DEFINE n == Cardinality(used)
<1>1. n \in Nat
  BY FS_CardinalityType
<1>2. \E i \in 1 .. n + 1 : i \notin used
  <2>1. SUFFICES ASSUME 1 .. n + 1 \in SUBSET used  PROVE FALSE
    OBVIOUS
  <2>2. Cardinality(1 .. n + 1) <= n
    BY <2>1, FS_Subset
  <2>3. Cardinality(1 .. n + 1) = n + 1
    BY <1>1, FS_Interval
  <2> QED  BY <1>1, <2>2, <2>3
<1>3. Fresh(used) \in 1 .. n + 1 /\ Fresh(used) \notin used
  BY <1>2 DEF Fresh
<1> QED  BY <1>1, <1>3

LEMMA WithDomain ==
  ASSUME NEW h, NEW i, NEW content
  PROVE  DOMAIN With(h, i, content) = DOMAIN h \cup {i}
  BY DEF With

LEMMA WithoutDomain ==
  ASSUME NEW h, NEW ids
  PROVE  DOMAIN Without(h, ids) = DOMAIN h \ ids
  BY DEF Without

LEMMA AllocatedDomain ==
  ASSUME NEW h, NEW d, NEW pointers, NEW content
  PROVE  DOMAIN Allocated(h, d, pointers, content) = DOMAIN h \cup {d.self, d.rows, d.image}
<1> DEFINE h1 == With(h, d.self, <<>>)
           h2 == With(h1, d.rows, pointers)
           h3 == With(h2, d.image, content)
<1>1. DOMAIN h1 = DOMAIN h \cup {d.self}
  BY WithDomain
<1>2. DOMAIN h2 = DOMAIN h1 \cup {d.rows}
  BY WithDomain
<1>3. DOMAIN h3 = DOMAIN h2 \cup {d.image}
  BY WithDomain
<1>4. Allocated(h, d, pointers, content) = h3
  BY DEF Allocated
<1> HIDE DEF h1, h2, h3
<1> QED  BY <1>1, <1>2, <1>3, <1>4

LEMMA LessIsFinite ==
  ASSUME NEW ids, IsFiniteSet(ids), NEW gone
  PROVE  IsFiniteSet(ids \ gone)
<1>1. ids \ gone \in SUBSET ids
  OBVIOUS
<1> QED  BY <1>1, FS_Subset

LEMMA ThreeMoreIsFinite ==
  ASSUME NEW ids, IsFiniteSet(ids), NEW x, NEW y, NEW z
  PROVE  IsFiniteSet(ids \cup {x, y, z})
<1>1. IsFiniteSet(ids \cup {x} \cup {y} \cup {z})
  <2>1. IsFiniteSet(ids \cup {x})
    BY FS_AddElement
  <2>2. IsFiniteSet(ids \cup {x} \cup {y})
    BY <2>1, FS_AddElement
  <2> QED  BY <2>2, FS_AddElement
<1>2. ids \cup {x, y, z} = ids \cup {x} \cup {y} \cup {z}
  OBVIOUS
<1> QED  BY <1>1, <1>2

(* The three allocations of a new object.                                  *)
LEMMA NewIsNew ==
  ASSUME NEW h, IsFiniteSet(DOMAIN h), NEW w \in Nat, NEW hgt \in Nat, NEW depth \in Int,
         NEW d, d = New(h, w, hgt, depth)
  PROVE  /\ d \in Structs
         /\ Complete(d) /\ Distinct(d)
         /\ Buffers(d) = {d.self, d.rows, d.image}
         /\ Buffers(d) \cap DOMAIN h = {}
<1>1. Struct(h) \in Nat \ {0} /\ Struct(h) \notin DOMAIN h
  BY FreshIsNew DEF Struct
<1>2. IsFiniteSet(DOMAIN h \cup {Struct(h)})
  BY FS_AddElement
<1>3. RowsIn(h) \in Nat \ {0} /\ RowsIn(h) \notin DOMAIN h \cup {Struct(h)}
  BY <1>2, FreshIsNew DEF RowsIn
<1>4. IsFiniteSet(DOMAIN h \cup {Struct(h), RowsIn(h)})
  <2>1. IsFiniteSet(DOMAIN h \cup {Struct(h)} \cup {RowsIn(h)})
    BY <1>2, FS_AddElement
  <2>2. DOMAIN h \cup {Struct(h)} \cup {RowsIn(h)} = DOMAIN h \cup {Struct(h), RowsIn(h)}
    OBVIOUS
  <2> QED  BY <2>1, <2>2
<1>5. ImageIn(h) \in Nat \ {0} /\ ImageIn(h) \notin DOMAIN h \cup {Struct(h), RowsIn(h)}
  BY <1>4, FreshIsNew DEF ImageIn
<1>6. /\ d.self = Struct(h) /\ d.rows = RowsIn(h) /\ d.image = ImageIn(h)
      /\ d \in Structs
  BY <1>1, <1>3, <1>5 DEF New, Structs
<1> QED  BY <1>1, <1>3, <1>5, <1>6 DEF Complete, Distinct, Buffers

-----------------------------------------------------------------------------
(* What may happen to the owners.                                          *)

(* An object gets another struct, whose buffers nobody had, or none; what  *)
(* it had is deleted.                                                      *)
LEMMA ReplaceKeeps ==
  ASSUME NEW ids, NEW dt, DOMAIN dt = Objects, NEW loading, Sound(ids, dt, loading),
         NEW o \in Objects, NEW d, Distinct(d), d = NoData \/ Complete(d), Buffers(d) \cap ids = {}
  PROVE  Sound((ids \cup Buffers(d)) \ Buffers(dt[o]), [dt EXCEPT ![o] = d], loading)
<1> DEFINE dt2 == [dt EXCEPT ![o] = d]
           ids2 == (ids \cup Buffers(d)) \ Buffers(dt[o])
<1>1. dt2[o] = d /\ \A p \in Objects : p # o => dt2[p] = dt[p]
  OBVIOUS
<1> HIDE DEF dt2
<1>2. /\ \A i \in ids : i \in Buffers(loading) \/ \E p \in Objects : i \in Buffers(dt[p])
      /\ Buffers(loading) \subseteq ids
      /\ \A p \in Objects : Buffers(dt[p]) \subseteq ids
  BY DEF Sound, Owners
<1>3. /\ Distinct(loading)
      /\ \A p \in Objects : Distinct(dt[p]) /\ (dt[p] = NoData \/ Complete(dt[p])) /\ Buffers(dt[p]) \cap Buffers(loading) = {}
      /\ \A p, q \in Objects : p # q => Buffers(dt[p]) \cap Buffers(dt[q]) = {}
  BY DEF Sound, Apart
<1>4. \A i \in ids2 : i \in Buffers(loading) \/ \E p \in Objects : i \in Buffers(dt2[p])
  <2>1. SUFFICES ASSUME NEW i \in ids2, i \notin Buffers(loading)
                 PROVE  \E p \in Objects : i \in Buffers(dt2[p])
    OBVIOUS
  <2>2. CASE i \in Buffers(d)
    BY <1>1, <2>2
  <2>3. CASE i \notin Buffers(d)
    <3>1. PICK p \in Objects : i \in Buffers(dt[p])
      BY <1>2, <2>1, <2>3
    <3>2. p # o
      BY <3>1, <2>1
    <3> QED  BY <1>1, <3>1, <3>2
  <2> QED  BY <2>2, <2>3
<1>5. Buffers(loading) \subseteq ids2
  BY <1>2, <1>3
<1>6. \A p \in Objects : Buffers(dt2[p]) \subseteq ids2
  <2>1. SUFFICES ASSUME NEW p \in Objects  PROVE Buffers(dt2[p]) \subseteq ids2
    OBVIOUS
  <2>2. CASE p = o
    BY <1>1, <1>2, <2>2
  <2>3. CASE p # o
    <3>1. Buffers(dt[p]) \subseteq ids /\ Buffers(dt[p]) \cap Buffers(dt[o]) = {}
      BY <1>2, <1>3, <2>3
    <3> QED  BY <1>1, <2>3, <3>1
  <2> QED  BY <2>2, <2>3
<1>7. \A p \in Objects : Distinct(dt2[p]) /\ (dt2[p] = NoData \/ Complete(dt2[p])) /\ Buffers(dt2[p]) \cap Buffers(loading) = {}
  BY <1>1, <1>2, <1>3
<1>8. \A p, q \in Objects : p # q => Buffers(dt2[p]) \cap Buffers(dt2[q]) = {}
  <2>1. SUFFICES ASSUME NEW p \in Objects, NEW q \in Objects, p # q
                 PROVE  Buffers(dt2[p]) \cap Buffers(dt2[q]) = {}
    OBVIOUS
  <2>2. CASE p # o /\ q # o
    BY <1>1, <1>3, <2>1, <2>2
  <2>3. CASE p = o
    BY <1>1, <1>2, <2>1, <2>3
  <2>4. CASE q = o
    BY <1>1, <1>2, <2>1, <2>4
  <2> QED  BY <2>2, <2>3, <2>4
<1> QED  BY <1>3, <1>4, <1>5, <1>6, <1>7, <1>8 DEF Sound, Owners, Apart, dt2

(* Nothing owned by NoData.                                                *)
LEMMA NoDataOwnsNothing ==
  /\ NoData \in Structs /\ Buffers(NoData) = {} /\ Distinct(NoData)
  BY DEF NoData, Structs, Buffers, Distinct

(* The load under way has other buffers, of which the ones it did not have *)
(* are new and the ones it no longer has deleted.                          *)
LEMMA LoadingKeeps ==
  ASSUME NEW ids, NEW dt, NEW loading, Sound(ids, dt, loading), NEW now, Distinct(now),
         (Buffers(now) \ Buffers(loading)) \cap ids = {}
  PROVE  Sound((ids \ Buffers(loading)) \cup Buffers(now), dt, now)
<1>1. /\ \A i \in ids : i \in Buffers(loading) \/ \E p \in Objects : i \in Buffers(dt[p])
      /\ \A p \in Objects : Buffers(dt[p]) \subseteq ids
  BY DEF Sound, Owners
<1>2. \A p \in Objects : Buffers(dt[p]) \cap Buffers(loading) = {}
  BY DEF Sound, Apart
<1>3. \A p \in Objects : Buffers(dt[p]) \cap Buffers(now) = {}
  BY <1>1, <1>2
<1>4. Apart(dt, now)
  BY <1>3 DEF Sound, Apart
<1>5. Owners((ids \ Buffers(loading)) \cup Buffers(now), dt, now)
  BY <1>1, <1>2 DEF Owners
<1> QED  BY <1>4, <1>5 DEF Sound

(* The object gets what was loaded.                                        *)
LEMMA AdoptKeeps ==
  ASSUME NEW ids, NEW dt, DOMAIN dt = Objects, NEW loading, Sound(ids, dt, loading), Complete(loading),
         NEW o \in Objects
  PROVE  Sound(ids \ Buffers(dt[o]), [dt EXCEPT ![o] = loading], NoData)
<1>1. Sound((ids \ Buffers(loading)) \cup Buffers(NoData), dt, NoData)
  BY LoadingKeeps, NoDataOwnsNothing
<1>2. (ids \ Buffers(loading)) \cup Buffers(NoData) = ids \ Buffers(loading)
  BY NoDataOwnsNothing
<1>3. Sound(ids \ Buffers(loading), dt, NoData)
  BY <1>1, <1>2
<1>4. Distinct(loading) /\ Buffers(loading) \subseteq ids /\ Buffers(dt[o]) \cap Buffers(loading) = {}
  BY DEF Sound, Apart, Owners
<1>5. Sound(((ids \ Buffers(loading)) \cup Buffers(loading)) \ Buffers(dt[o]), [dt EXCEPT ![o] = loading], NoData)
  BY <1>3, <1>4, ReplaceKeeps
<1>6. ((ids \ Buffers(loading)) \cup Buffers(loading)) \ Buffers(dt[o]) = ids \ Buffers(dt[o])
  BY <1>4
<1> QED  BY <1>5, <1>6

(* Two objects exchange what they have.                                    *)
LEMMA MoveKeeps ==
  ASSUME NEW ids, NEW dt, DOMAIN dt = Objects, NEW loading, Sound(ids, dt, loading),
         NEW o \in Objects, NEW from \in Objects
  PROVE  Sound(ids, [dt EXCEPT ![o] = dt[from], ![from] = dt[o]], loading)
<1> DEFINE dt2 == [dt EXCEPT ![o] = dt[from], ![from] = dt[o]]
<1>1. dt2[from] = dt[o] /\ dt2[o] = dt[from] /\ \A p \in Objects : p # o /\ p # from => dt2[p] = dt[p]
  OBVIOUS
<1> HIDE DEF dt2
<1>2. Owners(ids, dt2, loading)
  BY <1>1 DEF Sound, Owners
<1>3. \A p \in Objects : Distinct(dt2[p]) /\ (dt2[p] = NoData \/ Complete(dt2[p])) /\ Buffers(dt2[p]) \cap Buffers(loading) = {}
  BY <1>1 DEF Sound, Apart
<1>4. \A p, q \in Objects : p # q => Buffers(dt2[p]) \cap Buffers(dt2[q]) = {}
  BY <1>1 DEF Sound, Apart
<1> QED  BY <1>2, <1>3, <1>4 DEF Sound, Apart, dt2

(* An object's struct changes in what owns nothing.                        *)
LEMMA ResizeKeeps ==
  ASSUME NEW ids, NEW dt, DOMAIN dt = Objects, NEW loading, Sound(ids, dt, loading),
         NEW o \in Objects, NEW d, Complete(dt[o]),
         d.self = dt[o].self, d.rows = dt[o].rows, d.image = dt[o].image
  PROVE  Sound(ids, [dt EXCEPT ![o] = d], loading)
<1> DEFINE dt2 == [dt EXCEPT ![o] = d]
<1>1. dt2[o] = d /\ \A p \in Objects : p # o => dt2[p] = dt[p]
  OBVIOUS
<1> HIDE DEF dt2
<1>2. \A p \in Objects : Buffers(dt2[p]) = Buffers(dt[p])
  BY <1>1 DEF Buffers
<1>3. Owners(ids, dt2, loading)
  BY <1>2 DEF Sound, Owners
<1>4. Complete(d) /\ Distinct(d)
  BY DEF Sound, Apart, Distinct, Complete
<1>5. Apart(dt2, loading)
  BY <1>1, <1>2, <1>4 DEF Sound, Apart
<1> QED  BY <1>3, <1>5 DEF Sound, dt2

-----------------------------------------------------------------------------
(* The initial state, and each step.                                       *)

LEMMA InitOwned == Init => OwnershipInv
<1> SUFFICES ASSUME Init  PROVE OwnershipInv
  OBVIOUS
<1>1. \A o \in Objects : data[o] = NoData
  BY DEF Init
<1>2. DOMAIN heap = {}
  BY DEF Init
<1>3. data \in [Objects -> Structs] /\ internal \in Structs /\ internal = NoData
  BY NoDataOwnsNothing DEF Init
<1>4. IsFiniteSet(DOMAIN heap)
  BY <1>2, FS_EmptySet
<1>5. TypeOK
  BY <1>3, <1>4, PngAssumption DEF Init, TypeOK
<1>6. Sound(DOMAIN heap, data, internal)
  BY <1>1, <1>2, <1>3, NoDataOwnsNothing DEF Sound, Owners, Apart
<1>7. Progress
  BY DEF Init, Progress, Closed
<1> QED  BY <1>5, <1>6, <1>7 DEF OwnershipInv

(* Calls that are one step.                                                *)
LEMMA CallIsIdle ==
  ASSUME OwnershipInv, AtOnce
  PROVE  /\ ~ poisoned /\ pc = "idle" /\ Closed
         /\ pc' = "idle" /\ UNCHANGED <<files, object, name, fp, structs, internal>>
         /\ Sound(DOMAIN heap, data, internal)
         /\ Progress'
<1>1. ~ poisoned /\ pc = "idle" /\ UNCHANGED <<files, pc, object, name, fp, structs, internal>>
  BY DEF AtOnce, Ready, locals
<1>2. Progress /\ Sound(DOMAIN heap, data, internal)
  BY <1>1 DEF OwnershipInv
<1>3. Closed /\ Closed'
  BY <1>1, <1>2 DEF Progress, Closed
<1> QED  BY <1>1, <1>2, <1>3 DEF Progress

(* An object is replaced by one of new buffers, or by none.                *)
LEMMA ReplacedByNew ==
  ASSUME OwnershipInv, AtOnce, NEW o \in Objects, NEW d \in Structs,
         Distinct(d), d = NoData \/ Complete(d), Buffers(d) \cap DOMAIN heap = {},
         data' = [data EXCEPT ![o] = d],
         DOMAIN heap' = (DOMAIN heap \cup Buffers(d)) \ Buffers(data[o])
  PROVE  OwnershipInv'
<1>1. TypeOK /\ DOMAIN data = Objects
  BY DEF OwnershipInv, TypeOK
<1>2. /\ UNCHANGED <<files, object, name, internal>>
      /\ Sound(DOMAIN heap, data, internal) /\ Progress'
  BY CallIsIdle
<1>3. Sound(DOMAIN heap', data', internal')
  <2>1. Sound((DOMAIN heap \cup Buffers(d)) \ Buffers(data[o]), [data EXCEPT ![o] = d], internal)
    BY <1>1, <1>2, ReplaceKeeps
  <2> QED  BY <2>1, <1>2
<1>4. IsFiniteSet(DOMAIN heap')
  <2>1. Buffers(d) = {} \/ Buffers(d) = {d.self, d.rows, d.image}
    BY NoDataOwnsNothing DEF Complete, Buffers
  <2>2. IsFiniteSet(DOMAIN heap)
    BY <1>1 DEF TypeOK
  <2>3. IsFiniteSet(DOMAIN heap \cup {d.self, d.rows, d.image})
    BY <2>2, ThreeMoreIsFinite
  <2>4. IsFiniteSet(DOMAIN heap \cup Buffers(d))
    <3>1. DOMAIN heap \cup {} = DOMAIN heap
      OBVIOUS
    <3> QED  BY <2>1, <2>2, <2>3, <3>1
  <2> QED  BY <2>4, LessIsFinite
<1>5. TypeOK'
  BY <1>1, <1>2, <1>4 DEF TypeOK
<1> QED  BY <1>2, <1>3, <1>5 DEF OwnershipInv

LEMMA CreateKeeps ==
  ASSUME OwnershipInv, NEW o \in Objects, NEW w \in Nat, NEW h \in Nat, NEW bits \in Int, Create(o, w, h, bits)
  PROVE  OwnershipInv'
<1> DEFINE d == New(heap, w, h, bits)
           pointers == Pointers(d.image, h, row_bytes(d))
           all == Allocated(heap, d, pointers, Zeros(row_bytes(d) * h))
<1>1. AtOnce /\ heap' = Without(all, Owned(data[o])) /\ data' = [data EXCEPT ![o] = d]
  BY DEF Create
<1>2. DOMAIN all = DOMAIN heap \cup {d.self, d.rows, d.image}
  BY AllocatedDomain
<1>3. IsFiniteSet(DOMAIN heap)
  BY DEF OwnershipInv, TypeOK
<1> HIDE DEF all
<1>4. /\ d \in Structs
      /\ Complete(d) /\ Distinct(d)
      /\ Buffers(d) = {d.self, d.rows, d.image}
      /\ Buffers(d) \cap DOMAIN heap = {}
  BY <1>3, NewIsNew
<1> HIDE DEF d
<1>5. DOMAIN heap' = (DOMAIN heap \cup Buffers(d)) \ Buffers(data[o])
  BY <1>1, <1>2, <1>4, WithoutDomain, SMTT(40) DEF Owned, Buffers
<1> QED  BY <1>1, <1>4, <1>5, ReplacedByNew

LEMMA CopyKeeps ==
  ASSUME OwnershipInv, NEW o \in Objects, NEW from \in Objects, Copy(o, from)
  PROVE  OwnershipInv'
<1> DEFINE other == data[from]
           d == New(heap, other.width, other.height, other.bit_depth)
           content == [i \in 0 .. row_bytes(d) * d.height - 1 |-> heap[other.image][i]]
           all == Allocated(heap, d, CopiedPointers(d, other), content)
<1>1. AtOnce
  BY DEF Copy
<1>2. CASE other = NoData
  <2>1. heap' = Without(heap, Owned(data[o])) /\ data' = [data EXCEPT ![o] = NoData]
    BY <1>2 DEF Copy
  <2>2. DOMAIN heap' = (DOMAIN heap \cup Buffers(NoData)) \ Buffers(data[o])
    BY <2>1, WithoutDomain, NoDataOwnsNothing, SMTT(40) DEF Owned, Buffers
  <2> QED  BY <1>1, <2>1, <2>2, NoDataOwnsNothing, ReplacedByNew
<1>3. CASE other # NoData
  <2>1. heap' = Without(all, Owned(data[o])) /\ data' = [data EXCEPT ![o] = d]
    BY <1>3 DEF Copy
  <2>2. DOMAIN all = DOMAIN heap \cup {d.self, d.rows, d.image}
    BY AllocatedDomain, ZenonT(40)
  <2> HIDE DEF all
  <2>3. other \in Structs /\ IsFiniteSet(DOMAIN heap)
    BY DEF OwnershipInv, TypeOK
  <2>4. other.width \in Nat /\ other.height \in Nat /\ other.bit_depth \in Int
    BY <2>3 DEF Structs
  <2>5. /\ d \in Structs
        /\ Complete(d) /\ Distinct(d)
        /\ Buffers(d) = {d.self, d.rows, d.image}
        /\ Buffers(d) \cap DOMAIN heap = {}
    BY <2>3, <2>4, NewIsNew
  <2> HIDE DEF d, other, content
  <2>6. DOMAIN heap' = (DOMAIN heap \cup Buffers(d)) \ Buffers(data[o])
    <3>1. DOMAIN heap' = DOMAIN all \ Owned(data[o])
      BY <2>1, WithoutDomain
    <3>2. Owned(data[o]) = Buffers(data[o])
      BY DEF Owned, Buffers
    <3> QED  BY <2>2, <2>5, <3>1, <3>2
  <2> QED  BY <1>1, <2>1, <2>5, <2>6, ReplacedByNew
<1> QED  BY <1>2, <1>3

(* Nothing changes hands, because nothing changed or it was poisoned.      *)
LEMMA SameOwners ==
  ASSUME OwnershipInv, UNCHANGED <<data, internal>>, object' \in Objects, name' \in Names, DOMAIN files' = DOMAIN files,
         DOMAIN heap' = DOMAIN heap,
         \A f \in Names : files'[f].w \in Nat /\ files'[f].h \in Nat /\ files'[f].bit_depth \in Int,
         Progress', ~ poisoned' => ~ poisoned
  PROVE  OwnershipInv'
<1>1. TypeOK'
  BY DEF OwnershipInv, TypeOK
<1>2. Sound(DOMAIN heap, data, internal) => Sound(DOMAIN heap', data', internal')
  OBVIOUS
<1> QED  BY <1>1, <1>2 DEF OwnershipInv

LEMMA CopyRunsOutKeeps ==
  ASSUME OwnershipInv, NEW o \in Objects, NEW from \in Objects, CopyRunsOut(o, from)
  PROVE  OwnershipInv'
<1>1. PICK lost : heap' = Without(heap, lost) /\ poisoned' = (lost # {})
  BY DEF CopyRunsOut
<1>2. /\ AtOnce /\ UNCHANGED data
      /\ UNCHANGED <<files, object, name, internal>>
      /\ Sound(DOMAIN heap, data, internal) /\ Progress'
  BY CallIsIdle DEF CopyRunsOut
<1>3. DOMAIN heap' = DOMAIN heap \ lost
  BY <1>1, WithoutDomain
<1>4. TypeOK'
  <2>1. TypeOK
    BY DEF OwnershipInv
  <2>2. IsFiniteSet(DOMAIN heap)
    BY <2>1 DEF TypeOK
  <2>3. IsFiniteSet(DOMAIN heap')
    BY <2>2, <1>3, LessIsFinite
  <2> QED  BY <1>2, <2>1, <2>3 DEF TypeOK
<1>5. ~ poisoned' => Sound(DOMAIN heap', data', internal')
  BY <1>1, <1>2, <1>3
<1> QED  BY <1>2, <1>4, <1>5 DEF OwnershipInv

LEMMA MovesKeep ==
  ASSUME OwnershipInv, NEW o \in Objects, NEW from \in Objects, Move(o, from)
  PROVE  OwnershipInv'
<1>1. /\ AtOnce /\ UNCHANGED <<heap, poisoned>>
      /\ data' = [data EXCEPT ![o] = data[from], ![from] = data[o]]
      /\ UNCHANGED <<files, object, name, internal>>
      /\ Sound(DOMAIN heap, data, internal) /\ Progress'
  BY CallIsIdle DEF Move
<1>2. TypeOK /\ DOMAIN data = Objects
  BY DEF OwnershipInv, TypeOK
<1>3. Sound(DOMAIN heap', data', internal')
  <2>1. Sound(DOMAIN heap, [data EXCEPT ![o] = data[from], ![from] = data[o]], internal)
    BY <1>1, <1>2, MoveKeeps
  <2> QED  BY <1>1, <2>1
<1>4. TypeOK'
  BY <1>1, <1>2 DEF TypeOK
<1> QED  BY <1>1, <1>3, <1>4 DEF OwnershipInv

LEMMA FromYuvKeeps ==
  ASSUME OwnershipInv, NEW o \in Objects, NEW picture \in Pictures, FromYuv(o, picture)
  PROVE  OwnershipInv'
<1> DEFINE depth == IF data[o].bit_depth = 16 THEN 16 ELSE 8
           fits == Fits(data[o], picture)
           d == IF fits THEN [data[o] EXCEPT !.width = picture.w, !.height = picture.h]
                ELSE New(heap, picture.w, picture.h, depth)
           pointers == IF fits THEN heap[d.rows] ELSE Pointers(d.image, d.height, row_bytes(d))
           before == IF fits THEN heap[d.image] ELSE Zeros(row_bytes(d) * d.height)
           content == Painted(before, d, pointers, Samples(picture.px, d.bit_depth))
           all == Allocated(heap, d, pointers, content)
           kept == fits /\ ~ RowsInImage(d)
<1>1. /\ AtOnce
      /\ UNCHANGED <<files, object, name, internal>>
      /\ Sound(DOMAIN heap, data, internal) /\ Progress' /\ ~ poisoned
  BY CallIsIdle DEF FromYuv
<1>2. TypeOK /\ DOMAIN data = Objects /\ data[o] \in Structs /\ IsFiniteSet(DOMAIN heap)
  BY DEF OwnershipInv, TypeOK
<1>3. picture.w \in Nat /\ picture.h \in Nat
  BY PngAssumption
<1>4. CASE kept
  <2>1. UNCHANGED <<data, heap>>
    BY <1>4 DEF FromYuv
  <2> QED  BY <1>1, <1>2, <2>1, SameOwners DEF TypeOK
<1>5. ~ kept => heap' = (IF fits THEN all ELSE Without(all, Owned(data[o]))) /\ data' = [data EXCEPT ![o] = d] /\ UNCHANGED poisoned
  BY DEF FromYuv
<1>6. DOMAIN all = DOMAIN heap \cup {d.self, d.rows, d.image}
  <2> HIDE DEF d, pointers, content
  <2> QED  BY AllocatedDomain
<1> HIDE DEF kept, all
<1>7. CASE ~ kept /\ fits
  <2>1. heap' = all /\ data' = [data EXCEPT ![o] = d]
    BY <1>5, <1>7
  <2>2. /\ d \in Structs
        /\ d.self = data[o].self /\ d.rows = data[o].rows /\ d.image = data[o].image
    BY <1>2, <1>3, <1>7 DEF Structs
  <2>3. Complete(data[o]) /\ Buffers(data[o]) \subseteq DOMAIN heap
    BY <1>1, <1>7 DEF Sound, Apart, Owners, Fits
  <2> HIDE DEF d, fits
  <2>4. DOMAIN heap' = DOMAIN heap
    BY <1>6, <2>1, <2>2, <2>3 DEF Complete, Buffers
  <2>5. Sound(DOMAIN heap, [data EXCEPT ![o] = d], internal)
    BY <1>1, <1>2, <2>2, <2>3, ResizeKeeps
  <2>6. Sound(DOMAIN heap', data', internal')
    BY <1>1, <2>1, <2>4, <2>5
  <2>7. TypeOK'
    BY <1>1, <1>2, <2>1, <2>2, <2>4 DEF TypeOK
  <2> QED  BY <1>1, <2>6, <2>7 DEF OwnershipInv
<1>8. CASE ~ kept /\ ~ fits
  <2>1. heap' = Without(all, Owned(data[o])) /\ data' = [data EXCEPT ![o] = d]
    BY <1>5, <1>8
  <2>2. d = New(heap, picture.w, picture.h, depth) /\ depth \in Int
    BY <1>8
  <2> HIDE DEF d, fits, depth
  <2>3. /\ d \in Structs
        /\ Complete(d) /\ Distinct(d)
        /\ Buffers(d) = {d.self, d.rows, d.image}
        /\ Buffers(d) \cap DOMAIN heap = {}
    BY <1>2, <1>3, <2>2, NewIsNew
  <2>4. DOMAIN heap' = (DOMAIN heap \cup Buffers(d)) \ Buffers(data[o])
    <3>1. DOMAIN heap' = DOMAIN all \ Owned(data[o])
      BY <2>1, WithoutDomain
    <3>2. Owned(data[o]) = Buffers(data[o])
      BY DEF Owned, Buffers
    <3> QED  BY <1>6, <2>3, <3>1, <3>2
  <2> QED  BY <1>1, <2>1, <2>3, <2>4, ReplacedByNew
<1> QED  BY <1>4, <1>7, <1>8

LEMMA SetPixelKeeps ==
  ASSUME OwnershipInv, NEW o \in Objects, NEW p, NEW color, SetPixel(o, p, color)
  PROVE  OwnershipInv'
<1>1. /\ UNCHANGED <<data, files, object, name, internal>>
      /\ Progress' /\ ~ poisoned
  BY CallIsIdle DEF SetPixel
<1>2. DOMAIN heap' = DOMAIN heap
  BY DEF SetPixel
<1> QED  BY <1>1, <1>2, SameOwners DEF OwnershipInv, TypeOK

LEMMA ReadsKeep ==
  ASSUME OwnershipInv, NEW o \in Objects, ToYuv(o) \/ \E p : GetPixel(o, p)
  PROVE  OwnershipInv'
<1>1. /\ UNCHANGED <<data, heap, files, object, name, internal>>
      /\ Progress' /\ ~ poisoned
  BY CallIsIdle DEF ToYuv, GetPixel
<1> QED  BY <1>1, SameOwners DEF OwnershipInv, TypeOK

-----------------------------------------------------------------------------
(* Loading.                                                                *)

LEMMA StartsKeep ==
  ASSUME OwnershipInv, NEW o \in Objects, NEW f \in Names, StartLoad(o, f) \/ StartSave(o, f)
  PROVE  OwnershipInv'
<1>1. /\ UNCHANGED <<data, heap, files, fp, structs, internal, poisoned>>
      /\ object' = o /\ name' = f
      /\ pc = "idle" /\ ~ poisoned /\ pc' \in {"load open", "save open"}
  BY DEF StartLoad, StartSave, Ready, Goto
<1>2. Progress'
  BY <1>1 DEF OwnershipInv, Progress, Closed
<1> QED  BY <1>1, <1>2, SameOwners DEF OwnershipInv, TypeOK

(* A step that changes only how far the load is, and the file.             *)
LEMMA OnlyProgress ==
  ASSUME OwnershipInv, UNCHANGED <<data, heap, object, name, internal, poisoned>>, Progress => Progress',
         DOMAIN files' = DOMAIN files,
         \A f \in Names : files'[f].w \in Nat /\ files'[f].h \in Nat /\ files'[f].bit_depth \in Int
  PROVE  OwnershipInv'
  BY SameOwners DEF OwnershipInv, TypeOK

LEMMA LoadOpenKeeps ==
  ASSUME OwnershipInv, LoadOpen
  PROVE  OwnershipInv'
<1>1. UNCHANGED <<data, heap, object, name, internal, poisoned, files>>
  BY DEF LoadOpen, Within
<1>2. Progress => Progress'
  BY DEF Progress, Closed, LoadOpen, Within, Goto
<1> QED  BY <1>1, <1>2, OnlyProgress DEF OwnershipInv, TypeOK

(* A step of a load that allocates.                                        *)
LEMMA LoadAllocates ==
  ASSUME OwnershipInv, Within, internal' \in Structs,
         Sound(DOMAIN heap, data, internal) => Distinct(internal'),
         NEW id, Buffers(internal') = Buffers(internal) \cup {id}, id \notin DOMAIN heap,
         DOMAIN heap' = DOMAIN heap \cup {id},
         Progress => Progress'
  PROVE  OwnershipInv'
<1>1. TypeOK
  BY DEF OwnershipInv
<1>2. TypeOK'
  <2>1. IsFiniteSet(DOMAIN heap')
    BY <1>1, FS_AddElement DEF TypeOK
  <2> QED  BY <1>1, <2>1 DEF TypeOK, Within
<1>3. Sound(DOMAIN heap, data, internal) => Sound(DOMAIN heap', data', internal')
  <2>1. SUFFICES ASSUME Sound(DOMAIN heap, data, internal)
                 PROVE  Sound(DOMAIN heap', data', internal')
    OBVIOUS
  <2>2. (Buffers(internal') \ Buffers(internal)) \cap DOMAIN heap = {}
    OBVIOUS
  <2>3. Sound((DOMAIN heap \ Buffers(internal)) \cup Buffers(internal'), data, internal')
    BY <2>1, <2>2, LoadingKeeps
  <2>4. Buffers(internal) \subseteq DOMAIN heap
    BY <2>1 DEF Sound, Owners
  <2>5. (DOMAIN heap \ Buffers(internal)) \cup Buffers(internal') = DOMAIN heap'
    BY <2>4
  <2> QED  BY <2>3, <2>5 DEF Within
<1> QED  BY <1>2, <1>3 DEF OwnershipInv, Within

LEMMA LoadStructsKeeps ==
  ASSUME OwnershipInv, LoadStructs
  PROVE  OwnershipInv'
<1>1. Within /\ UNCHANGED fp /\ pc = "load structs"
  BY DEF LoadStructs
<1>2. CASE Goto("load catch") /\ UNCHANGED <<heap, structs, internal>>
  <2>1. Progress => Progress'
    BY <1>1, <1>2 DEF Progress, Goto
  <2> QED  BY <1>1, <1>2, <2>1, OnlyProgress DEF Within, OwnershipInv, TypeOK
<1>3. CASE /\ internal' = [NoData EXCEPT !.self = Fresh(DOMAIN heap)]
           /\ heap' = With(heap, internal'.self, <<>>)
           /\ pc' \in {"load catch", "load info"}
  <2> DEFINE id == Fresh(DOMAIN heap)
  <2>1. id \in Nat \ {0} /\ id \notin DOMAIN heap
    BY FreshIsNew DEF OwnershipInv, TypeOK
  <2> HIDE DEF id
  <2>2. /\ internal' \in Structs
        /\ internal'.self = id /\ internal'.rows = 0 /\ internal'.image = 0
    <3>1. internal' = [NoData EXCEPT !.self = id]
      BY <1>3 DEF id
    <3> QED  BY <2>1, <3>1 DEF NoData, Structs
  <2>3. Distinct(internal') /\ Buffers(internal') = {id}
    BY <2>1, <2>2 DEF Distinct, Buffers
  <2>4. Buffers(internal) = {}
    BY <1>1, NoDataOwnsNothing DEF OwnershipInv, Progress
  <2>5. DOMAIN heap' = DOMAIN heap \cup {id}
    BY <1>3, <2>2, WithDomain
  <2>6. Progress => Progress'
    BY <1>1, <1>3, <2>1, <2>2 DEF Progress
  <2> QED  BY <1>1, <2>1, <2>2, <2>3, <2>4, <2>5, <2>6, LoadAllocates
<1> QED  BY <1>2, <1>3 DEF LoadStructs, Goto

LEMMA LoadInfoKeeps ==
  ASSUME OwnershipInv, LoadInfo
  PROVE  OwnershipInv'
<1>1. Within /\ UNCHANGED <<fp, structs>> /\ pc = "load info"
  BY DEF LoadInfo
<1>2. CASE Goto("load catch") /\ UNCHANGED <<heap, internal>>
  <2>1. Progress => Progress'
    BY <1>1, <1>2 DEF Progress, Goto
  <2> QED  BY <1>1, <1>2, <2>1, OnlyProgress DEF Within, OwnershipInv, TypeOK
<1>3. CASE ~ (Goto("load catch") /\ UNCHANGED <<heap, internal>>)
  <2> DEFINE png == files[name]
             id == Fresh(DOMAIN heap)
  <2>1. /\ internal' = [internal EXCEPT !.rows = id, !.width = png.w, !.height = png.h, !.bit_depth = png.bit_depth]
        /\ heap' = With(heap, id, <<>>)
        /\ pc' = "load image"
    BY <1>3 DEF LoadInfo, Goto
  <2>2. id \in Nat \ {0} /\ id \notin DOMAIN heap
    BY FreshIsNew DEF OwnershipInv, TypeOK
  <2>3. internal \in Structs /\ png.w \in Nat /\ png.h \in Nat /\ png.bit_depth \in Int
    BY DEF OwnershipInv, TypeOK
  <2>4. internal.self # 0 /\ internal.rows = 0 /\ internal.image = 0
    BY <1>1 DEF OwnershipInv, Progress
  <2> HIDE DEF id, png
  <2>5. /\ internal' \in Structs
        /\ internal'.self = internal.self /\ internal'.rows = id /\ internal'.image = 0
    BY <2>1, <2>2, <2>3, <2>4 DEF Structs
  <2>6. DOMAIN heap' = DOMAIN heap \cup {id}
    BY <2>1, WithDomain
  <2>7. Buffers(internal') = Buffers(internal) \cup {id}
    BY <2>2, <2>4, <2>5 DEF Buffers
  <2>8. Sound(DOMAIN heap, data, internal) => Distinct(internal')
    <3>1. Sound(DOMAIN heap, data, internal) => internal.self \in DOMAIN heap
      BY <2>4 DEF Sound, Owners, Buffers
    <3> QED  BY <2>2, <2>4, <2>5, <3>1 DEF Distinct
  <2>9. Progress => Progress'
    BY <1>1, <2>1, <2>2, <2>4, <2>5 DEF Progress
  <2> QED  BY <1>1, <2>2, <2>5, <2>6, <2>7, <2>8, <2>9, LoadAllocates
<1> QED  BY <1>2, <1>3

LEMMA LoadImageKeeps ==
  ASSUME OwnershipInv, LoadImage
  PROVE  OwnershipInv'
<1>1. Within /\ UNCHANGED <<fp, structs>> /\ pc = "load image"
  BY DEF LoadImage
<1>2. CASE Goto("load catch") /\ UNCHANGED <<heap, internal>>
  <2>1. Progress => Progress'
    BY <1>1, <1>2 DEF Progress, Goto
  <2> QED  BY <1>1, <1>2, <2>1, OnlyProgress DEF Within, OwnershipInv, TypeOK
<1>3. CASE ~ (Goto("load catch") /\ UNCHANGED <<heap, internal>>)
  <2> DEFINE id == Fresh(DOMAIN heap)
             bytes == channels * internal.width * SampleBytes(internal.bit_depth)
             zeros == Zeros(bytes * internal.height)
             pointers == Pointers(id, internal.height, bytes)
  <2>1. /\ internal' = [internal EXCEPT !.image = id]
        /\ heap' = With(With(heap, id, zeros), internal.rows, pointers)
        /\ pc' = "load pixels"
    BY <1>3 DEF LoadImage, Goto
  <2>2. id \in Nat \ {0} /\ id \notin DOMAIN heap
    BY FreshIsNew DEF OwnershipInv, TypeOK
  <2>3. internal \in Structs
    BY DEF OwnershipInv, TypeOK
  <2>4. internal.self # 0 /\ internal.rows # 0 /\ internal.image = 0
    BY <1>1 DEF OwnershipInv, Progress
  <2> HIDE DEF id, bytes, zeros, pointers
  <2>5. /\ internal' \in Structs
        /\ internal'.self = internal.self /\ internal'.rows = internal.rows /\ internal'.image = id
    BY <2>1, <2>2, <2>3 DEF Structs
  <2>6. DOMAIN heap' = DOMAIN heap \cup {id} \cup {internal.rows}
    <3> DEFINE h == With(heap, id, zeros)
    <3>1. DOMAIN h = DOMAIN heap \cup {id}
      BY WithDomain
    <3> HIDE DEF h
    <3>2. heap' = With(h, internal.rows, pointers)
      BY <2>1 DEF h
    <3>3. DOMAIN With(h, internal.rows, pointers) = DOMAIN h \cup {internal.rows}
      BY WithDomain
    <3> QED  BY <3>1, <3>2, <3>3
  <2>7. Buffers(internal') = Buffers(internal) \cup {id}
    BY <2>2, <2>4, <2>5 DEF Buffers
  <2>8. Sound(DOMAIN heap, data, internal) =>
          Distinct(internal') /\ internal.rows \in DOMAIN heap
    <3>1. Sound(DOMAIN heap, data, internal) =>
            internal.self \in DOMAIN heap /\ internal.rows \in DOMAIN heap /\ Distinct(internal)
      BY <2>4 DEF Sound, Owners, Apart, Buffers
    <3> QED  BY <2>2, <2>4, <2>5, <3>1 DEF Distinct
  <2>9. Progress => Progress'
    BY <1>1, <2>1, <2>2, <2>4, <2>5 DEF Progress, Complete
  <2>10. CASE ~ poisoned
    <3>1. DOMAIN heap' = DOMAIN heap \cup {id}
      BY <2>6, <2>8, <2>10 DEF OwnershipInv
    <3> QED  BY <1>1, <2>2, <2>5, <2>7, <2>8, <2>9, <3>1, LoadAllocates
  <2>11. CASE poisoned
    <3>1. IsFiniteSet(DOMAIN heap')
      <4>1. IsFiniteSet(DOMAIN heap)
        BY DEF OwnershipInv, TypeOK
      <4>2. IsFiniteSet(DOMAIN heap \cup {id})
        BY <4>1, FS_AddElement
      <4> QED  BY <2>6, <4>2, FS_AddElement
    <3>2. TypeOK'
      BY <1>1, <2>5, <3>1 DEF OwnershipInv, TypeOK, Within
    <3> QED  BY <1>1, <2>9, <2>11, <3>2 DEF OwnershipInv, Within
  <2> QED  BY <2>10, <2>11
<1> QED  BY <1>2, <1>3

LEMMA LoadPixelsKeeps ==
  ASSUME OwnershipInv, LoadPixels
  PROVE  OwnershipInv'
<1>1. Within /\ UNCHANGED <<structs, internal>> /\ pc = "load pixels"
  BY DEF LoadPixels
<1>2. CASE Goto("load catch") /\ UNCHANGED <<heap, fp>>
  <2>1. Progress => Progress'
    BY <1>1, <1>2 DEF Progress, Goto
  <2> QED  BY <1>1, <1>2, <2>1, OnlyProgress DEF Within, OwnershipInv, TypeOK
<1>3. CASE ~ (Goto("load catch") /\ UNCHANGED <<heap, fp>>)
  <2>1. PICK content : heap' = With(heap, internal.image, content)
    BY <1>3 DEF LoadPixels
  <2>2. fp' = FALSE /\ pc' = "load swap"
    BY <1>3 DEF LoadPixels, Goto
  <2>3. DOMAIN heap' = DOMAIN heap \cup {internal.image}
    BY <2>1, WithDomain
  <2>4. Complete(internal)
    BY <1>1 DEF OwnershipInv, Progress
  <2>5. ~ poisoned => DOMAIN heap' = DOMAIN heap
    BY <2>3, <2>4 DEF OwnershipInv, Sound, Owners, Complete, Buffers
  <2>6. Progress'
    BY <1>1, <2>2, <2>4 DEF OwnershipInv, Progress, Complete
  <2>7. TypeOK'
    <3>1. IsFiniteSet(DOMAIN heap')
      BY <2>3, FS_AddElement DEF OwnershipInv, TypeOK
    <3> QED  BY <1>1, <3>1 DEF OwnershipInv, TypeOK, Within
  <2> QED  BY <1>1, <2>5, <2>6, <2>7 DEF OwnershipInv, Within
<1> QED  BY <1>2, <1>3

LEMMA LoadSwapKeeps ==
  ASSUME OwnershipInv, LoadSwap
  PROVE  OwnershipInv'
<1>1. /\ heap' = Without(heap, Owned(data[object]))
      /\ data' = [data EXCEPT ![object] = internal]
      /\ internal' = NoData /\ structs' = FALSE /\ pc' = "idle" /\ pc = "load swap"
      /\ UNCHANGED <<files, object, name, fp, poisoned>>
  BY DEF LoadSwap, Goto
<1>2. TypeOK /\ DOMAIN data = Objects /\ object \in Objects
  BY DEF OwnershipInv, TypeOK
<1>3. Complete(internal) /\ ~ fp
  BY <1>1 DEF OwnershipInv, Progress
<1>4. DOMAIN heap' = DOMAIN heap \ Buffers(data[object])
  BY <1>1, WithoutDomain DEF Owned, Buffers
<1>5. ~ poisoned => Sound(DOMAIN heap', data', internal')
  <2>1. SUFFICES ASSUME ~ poisoned  PROVE Sound(DOMAIN heap', data', internal')
    OBVIOUS
  <2>2. Sound(DOMAIN heap, data, internal)
    BY <2>1 DEF OwnershipInv
  <2>3. Sound(DOMAIN heap \ Buffers(data[object]), [data EXCEPT ![object] = internal], NoData)
    BY <1>2, <1>3, <2>2, AdoptKeeps
  <2> QED  BY <1>1, <1>4, <2>3
<1>6. TypeOK'
  <2>1. IsFiniteSet(DOMAIN heap')
    BY <1>2, <1>4, LessIsFinite DEF TypeOK
  <2> QED  BY <1>1, <1>2, <2>1, NoDataOwnsNothing DEF TypeOK
<1>7. Progress'
  BY <1>1, <1>3 DEF Progress, Closed
<1> QED  BY <1>1, <1>5, <1>6, <1>7 DEF OwnershipInv

LEMMA LoadCatchKeeps ==
  ASSUME OwnershipInv, LoadCatch
  PROVE  OwnershipInv'
<1>1. /\ heap' = Without(heap, Owned(internal))
      /\ internal' = NoData /\ structs' = FALSE /\ fp' = FALSE /\ pc' = "idle"
      /\ UNCHANGED <<data, files, object, name, poisoned>>
  BY DEF LoadCatch, Goto
<1>2. TypeOK
  BY DEF OwnershipInv
<1>3. DOMAIN heap' = DOMAIN heap \ Buffers(internal)
  BY <1>1, WithoutDomain DEF Owned, Buffers
<1>4. ~ poisoned => Sound(DOMAIN heap', data', internal')
  <2>1. SUFFICES ASSUME ~ poisoned  PROVE Sound(DOMAIN heap', data', internal')
    OBVIOUS
  <2>2. Sound(DOMAIN heap, data, internal)
    BY <2>1 DEF OwnershipInv
  <2>3. Sound((DOMAIN heap \ Buffers(internal)) \cup Buffers(NoData), data, NoData)
    BY <2>2, LoadingKeeps, NoDataOwnsNothing
  <2>4. (DOMAIN heap \ Buffers(internal)) \cup Buffers(NoData) = DOMAIN heap'
    BY <1>3, NoDataOwnsNothing
  <2> QED  BY <1>1, <2>3, <2>4
<1>5. TypeOK'
  <2>1. IsFiniteSet(DOMAIN heap')
    BY <1>2, <1>3, LessIsFinite DEF TypeOK
  <2> QED  BY <1>1, <1>2, <2>1, NoDataOwnsNothing DEF TypeOK
<1>6. Progress'
  BY <1>1 DEF Progress, Closed
<1> QED  BY <1>1, <1>4, <1>5, <1>6 DEF OwnershipInv

-----------------------------------------------------------------------------
(* Saving.                                                                 *)

LEMMA SavesKeep ==
  ASSUME OwnershipInv, SaveOpen \/ SaveStructs \/ SaveImage \/ SaveCatch
  PROVE  OwnershipInv'
<1>1. TypeOK /\ Progress
  BY DEF OwnershipInv
<1>2. CASE SaveOpen
  <2>1. UNCHANGED <<data, heap, object, name, internal, poisoned>>
    BY <1>2 DEF SaveOpen
  <2>2. Progress'
    BY <1>1, <1>2 DEF SaveOpen, Progress, Closed, Goto
  <2>3. DOMAIN files' = DOMAIN files /\ \A f \in Names : files'[f] = files[f] \/ files'[f] = Other
    BY <1>1, <1>2 DEF SaveOpen, TypeOK
  <2> QED  BY <1>1, <2>1, <2>2, <2>3, SameOwners DEF TypeOK, Other
<1>3. CASE SaveStructs
  <2>1. UNCHANGED <<data, heap, object, name, internal, poisoned, files>>
    BY <1>3 DEF SaveStructs, Within
  <2>2. Progress'
    BY <1>1, <1>3 DEF SaveStructs, Within, Progress, Goto
  <2> QED  BY <1>1, <2>1, <2>2, SameOwners DEF TypeOK
<1>4. CASE SaveImage
  <2>1. UNCHANGED <<data, heap, object, name, internal>>
    BY <1>4 DEF SaveImage
  <2>2. ~ poisoned' => ~ poisoned
    BY <1>4 DEF SaveImage
  <2>3. Progress'
    BY <1>1, <1>4 DEF SaveImage, Progress, Goto, Closed
  <2>4. PICK px : files' = files \/
          files' = [files EXCEPT ![name] = [w |-> data[object].width, h |-> data[object].height,
                                            bit_depth |-> data[object].bit_depth, px |-> px]]
    BY <1>4 DEF SaveImage
  <2>5. data[object].width \in Nat /\ data[object].height \in Nat /\ data[object].bit_depth \in Int
    BY <1>1 DEF TypeOK, Structs
  <2>6. DOMAIN files' = DOMAIN files
        /\ \A f \in Names : files'[f].w \in Nat /\ files'[f].h \in Nat /\ files'[f].bit_depth \in Int
    BY <1>1, <2>4, <2>5 DEF TypeOK
  <2> QED  BY <1>1, <2>1, <2>2, <2>3, <2>6, SameOwners DEF TypeOK
<1>5. CASE SaveCatch
  <2>1. UNCHANGED <<data, heap, object, name, internal, poisoned, files>>
    BY <1>5 DEF SaveCatch
  <2>2. Progress'
    BY <1>1, <1>5 DEF SaveCatch, Progress, Goto, Closed
  <2> QED  BY <1>1, <2>1, <2>2, SameOwners DEF TypeOK
<1> QED  BY <1>2, <1>3, <1>4, <1>5

-----------------------------------------------------------------------------
LEMMA StepKeeps ==
  ASSUME OwnershipInv, [Next]_vars
  PROVE  OwnershipInv'
<1>1. CASE UNCHANGED vars
  <2>1. UNCHANGED <<data, heap, files, pc, object, name, fp, structs, internal, poisoned>>
    BY <1>1 DEF vars, locals
  <2> QED  BY <2>1 DEF OwnershipInv, TypeOK, Progress, Closed, Sound, Owners, Apart
<1>2. ASSUME NEW o \in Objects, NEW picture \in Pictures,
             Create(o, picture.w, picture.h, 8) \/ Create(o, picture.w, picture.h, 16)
      PROVE  OwnershipInv'
  BY <1>2, CreateKeeps, PngAssumption
<1>3. ASSUME NEW o \in Objects, NEW from \in Objects, Copy(o, from) \/ CopyRunsOut(o, from) \/ Move(o, from)
      PROVE  OwnershipInv'
  BY <1>3, CopyKeeps, CopyRunsOutKeeps, MovesKeep
<1>4. ASSUME NEW o \in Objects, NEW picture \in Pictures, FromYuv(o, picture)
      PROVE  OwnershipInv'
  BY <1>4, FromYuvKeeps
<1>5. ASSUME NEW o \in Objects, ToYuv(o) \/ \E p : GetPixel(o, p)
      PROVE  OwnershipInv'
  BY <1>5, ReadsKeep
<1>6. ASSUME NEW o \in Objects, NEW p, NEW color, SetPixel(o, p, color)
      PROVE  OwnershipInv'
  BY <1>6, SetPixelKeeps
<1>7. ASSUME NEW o \in Objects, NEW f \in Names, StartLoad(o, f) \/ StartSave(o, f)
      PROVE  OwnershipInv'
  BY <1>7, StartsKeep
<1>8. CASE LoadOpen \/ LoadStructs \/ LoadInfo \/ LoadImage \/ LoadPixels \/ LoadSwap \/ LoadCatch
  BY <1>8, LoadOpenKeeps, LoadStructsKeeps, LoadInfoKeeps, LoadImageKeeps, LoadPixelsKeeps, LoadSwapKeeps, LoadCatchKeeps
<1>9. CASE SaveOpen \/ SaveStructs \/ SaveImage \/ SaveCatch
  BY <1>9, SavesKeep
<1>10. CASE Stopped
  BY <1>1, <1>10 DEF Stopped
<1> QED  BY <1>1, <1>2, <1>3, <1>4, <1>5, <1>6, <1>7, <1>8, <1>9, <1>10 DEF Next

LEMMA InvImpliesOwned == OwnershipInv => BuffersOwned
<1> SUFFICES ASSUME OwnershipInv, ~ poisoned  PROVE NothingLeaks /\ NothingShared /\ NothingLeftOpen
  BY DEF BuffersOwned
<1>1. Owners(DOMAIN heap, data, internal) /\ Apart(data, internal) /\ Progress
  BY DEF OwnershipInv, Sound
<1>2. NothingLeaks
  BY <1>1 DEF NothingLeaks, Owners
<1>3. NothingShared
  BY <1>1 DEF NothingShared, Apart
<1>4. NothingLeftOpen
  BY <1>1 DEF NothingLeftOpen, Progress, Closed
<1> QED  BY <1>2, <1>3, <1>4

(* Whatever is called in whatever order, and wherever it fails, every      *)
(* buffer has one owner and nothing stays open.                            *)
THEOREM EveryBufferOwned == Spec => []BuffersOwned
<1>1. Init => OwnershipInv
  BY InitOwned
<1>2. OwnershipInv /\ [Next]_vars => OwnershipInv'
  BY StepKeeps
<1>3. OwnershipInv => BuffersOwned
  BY InvImpliesOwned
<1> QED  BY <1>1, <1>2, <1>3, PTL DEF Spec

-----------------------------------------------------------------------------
(* What the objects show.  A struct d in some heap h: where its samples    *)
(* are, whether its memory holds them, and what they are.                  *)
RowIn(h, d, y) == h[d.rows][y + 1]
ByteAt(h, d, p, c) == RowIn(h, d, p[2]).offset + (p[1] * channels + c - 1) * SampleBytes(d.bit_depth)
Holds(h, d) ==
  /\ d.height <= Len(h[d.rows])
  /\ \A y \in 0 .. d.height - 1 :
       /\ RowIn(h, d, y).image = d.image
       /\ \A i \in 0 .. d.width * channels * SampleBytes(d.bit_depth) - 1 : RowIn(h, d, y).offset + i \in DOMAIN h[d.image]
NoOverlap(h, d) ==
  \A y, z \in 0 .. d.height - 1 :
    y < z => RowIn(h, d, y).offset + channels * d.width * SampleBytes(d.bit_depth) <= RowIn(h, d, z).offset
SampleIn(h, d, p, c) == [k \in 1 .. SampleBytes(d.bit_depth) |-> h[RowIn(h, d, p[2]).image][ByteAt(h, d, p, c) + k - 1]]
Bytes(h, d) == [p \in Places(d.width, d.height) |-> [c \in 1 .. channels |-> SampleIn(h, d, p, c)]]
Levels(b) == [p \in DOMAIN b |-> [c \in 1 .. channels |-> FromMemory(b[p][c])]]
Seen(h, d) == [w |-> d.width, h |-> d.height, px |-> Levels(Bytes(h, d))]

RowPointers == Seq([image : Nat, offset : Int])

(* The samples are those of b.                                             *)
Listed(b, d) ==
  /\ b = [p \in Places(d.width, d.height) |-> [c \in 1 .. channels |-> b[p][c]]]
  /\ \A p \in Places(d.width, d.height), c \in 1 .. channels : b[p][c] = [k \in 1 .. SampleBytes(d.bit_depth) |-> b[p][c][k]]

LEMMA SampleSizes ==
  ASSUME NEW depth
  PROVE  SampleBytes(depth) \in {1, 2}
  BY DEF SampleBytes

LEMMA ShownIs ==
  ASSUME NEW o, data[o] # NoData
  PROVE  /\ Usable(o) <=> Holds(heap, data[o])
         /\ Shown(o) = Seen(heap, data[o])
<1> DEFINE d == data[o]
<1>1. Usable(o) <=> Holds(heap, d)
  BY DEF Usable, RowsInImage, Holds, Row, RowIn
<1>2. \A p, c : Sample(d, p, c) = SampleIn(heap, d, p, c)
  BY DEF Sample, SampleIn, Row, RowIn, Offset, ByteAt
<1>3. Shown(o) = [w |-> d.width, h |-> d.height,
                  px |-> [p \in Places(d.width, d.height) |-> [c \in 1 .. channels |-> FromMemory(Sample(d, p, c))]]]
  BY DEF Shown
<1> HIDE DEF d
<1>4. [p \in Places(d.width, d.height) |-> [c \in 1 .. channels |-> FromMemory(Sample(d, p, c))]] = Levels(Bytes(heap, d))
  BY <1>2 DEF Levels, Bytes
<1> QED  BY <1>1, <1>3, <1>4 DEF Seen, d

LEMMA ShownNextIs ==
  ASSUME NEW o, data'[o] # NoData
  PROVE  /\ Usable(o)' <=> Holds(heap', data'[o])
         /\ Shown(o)' = Seen(heap', data'[o])
<1> DEFINE d == data'[o]
<1>1. Usable(o)' <=> Holds(heap', d)
  BY DEF Usable, RowsInImage, Holds, Row, RowIn
<1>2. \A p, c : Sample(data[o], p, c)' = SampleIn(heap', d, p, c)
  BY DEF Sample, SampleIn, Row, RowIn, Offset, ByteAt
<1>3. Shown(o)' = [w |-> d.width, h |-> d.height,
                   px |-> [p \in Places(d.width, d.height) |-> [c \in 1 .. channels |-> FromMemory(Sample(data[o], p, c)')]]]
  BY DEF Shown
<1> HIDE DEF d
<1>4. [p \in Places(d.width, d.height) |-> [c \in 1 .. channels |-> FromMemory(Sample(data[o], p, c)')]] = Levels(Bytes(heap', d))
  BY <1>2 DEF Levels, Bytes
<1> QED  BY <1>1, <1>3, <1>4 DEF Seen, d

LEMMA SameRows ==
  ASSUME NEW h, NEW g, NEW d, g[d.rows] = h[d.rows]
  PROVE  \A y : RowIn(g, d, y) = RowIn(h, d, y)
  BY DEF RowIn

(* It is the buffers alone that decide.                                    *)
LEMMA SameBuffers ==
  ASSUME NEW h, NEW g, NEW d, g[d.rows] = h[d.rows], g[d.image] = h[d.image], Holds(h, d), d \in Structs
  PROVE  Holds(g, d) /\ Seen(g, d) = Seen(h, d)
<1>1. \A y : RowIn(g, d, y) = RowIn(h, d, y)
  BY SameRows
<1>2. Holds(g, d)
  BY <1>1 DEF Holds
<1>3. ASSUME NEW p \in Places(d.width, d.height), NEW c
      PROVE  SampleIn(g, d, p, c) = SampleIn(h, d, p, c)
  <2>1. RowIn(h, d, p[2]).image = d.image
    <3>1. p[2] \in 0 .. d.height - 1
      BY DEF Places
    <3> QED  BY <3>1 DEF Holds
  <2> QED  BY <1>1, <2>1 DEF SampleIn, ByteAt
<1>4. Bytes(g, d) = Bytes(h, d)
  BY <1>3 DEF Bytes
<1> QED  BY <1>2, <1>4 DEF Seen

(* They are in the image of d.                                             *)
Stored(h, d, b) ==
  \A p \in Places(d.width, d.height), c \in 1 .. channels, k \in 1 .. SampleBytes(d.bit_depth) :
    h[d.image][ByteAt(h, d, p, c) + k - 1] = b[p][c][k]

LEMMA BytesAre ==
  ASSUME NEW h, NEW d \in Structs, Holds(h, d), NEW b, Listed(b, d), Stored(h, d, b)
  PROVE  Bytes(h, d) = b
<1>1. ASSUME NEW p \in Places(d.width, d.height), NEW c \in 1 .. channels
      PROVE  SampleIn(h, d, p, c) = b[p][c]
  <2>1. RowIn(h, d, p[2]).image = d.image
    <3>1. p[2] \in 0 .. d.height - 1
      BY DEF Places
    <3> QED  BY <3>1 DEF Holds
  <2>2. SampleIn(h, d, p, c) = [k \in 1 .. SampleBytes(d.bit_depth) |-> h[d.image][ByteAt(h, d, p, c) + k - 1]]
    BY <2>1 DEF SampleIn
  <2>3. b[p][c] = [k \in 1 .. SampleBytes(d.bit_depth) |-> b[p][c][k]]
    BY DEF Listed
  <2>4. \A k \in 1 .. SampleBytes(d.bit_depth) : h[d.image][ByteAt(h, d, p, c) + k - 1] = b[p][c][k]
    BY DEF Stored
  <2> QED  BY <2>2, <2>3, <2>4
<1>2. b = [p \in Places(d.width, d.height) |-> [c \in 1 .. channels |-> b[p][c]]]
  BY DEF Listed
<1> QED  BY <1>1, <1>2 DEF Bytes

(* Where the rows of an object lie that has its memory to itself.          *)
Plain(h, d) ==
  LET bytes == channels * d.width * SampleBytes(d.bit_depth)
  IN  h[d.rows] = Pointers(d.image, d.height, bytes) /\ DOMAIN h[d.image] = 0 .. bytes * d.height - 1

LineAt(y, b) == y * b

LEMMA LinesInImage ==
  ASSUME NEW b \in Nat, NEW n \in Nat, NEW y \in 0 .. n - 1
  PROVE  /\ LineAt(y, b) \in Nat
         /\ \A i \in 0 .. b - 1 : LineAt(y, b) + i \in 0 .. b * n - 1
         /\ \A z \in 0 .. n - 1 : y < z => LineAt(y, b) + b <= LineAt(z, b)
<1>1. y * b \in Nat /\ b * n \in Nat
  BY Z3
<1>2. y * b + b <= b * n
  BY Z3
<1>3. ASSUME NEW z \in 0 .. n - 1, y < z
      PROVE  y * b + b <= z * b
  BY <1>3, Z3
<1> QED  BY <1>1, <1>2, <1>3 DEF LineAt

LEMMA LengthOf ==
  ASSUME NEW R, NEW n \in Nat, NEW r \in [1 .. n -> R]
  PROVE  Len(r) = n
  OBVIOUS

LEMMA RowPointersAre ==
  ASSUME NEW r \in RowPointers
  PROVE  Len(r) \in Nat /\ \A j \in 1 .. Len(r) : r[j].offset \in Int
<1>1. \A R : r \in Seq(R) => Len(r) \in Nat /\ \A j \in 1 .. Len(r) : r[j] \in R
  OBVIOUS
<1>2. Len(r) \in Nat /\ \A j \in 1 .. Len(r) : r[j] \in [image : Nat, offset : Int]
  BY <1>1, Zenon DEF RowPointers
<1> QED  BY <1>2

LEMMA PointersAre ==
  ASSUME NEW image \in Nat, NEW n \in Nat, NEW b \in Int
  PROVE  /\ Pointers(image, n, b) \in RowPointers
         /\ Len(Pointers(image, n, b)) = n
<1> DEFINE r == Pointers(image, n, b)
           R == [image : Nat, offset : Int]
<1>1. \A j \in 1 .. n : (j - 1) * b \in Int
  BY Z3
<1>2. r \in [1 .. n -> R]
  BY <1>1 DEF Pointers
<1> HIDE DEF r, R
<1>3. r \in Seq(R)
  BY <1>2
<1>4. Len(r) = n
  BY <1>2, LengthOf
<1> QED  BY <1>3, <1>4 DEF r, R, RowPointers

LEMMA PointerOf ==
  ASSUME NEW image, NEW n \in Nat, NEW b, NEW y \in 0 .. n - 1, NEW r, r = Pointers(image, n, b)
  PROVE  r[y + 1].image = image /\ r[y + 1].offset = LineAt(y, b)
<1>1. y + 1 \in 1 .. n /\ (y + 1) - 1 = y
  OBVIOUS
<1> QED  BY <1>1 DEF Pointers, LineAt

LEMMA PlainHolds ==
  ASSUME NEW h, NEW d \in Structs, Plain(h, d)
  PROVE  h[d.rows] \in RowPointers /\ Holds(h, d) /\ NoOverlap(h, d)
<1> DEFINE b == channels * d.width * SampleBytes(d.bit_depth)
           n == d.height
           r == h[d.rows]
<1>1. n \in Nat /\ b \in Nat /\ d.width * channels * SampleBytes(d.bit_depth) = b /\ d.image \in Nat
  BY SampleSizes DEF Structs, channels
<1>2. r = Pointers(d.image, n, b) /\ DOMAIN h[d.image] = 0 .. b * n - 1
  BY DEF Plain
<1>3. \A y : RowIn(h, d, y) = r[y + 1]
  BY DEF RowIn
<1> HIDE DEF b, n, r
<1>4. r \in RowPointers /\ Len(r) = n
  BY <1>1, <1>2, PointersAre
<1>5. ASSUME NEW y \in 0 .. n - 1
      PROVE  RowIn(h, d, y).image = d.image /\ RowIn(h, d, y).offset = LineAt(y, b)
  <2>1. n \in Nat /\ r = Pointers(d.image, n, b)
    BY <1>1, <1>2, Zenon
  <2>2. r[y + 1].image = d.image /\ r[y + 1].offset = LineAt(y, b)
    <3>1. y + 1 \in 1 .. n /\ (y + 1) - 1 = y
      BY <2>1
    <3> QED  BY <2>1, <3>1 DEF Pointers, LineAt
  <2> QED  BY <1>3, <2>2, Zenon
<1>6. ASSUME NEW y \in 0 .. n - 1
      PROVE  /\ \A i \in 0 .. b - 1 : RowIn(h, d, y).offset + i \in DOMAIN h[d.image]
             /\ \A z \in 0 .. n - 1 : y < z => RowIn(h, d, y).offset + b <= RowIn(h, d, z).offset
  BY <1>1, <1>2, <1>5, LinesInImage
<1>7. Holds(h, d)
  BY <1>1, <1>4, <1>5, <1>6 DEF Holds, n, r
<1>8. NoOverlap(h, d)
  BY <1>6 DEF NoOverlap, n, b
<1> QED  BY <1>4, <1>7, <1>8 DEF r

-----------------------------------------------------------------------------
(* Writing samples.                                                        *)

(* A byte i of sample c of pixel x of a line that begins at a is in it.    *)
LEMMA SampleInLine ==
  ASSUME NEW s \in {1, 2}, NEW w \in Nat, NEW a \in Int, NEW x \in 0 .. w - 1, NEW c \in 1 .. 4, NEW i \in Int,
         i - (a + (x * 4 + c - 1) * s) \in 0 .. s - 1
  PROVE  a <= i /\ i < a + 4 * w * s
<1>1. CASE s = 1
  BY <1>1
<1>2. CASE s = 2
  BY <1>2
<1> QED  BY <1>1, <1>2

(* No byte belongs to two samples.                                         *)
LEMMA SamplesApart ==
  ASSUME NEW h, NEW d \in Structs, h[d.rows] \in RowPointers, d.height <= Len(h[d.rows]), NoOverlap(h, d),
         NEW p \in Places(d.width, d.height), NEW c \in 1 .. channels,
         NEW q \in Places(d.width, d.height), NEW e \in 1 .. channels,
         NEW i \in Int,
         i - ByteAt(h, d, p, c) \in 0 .. SampleBytes(d.bit_depth) - 1,
         i - ByteAt(h, d, q, e) \in 0 .. SampleBytes(d.bit_depth) - 1
  PROVE  p = q /\ c = e
<1>1. PICK s \in {1, 2} : s = SampleBytes(d.bit_depth)
  BY SampleSizes
<1>2. PICK w \in Nat, n \in Nat : w = d.width /\ n = d.height
  BY DEF Structs
<1>3. /\ p = <<p[1], p[2]>> /\ p[1] \in 0 .. w - 1 /\ p[2] \in 0 .. n - 1
      /\ q = <<q[1], q[2]>> /\ q[1] \in 0 .. w - 1 /\ q[2] \in 0 .. n - 1
  BY <1>2 DEF Places
<1>4. \A y \in 0 .. n - 1 : RowIn(h, d, y).offset \in Int
  <2>1. PICK l \in Nat : l = Len(h[d.rows])
    BY RowPointersAre
  <2>2. n <= l /\ \A j \in 1 .. l : h[d.rows][j].offset \in Int
    BY <1>2, <2>1, RowPointersAre
  <2> QED  BY <1>2, <2>1, <2>2 DEF RowIn
<1>5. PICK a \in Int, b \in Int : a = RowIn(h, d, p[2]).offset /\ b = RowIn(h, d, q[2]).offset
  BY <1>3, <1>4
<1>6. \A y, z \in 0 .. n - 1 : y < z => RowIn(h, d, y).offset + 4 * w * s <= RowIn(h, d, z).offset
  BY <1>1, <1>2 DEF NoOverlap, channels
<1>7. p[2] < q[2] => a + 4 * w * s <= b
  BY <1>3, <1>5, <1>6
<1>8. q[2] < p[2] => b + 4 * w * s <= a
  BY <1>3, <1>5, <1>6
<1>9. PICK x \in 0 .. w - 1, z \in 0 .. w - 1 : x = p[1] /\ z = q[1]
  BY <1>3
<1>10. i - (a + (x * 4 + c - 1) * s) \in 0 .. s - 1 /\ i - (b + (z * 4 + e - 1) * s) \in 0 .. s - 1
  BY <1>1, <1>5, <1>9 DEF ByteAt, channels
<1>11. c \in 1 .. 4 /\ e \in 1 .. 4
  BY DEF channels
<1>12. a <= i /\ i < a + 4 * w * s /\ b <= i /\ i < b + 4 * w * s
  BY <1>10, <1>11, SampleInLine
<1>13. p[2] = q[2]
  <2>1. PICK l \in Int : l = 4 * w * s
    BY <1>1, <1>2, SMTT(40)
  <2>2. PICK u \in Int, v \in Int : u = p[2] /\ v = q[2]
    BY <1>2, <1>3
  <2>3. ~ (u < v) /\ ~ (v < u)
    BY <1>5, <1>7, <1>8, <1>12, <2>1, <2>2, SMTT(40)
  <2> QED  BY <2>2, <2>3
<1>14. a = b
  BY <1>5, <1>13
<1>15. x = z /\ c = e
  <2>1. i - (a + (z * 4 + e - 1) * s) \in 0 .. s - 1
    BY <1>10, <1>14, Zenon
  <2>2. i - (a + (x * 4 + c - 1) * s) \in 0 .. s - 1
    BY <1>10
  <2>3. CASE s = 1
    BY <1>11, <2>1, <2>2, <2>3
  <2>4. CASE s = 2
    BY <1>11, <2>1, <2>2, <2>4
  <2> QED  BY <2>3, <2>4
<1> QED  BY <1>3, <1>9, <1>13, <1>15

LEMMA BytePlaces ==
  ASSUME NEW h, NEW d \in Structs, h[d.rows] \in RowPointers, Holds(h, d),
         NEW p \in Places(d.width, d.height), NEW c \in 1 .. channels, NEW k \in 1 .. SampleBytes(d.bit_depth)
  PROVE  /\ ByteAt(h, d, p, c) \in Int
         /\ ByteAt(h, d, p, c) + k - 1 \in DOMAIN h[d.image]
<1>1. PICK s \in {1, 2} : s = SampleBytes(d.bit_depth)
  BY SampleSizes
<1>2. PICK w \in Nat, n \in Nat : w = d.width /\ n = d.height
  BY DEF Structs
<1>3. PICK x \in 0 .. w - 1, y \in 0 .. n - 1 : x = p[1] /\ y = p[2]
  BY <1>2 DEF Places
<1>4. RowIn(h, d, y).offset \in Int
  <2>1. PICK l \in Nat : l = Len(h[d.rows])
    BY RowPointersAre
  <2>2. \A j \in 1 .. l : h[d.rows][j].offset \in Int
    BY <2>1, RowPointersAre
  <2>3. n <= l
    BY <1>2, <2>1 DEF Holds
  <2>4. y + 1 \in 1 .. l
    BY <2>3
  <2> QED  BY <2>2, <2>4 DEF RowIn
<1>5. PICK a \in Int : a = RowIn(h, d, y).offset
  BY <1>4
<1>6. \A i \in 0 .. w * 4 * s - 1 : a + i \in DOMAIN h[d.image]
  BY <1>1, <1>2, <1>5 DEF Holds, channels
<1>7. ByteAt(h, d, p, c) = a + (x * 4 + c - 1) * s
  BY <1>1, <1>3, <1>5 DEF ByteAt, channels
<1>8. c \in 1 .. 4 /\ k \in 1 .. s
  BY <1>1 DEF channels
<1>9. PICK i \in Int : i = (x * 4 + c - 1) * s + k - 1
  BY <1>1, <1>3, <1>8
<1>10. i \in 0 .. w * 4 * s - 1
  <2>1. CASE s = 1
    BY <1>3, <1>8, <1>9, <2>1
  <2>2. CASE s = 2
    BY <1>3, <1>8, <1>9, <2>2
  <2> QED  BY <1>1, <2>1, <2>2
<1>11. ByteAt(h, d, p, c) \in Int /\ ByteAt(h, d, p, c) + k - 1 = a + i
  BY <1>1, <1>3, <1>7, <1>8, <1>9
<1> QED  BY <1>6, <1>10, <1>11

(* The bytes of the pixels that are painted are theirs, and the others     *)
(* stay what they were.                                                    *)
LEMMA PaintedSample ==
  ASSUME NEW h, NEW d \in Structs, h[d.rows] \in RowPointers, Holds(h, d), NoOverlap(h, d),
         NEW content, DOMAIN content = DOMAIN h[d.image],
         NEW px, DOMAIN px \subseteq Places(d.width, d.height),
         NEW p \in Places(d.width, d.height), NEW c \in 1 .. channels, NEW k \in 1 .. SampleBytes(d.bit_depth),
         NEW i, i = ByteAt(h, d, p, c) + k - 1
  PROVE  /\ p \in DOMAIN px => Painted(content, d, h[d.rows], px)[i] = px[p][c][k]
         /\ p \notin DOMAIN px => Painted(content, d, h[d.rows], px)[i] = content[i]
<1> DEFINE At(q, e) == h[d.rows][q[2] + 1].offset + (q[1] * channels + e - 1) * SampleBytes(d.bit_depth)
           Of(j) == {q \in (DOMAIN px) \X (1 .. channels) : j - At(q[1], q[2]) \in 0 .. SampleBytes(d.bit_depth) - 1}
<1>1. Painted(content, d, h[d.rows], px) =
        [j \in DOMAIN content |->
           IF Of(j) = {} THEN content[j]
           ELSE LET q == CHOOSE q \in Of(j) : TRUE
                IN  px[q[1]][q[2]][j - At(q[1], q[2]) + 1]]
  BY DEF Painted
<1>2. \A q, e : At(q, e) = ByteAt(h, d, q, e)
  BY DEF ByteAt, RowIn
<1>3. ByteAt(h, d, p, c) \in Int /\ i \in DOMAIN content /\ i \in Int
  BY BytePlaces, SampleSizes
<1> HIDE DEF At
<1>4. i - At(p, c) = k - 1 /\ k - 1 \in 0 .. SampleBytes(d.bit_depth) - 1
  BY <1>2, <1>3, SampleSizes
<1>5. ASSUME NEW q \in Of(i)
      PROVE  q = <<p, c>>
  <2>1. /\ q = <<q[1], q[2]>> /\ q[1] \in DOMAIN px /\ q[2] \in 1 .. channels
        /\ i - ByteAt(h, d, q[1], q[2]) \in 0 .. SampleBytes(d.bit_depth) - 1
    BY <1>2
  <2>2. q[1] \in Places(d.width, d.height)
    BY <2>1
  <2>3. i - ByteAt(h, d, p, c) \in 0 .. SampleBytes(d.bit_depth) - 1
    BY <1>2, <1>4
  <2>4. d.height <= Len(h[d.rows])
    BY DEF Holds
  <2>5. p = q[1] /\ c = q[2]
    BY <1>3, <2>1, <2>2, <2>3, <2>4, SamplesApart
  <2> QED  BY <2>1, <2>5
<1>6. CASE p \in DOMAIN px
  <2>1. <<p, c>> \in Of(i)
    BY <1>4, <1>6
  <2> HIDE DEF Of
  <2>2. (CHOOSE q \in Of(i) : TRUE) = <<p, c>>
    BY <1>5, <2>1
  <2>3. Painted(content, d, h[d.rows], px)[i] = px[p][c][i - At(p, c) + 1]
    BY <1>1, <1>3, <2>1, <2>2
  <2>4. i - At(p, c) + 1 = k
    BY <1>4, SampleSizes
  <2> QED  BY <1>6, <2>3, <2>4
<1>7. CASE p \notin DOMAIN px
  <2>1. Of(i) = {}
    <3>1. SUFFICES ASSUME NEW q \in Of(i)  PROVE FALSE
      OBVIOUS
    <3>2. q[1] \in DOMAIN px
      OBVIOUS
    <3> HIDE DEF Of
    <3>3. q = <<p, c>>
      BY <1>5
    <3> QED  BY <1>7, <3>2, <3>3
  <2> HIDE DEF Of
  <2> QED  BY <1>1, <1>3, <1>7, <2>1
<1> QED  BY <1>6, <1>7

(* So an image that was painted shows what was painted.                    *)
LEMMA PaintedBytes ==
  ASSUME NEW h, NEW g, NEW d \in Structs, h[d.rows] \in RowPointers, Holds(h, d), NoOverlap(h, d),
         NEW content, DOMAIN content = DOMAIN h[d.image], NEW px, Listed(px, d),
         g[d.rows] = h[d.rows], g[d.image] = Painted(content, d, h[d.rows], px)
  PROVE  Holds(g, d) /\ Bytes(g, d) = px
<1>1. \A y : RowIn(g, d, y) = RowIn(h, d, y)
  BY SameRows
<1>2. DOMAIN g[d.image] = DOMAIN h[d.image]
  BY DEF Painted
<1>3. Holds(g, d)
  BY <1>1, <1>2 DEF Holds
<1>4. DOMAIN px = Places(d.width, d.height)
  BY DEF Listed
<1>5. ASSUME NEW p \in Places(d.width, d.height), NEW c \in 1 .. channels, NEW k \in 1 .. SampleBytes(d.bit_depth)
      PROVE  g[d.image][ByteAt(g, d, p, c) + k - 1] = px[p][c][k]
  <2>1. ByteAt(g, d, p, c) = ByteAt(h, d, p, c)
    BY <1>1 DEF ByteAt
  <2> DEFINE i == ByteAt(h, d, p, c) + k - 1
             painted == Painted(content, d, h[d.rows], px)
  <2>2. i = ByteAt(h, d, p, c) + k - 1
    OBVIOUS
  <2> HIDE DEF i
  <2>3. painted[i] = px[p][c][k]
    BY <1>4, <2>2, PaintedSample
  <2> QED  BY <2>1, <2>2, <2>3
<1>6. Stored(g, d, px)
  BY <1>5 DEF Stored
<1> QED  BY <1>3, <1>6, BytesAre

-----------------------------------------------------------------------------
(* The invariant: every object has row pointers, files have the samples    *)
(* that they say, and a load has got as far as it looks.                   *)

RowsFine == \A o \in Objects : data[o] # NoData => heap[data[o].rows] \in RowPointers

FileFine(x) ==
  /\ DOMAIN x.px = Places(x.w, x.h)
  /\ \A p \in Places(x.w, x.h), c \in 1 .. channels : x.px[p][c] = [k \in 1 .. SampleBytes(x.bit_depth) |-> x.px[p][c][k]]
FilesFine == \A f \in Names : FileFine(files[f])
FileBytes(x) == [p \in DOMAIN x.px |-> [c \in 1 .. channels |-> Swapped(x.px[p][c])]]

LoadFine ==
  /\ pc \in {"load image", "load pixels", "load swap"} =>
       internal.width = files[name].w /\ internal.height = files[name].h /\ internal.bit_depth = files[name].bit_depth
  /\ pc = "load pixels" => Plain(heap, internal)
  /\ pc = "load swap" => /\ heap[internal.rows] \in RowPointers /\ Holds(heap, internal)
                         /\ Bytes(heap, internal) = FileBytes(files[name])

Fine == RowsFine /\ FilesFine /\ LoadFine
PicturesInv == OwnershipInv /\ calls \in Nat /\ (~ poisoned => Fine)

(* What no step writes to, unless it is its own.                           *)
Undisturbed(ids) == \A j \in DOMAIN heap \ ids : heap'[j] = heap[j]

Extends(all, h, d, pointers, content) ==
  /\ all[d.rows] = pointers /\ all[d.image] = content
  /\ \A j \in DOMAIN h \ Buffers(d) : j \in DOMAIN all /\ all[j] = h[j]
  /\ DOMAIN all = DOMAIN h \cup Buffers(d)

LEMMA AllocatedThere ==
  ASSUME NEW h, NEW d, Complete(d), Distinct(d), NEW pointers, NEW content
  PROVE  Extends(Allocated(h, d, pointers, content), h, d, pointers, content)
<1> DEFINE h1 == With(h, d.self, <<>>)
           h2 == With(h1, d.rows, pointers)
<1>1. d.self # d.rows /\ d.self # d.image /\ d.rows # d.image /\ Buffers(d) = {d.self, d.rows, d.image}
  BY DEF Complete, Distinct, Buffers
<1>2. DOMAIN h1 = DOMAIN h \cup {d.self} /\ \A j \in DOMAIN h \ {d.self} : h1[j] = h[j]
  BY DEF With
<1> HIDE DEF h1
<1>3. DOMAIN h2 = DOMAIN h1 \cup {d.rows} /\ h2[d.rows] = pointers /\ \A j \in DOMAIN h1 \ {d.rows} : h2[j] = h1[j]
  BY DEF With
<1> HIDE DEF h2
<1> DEFINE all == Allocated(h, d, pointers, content)
<1>4. all = With(h2, d.image, content)
  BY DEF Allocated, h2, h1
<1> HIDE DEF all
<1>5. DOMAIN all = DOMAIN h2 \cup {d.image} /\ all[d.image] = content /\ \A j \in DOMAIN h2 \ {d.image} : all[j] = h2[j]
  BY <1>4 DEF With
<1> QED  BY <1>1, <1>2, <1>3, <1>5 DEF Extends, all

LEMMA WithoutThere ==
  ASSUME NEW h, NEW ids, NEW j \in DOMAIN h \ ids
  PROVE  Without(h, ids)[j] = h[j]
  BY DEF Without

(* An object is given buffers that are new.                                *)
LEMMA NewThere ==
  ASSUME OwnershipInv, ~ poisoned, NEW o \in Objects,
         NEW d, Complete(d), Distinct(d), Buffers(d) \cap DOMAIN heap = {}, NEW pointers, NEW content,
         heap' = Without(Allocated(heap, d, pointers, content), Owned(data[o]))
  PROVE  heap'[d.rows] = pointers /\ heap'[d.image] = content /\ Undisturbed(Buffers(data[o]))
<1>1. PICK all : all = Allocated(heap, d, pointers, content)
  OBVIOUS
<1>2. Extends(all, heap, d, pointers, content)
  BY <1>1, AllocatedThere
<1>3. Buffers(data[o]) \subseteq DOMAIN heap /\ Owned(data[o]) = Buffers(data[o])
  BY DEF OwnershipInv, Sound, Owners, Owned, Buffers
<1>4. heap' = Without(all, Buffers(data[o]))
  BY <1>1, <1>3
<1>5. \A j \in DOMAIN all \ Buffers(data[o]) : heap'[j] = all[j]
  BY <1>4, WithoutThere
<1>6. d.rows \in Buffers(d) /\ d.image \in Buffers(d)
  BY DEF Complete, Buffers
<1> QED  BY <1>2, <1>3, <1>5, <1>6 DEF Extends, Undisturbed

-----------------------------------------------------------------------------
(* What stays as it is.                                                    *)

LEMMA ObjectIs ==
  ASSUME OwnershipInv, ~ poisoned, NEW o \in Objects, data[o] # NoData
  PROVE  /\ data[o] \in Structs /\ Complete(data[o]) /\ Distinct(data[o])
         /\ data[o].rows \in Buffers(data[o]) /\ data[o].image \in Buffers(data[o])
         /\ Buffers(data[o]) \subseteq DOMAIN heap
  BY DEF OwnershipInv, TypeOK, Sound, Apart, Owners, Complete, Buffers

(* An object, or the one it was moved to.                                  *)
LEMMA Unmoved ==
  ASSUME OwnershipInv, ~ poisoned, NEW o \in Objects, data[o] # NoData, NEW q, data'[q] = data[o],
         NEW ids, Undisturbed(ids), Buffers(data[o]) \cap ids = {}
  PROVE  /\ heap'[data'[q].rows] = heap[data[o].rows]
         /\ Usable(o) => Keeps(q, Shown(o))
<1> DEFINE d == data[o]
<1>1. d \in Structs /\ heap'[d.rows] = heap[d.rows] /\ heap'[d.image] = heap[d.image]
  BY ObjectIs DEF Undisturbed
<1>2. (Usable(o) <=> Holds(heap, d)) /\ Shown(o) = Seen(heap, d)
  BY ShownIs
<1>3. (Usable(q)' <=> Holds(heap', d)) /\ Shown(q)' = Seen(heap', d)
  BY ShownNextIs
<1> HIDE DEF d
<1>4. Holds(heap, d) => Holds(heap', d) /\ Seen(heap', d) = Seen(heap, d)
  BY <1>1, SameBuffers
<1> QED  BY <1>1, <1>2, <1>3, <1>4 DEF Keeps, d

LEMMA NotUsable ==
  ASSUME NEW o, data[o] = NoData
  PROVE  ~ Usable(o)
  BY DEF Usable

(* One object is given other buffers, or its own are written to.           *)
LEMMA OneChanges ==
  ASSUME PicturesInv, ~ poisoned, NEW o \in Objects, NEW d, data' = [data EXCEPT ![o] = d],
         Undisturbed(Buffers(data[o])), d # NoData => heap'[d.rows] \in RowPointers
  PROVE  /\ RowsFine'
         /\ \A q \in Objects \ {o} : Usable(q) => Keeps(q, Shown(q))
<1>1. OwnershipInv /\ Fine
  BY DEF PicturesInv
<1>2. DOMAIN data = Objects /\ \A p, q \in Objects : p # q => Buffers(data[p]) \cap Buffers(data[q]) = {}
  BY <1>1 DEF OwnershipInv, TypeOK, Sound, Apart
<1>3. data'[o] = d /\ \A q \in Objects \ {o} : data'[q] = data[q] /\ Buffers(data[q]) \cap Buffers(data[o]) = {}
  BY <1>2
<1>4. ASSUME NEW q \in Objects \ {o}, data[q] # NoData
      PROVE  heap'[data'[q].rows] = heap[data[q].rows] /\ (Usable(q) => Keeps(q, Shown(q)))
  BY <1>1, <1>3, <1>4, Unmoved
<1>5. RowsFine'
  BY <1>1, <1>3, <1>4 DEF Fine, RowsFine
<1> QED  BY <1>4, <1>5, NotUsable

LEMMA CallChanges ==
  ASSUME PicturesInv, AtOnce, NEW o \in Objects, NEW d, data' = [data EXCEPT ![o] = d],
         Undisturbed(Buffers(data[o])), d # NoData => heap'[d.rows] \in RowPointers
  PROVE  /\ Fine'
         /\ \A q \in Objects \ {o} : Usable(q) => Keeps(q, Shown(q))
<1>1. ~ poisoned /\ Fine /\ pc = "idle" /\ pc' = "idle" /\ files' = files
  BY CallIsIdle DEF PicturesInv
<1>2. FilesFine' /\ LoadFine'
  BY <1>1 DEF Fine, FilesFine, LoadFine
<1> QED  BY <1>1, <1>2, OneChanges DEF Fine

(* No object changes, or a load works on its own.                          *)
LEMMA NoneChanges ==
  ASSUME PicturesInv, ~ poisoned, data' = data, NEW ids, Undisturbed(ids),
         \A o \in Objects : Buffers(data[o]) \cap ids = {}
  PROVE  /\ RowsFine'
         /\ \A q \in Objects : Usable(q) => Keeps(q, Shown(q))
<1>1. OwnershipInv /\ Fine
  BY DEF PicturesInv
<1>2. ASSUME NEW q \in Objects, data[q] # NoData
      PROVE  heap'[data'[q].rows] = heap[data[q].rows] /\ (Usable(q) => Keeps(q, Shown(q)))
  BY <1>1, <1>2, Unmoved
<1>3. RowsFine'
  BY <1>1, <1>2 DEF Fine, RowsFine
<1> QED  BY <1>2, <1>3, NotUsable

LEMMA CallEnds ==
  ASSUME PicturesInv, NEW call, Ended(call),
         ~ poisoned' => /\ \A q \in Objects \ Changes(call) : Usable(q) => Keeps(q, Shown(q))
                        /\ Promised(call)
  PROVE  calls' \in Nat /\ Travels
<1>1. calls \in Nat /\ calls' = calls + 1 /\ done' = call
  BY DEF PicturesInv, Ended
<1>2. calls' # calls
  BY <1>1
<1> QED  BY <1>1, <1>2 DEF Travels

LEMMA NothingEnds ==
  ASSUME PicturesInv, calls' = calls, ~ poisoned' => \A q \in Objects : Usable(q) => Keeps(q, Shown(q))
  PROVE  calls' \in Nat /\ Travels
  BY DEF PicturesInv, Travels

-----------------------------------------------------------------------------
(* Calls that are one step.                                                *)

LEMMA BytesOfRow ==
  ASSUME NEW d \in Structs
  PROVE  /\ row_bytes(d) \in Int
         /\ d.bit_depth \in {8, 16} => row_bytes(d) = channels * d.width * SampleBytes(d.bit_depth)
         /\ channels * d.width * SampleBytes(d.bit_depth) \in Nat
<1>1. PICK w \in Nat, n \in Int : w = d.width /\ n = d.bit_depth
  BY DEF Structs
<1>2. (4 * w * n) \div 8 \in Int /\ (4 * w * 8) \div 8 = 4 * w /\ (4 * w * 16) \div 8 = 8 * w
  <2>1. 4 * w * n \in Int
    BY Z3
  <2> QED  BY <2>1
<1>3. n = 8 => SampleBytes(n) = 1
  BY DEF SampleBytes
<1>4. n = 16 => SampleBytes(n) = 2
  BY DEF SampleBytes
<1>5. 4 * w * SampleBytes(n) \in Nat
  BY SampleSizes
<1> QED  BY <1>1, <1>2, <1>3, <1>4, <1>5 DEF row_bytes, channels

LEMMA CreateTravels ==
  ASSUME PicturesInv, NEW o \in Objects, NEW w \in Nat, NEW h \in Nat, NEW bits \in Int, Create(o, w, h, bits)
  PROVE  (~ poisoned' => Fine') /\ calls' \in Nat /\ Travels
<1> DEFINE d == New(heap, w, h, bits)
           pointers == Pointers(d.image, h, row_bytes(d))
           content == Zeros(row_bytes(d) * h)
<1>1. /\ AtOnce /\ heap' = Without(Allocated(heap, d, pointers, content), Owned(data[o])) /\ data' = [data EXCEPT ![o] = d]
      /\ Ended([op |-> "create", to |-> o])
  BY DEF Create
<1>2. OwnershipInv /\ ~ poisoned /\ IsFiniteSet(DOMAIN heap)
  BY <1>1, CallIsIdle DEF PicturesInv, OwnershipInv, TypeOK
<1>3. d \in Structs /\ Complete(d) /\ Distinct(d) /\ Buffers(d) \cap DOMAIN heap = {}
  BY <1>2, NewIsNew
<1>4. d.image \in Nat /\ row_bytes(d) \in Int
  BY <1>3, BytesOfRow DEF Structs
<1> HIDE DEF d
<1>5. pointers \in RowPointers
  BY <1>4, PointersAre
<1> HIDE DEF pointers, content
<1>6. heap'[d.rows] = pointers /\ Undisturbed(Buffers(data[o]))
  BY <1>1, <1>2, <1>3, NewThere
<1>7. Fine' /\ \A q \in Objects \ {o} : Usable(q) => Keeps(q, Shown(q))
  BY <1>1, <1>5, <1>6, CallChanges
<1> DEFINE call == [op |-> "create", to |-> o]
<1>8. Changes(call) = {o} /\ Promised(call)
  BY DEF Changes, Promised
<1> HIDE DEF call
<1> QED  BY <1>1, <1>7, <1>8, CallEnds DEF call

(* A copy shows what the original does.                                    *)
LEMMA CopyShows ==
  ASSUME NEW h, NEW g, NEW other \in Structs, NEW d \in Structs,
         d.width = other.width, d.height = other.height, d.bit_depth = other.bit_depth,
         Holds(h, other), row_bytes(other) = channels * other.width * SampleBytes(other.bit_depth),
         \A y \in 0 .. other.height - 1 : RowIn(h, other, y).offset = y * row_bytes(other),
         g[d.rows] = Pointers(d.image, d.height, row_bytes(d)),
         g[d.image] = [i \in 0 .. row_bytes(d) * d.height - 1 |-> h[other.image][i]]
  PROVE  Holds(g, d) /\ Seen(g, d) = Seen(h, other)
<1> DEFINE b == channels * d.width * SampleBytes(d.bit_depth)
           all == Bytes(h, other)
<1>1. row_bytes(d) = b /\ row_bytes(other) = b
  BY DEF row_bytes
<1> HIDE DEF b
<1>2. Plain(g, d)
  BY <1>1 DEF Plain, b
<1>3. g[d.rows] \in RowPointers /\ Holds(g, d)
  BY <1>2, PlainHolds
<1>4. Listed(all, d)
  BY DEF Listed, Bytes, SampleIn
<1>5. d.height \in Nat
  BY DEF Structs
<1>6. ASSUME NEW p \in Places(d.width, d.height), NEW c \in 1 .. channels, NEW k \in 1 .. SampleBytes(d.bit_depth)
      PROVE  g[d.image][ByteAt(g, d, p, c) + k - 1] = all[p][c][k]
  <2>1. p[2] \in 0 .. d.height - 1
    BY DEF Places
  <2>2. RowIn(g, d, p[2]).offset = LineAt(p[2], b)
    BY <1>1, <1>5, <2>1, PointerOf DEF RowIn
  <2>3. RowIn(h, other, p[2]).offset = LineAt(p[2], b) /\ RowIn(h, other, p[2]).image = other.image
    BY <1>1, <2>1 DEF LineAt, Holds
  <2>4. ByteAt(g, d, p, c) = ByteAt(h, other, p, c)
    BY <2>2, <2>3 DEF ByteAt
  <2>5. ByteAt(g, d, p, c) + k - 1 \in DOMAIN g[d.image]
    BY <1>3, BytePlaces
  <2> DEFINE i == ByteAt(g, d, p, c) + k - 1
  <2>6. i \in DOMAIN g[d.image] /\ i = ByteAt(h, other, p, c) + k - 1
    BY <2>4, <2>5
  <2> HIDE DEF i
  <2>7. g[d.image][i] = h[other.image][i]
    BY <2>6
  <2>8. all[p][c][k] = h[other.image][i]
    BY <2>3, <2>6 DEF Bytes, SampleIn
  <2> QED  BY <2>7, <2>8 DEF i
<1>7. Stored(g, d, all)
  BY <1>6 DEF Stored
<1> HIDE DEF all
<1>8. Bytes(g, d) = all
  BY <1>3, <1>4, <1>7, BytesAre
<1> QED  BY <1>3, <1>8 DEF Seen, all

LEMMA CopyTravels ==
  ASSUME PicturesInv, NEW o \in Objects, NEW from \in Objects, Copy(o, from)
  PROVE  (~ poisoned' => Fine') /\ calls' \in Nat /\ Travels
<1> DEFINE other == data[from]
           d == New(heap, other.width, other.height, other.bit_depth)
           content == [i \in 0 .. row_bytes(d) * d.height - 1 |-> heap[other.image][i]]
           pointers == CopiedPointers(d, other)
           call == [op |-> "copy", to |-> o, from |-> from]
<1>1. AtOnce /\ Ended(call)
  BY DEF Copy
<1>2. OwnershipInv /\ ~ poisoned /\ IsFiniteSet(DOMAIN heap) /\ other \in Structs /\ DOMAIN data = Objects
  BY <1>1, CallIsIdle DEF PicturesInv, OwnershipInv, TypeOK
<1>3. call.op = "copy" /\ call.to = o /\ call.from = from
  OBVIOUS
<1>4. CASE other = NoData
  <2>1. heap' = Without(heap, Owned(data[o])) /\ data' = [data EXCEPT ![o] = NoData]
    BY <1>4 DEF Copy
  <2>2. Undisturbed(Buffers(data[o]))
    BY <2>1, WithoutThere DEF Undisturbed, Owned, Buffers
  <2>3. Fine' /\ \A q \in Objects \ {o} : Usable(q) => Keeps(q, Shown(q))
    BY <1>1, <2>1, <2>2, CallChanges
  <2>4. ~ Usable(from)
    BY <1>4, NotUsable
  <2> HIDE DEF call
  <2>5. Changes(call) = {o} /\ Promised(call)
    BY <1>3, <2>4 DEF Changes, Promised
  <2> QED  BY <1>1, <2>3, <2>5, CallEnds
<1>5. CASE other # NoData
  <2>1. heap' = Without(Allocated(heap, d, pointers, content), Owned(data[o])) /\ data' = [data EXCEPT ![o] = d]
    BY <1>5 DEF Copy
  <2>2. other.width \in Nat /\ other.height \in Nat /\ other.bit_depth \in Int
    BY <1>2 DEF Structs
  <2>3. d \in Structs /\ Complete(d) /\ Distinct(d) /\ Buffers(d) \cap DOMAIN heap = {}
    BY <1>2, <2>2, NewIsNew
  <2>4. d.width = other.width /\ d.height = other.height /\ d.bit_depth = other.bit_depth
    BY DEF New
  <2> HIDE DEF d
  <2>5. d.image \in Nat /\ d.height \in Nat /\ row_bytes(d) \in Int /\ pointers = Pointers(d.image, d.height, row_bytes(d))
    BY <2>3, BytesOfRow DEF Structs, CopiedPointers
  <2>6. pointers \in RowPointers
    BY <2>5, PointersAre
  <2> HIDE DEF pointers, content
  <2>7. heap'[d.rows] = pointers /\ heap'[d.image] = content /\ Undisturbed(Buffers(data[o]))
    BY <1>2, <2>1, <2>3, NewThere
  <2>8. Fine' /\ \A q \in Objects \ {o} : Usable(q) => Keeps(q, Shown(q))
    BY <1>1, <2>1, <2>6, <2>7, CallChanges
  <2>9. data'[o] = d /\ d # NoData
    BY <1>2, <2>1, <2>3 DEF Complete, NoData
  <2>10. ASSUME Usable(from), WholeLines(other)
         PROVE  Keeps(o, Shown(from))
    <3>1. Holds(heap, other) /\ Shown(from) = Seen(heap, other)
      BY <1>5, <2>10, ShownIs
    <3>2. /\ row_bytes(other) = channels * other.width * SampleBytes(other.bit_depth)
          /\ \A y \in 0 .. other.height - 1 : RowIn(heap, other, y).offset = y * row_bytes(other)
      BY <2>10 DEF WholeLines, Row, RowIn
    <3> HIDE DEF other
    <3>3. Holds(heap', d) /\ Seen(heap', d) = Seen(heap, other)
      BY <1>2, <2>3, <2>4, <2>5, <2>7, <3>1, <3>2, CopyShows, SMTT(40) DEF content
    <3>4. Usable(o)' /\ Shown(o)' = Seen(heap', d)
      BY <2>9, <3>3, ShownNextIs
    <3> QED  BY <3>1, <3>3, <3>4 DEF Keeps
  <2> HIDE DEF call
  <2>11. Changes(call) = {o} /\ Promised(call)
    BY <1>3, <2>10 DEF Changes, Promised
  <2> QED  BY <1>1, <2>8, <2>11, CallEnds
<1> QED  BY <1>4, <1>5

LEMMA CopyRunsOutTravels ==
  ASSUME PicturesInv, NEW o \in Objects, NEW from \in Objects, CopyRunsOut(o, from)
  PROVE  (~ poisoned' => Fine') /\ calls' \in Nat /\ Travels
<1> DEFINE call == [op |-> "copy failed", to |-> o]
<1>1. AtOnce /\ Ended(call) /\ data' = data
  BY DEF CopyRunsOut
<1>2. ~ poisoned /\ Fine /\ pc = "idle" /\ pc' = "idle" /\ files' = files
  BY <1>1, CallIsIdle DEF PicturesInv
<1>3. ASSUME ~ poisoned'
      PROVE  Fine' /\ \A q \in Objects : Usable(q) => Keeps(q, Shown(q))
  <2>1. heap' = Without(heap, {})
    BY <1>3 DEF CopyRunsOut
  <2>2. Undisturbed({})
    BY <2>1, WithoutThere DEF Undisturbed
  <2>3. RowsFine' /\ \A q \in Objects : Usable(q) => Keeps(q, Shown(q))
    BY <1>1, <1>2, <2>2, NoneChanges
  <2> QED  BY <1>2, <2>3 DEF Fine, FilesFine, LoadFine
<1>4. Promised(call)
  BY DEF Promised
<1> HIDE DEF call
<1> QED  BY <1>1, <1>3, <1>4, CallEnds

LEMMA MoveTravels ==
  ASSUME PicturesInv, NEW o \in Objects, NEW from \in Objects, Move(o, from)
  PROVE  (~ poisoned' => Fine') /\ calls' \in Nat /\ Travels
<1> DEFINE call == [op |-> "move", to |-> o, from |-> from]
<1>1. /\ AtOnce /\ Ended(call) /\ UNCHANGED <<heap, poisoned>>
      /\ data' = [data EXCEPT ![o] = data[from], ![from] = data[o]]
  BY DEF Move
<1>2. OwnershipInv /\ ~ poisoned /\ Fine /\ pc = "idle" /\ pc' = "idle" /\ files' = files /\ DOMAIN data = Objects
  BY <1>1, CallIsIdle DEF PicturesInv, OwnershipInv, TypeOK
<1>3. data'[o] = data[from] /\ data'[from] = data[o] /\ \A q \in Objects \ {o, from} : data'[q] = data[q]
  BY <1>1, <1>2
<1>4. Undisturbed({})
  BY <1>1 DEF Undisturbed
<1>5. ASSUME NEW p \in Objects, NEW q \in Objects, data'[q] = data[p]
      PROVE  Usable(p) => Keeps(q, Shown(p))
  BY <1>2, <1>4, <1>5, Unmoved, NotUsable
<1>6. RowsFine'
  BY <1>1, <1>2, <1>3 DEF Fine, RowsFine
<1>7. Fine'
  BY <1>2, <1>6 DEF Fine, FilesFine, LoadFine
<1>8. call.op = "move" /\ call.to = o /\ call.from = from
  OBVIOUS
<1> HIDE DEF call
<1>9. Changes(call) = {o, from} /\ Promised(call)
  BY <1>3, <1>5, <1>8 DEF Changes, Promised
<1>10. \A q \in Objects \ {o, from} : Usable(q) => Keeps(q, Shown(q))
  BY <1>3, <1>5
<1> QED  BY <1>1, <1>7, <1>9, <1>10, CallEnds


(* A level is what its bytes say.                                          *)
LEMMA BytesOfLevel ==
  ASSUME NEW level, NEW depth
  PROVE  /\ InMemory(level, depth) = [k \in 1 .. SampleBytes(depth) |-> InMemory(level, depth)[k]]
         /\ FromMemory(InMemory(level, depth)) = level
<1>1. CASE depth = 16
  <2>1. PICK low : low = IF level = 0 THEN 0 ELSE 100 + level
    OBVIOUS
  <2>2. InMemory(level, 16) = <<low, level>> /\ SampleBytes(depth) = 2
    BY <1>1, <2>1 DEF InMemory, SampleBytes
  <2>3. <<low, level>> = [k \in 1 .. 2 |-> <<low, level>>[k]]
    OBVIOUS
  <2>4. FromMemory(<<low, level>>) = level
    <3>1. PICK bytes : bytes = <<low, level>>
      OBVIOUS
    <3>2. Len(bytes) = 2 /\ bytes[2] = level /\ bytes = InMemory(bytes[2], 16)
      BY <2>2, <3>1
    <3> QED  BY <3>1, <3>2 DEF FromMemory
  <2> QED  BY <1>1, <2>2, <2>3, <2>4
<1>2. CASE depth # 16
  <2>1. InMemory(level, depth) = <<level>> /\ SampleBytes(depth) = 1
    BY <1>2 DEF InMemory, SampleBytes
  <2>2. <<level>> = [k \in 1 .. 1 |-> <<level>>[k]]
    OBVIOUS
  <2>3. FromMemory(<<level>>) = level
    BY DEF FromMemory
  <2> QED  BY <2>1, <2>2, <2>3
<1> QED  BY <1>1, <1>2

LEMMA BytesOfPicture ==
  ASSUME NEW d, NEW px \in [Places(d.width, d.height) -> [1 .. channels -> Nat]]
  PROVE  /\ Listed(Samples(px, d.bit_depth), d)
         /\ Levels(Samples(px, d.bit_depth)) = px
<1> DEFINE b == Samples(px, d.bit_depth)
<1>1. b = [p \in Places(d.width, d.height) |-> [c \in 1 .. channels |-> InMemory(px[p][c], d.bit_depth)]]
  BY DEF Samples
<1> HIDE DEF b
<1>2. Listed(b, d)
  <2>1. b = [p \in Places(d.width, d.height) |-> [c \in 1 .. channels |-> b[p][c]]]
    BY <1>1
  <2>2. \A p \in Places(d.width, d.height), c \in 1 .. channels : b[p][c] = InMemory(px[p][c], d.bit_depth)
    BY <1>1
  <2>3. ASSUME NEW p \in Places(d.width, d.height), NEW c \in 1 .. channels
        PROVE  b[p][c] = [k \in 1 .. SampleBytes(d.bit_depth) |-> b[p][c][k]]
    <3>1. PICK x : x = InMemory(px[p][c], d.bit_depth)
      OBVIOUS
    <3>2. x = [k \in 1 .. SampleBytes(d.bit_depth) |-> x[k]]
      BY <3>1, BytesOfLevel
    <3>3. b[p][c] = x
      BY <2>2, <3>1
    <3> QED  BY <3>2, <3>3, Zenon
  <2> QED  BY <2>1, <2>3 DEF Listed
<1>3. Levels(b) = px
  <2>1. Levels(b) = [p \in Places(d.width, d.height) |-> [c \in 1 .. channels |-> FromMemory(b[p][c])]]
    BY <1>1 DEF Levels
  <2>2. \A p \in Places(d.width, d.height), c \in 1 .. channels : FromMemory(b[p][c]) = px[p][c]
    BY <1>1, BytesOfLevel
  <2>3. px = [p \in Places(d.width, d.height) |-> [c \in 1 .. channels |-> px[p][c]]]
    OBVIOUS
  <2> QED  BY <2>1, <2>2, <2>3
<1> QED  BY <1>2, <1>3 DEF b

LEMMA FromYuvTravels ==
  ASSUME PicturesInv, NEW o \in Objects, NEW picture \in Pictures, FromYuv(o, picture)
  PROVE  (~ poisoned' => Fine') /\ calls' \in Nat /\ Travels
<1> DEFINE depth == IF data[o].bit_depth = 16 THEN 16 ELSE 8
           fits == Fits(data[o], picture)
           d == IF fits THEN [data[o] EXCEPT !.width = picture.w, !.height = picture.h]
                ELSE New(heap, picture.w, picture.h, depth)
           pointers == IF fits THEN heap[d.rows] ELSE Pointers(d.image, d.height, row_bytes(d))
           before == IF fits THEN heap[d.image] ELSE Zeros(row_bytes(d) * d.height)
           content == Painted(before, d, pointers, Samples(picture.px, d.bit_depth))
           all == Allocated(heap, d, pointers, content)
           call == [op |-> "from yuv", to |-> o, picture |-> picture]
<1>1. AtOnce /\ Ended(call)
  BY DEF FromYuv
<1>2. /\ OwnershipInv /\ ~ poisoned /\ Fine /\ IsFiniteSet(DOMAIN heap) /\ DOMAIN data = Objects
      /\ data[o] \in Structs /\ data[o].bit_depth \in Int
  BY <1>1, CallIsIdle DEF PicturesInv, OwnershipInv, TypeOK, Structs
<1>3. picture \in [w : Nat, h : Nat, px : [Places(picture.w, picture.h) -> [1 .. channels -> Nat]]]
  BY LevelsAssumption
<1>4. ~ poisoned' => /\ ~ (fits /\ ~ RowsInImage(d))
                     /\ heap' = (IF fits THEN all ELSE Without(all, Owned(data[o]))) /\ data' = [data EXCEPT ![o] = d]
  BY <1>2 DEF FromYuv
<1>5. d.width = picture.w /\ d.height = picture.h /\ d \in Structs
  <2>1. CASE fits
    BY <1>2, <1>3, <2>1 DEF Structs
  <2>2. CASE ~ fits
    <3>1. New(heap, picture.w, picture.h, depth) \in Structs
      BY <1>2, <1>3, NewIsNew
    <3> QED  BY <2>2, <3>1 DEF New
  <2> QED  BY <2>1, <2>2
<1>6. Listed(Samples(picture.px, d.bit_depth), d) /\ Levels(Samples(picture.px, d.bit_depth)) = picture.px
  <2> HIDE DEF d
  <2> QED  BY <1>3, <1>5, BytesOfPicture
<1>7. ASSUME Bytes(heap', d) = Samples(picture.px, d.bit_depth)
      PROVE  Seen(heap', d) = picture
  <2> HIDE DEF d
  <2> QED  BY <1>3, <1>5, <1>6, <1>7 DEF Seen
<1>8. call.op = "from yuv" /\ call.to = o /\ call.picture = picture
  OBVIOUS
<1>9. CASE ~ poisoned' /\ fits
  <2>1. heap' = all /\ data' = [data EXCEPT ![o] = d] /\ RowsInImage(d)
    BY <1>4, <1>9
  <2>2. data[o] # NoData /\ Complete(data[o]) /\ Distinct(data[o])
        /\ d.self = data[o].self /\ d.rows = data[o].rows /\ d.image = data[o].image
    BY <1>2, <1>9, ObjectIs DEF Fits, Structs
  <2>3. pointers = heap[d.rows] /\ before = heap[d.image]
    BY <1>9
  <2> HIDE DEF d, fits, pointers, before
  <2>4. Complete(d) /\ Distinct(d) /\ Buffers(d) = Buffers(data[o]) /\ d # NoData
    BY <2>2 DEF Complete, Distinct, Buffers, NoData
  <2>5. Extends(heap', heap, d, pointers, content)
    <3> HIDE DEF content
    <3> QED  BY <2>1, <2>4, AllocatedThere
  <2>6. heap'[d.rows] = heap[d.rows] /\ heap'[d.image] = content /\ Undisturbed(Buffers(data[o]))
    BY <2>3, <2>4, <2>5 DEF Extends, Undisturbed
  <2>7. heap[d.rows] \in RowPointers /\ Holds(heap, d)
    BY <1>2, <2>1, <2>2 DEF Fine, RowsFine, RowsInImage, Holds, Row, RowIn
  <2>8. Fine' /\ \A q \in Objects \ {o} : Usable(q) => Keeps(q, Shown(q))
    BY <1>1, <2>1, <2>6, <2>7, CallChanges
  <2>9. data'[o] = d
    BY <1>2, <2>1
  <2>10. ASSUME LinesApart(data[o])'
         PROVE  Keeps(o, picture)
    <3>1. NoOverlap(heap, d)
      BY <2>6, <2>9, <2>10 DEF LinesApart, NoOverlap, Row, RowIn
    <3>2. Holds(heap', d) /\ Bytes(heap', d) = Samples(picture.px, d.bit_depth)
      BY <1>5, <1>6, <2>3, <2>6, <2>7, <3>1, PaintedBytes
    <3> QED  BY <1>7, <2>4, <2>9, <3>2, ShownNextIs DEF Keeps
  <2> HIDE DEF call
  <2>11. Changes(call) = {o} /\ Promised(call)
    BY <1>8, <2>10 DEF Changes, Promised
  <2> QED  BY <1>1, <2>8, <2>11, CallEnds
<1>10. CASE ~ poisoned' /\ ~ fits
  <2>1. heap' = Without(all, Owned(data[o])) /\ data' = [data EXCEPT ![o] = d]
    BY <1>4, <1>10
  <2>2. Complete(d) /\ Distinct(d) /\ Buffers(d) \cap DOMAIN heap = {} /\ d.bit_depth \in {8, 16}
    <3>1. d = New(heap, picture.w, picture.h, depth) /\ depth \in Int
      BY <1>10
    <3>2. d.bit_depth = depth
      BY <3>1 DEF New
    <3> HIDE DEF d, depth
    <3> QED  BY <1>2, <1>3, <3>1, <3>2, NewIsNew DEF depth
  <2>3. pointers = Pointers(d.image, d.height, row_bytes(d)) /\ before = Zeros(row_bytes(d) * d.height)
    BY <1>10
  <2> HIDE DEF d, fits, pointers, before, content
  <2>4. heap'[d.rows] = pointers /\ heap'[d.image] = content /\ Undisturbed(Buffers(data[o]))
    BY <1>2, <2>1, <2>2, NewThere
  <2>5. data'[o] = d /\ d # NoData
    BY <1>2, <2>1, <2>2 DEF Complete, NoData
  <2> DEFINE h == Allocated(heap, d, pointers, before)
  <2>6. h[d.rows] = pointers /\ h[d.image] = before
    <3>1. Extends(h, heap, d, pointers, before)
      BY <2>2, AllocatedThere
    <3> HIDE DEF h
    <3> QED  BY <3>1 DEF Extends
  <2> HIDE DEF h
  <2>7. Plain(h, d)
    BY <1>5, <2>2, <2>3, <2>6, BytesOfRow DEF Plain, Zeros
  <2>8. h[d.rows] \in RowPointers /\ Holds(h, d) /\ NoOverlap(h, d)
    BY <1>5, <2>7, PlainHolds
  <2>9. Fine' /\ \A q \in Objects \ {o} : Usable(q) => Keeps(q, Shown(q))
    BY <1>1, <2>1, <2>4, <2>6, <2>8, CallChanges
  <2>10. Holds(heap', d) /\ Bytes(heap', d) = Samples(picture.px, d.bit_depth)
    BY <1>5, <1>6, <2>4, <2>6, <2>8, PaintedBytes DEF content
  <2>11. Keeps(o, picture)
    BY <1>7, <2>5, <2>10, ShownNextIs DEF Keeps
  <2> HIDE DEF call
  <2>12. Changes(call) = {o} /\ Promised(call)
    BY <1>8, <2>11 DEF Changes, Promised
  <2> QED  BY <1>1, <2>9, <2>12, CallEnds
<1>11. CASE poisoned'
  BY <1>1, <1>11, CallEnds
<1> QED  BY <1>9, <1>10, <1>11

LEMMA SetPixelTravels ==
  ASSUME PicturesInv, NEW o \in Objects, NEW p, NEW color \in Colors, SetPixel(o, p, color)
  PROVE  (~ poisoned' => Fine') /\ calls' \in Nat /\ Travels
<1> DEFINE d == data[o]
           px == Samples([q \in {p} |-> color], d.bit_depth)
           call == [op |-> "set pixel", to |-> o, at |-> p, color |-> color]
<1>1. AtOnce /\ Ended(call) /\ d # NoData /\ p \in Places(d.width, d.height) /\ data' = data
  BY DEF SetPixel
<1>2. /\ OwnershipInv /\ ~ poisoned /\ Fine /\ DOMAIN data = Objects
      /\ data = [data EXCEPT ![o] = d]
  BY <1>1, CallIsIdle DEF PicturesInv, OwnershipInv, TypeOK
<1>3. d \in Structs /\ Complete(d) /\ Distinct(d) /\ d.rows \in Buffers(d) /\ d.image \in Buffers(d) /\ Buffers(d) \subseteq DOMAIN heap
  BY <1>1, <1>2, ObjectIs
<1>4. color \in [1 .. channels -> Nat]
  BY LevelsAssumption
<1>5. call.op = "set pixel" /\ call.to = o /\ call.at = p /\ call.color = color
  OBVIOUS
<1> HIDE DEF call
<1>6. CASE ~ poisoned'
  <2>1. Holds(heap, d) /\ heap' = [heap EXCEPT ![d.image] = Painted(@, d, heap[d.rows], px)]
    BY <1>6 DEF SetPixel, RowsInImage, Holds, Row, RowIn
  <2>2. px = [q \in {p} |-> [c \in 1 .. channels |-> InMemory(color[c], d.bit_depth)]]
    BY DEF Samples
  <2> HIDE DEF px
  <2>3. heap[d.rows] \in RowPointers
    BY <1>1, <1>2 DEF Fine, RowsFine
  <2> HIDE DEF d
  <2>4. d.rows # d.image
    BY <1>3 DEF Complete, Distinct
  <2>5. /\ heap'[d.rows] = heap[d.rows] /\ heap'[d.image] = Painted(heap[d.image], d, heap[d.rows], px)
        /\ Undisturbed(Buffers(d))
    BY <1>3, <2>1, <2>4 DEF Undisturbed
  <2>6. Fine' /\ \A q \in Objects \ {o} : Usable(q) => Keeps(q, Shown(q))
    BY <1>1, <1>2, <2>3, <2>5, CallChanges DEF d
  <2>7. Shown(o) = Seen(heap, d)
    BY <1>1, ShownIs DEF d
  <2>8. ASSUME LinesApart(d)
        PROVE  Keeps(o, [Shown(o) EXCEPT !.px[p] = color])
    <3> DEFINE b == [q \in Places(d.width, d.height) |->
                       [c \in 1 .. channels |-> IF q = p THEN InMemory(color[c], d.bit_depth) ELSE SampleIn(heap, d, q, c)]]
    <3>1. NoOverlap(heap, d)
      BY <2>8 DEF LinesApart, NoOverlap, Row, RowIn
    <3>2. \A y : RowIn(heap', d, y) = RowIn(heap, d, y)
      BY <2>5, SameRows
    <3>3. Holds(heap', d)
      BY <2>1, <2>5, <3>2 DEF Holds, Painted
    <3>4. Listed(b, d)
      <4>1. ASSUME NEW q \in Places(d.width, d.height), NEW c \in 1 .. channels
            PROVE  b[q][c] = [k \in 1 .. SampleBytes(d.bit_depth) |-> b[q][c][k]]
        <5>1. CASE q = p
          BY <5>1, BytesOfLevel
        <5>2. CASE q # p
          BY <5>2 DEF SampleIn
        <5> QED  BY <5>1, <5>2
      <4> QED  BY <4>1 DEF Listed
    <3>5. ASSUME NEW q \in Places(d.width, d.height), NEW c \in 1 .. channels, NEW k \in 1 .. SampleBytes(d.bit_depth)
          PROVE  heap'[d.image][ByteAt(heap', d, q, c) + k - 1] = b[q][c][k]
      <4> DEFINE i == ByteAt(heap, d, q, c) + k - 1
                 old == heap[d.image]
                 painted == Painted(old, d, heap[d.rows], px)
      <4>1. ByteAt(heap', d, q, c) = ByteAt(heap, d, q, c)
        BY <3>2 DEF ByteAt
      <4>2. i = ByteAt(heap, d, q, c) + k - 1
        OBVIOUS
      <4> HIDE DEF i
      <4>3. DOMAIN px = {p} /\ DOMAIN px \subseteq Places(d.width, d.height)
        BY <1>1, <2>2 DEF d
      <4> HIDE DEF old
      <4>4. DOMAIN old = DOMAIN heap[d.image]
        BY DEF old
      <4>8. (q \in DOMAIN px => painted[i] = px[q][c][k]) /\ (q \notin DOMAIN px => painted[i] = old[i])
        BY <4>4, <1>3, <2>1, <2>3, <3>1, <4>2, <4>3, PaintedSample
      <4>5. RowIn(heap, d, q[2]).image = d.image
        <5>1. q[2] \in 0 .. d.height - 1
          BY DEF Places
        <5> QED  BY <2>1, <5>1 DEF Holds
      <4>6. q # p => b[q][c][k] = old[i]
        BY <4>2, <4>5 DEF SampleIn, old
      <4>7. q = p => b[q][c][k] = px[q][c][k]
        BY <2>2
      <4> QED  BY <2>5, <4>1, <4>2, <4>3, <4>8, <4>6, <4>7 DEF old
    <3>6. Stored(heap', d, b)
      BY <3>5 DEF Stored
    <3> HIDE DEF b
    <3>7. Bytes(heap', d) = b
      BY <1>3, <3>3, <3>4, <3>6, BytesAre
    <3>8. Seen(heap', d) = [Seen(heap, d) EXCEPT !.px[p] = color]
      <4>1. ASSUME NEW q \in Places(d.width, d.height)
            PROVE  [c \in 1 .. channels |-> FromMemory(b[q][c])] =
                   IF q = p THEN color ELSE [c \in 1 .. channels |-> FromMemory(SampleIn(heap, d, q, c))]
        <5>1. CASE q = p
          <6>1. \A c \in 1 .. channels : FromMemory(b[q][c]) = color[c]
            BY <5>1, BytesOfLevel DEF b
          <6> QED  BY <1>4, <5>1, <6>1
        <5>2. CASE q # p
          <6>1. \A c \in 1 .. channels : b[q][c] = SampleIn(heap, d, q, c)
            BY <5>2 DEF b
          <6> QED  BY <5>2, <6>1
        <5> QED  BY <5>1, <5>2
      <4>2. Levels(b) = [q \in Places(d.width, d.height) |-> [c \in 1 .. channels |-> FromMemory(b[q][c])]]
        BY DEF Levels, b
      <4>3. Levels(Bytes(heap, d)) = [q \in Places(d.width, d.height) |-> [c \in 1 .. channels |-> FromMemory(SampleIn(heap, d, q, c))]]
        BY DEF Levels, Bytes
      <4>4. Levels(b) = [Levels(Bytes(heap, d)) EXCEPT ![p] = color]
        <5>1. PICK new, before : new = Levels(b) /\ before = Levels(Bytes(heap, d))
          OBVIOUS
        <5>2. /\ new = [q \in Places(d.width, d.height) |-> new[q]] /\ before = [q \in Places(d.width, d.height) |-> before[q]]
              /\ \A q \in Places(d.width, d.height) : new[q] = IF q = p THEN color ELSE before[q]
          <6>1. new = [q \in Places(d.width, d.height) |-> new[q]] /\ before = [q \in Places(d.width, d.height) |-> before[q]]
            BY <4>2, <4>3, <5>1
          <6>2. ASSUME NEW q \in Places(d.width, d.height)
                PROVE  new[q] = IF q = p THEN color ELSE before[q]
            <7>1. new[q] = [c \in 1 .. channels |-> FromMemory(b[q][c])]
              BY <4>2, <5>1
            <7>2. before[q] = [c \in 1 .. channels |-> FromMemory(SampleIn(heap, d, q, c))]
              BY <4>3, <5>1
            <7> QED  BY <4>1, <7>1, <7>2, Zenon
          <6> QED  BY <6>1, <6>2
        <5> QED  BY <5>1, <5>2
      <4> QED  BY <3>7, <4>4 DEF Seen
    <3> QED  BY <1>1, <2>7, <3>3, <3>8, ShownNextIs DEF Keeps, d
  <2>9. Changes(call) = {o} /\ Promised(call)
    BY <1>5, <2>8 DEF Changes, Promised, d
  <2> QED  BY <1>1, <2>6, <2>9, CallEnds
<1>7. CASE poisoned'
  BY <1>1, <1>7, CallEnds
<1> QED  BY <1>6, <1>7

(* A call that only reads disturbs nothing.                                *)
LEMMA ReadTravels ==
  ASSUME PicturesInv, NEW call, AtOnce, Ended(call), data' = data, heap' = heap, ~ poisoned' => Promised(call)
  PROVE  (~ poisoned' => Fine') /\ calls' \in Nat /\ Travels
<1>1. ~ poisoned /\ Fine /\ pc = "idle" /\ pc' = "idle" /\ files' = files
  BY CallIsIdle DEF PicturesInv
<1>2. Undisturbed({})
  BY DEF Undisturbed
<1>3. RowsFine' /\ \A q \in Objects : Usable(q) => Keeps(q, Shown(q))
  BY <1>1, <1>2, NoneChanges
<1>4. Fine'
  BY <1>1, <1>3 DEF Fine, FilesFine, LoadFine
<1> QED  BY <1>3, <1>4, CallEnds

LEMMA ToYuvTravels ==
  ASSUME PicturesInv, NEW o \in Objects, ToYuv(o)
  PROVE  (~ poisoned' => Fine') /\ calls' \in Nat /\ Travels
<1> DEFINE call == [op |-> "to yuv", from |-> o]
<1>1. AtOnce /\ Ended(call) /\ data' = data /\ heap' = heap
  BY DEF ToYuv
<1>2. ~ poisoned' /\ data[o].bit_depth = 8 => answer' = Shown(o)
  BY DEF ToYuv
<1>3. call.op = "to yuv" /\ call.from = o
  OBVIOUS
<1> HIDE DEF call
<1>4. ~ poisoned' => Promised(call)
  BY <1>2, <1>3 DEF Promised
<1> QED  BY <1>1, <1>4, ReadTravels

LEMMA GetPixelTravels ==
  ASSUME PicturesInv, NEW o \in Objects, NEW p, GetPixel(o, p)
  PROVE  (~ poisoned' => Fine') /\ calls' \in Nat /\ Travels
<1> DEFINE call == [op |-> "get pixel", from |-> o, at |-> p]
<1>1. AtOnce /\ Ended(call) /\ data' = data /\ heap' = heap
  BY DEF GetPixel
<1>2. call.op = "get pixel"
  OBVIOUS
<1> HIDE DEF call
<1>3. Promised(call)
  BY <1>2 DEF Promised
<1> QED  BY <1>1, <1>3, ReadTravels

-----------------------------------------------------------------------------
(* Loading and saving.                                                     *)

LEMMA StartsTravel ==
  ASSUME PicturesInv, NEW o \in Objects, NEW f \in Names, StartLoad(o, f) \/ StartSave(o, f)
  PROVE  (~ poisoned' => Fine') /\ calls' \in Nat /\ Travels
<1>1. /\ data' = data /\ heap' = heap /\ files' = files /\ calls' = calls /\ ~ poisoned
      /\ pc' \in {"load open", "save open"}
  BY DEF StartLoad, StartSave, Ready, Goto
<1>2. Undisturbed({})
  BY <1>1 DEF Undisturbed
<1>3. RowsFine' /\ \A q \in Objects : Usable(q) => Keeps(q, Shown(q))
  BY <1>1, <1>2, NoneChanges
<1>4. Fine'
  BY <1>1, <1>3 DEF PicturesInv, Fine, FilesFine, LoadFine
<1> QED  BY <1>1, <1>3, <1>4, NothingEnds

(* A step within a load, or without an effect.                             *)
LEMMA LoadStays ==
  ASSUME PicturesInv, data' = data, poisoned' = poisoned, NEW ids \in SUBSET Buffers(internal), ~ poisoned => Undisturbed(ids)
  PROVE  /\ ~ poisoned => RowsFine'
         /\ ~ poisoned' => \A q \in Objects : Usable(q) => Keeps(q, Shown(q))
<1>1. ~ poisoned => \A o \in Objects : Buffers(data[o]) \cap ids = {}
  BY DEF PicturesInv, OwnershipInv, Sound, Apart
<1> QED  BY <1>1, NoneChanges

LEMMA LoadingIsApart ==
  ASSUME PicturesInv, ~ poisoned
  PROVE  Distinct(internal)
  BY DEF PicturesInv, OwnershipInv, Sound, Apart

LEMMA FreshUndisturbed ==
  ASSUME IsFiniteSet(DOMAIN heap), NEW content, heap' = With(heap, Fresh(DOMAIN heap), content)
  PROVE  Undisturbed({})
<1>1. Fresh(DOMAIN heap) \notin DOMAIN heap
  BY FreshIsNew
<1> HIDE DEF Fresh
<1> QED  BY <1>1 DEF Undisturbed, With

LEMMA LoadBegins ==
  ASSUME PicturesInv, LoadOpen \/ LoadStructs \/ LoadInfo
  PROVE  (~ poisoned' => Fine') /\ calls' \in Nat /\ Travels
<1>1. Within
  BY DEF LoadOpen, LoadStructs, LoadInfo
<1>2. data' = data /\ files' = files /\ name' = name /\ calls' = calls /\ poisoned' = poisoned
  BY <1>1 DEF Within
<1>3. IsFiniteSet(DOMAIN heap) /\ internal \in Structs
  BY DEF PicturesInv, OwnershipInv, TypeOK
<1>4. Undisturbed({})
  <2>1. CASE heap' = heap
    BY <2>1 DEF Undisturbed
  <2>2. CASE heap' # heap /\ LoadStructs
    <3>1. internal' = [NoData EXCEPT !.self = Fresh(DOMAIN heap)] /\ heap' = With(heap, internal'.self, <<>>)
      BY <2>2 DEF LoadStructs
    <3>2. internal'.self = Fresh(DOMAIN heap)
      BY <3>1 DEF NoData
    <3> QED  BY <1>3, <3>1, <3>2, FreshUndisturbed
  <2>3. CASE heap' # heap /\ LoadInfo
    <3>1. heap' = With(heap, Fresh(DOMAIN heap), <<>>)
      BY <2>3 DEF LoadInfo
    <3> QED  BY <1>3, <3>1, FreshUndisturbed
  <2>4. LoadOpen => heap' = heap
    BY DEF LoadOpen
  <2> QED  BY <2>1, <2>2, <2>3, <2>4
<1>5. LoadFine'
  <2>1. pc' \in {"load catch", "load structs", "load info", "load image"}
    BY DEF LoadOpen, LoadStructs, LoadInfo, Goto
  <2>2. pc' = "load image" =>
          /\ internal' = [internal EXCEPT !.rows = Fresh(DOMAIN heap), !.width = files[name].w,
                                          !.height = files[name].h, !.bit_depth = files[name].bit_depth]
    BY DEF LoadOpen, LoadStructs, LoadInfo, Goto
  <2>3. pc' = "load image" => internal'.width = files[name].w /\ internal'.height = files[name].h /\ internal'.bit_depth = files[name].bit_depth
    <3> HIDE DEF Fresh
    <3> QED  BY <1>3, <2>2 DEF Structs
  <2> QED  BY <1>2, <2>1, <2>3 DEF LoadFine
<1>6. /\ ~ poisoned => RowsFine'
      /\ ~ poisoned' => \A q \in Objects : Usable(q) => Keeps(q, Shown(q))
  BY <1>2, <1>4, LoadStays
<1>7. ~ poisoned' => Fine'
  BY <1>2, <1>5, <1>6 DEF PicturesInv, Fine, FilesFine
<1> QED  BY <1>2, <1>6, <1>7, NothingEnds

LEMMA LoadFails ==
  ASSUME PicturesInv, data' = data, files' = files, calls' = calls, poisoned' = poisoned, heap' = heap,
         pc' = "load catch"
  PROVE  (~ poisoned' => Fine') /\ calls' \in Nat /\ Travels
<1>1. Undisturbed({})
  BY DEF Undisturbed
<1>2. /\ ~ poisoned => RowsFine'
      /\ ~ poisoned' => \A q \in Objects : Usable(q) => Keeps(q, Shown(q))
  BY <1>1, LoadStays
<1>3. ~ poisoned' => Fine'
  BY <1>2 DEF PicturesInv, Fine, FilesFine, LoadFine
<1> QED  BY <1>2, <1>3, NothingEnds

LEMMA LoadImageTravels ==
  ASSUME PicturesInv, LoadImage
  PROVE  (~ poisoned' => Fine') /\ calls' \in Nat /\ Travels
<1> DEFINE image == Fresh(DOMAIN heap)
           bytes == channels * internal.width * SampleBytes(internal.bit_depth)
           zeros == Zeros(bytes * internal.height)
           pointers == Pointers(image, internal.height, bytes)
<1>1. /\ data' = data /\ files' = files /\ name' = name /\ calls' = calls /\ poisoned' = poisoned /\ pc = "load image"
  BY DEF LoadImage, Within
<1>2. CASE pc' = "load catch" /\ heap' = heap
  BY <1>1, <1>2, LoadFails
<1>3. CASE ~ (pc' = "load catch" /\ heap' = heap)
  <2>1. /\ internal' = [internal EXCEPT !.image = image]
        /\ heap' = With(With(heap, image, zeros), internal.rows, pointers)
        /\ pc' = "load pixels"
    BY <1>3 DEF LoadImage, Goto
  <2>2. image \in Nat \ {0} /\ image \notin DOMAIN heap
    BY FreshIsNew DEF PicturesInv, OwnershipInv, TypeOK
  <2>3. internal \in Structs /\ internal.rows # 0
    BY <1>1 DEF PicturesInv, OwnershipInv, TypeOK, Progress
  <2>4. internal.rows \in Buffers(internal) /\ (~ poisoned => internal.rows \in DOMAIN heap)
    BY <2>3 DEF PicturesInv, OwnershipInv, Sound, Owners, Buffers
  <2> HIDE DEF image, zeros, pointers
  <2>5. /\ internal'.image = image /\ internal'.rows = internal.rows
        /\ internal'.width = internal.width /\ internal'.height = internal.height /\ internal'.bit_depth = internal.bit_depth
    BY <2>1, <2>3 DEF Structs
  <2>6. ASSUME ~ poisoned
        PROVE  heap'[internal.rows] = pointers /\ heap'[image] = zeros /\ Undisturbed({internal.rows})
    BY <2>1, <2>2, <2>4, <2>6 DEF With, Undisturbed
  <2>7. ~ poisoned => Plain(heap', internal')
    BY <2>5, <2>6 DEF Plain, pointers, zeros, Zeros
  <2>8. /\ ~ poisoned => RowsFine'
        /\ ~ poisoned' => \A q \in Objects : Usable(q) => Keeps(q, Shown(q))
    <3>1. {internal.rows} \in SUBSET Buffers(internal)
      BY <2>4
    <3> QED  BY <1>1, <2>6, <3>1, LoadStays
  <2>9. ~ poisoned' => LoadFine'
    BY <1>1, <2>1, <2>5, <2>7 DEF PicturesInv, Fine, LoadFine
  <2>10. ~ poisoned' => Fine'
    BY <1>1, <2>8, <2>9 DEF PicturesInv, Fine, FilesFine
  <2> QED  BY <1>1, <2>8, <2>10, NothingEnds
<1> QED  BY <1>2, <1>3

LEMMA SwappedBytes ==
  ASSUME NEW depth, NEW bytes, bytes = [k \in 1 .. SampleBytes(depth) |-> bytes[k]]
  PROVE  Swapped(bytes) = [k \in 1 .. SampleBytes(depth) |-> Swapped(bytes)[k]]
<1>1. PICK s \in {1, 2} : s = SampleBytes(depth)
  BY SampleSizes
<1>2. bytes = [k \in 1 .. s |-> bytes[k]]
  BY <1>1
<1>3. Len(bytes) = s
  <2>1. PICK R : R = {bytes[k] : k \in 1 .. s}
    OBVIOUS
  <2>2. bytes \in [1 .. s -> R]
    BY <1>2, <2>1
  <2> QED  BY <2>2, LengthOf
<1>4. CASE s = 1
  <2>1. s # 2
    BY <1>4
  <2>2. Swapped(bytes) = bytes
    BY <1>3, <2>1, Zenon DEF Swapped
  <2> QED  BY <2>2, Zenon
<1>5. CASE s = 2
  <2>1. Swapped(bytes) = <<bytes[2], bytes[1]>>
    BY <1>3, <1>5 DEF Swapped
  <2>2. <<bytes[2], bytes[1]>> = [k \in 1 .. 2 |-> <<bytes[2], bytes[1]>>[k]]
    OBVIOUS
  <2> QED  BY <1>1, <1>5, <2>1, <2>2
<1> QED  BY <1>1, <1>4, <1>5

LEMMA FileListed ==
  ASSUME NEW x, FileFine(x), NEW d, d.width = x.w, d.height = x.h, d.bit_depth = x.bit_depth
  PROVE  Listed(FileBytes(x), d)
<1> DEFINE b == FileBytes(x)
<1>1. b = [p \in Places(d.width, d.height) |-> [c \in 1 .. channels |-> Swapped(x.px[p][c])]]
  BY DEF FileFine, FileBytes
<1> HIDE DEF b
<1>2. ASSUME NEW p \in Places(d.width, d.height), NEW c \in 1 .. channels
      PROVE  b[p][c] = [k \in 1 .. SampleBytes(d.bit_depth) |-> b[p][c][k]]
  <2>1. PICK bytes, s : bytes = x.px[p][c] /\ s = Swapped(bytes)
    OBVIOUS
  <2>2. bytes = [k \in 1 .. SampleBytes(d.bit_depth) |-> bytes[k]]
    <3>1. p \in Places(x.w, x.h)
      OBVIOUS
    <3>2. x.px[p][c] = [k \in 1 .. SampleBytes(x.bit_depth) |-> x.px[p][c][k]]
      BY <3>1 DEF FileFine
    <3> QED  BY <2>1, <3>2, Zenon
  <2>3. s = [k \in 1 .. SampleBytes(d.bit_depth) |-> s[k]]
    <3>1. Swapped(bytes) = [k \in 1 .. SampleBytes(d.bit_depth) |-> Swapped(bytes)[k]]
      BY <2>2, SwappedBytes, Zenon
    <3> QED  BY <2>1, <3>1, Zenon
  <2>4. b[p][c] = s
    BY <1>1, <2>1
  <2> QED  BY <2>3, <2>4, Zenon
<1>3. b = [p \in Places(d.width, d.height) |-> [c \in 1 .. channels |-> b[p][c]]]
  BY <1>1
<1> QED  BY <1>2, <1>3 DEF Listed, b


LEMMA LoadPixelsTravels ==
  ASSUME PicturesInv, LoadPixels
  PROVE  (~ poisoned' => Fine') /\ calls' \in Nat /\ Travels
<1> DEFINE px == FileBytes(files[name])
           before == heap[internal.image]
           content == Painted(before, internal, heap[internal.rows], px)
<1>1. /\ data' = data /\ files' = files /\ name' = name /\ calls' = calls /\ poisoned' = poisoned /\ pc = "load pixels"
      /\ internal' = internal
  BY DEF LoadPixels, Within
<1>2. CASE pc' = "load catch" /\ heap' = heap
  BY <1>1, <1>2, LoadFails
<1>3. CASE ~ (pc' = "load catch" /\ heap' = heap)
  <2>1. heap' = With(heap, internal.image, content) /\ pc' = "load swap"
    BY <1>3 DEF LoadPixels, Goto, FileBytes
  <2>2. internal \in Structs /\ Complete(internal) /\ name \in Names
    BY <1>1 DEF PicturesInv, OwnershipInv, TypeOK, Progress
  <2>3. internal.image \in Buffers(internal)
    BY <2>2 DEF Complete, Buffers
  <2> HIDE DEF px, content
  <2>4. ASSUME ~ poisoned
        PROVE  /\ heap'[internal.rows] = heap[internal.rows] /\ heap'[internal.image] = content
               /\ Undisturbed({internal.image})
    <3>1. internal.rows \in DOMAIN heap
      BY <2>2, <2>4 DEF PicturesInv, OwnershipInv, Sound, Owners, Complete, Buffers
    <3>2. internal.rows # internal.image
      BY <2>2, <2>4, LoadingIsApart DEF Complete, Distinct
    <3> QED  BY <2>1, <3>1, <3>2 DEF With, Undisturbed
  <2>5. ASSUME ~ poisoned
        PROVE  /\ heap'[internal.rows] \in RowPointers /\ Holds(heap', internal)
               /\ Bytes(heap', internal) = px
    <3>1. Fine /\ Plain(heap, internal) /\ FileFine(files[name])
      BY <1>1, <2>2, <2>5 DEF PicturesInv, Fine, LoadFine, FilesFine
    <3>2. heap[internal.rows] \in RowPointers /\ Holds(heap, internal) /\ NoOverlap(heap, internal)
      BY <2>2, <3>1, PlainHolds
    <3>3. internal.width = files[name].w /\ internal.height = files[name].h /\ internal.bit_depth = files[name].bit_depth
      BY <1>1, <3>1 DEF Fine, LoadFine
    <3>4. Listed(px, internal)
      BY <3>1, <3>3, FileListed DEF px
    <3>5. heap'[internal.image] = Painted(before, internal, heap[internal.rows], px)
      BY <2>4, <2>5 DEF content
    <3>6. Holds(heap', internal) /\ Bytes(heap', internal) = px
      BY <2>2, <2>4, <2>5, <3>2, <3>4, <3>5, PaintedBytes
    <3> QED  BY <2>4, <2>5, <3>2, <3>6
  <2>6. /\ ~ poisoned => RowsFine'
        /\ ~ poisoned' => \A q \in Objects : Usable(q) => Keeps(q, Shown(q))
    <3>1. {internal.image} \in SUBSET Buffers(internal)
      BY <2>3
    <3> QED  BY <1>1, <2>4, <3>1, LoadStays
  <2>7. ~ poisoned => LoadFine'
    BY <1>1, <2>1, <2>5 DEF PicturesInv, Fine, LoadFine, px
  <2>8. ~ poisoned' => Fine'
    BY <1>1, <2>6, <2>7 DEF PicturesInv, Fine, FilesFine
  <2> QED  BY <1>1, <2>6, <2>8, NothingEnds
<1> QED  BY <1>2, <1>3, Zenon

(* What was loaded is what the object shows.                               *)
LEMMA LoadSwapTravels ==
  ASSUME PicturesInv, LoadSwap
  PROVE  (~ poisoned' => Fine') /\ calls' \in Nat /\ Travels
<1>0. PICK o, f, d : o = object /\ f = name /\ d = internal
  OBVIOUS
<1> DEFINE call == [op |-> "load", to |-> o, file |-> f]
<1>1. /\ heap' = Without(heap, Owned(data[o])) /\ data' = [data EXCEPT ![o] = d]
      /\ pc' = "idle" /\ pc = "load swap" /\ Ended(call) /\ files' = files /\ poisoned' = poisoned
  BY <1>0 DEF LoadSwap, Goto
<1>2. o \in Objects /\ f \in Names /\ d \in Structs /\ Complete(d) /\ DOMAIN data = Objects
  BY <1>0, <1>1 DEF PicturesInv, OwnershipInv, TypeOK, Progress
<1>3. call.op = "load" /\ call.to = o /\ call.file = f
  OBVIOUS
<1> HIDE DEF call
<1>4. Undisturbed(Buffers(data[o]))
  BY <1>1, WithoutThere DEF Undisturbed, Owned, Buffers
<1>5. ASSUME ~ poisoned
      PROVE  /\ Fine' /\ \A q \in Objects \ {o} : Usable(q) => Keeps(q, Shown(q))
             /\ Promised(call)
  <2>1. /\ heap[d.rows] \in RowPointers /\ Holds(heap, d) /\ Bytes(heap, d) = FileBytes(files[f])
        /\ d.width = files[f].w /\ d.height = files[f].h
    BY <1>0, <1>1, <1>5 DEF PicturesInv, Fine, LoadFine
  <2>2. d.rows \in DOMAIN heap \ Buffers(data[o]) /\ d.image \in DOMAIN heap \ Buffers(data[o])
    BY <1>0, <1>2, <1>5 DEF PicturesInv, OwnershipInv, Sound, Owners, Apart, Complete, Buffers
  <2>3. heap'[d.rows] = heap[d.rows] /\ heap'[d.image] = heap[d.image]
    BY <1>4, <2>2 DEF Undisturbed
  <2>4. RowsFine' /\ \A q \in Objects \ {o} : Usable(q) => Keeps(q, Shown(q))
    BY <1>1, <1>2, <1>4, <1>5, <2>1, <2>3, OneChanges
  <2>5. Fine'
    BY <1>1, <1>5, <2>4 DEF PicturesInv, Fine, FilesFine, LoadFine
  <2>6. Holds(heap', d) /\ Seen(heap', d) = Seen(heap, d)
    BY <1>2, <2>1, <2>3, SameBuffers
  <2>7. Seen(heap, d) = FilePicture(f)
    <3>1. Levels(FileBytes(files[f])) =
            [p \in DOMAIN files[f].px |-> [c \in 1 .. channels |-> FromMemory(Swapped(files[f].px[p][c]))]]
      BY DEF Levels, FileBytes
    <3> QED  BY <2>1, <3>1 DEF Seen, FilePicture
  <2>8. data'[o] = d /\ d # NoData
    <3>1. data'[o] = d
      BY <1>1, <1>2
    <3>2. NoData.self = 0 /\ d.self # 0
      BY <1>2 DEF Complete, NoData
    <3> QED  BY <3>1, <3>2, Zenon
  <2>9. Keeps(o, FilePicture(f))
    BY <2>6, <2>7, <2>8, ShownNextIs DEF Keeps
  <2> QED  BY <1>3, <2>4, <2>5, <2>9 DEF Promised
<1>6. Changes(call) = {o}
  BY <1>3 DEF Changes
<1> QED  BY <1>1, <1>5, <1>6, CallEnds

LEMMA LoadCatchTravels ==
  ASSUME PicturesInv, LoadCatch
  PROVE  (~ poisoned' => Fine') /\ calls' \in Nat /\ Travels
<1>0. PICK o : o = object
  OBVIOUS
<1> DEFINE call == [op |-> "load failed", to |-> o]
<1>1. /\ heap' = Without(heap, Owned(internal)) /\ data' = data /\ pc' = "idle"
      /\ Ended(call) /\ files' = files /\ poisoned' = poisoned
  BY <1>0 DEF LoadCatch, Goto
<1>2. Undisturbed(Buffers(internal))
  BY <1>1, WithoutThere DEF Undisturbed, Owned, Buffers
<1>3. /\ ~ poisoned => RowsFine'
      /\ ~ poisoned' => \A q \in Objects : Usable(q) => Keeps(q, Shown(q))
  BY <1>1, <1>2, LoadStays
<1>4. ~ poisoned' => Fine'
  BY <1>1, <1>3 DEF PicturesInv, Fine, FilesFine, LoadFine
<1>5. Promised(call)
  BY DEF Promised
<1> HIDE DEF call
<1> QED  BY <1>1, <1>3, <1>4, <1>5, CallEnds


(* A step of a save touches no memory.                                     *)
LEMMA SavingStays ==
  ASSUME PicturesInv, UNCHANGED <<data, heap>>, ~ poisoned, FilesFine', pc' \in {"idle", "save structs", "save image", "save catch"}
  PROVE  Fine' /\ \A q \in Objects : Usable(q) => Keeps(q, Shown(q))
<1>1. Undisturbed({})
  BY DEF Undisturbed
<1>2. RowsFine' /\ \A q \in Objects : Usable(q) => Keeps(q, Shown(q))
  BY <1>1, NoneChanges
<1>3. LoadFine'
  BY DEF LoadFine
<1> QED  BY <1>2, <1>3 DEF Fine

LEMMA OtherFileFine ==
  ASSUME PicturesInv, ~ poisoned, NEW f \in Names, NEW x, FileFine(x), files' = [files EXCEPT ![f] = x]
  PROVE  FilesFine'
<1>1. DOMAIN files = Names /\ FilesFine
  BY DEF PicturesInv, OwnershipInv, TypeOK, Fine
<1>2. \A g \in Names : files'[g] = IF g = f THEN x ELSE files[g]
  BY <1>1
<1> HIDE DEF FileFine
<1> QED  BY <1>1, <1>2 DEF FilesFine

LEMMA OtherIsFine == FileFine(Other)
<1>1. Other.w = 0 /\ Other.h = 0 /\ Other.px = <<>>
  BY DEF Other
<1>2. DOMAIN <<>> = {} /\ Places(0, 0) = {}
  BY DEF Places
<1> QED  BY <1>1, <1>2 DEF FileFine

LEMMA SaveStepTravels ==
  ASSUME PicturesInv, SaveOpen \/ SaveStructs \/ SaveCatch
  PROVE  (~ poisoned' => Fine') /\ calls' \in Nat /\ Travels
<1>1. /\ UNCHANGED <<data, heap, poisoned, name>>
      /\ pc' \in {"idle", "save structs", "save image", "save catch"}
  BY DEF SaveOpen, SaveStructs, SaveCatch, Within, Goto
<1>2. ASSUME ~ poisoned
      PROVE  FilesFine'
  <2>1. CASE files' = files
    BY <1>2, <2>1 DEF PicturesInv, Fine, FilesFine
  <2>2. CASE files' # files
    <3>1. files' = [files EXCEPT ![name] = Other]
      BY <2>2 DEF SaveOpen, SaveStructs, SaveCatch, Within
    <3>2. name \in Names
      BY DEF PicturesInv, OwnershipInv, TypeOK
    <3> QED  BY <1>2, <3>1, <3>2, OtherIsFine, OtherFileFine
  <2> QED  BY <2>1, <2>2
<1>3. ~ poisoned' => Fine' /\ \A q \in Objects : Usable(q) => Keeps(q, Shown(q))
  BY <1>1, <1>2, SavingStays
<1>4. CASE SaveCatch
  <2> DEFINE call == [op |-> "save failed"]
  <2>1. Ended(call)
    BY <1>4 DEF SaveCatch
  <2>2. Promised(call)
    BY DEF Promised
  <2> HIDE DEF call
  <2> QED  BY <1>3, <2>1, <2>2, CallEnds
<1>5. CASE ~ SaveCatch
  <2>1. calls' = calls
    BY <1>5 DEF SaveOpen, SaveStructs, Within
  <2> QED  BY <1>3, <2>1, NothingEnds
<1> QED  BY <1>4, <1>5

(* What is saved with 8 bits is what the object shows.                     *)
LEMMA SavedShows ==
  ASSUME NEW o \in Objects, data[o] # NoData, NEW f, data[o].bit_depth = 8,
         files'[f] = [w |-> data[o].width, h |-> data[o].height, bit_depth |-> data[o].bit_depth,
                      px |-> [p \in Places(data[o].width, data[o].height) |->
                                [c \in 1 .. channels |-> Sample(data[o], p, c)]]]
  PROVE  FilePicture(f)' = Shown(o)
<1>1. PICK d : d = data[o]
  OBVIOUS
<1> DEFINE b == [p \in Places(d.width, d.height) |-> [c \in 1 .. channels |-> Sample(d, p, c)]]
<1>2. ASSUME NEW p \in Places(d.width, d.height), NEW c \in 1 .. channels
      PROVE  Swapped(b[p][c]) = Sample(d, p, c)
  <2>1. b[p][c] = Sample(d, p, c)
    OBVIOUS
  <2>2. PICK bytes : bytes = Sample(d, p, c)
    OBVIOUS
  <2>3. PICK R, first : first = heap[Row(d, p[2]).image][Offset(d, p, c) + 1 - 1] /\ R = {first}
    OBVIOUS
  <2>4. bytes \in [1 .. 1 -> R]
    <3>1. SampleBytes(d.bit_depth) = 1
      BY <1>1 DEF SampleBytes
    <3>2. bytes = [k \in 1 .. 1 |-> heap[Row(d, p[2]).image][Offset(d, p, c) + k - 1]]
      BY <2>2, <3>1 DEF Sample
    <3> QED  BY <2>3, <3>2
  <2>5. Len(bytes) = 1
    BY <2>4, LengthOf
  <2>6. Len(bytes) # 2
    BY <2>5
  <2>7. Swapped(bytes) = bytes
    BY <2>6, Zenon DEF Swapped
  <2> QED  BY <2>1, <2>2, <2>7, Zenon
<1>3. FilePicture(f)' = [w |-> d.width, h |-> d.height,
                         px |-> [p \in Places(d.width, d.height) |-> [c \in 1 .. channels |-> FromMemory(Swapped(b[p][c]))]]]
  <2>1. files'[f].w = d.width /\ files'[f].h = d.height /\ files'[f].px = b
    BY <1>1
  <2>2. DOMAIN b = Places(d.width, d.height)
    OBVIOUS
  <2> HIDE DEF b
  <2> QED  BY <2>1, <2>2 DEF FilePicture
<1>4. Shown(o) = [w |-> d.width, h |-> d.height,
                  px |-> [p \in Places(d.width, d.height) |-> [c \in 1 .. channels |-> FromMemory(Sample(d, p, c))]]]
  BY <1>1 DEF Shown
<1> HIDE DEF b
<1> QED  BY <1>2, <1>3, <1>4

LEMMA SaveImageTravels ==
  ASSUME PicturesInv, SaveImage
  PROVE  (~ poisoned' => Fine') /\ calls' \in Nat /\ Travels
<1>1. PICK o, f : o = object /\ f = name
  OBVIOUS
<1> DEFINE d == data[o]
           b == [p \in Places(d.width, d.height) |-> [c \in 1 .. channels |-> Sample(d, p, c)]]
           x == [w |-> d.width, h |-> d.height, bit_depth |-> d.bit_depth, px |-> b]
           call == [op |-> "save", from |-> o, file |-> f]
<1>2. UNCHANGED <<data, heap>> /\ pc' \in {"idle", "save catch"} /\ o \in Objects /\ f \in Names
  BY <1>1 DEF SaveImage, Goto, PicturesInv, OwnershipInv, TypeOK
<1>3. CASE pc' = "save catch" /\ files' = files /\ calls' = calls /\ poisoned' = poisoned
  <2>1. ~ poisoned => FilesFine'
    BY <1>3 DEF PicturesInv, Fine, FilesFine
  <2>2. ~ poisoned' => Fine' /\ \A q \in Objects : Usable(q) => Keeps(q, Shown(q))
    BY <1>2, <1>3, <2>1, SavingStays
  <2> QED  BY <1>3, <2>2, NothingEnds
<1>4. CASE ~ (pc' = "save catch" /\ files' = files /\ calls' = calls /\ poisoned' = poisoned)
  <2>1. /\ d.bit_depth \in {8, 16} /\ Ended(call)
        /\ ~ poisoned' => ~ poisoned /\ files' = [files EXCEPT ![f] = x]
    BY <1>1, <1>4 DEF SaveImage, Goto
  <2>2. d # NoData
    BY <2>1 DEF NoData
  <2>3. FileFine(x)
    <3>1. x.w = d.width /\ x.h = d.height /\ x.bit_depth = d.bit_depth /\ x.px = b
      OBVIOUS
    <3>2. \A p \in Places(d.width, d.height), c \in 1 .. channels : b[p][c] = Sample(d, p, c)
      OBVIOUS
    <3>3. \A p, c : Sample(d, p, c) = [k \in 1 .. SampleBytes(d.bit_depth) |-> Sample(d, p, c)[k]]
      BY DEF Sample
    <3>4. DOMAIN b = Places(d.width, d.height)
      OBVIOUS
    <3> HIDE DEF b, x, d
    <3>5. ASSUME NEW p \in Places(d.width, d.height), NEW c \in 1 .. channels
          PROVE  b[p][c] = [k \in 1 .. SampleBytes(d.bit_depth) |-> b[p][c][k]]
      BY <3>2, <3>3, Zenon
    <3> QED  BY <3>1, <3>4, <3>5 DEF FileFine
  <2> HIDE DEF x
  <2>4. ~ poisoned' => Fine' /\ \A q \in Objects : Usable(q) => Keeps(q, Shown(q))
    BY <1>2, <2>1, <2>3, OtherFileFine, SavingStays
  <2>5. ~ poisoned' /\ d.bit_depth = 8 => FilePicture(f)' = Shown(o)
    <3>1. SUFFICES ASSUME ~ poisoned', d.bit_depth = 8  PROVE FilePicture(f)' = Shown(o)
      OBVIOUS
    <3>2. files'[f] = x
      BY <1>2, <2>1, <3>1 DEF PicturesInv, OwnershipInv, TypeOK
    <3> QED  BY <1>2, <2>2, <3>1, <3>2, SavedShows DEF x
  <2>6. call.op = "save" /\ call.from = o /\ call.file = f
    OBVIOUS
  <2> HIDE DEF call
  <2>7. ~ poisoned' => Promised(call)
    BY <2>5, <2>6 DEF Promised
  <2> QED  BY <2>1, <2>4, <2>7, CallEnds
<1> QED  BY <1>3, <1>4, Zenon


-----------------------------------------------------------------------------
LEMMA InitPictures == Init => PicturesInv
<1> SUFFICES ASSUME Init  PROVE PicturesInv
  OBVIOUS
<1>1. OwnershipInv
  BY InitOwned
<1>2. RowsFine
  BY DEF Init, RowsFine
<1>3. LoadFine
  BY DEF Init, LoadFine
<1>4. ASSUME NEW f \in Names
      PROVE  FileFine(files[f])
  <2>1. PICK x : x = files[f]
    OBVIOUS
  <2>2. files \in InitialFiles
    BY DEF Init
  <2>3. x.px \in [Places(x.w, x.h) -> [1 .. channels -> [1 .. SampleBytes(x.bit_depth) -> Nat]]]
    BY <2>1, <2>2, LevelsAssumption, Zenon
  <2>4. ASSUME NEW p \in Places(x.w, x.h), NEW c \in 1 .. channels
        PROVE  x.px[p][c] = [k \in 1 .. SampleBytes(x.bit_depth) |-> x.px[p][c][k]]
    <3>1. x.px[p] \in [1 .. channels -> [1 .. SampleBytes(x.bit_depth) -> Nat]]
      BY <2>3
    <3>2. x.px[p][c] \in [1 .. SampleBytes(x.bit_depth) -> Nat]
      BY <3>1
    <3> QED  BY <3>2
  <2>5. DOMAIN x.px = Places(x.w, x.h)
    BY <2>3
  <2>6. FileFine(x)
    BY <2>4, <2>5, Zenon DEF FileFine
  <2> QED  BY <2>1, <2>6
<1>5. calls \in Nat
  BY DEF Init
<1> QED  BY <1>1, <1>2, <1>3, <1>4, <1>5 DEF PicturesInv, Fine, FilesFine

LEMMA StepTravels ==
  ASSUME PicturesInv, [Next]_vars
  PROVE  PicturesInv' /\ (Travels \/ UNCHANGED vars)
<1> DEFINE Goal == (~ poisoned' => Fine') /\ calls' \in Nat /\ Travels
<1>1. OwnershipInv'
  BY StepKeeps DEF PicturesInv
<1>2. CASE UNCHANGED vars
  <2>1. UNCHANGED <<data, heap, files, pc, name, internal, calls, poisoned>>
    BY <1>2 DEF vars, locals
  <2>2. (~ poisoned' => Fine') /\ calls' \in Nat
    BY <2>1 DEF PicturesInv, Fine, RowsFine, FilesFine, LoadFine
  <2> QED  BY <1>1, <1>2, <2>2 DEF PicturesInv
<1>3. CASE Next /\ ~ UNCHANGED vars
  <2>1. ASSUME NEW o \in Objects, NEW picture \in Pictures,
               Create(o, picture.w, picture.h, 8) \/ Create(o, picture.w, picture.h, 16)
        PROVE  Goal
    BY <2>1, CreateTravels, PngAssumption
  <2>2. ASSUME NEW o \in Objects, NEW from \in Objects, Copy(o, from) \/ CopyRunsOut(o, from) \/ Move(o, from)
        PROVE  Goal
    BY <2>2, CopyTravels, CopyRunsOutTravels, MoveTravels
  <2>3. ASSUME NEW o \in Objects, NEW picture \in Pictures, FromYuv(o, picture)
        PROVE  Goal
    BY <2>3, FromYuvTravels
  <2>4. ASSUME NEW o \in Objects, ToYuv(o) \/ \E p : GetPixel(o, p)
        PROVE  Goal
    BY <2>4, ToYuvTravels, GetPixelTravels
  <2>5. ASSUME NEW o \in Objects, NEW p, NEW color \in Colors, SetPixel(o, p, color)
        PROVE  Goal
    BY <2>5, SetPixelTravels
  <2>6. ASSUME NEW o \in Objects, NEW f \in Names, StartLoad(o, f) \/ StartSave(o, f)
        PROVE  Goal
    BY <2>6, StartsTravel
  <2>7. ASSUME LoadOpen \/ LoadStructs \/ LoadInfo \/ LoadImage \/ LoadPixels \/ LoadSwap \/ LoadCatch
        PROVE  Goal
    BY <2>7, LoadBegins, LoadImageTravels, LoadPixelsTravels, LoadSwapTravels, LoadCatchTravels
  <2>8. ASSUME SaveOpen \/ SaveStructs \/ SaveImage \/ SaveCatch
        PROVE  Goal
    BY <2>8, SaveStepTravels, SaveImageTravels
  <2>9. ~ Stopped
    BY <1>3 DEF Stopped
  <2> HIDE DEF Goal
  <2>10. Goal
    BY <1>3, <2>1, <2>2, <2>3, <2>4, <2>5, <2>6, <2>7, <2>8, <2>9 DEF Next
  <2> QED  BY <1>1, <2>10 DEF Goal, PicturesInv
<1> QED  BY <1>2, <1>3

(* For images of all sizes and any calls, whatever fails: no call changes  *)
(* what another object shows, and an object shows what was last moved,     *)
(* loaded or written into it (written: unless lines share memory), or      *)
(* copied from lines in their places.  It says nothing of the calls that   *)
(* PicturesTravel leaves out: copies of palettes and narrowed images, and  *)
(* reads and saves of 16 bits.                                             *)
THEOREM EveryPictureTravels == Spec => PicturesTravel
<1>1. Init => PicturesInv
  BY InitPictures
<1>2. PicturesInv /\ [Next]_vars => PicturesInv'
  BY StepTravels
<1>3. PicturesInv /\ [Next]_vars => [Travels]_vars
  BY StepTravels
<1> QED  BY <1>1, <1>2, <1>3, PTL DEF Spec, PicturesTravel


=============================================================================
