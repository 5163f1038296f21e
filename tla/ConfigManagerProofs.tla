------------------------- MODULE ConfigManagerProofs ------------------------
(***************************************************************************)
(* Proofs about config_manager, for every set of names, items and          *)
(* directory trees.                                                        *)
(***************************************************************************)
EXTENDS ConfigManager, TLAPS

(* The three kinds, and the folders in which they are.                     *)
LEMMA FolderKinds ==
  /\ Len(Folders) = 3
  /\ "chroma_siting" \in Kinds
  /\ \A i \in 1 .. 3 : Folders[i] \in Kinds
  /\ \A kind \in Kinds : \E i \in 1 .. 3 : Folders[i] = kind
<1>1. Len(Folders) = 3 /\ DOMAIN Folders = 1 .. 3
  BY DEF Folders
<1>2. \A i \in 1 .. 3 : Folders[i] \in Kinds
  BY <1>1 DEF Kinds
<1>3. Folders[2] = "chroma_siting"
  BY DEF Folders
<1> QED  BY <1>1, <1>2, <1>3 DEF Kinds

(* What add does to the maps: the item is taken where there was none.      *)
LEMMA PutStores ==
  ASSUME TypeOK, NEW kind \in Kinds, NEW name \in Names, NEW item \in Items, Put(kind, name, item)
  PROVE  /\ store' \in Stores
         /\ store'[kind][name] # Missing
         /\ store[kind][name] = Missing => store'[kind][name] = item
         /\ \A k \in Kinds, n \in Names :
              (<<k, n>> # <<kind, name>> \/ store[k][n] # Missing) => store'[k][n] = store[k][n]
<1>1. store \in [Kinds -> [Names -> Items \cup {Missing}]]
  BY DEF TypeOK, Stores
<1>2. Missing \notin Items
  BY ConfigAssumption
<1>3. CASE store[kind][name] = Missing
  <2>1. store' = [store EXCEPT ![kind][name] = item]
    BY <1>3 DEF Put
  <2> QED  BY <1>1, <1>2, <1>3, <2>1 DEF Stores
<1>4. CASE store[kind][name] # Missing
  BY <1>1, <1>4 DEF Put, Stores
<1> QED  BY <1>3, <1>4

(* What add does to the index.                                             *)
LEMMA PutIndexes ==
  ASSUME TypeOK, NEW kind \in Kinds, NEW name \in Names, NEW item \in Items, Put(kind, name, item)
  PROVE  /\ by_subsampling' \in Indexes
         /\ \A s \in Subsamplings : by_subsampling[s] \subseteq by_subsampling'[s]
         /\ \A s \in Subsamplings : \A n \in by_subsampling'[s] :
              n \in by_subsampling[s] \/ (n = name /\ kind = "chroma_siting")
         /\ kind = "chroma_siting" => name \in by_subsampling'[SubsamplingOf(item)]
<1>1. by_subsampling \in [Subsamplings -> SUBSET Names]
  BY DEF TypeOK, Indexes
<1>2. SubsamplingOf(item) \in Subsamplings
  BY ConfigAssumption
<1>3. CASE kind = "chroma_siting"
  <2>1. by_subsampling' = [by_subsampling EXCEPT ![SubsamplingOf(item)] = @ \cup {name}]
    BY <1>3 DEF Put
  <2> DEFINE sub == SubsamplingOf(item)
  <2>2. /\ sub \in Subsamplings
        /\ by_subsampling' = [by_subsampling EXCEPT ![sub] = by_subsampling[sub] \cup {name}]
    BY <1>2, <2>1
  <2> HIDE DEF sub
  <2>3. /\ by_subsampling' \in Indexes
        /\ \A s \in Subsamplings : by_subsampling[s] \subseteq by_subsampling'[s]
        /\ \A s \in Subsamplings : \A n \in by_subsampling'[s] : n \in by_subsampling[s] \/ n = name
        /\ name \in by_subsampling'[sub]
    BY <1>1, <2>2 DEF Indexes
  <2> QED  BY <1>3, <2>3 DEF sub
<1>4. CASE kind # "chroma_siting"
  BY <1>1, <1>4 DEF Put, Indexes
<1> QED  BY <1>3, <1>4

(* While a folder is loaded, Kind is one of the kinds.                     *)
LEMMA KindIsKind ==
  ASSUME TypeOK, folder # 0
  PROVE  Kind \in Kinds
BY FolderKinds DEF TypeOK, Kind

-----------------------------------------------------------------------------
(* Type correctness of the manager, whatever is added and loaded.          *)
THEOREM TypeCorrect == Spec => []TypeOK
<1>1. Init => TypeOK
  <2> SUFFICES ASSUME Init PROVE TypeOK
    OBVIOUS
  <2>1. store \in Stores /\ tree \in AllTrees
    BY DEF Init, Stores, AllTrees
  <2>2. by_subsampling \in Indexes
    BY DEF Init, Indexes
  <2>3. folder \in 0 .. Len(Folders)
    BY FolderKinds DEF Init
  <2> QED  BY <2>1, <2>2, <2>3 DEF Init, TypeOK
<1>2. TypeOK /\ [Next]_vars => TypeOK'
  <2> SUFFICES ASSUME TypeOK, [Next]_vars PROVE TypeOK'
    OBVIOUS
  <2>a. Len(Folders) = 3
    BY FolderKinds
  <2>1. ASSUME NEW kind \in Kinds, NEW name \in Names, NEW item \in Items, Add(kind, name, item)
        PROVE  TypeOK'
    <3>1. Put(kind, name, item)
      BY <2>1 DEF Add
    <3>2. store' \in Stores
      BY <3>1, PutStores
    <3>3. by_subsampling' \in Indexes
      BY <3>1, PutIndexes
    <3> QED  BY <2>1, <3>2, <3>3 DEF Add, TypeOK
  <2>2. CASE StartLoad
    <3>1. /\ store' \in Stores /\ by_subsampling' \in Indexes /\ tree' \in AllTrees
          /\ todo' \in SUBSET Names
      BY <2>2, <2>a, ConfigAssumption DEF StartLoad, TypeOK
    <3>2. folder' \in 0 .. Len(Folders)
      BY <2>2, <2>a, ConfigAssumption DEF StartLoad, TypeOK
    <3>3. listed' \in BOOLEAN /\ complete' \in BOOLEAN /\ crashed' \in BOOLEAN
      BY <2>2, <2>a, ConfigAssumption DEF StartLoad, TypeOK
    <3> QED  BY <3>1, <3>2, <3>3 DEF TypeOK
  <2>3. CASE ListFolder
    <3>1. /\ store' \in Stores /\ by_subsampling' \in Indexes /\ tree' \in AllTrees
          /\ todo' \in SUBSET Names
      BY <2>3, <2>a DEF ListFolder, Throw, Files, TypeOK
    <3>2. folder' \in 0 .. Len(Folders)
      <4>1. folder' = folder \/ folder' = 0
        BY <2>3 DEF ListFolder, Throw
      <4> QED  BY <4>1, <2>a DEF TypeOK
    <3>3. listed' \in BOOLEAN /\ complete' \in BOOLEAN /\ crashed' \in BOOLEAN
      BY <2>3, <2>a DEF ListFolder, Throw, Files, TypeOK
    <3> QED  BY <3>1, <3>2, <3>3 DEF TypeOK
  <2>4. ASSUME NEW name \in Names, LoadFile(name)
        PROVE  TypeOK'
    <3>1. Kind \in Kinds /\ tree[Kind][name] \in Items /\ Put(Kind, name, tree[Kind][name])
      BY <2>4, KindIsKind DEF LoadFile
    <3>2. store' \in Stores
      BY <3>1, PutStores
    <3>3. by_subsampling' \in Indexes
      BY <3>1, PutIndexes
    <3> QED  BY <2>4, <3>2, <3>3 DEF LoadFile, TypeOK
  <2>5. ASSUME NEW name \in Names, SkipFile(name)
        PROVE  TypeOK'
    BY <2>5, <2>a DEF SkipFile, TypeOK
  <2>6. ASSUME NEW name \in Names, FailOnFile(name)
        PROVE  TypeOK'
    <3>1. /\ store' \in Stores /\ by_subsampling' \in Indexes /\ tree' \in AllTrees
          /\ todo' \in SUBSET Names
      BY <2>6, <2>a DEF FailOnFile, Throw, TypeOK
    <3>2. folder' \in 0 .. Len(Folders)
      BY <2>6, <2>a DEF FailOnFile, Throw, TypeOK
    <3>3. listed' \in BOOLEAN /\ complete' \in BOOLEAN /\ crashed' \in BOOLEAN
      BY <2>6, <2>a DEF FailOnFile, Throw, TypeOK
    <3> QED  BY <3>1, <3>2, <3>3 DEF TypeOK
  <2>b. ASSUME NEW name \in Names, CrashOnFile(name)
        PROVE  TypeOK'
    BY <2>b DEF CrashOnFile, TypeOK
  <2>7. CASE NextFolder
    <3>1. /\ store' \in Stores /\ by_subsampling' \in Indexes /\ tree' \in AllTrees
          /\ todo' \in SUBSET Names
      BY <2>7, <2>a DEF NextFolder, TypeOK
    <3>2. folder' \in 0 .. Len(Folders)
      BY <2>7, <2>a DEF NextFolder, FolderAfter, TypeOK
    <3>3. listed' \in BOOLEAN /\ complete' \in BOOLEAN /\ crashed' \in BOOLEAN
      BY <2>7, <2>a DEF NextFolder, TypeOK
    <3> QED  BY <3>1, <3>2, <3>3 DEF TypeOK
  <2>8. CASE UNCHANGED vars
    BY <2>8, <2>a DEF vars, TypeOK
  <2> QED  BY <2>1, <2>2, <2>3, <2>4, <2>5, <2>6, <2>b, <2>7, <2>8 DEF Next, LoadStep, HandleFile
<1> QED  BY <1>1, <1>2, PTL DEF Spec

-----------------------------------------------------------------------------
(* Only add touches the maps and the index, called or from within a load.  *)
LEMMA OnlyPuts ==
  ASSUME TypeOK, [Next]_vars
  PROVE  \/ UNCHANGED <<store, by_subsampling>>
         \/ \E kind \in Kinds, name \in Names, item \in Items : Put(kind, name, item)
<1>1. ASSUME NEW kind \in Kinds, NEW name \in Names, NEW item \in Items, Add(kind, name, item)
      PROVE  Put(kind, name, item)
  BY <1>1 DEF Add
<1>2. ASSUME NEW name \in Names, LoadFile(name)
      PROVE  \E kind \in Kinds, item \in Items : Put(kind, name, item)
  <2>1. folder # 0 /\ tree[Kind][name] \in Items /\ Put(Kind, name, tree[Kind][name])
    BY <1>2 DEF LoadFile
  <2> QED  BY <2>1, KindIsKind
<1>3. CASE StartLoad \/ ListFolder \/ NextFolder \/ UNCHANGED vars
  BY <1>3 DEF StartLoad, ListFolder, NextFolder, vars
<1>4. CASE \E name \in Names : SkipFile(name) \/ FailOnFile(name) \/ CrashOnFile(name)
  BY <1>4 DEF SkipFile, FailOnFile, CrashOnFile
<1> QED  BY <1>1, <1>2, <1>3, <1>4 DEF Next, LoadStep, HandleFile

(* add keeps the index and the map of chroma sitings together.             *)
LEMMA PutKeepsIndex ==
  ASSUME TypeOK, IndexUsable,
         NEW kind \in Kinds, NEW name \in Names, NEW item \in Items, Put(kind, name, item)
  PROVE  IndexUsable'
<1> DEFINE K == "chroma_siting"
<1>1. K \in Kinds
  BY FolderKinds
<1>2. \A n \in Names : store[K][n] \in Items \cup {Missing}
  BY <1>1 DEF TypeOK, Stores
<1>3. \A s \in Subsamplings : by_subsampling[s] \subseteq by_subsampling'[s]
  BY PutIndexes
<1>4. \A k \in Kinds, n \in Names :
        (<<k, n>> # <<kind, name>> \/ store[k][n] # Missing) => store'[k][n] = store[k][n]
  BY PutStores
<1>5. IndexComplete'
  <2> SUFFICES ASSUME NEW n \in Names, store'[K][n] # Missing
               PROVE  n \in by_subsampling'[SubsamplingOf(store'[K][n])]
    BY DEF IndexComplete, Sitings
  <2>1. CASE store[K][n] # Missing
    <3>1. store[K][n] \in Items /\ store'[K][n] = store[K][n]
      BY <1>1, <1>2, <1>4, <2>1
    <3>2. SubsamplingOf(store[K][n]) \in Subsamplings
      BY <3>1, ConfigAssumption
    <3>3. n \in by_subsampling[SubsamplingOf(store[K][n])]
      BY <2>1 DEF IndexUsable, IndexComplete, Sitings
    <3> QED  BY <1>3, <3>1, <3>2, <3>3
  <2>2. CASE store[K][n] = Missing
    <3>1. kind = K /\ n = name
      BY <1>1, <1>4, <2>2
    <3>2. store'[K][n] = item
      BY <2>2, <3>1, PutStores
    <3> QED  BY <3>1, <3>2, PutIndexes
  <2> QED  BY <2>1, <2>2
<1>6. IndexNamesResolve'
  <2> SUFFICES ASSUME NEW s \in Subsamplings, NEW n \in by_subsampling'[s]
               PROVE  store'[K][n] # Missing
    BY DEF IndexNamesResolve, Sitings
  <2>1. CASE n \in by_subsampling[s]
    <3>1. n \in Names
      BY <2>1 DEF TypeOK, Indexes
    <3>2. store[K][n] # Missing
      BY <2>1 DEF IndexUsable, IndexNamesResolve, Sitings
    <3> QED  BY <1>1, <1>4, <3>1, <3>2
  <2>2. CASE n \notin by_subsampling[s]
    <3>1. n = name /\ kind = K
      BY <2>2, PutIndexes
    <3> QED  BY <3>1, PutStores
  <2> QED  BY <2>1, <2>2
<1> QED  BY <1>5, <1>6 DEF IndexUsable

(* get_chroma_sitings leaves out no siting that get_chroma_siting knows,   *)
(* and names none that it does not know: the lookup after it is never for  *)
(* a name that is gone or was never stored.                                *)
THEOREM IndexAlwaysUsable == Spec => []IndexUsable
<1>1. Init => IndexUsable
  BY FolderKinds DEF Init, IndexUsable, IndexComplete, IndexNamesResolve, Sitings
<1>2. TypeOK /\ IndexUsable /\ [Next]_vars => IndexUsable'
  <2> SUFFICES ASSUME TypeOK, IndexUsable, [Next]_vars PROVE IndexUsable'
    OBVIOUS
  <2>1. CASE UNCHANGED <<store, by_subsampling>>
    BY <2>1 DEF IndexUsable, IndexComplete, IndexNamesResolve, Sitings
  <2>2. CASE \E kind \in Kinds, name \in Names, item \in Items : Put(kind, name, item)
    BY <2>2, PutKeepsIndex
  <2> QED  BY <2>1, <2>2, OnlyPuts
<1> QED  BY <1>1, <1>2, TypeCorrect, PTL DEF Spec

-----------------------------------------------------------------------------
(* No step takes an item away.                                             *)
LEMMA StoreGrows ==
  ASSUME TypeOK, [Next]_vars, NEW kind \in Kinds, NEW name \in Names, store[kind][name] # Missing
  PROVE  store'[kind][name] # Missing
<1>1. CASE UNCHANGED <<store, by_subsampling>>
  BY <1>1
<1>2. CASE \E k \in Kinds, n \in Names, item \in Items : Put(k, n, item)
  BY <1>2, PutStores
<1> QED  BY <1>1, <1>2, OnlyPuts

(* A finished folder stays finished as long as the same tree is loaded.    *)
LEMMA DoneStaysDone ==
  ASSUME TypeOK, [Next]_vars, UNCHANGED tree, NEW i \in 1 .. 3, FolderDone(i)
  PROVE  FolderDone(i)'
<1>1. Folders[i] \in Kinds
  BY FolderKinds
<1> QED  BY <1>1, StoreGrows DEF FolderDone

LEMMA UnderWayStays ==
  ASSUME TypeOK, [Next]_vars, UNCHANGED <<tree, folder>>, folder # 0, FolderUnderWay,
         \A name \in todo \ todo' : tree[Kind][name] \notin Items \/ store'[Kind][name] # Missing
  PROVE  FolderUnderWay'
<1>1. Kind \in Kinds /\ Kind' = Kind
  BY KindIsKind DEF Kind
<1> QED  BY <1>1, StoreGrows DEF FolderUnderWay

LEMMA ProgressKept ==
  ASSUME TypeOK, LoadProgress, [Next]_vars
  PROVE  LoadProgress'
<1> USE FolderKinds
<1>a. folder \in 0 .. 3 /\ DOMAIN Folders = 1 .. 3
  BY DEF TypeOK, Folders
<1>1. ASSUME UNCHANGED <<tree, folder, listed, complete>>,
             folder # 0 => \A name \in todo \ todo' : tree[Kind][name] \notin Items \/ store'[Kind][name] # Missing
      PROVE  LoadProgress'
  <2>1. \A i \in 1 .. 3 : FolderDone(i) => FolderDone(i)'
    BY <1>1, DoneStaysDone
  <2>2. (folder # 0 /\ FolderUnderWay) => FolderUnderWay'
    BY <1>1, UnderWayStays
  <2> QED  BY <1>1, <1>a, <2>1, <2>2 DEF LoadProgress
<1>2. ASSUME NEW kind \in Kinds, NEW name \in Names, NEW item \in Items, Add(kind, name, item)
      PROVE  LoadProgress'
  BY <1>1, <1>2 DEF Add
<1>3. CASE StartLoad
  BY <1>3 DEF StartLoad, LoadProgress
<1>4. CASE ListFolder
  <2>1. UNCHANGED <<tree, complete, store>> /\ folder # 0
    BY <1>4 DEF ListFolder
  <2>2. \A i \in 1 .. 3 : FolderDone(i) => FolderDone(i)'
    BY <2>1, DoneStaysDone
  <2>3. ~ complete'
    BY <2>1 DEF LoadProgress
  <2>4. CASE todo' = Files /\ listed' = TRUE /\ UNCHANGED folder
    <3>1. FolderUnderWay'
      BY <2>1, <2>4, ConfigAssumption DEF FolderUnderWay, Files, Kind
    <3> QED  BY <1>a, <2>1, <2>2, <2>3, <2>4, <3>1 DEF LoadProgress
  <2>5. CASE folder' = 0
    BY <2>3, <2>5 DEF LoadProgress
  <2> QED  BY <1>4, <2>4, <2>5 DEF ListFolder, Throw
<1>5. ASSUME NEW name \in Names, LoadFile(name)
      PROVE  LoadProgress'
  <2>1. /\ folder # 0
        /\ tree[Kind][name] \in Items
        /\ Put(Kind, name, tree[Kind][name])
        /\ todo' = todo \ {name}
        /\ UNCHANGED <<tree, folder, listed, complete>>
    BY <1>5 DEF LoadFile
  <2>2. store'[Kind][name] # Missing
    BY <2>1, KindIsKind, PutStores
  <2> QED  BY <1>1, <2>1, <2>2
<1>6. ASSUME NEW name \in Names, SkipFile(name)
      PROVE  LoadProgress'
  <2>1. /\ tree[Kind][name] \in Errors
        /\ todo' = todo \ {name}
        /\ UNCHANGED <<tree, folder, listed, complete>>
    BY <1>6 DEF SkipFile, Caught, Errors
  <2>2. tree[Kind][name] \notin Items
    BY <2>1, ConfigAssumption
  <2> QED  BY <1>1, <2>1, <2>2
<1>7. ASSUME NEW name \in Names, FailOnFile(name)
      PROVE  LoadProgress'
  <2>1. folder # 0 /\ folder' = 0 /\ UNCHANGED complete
    BY <1>7 DEF FailOnFile, Throw
  <2> QED  BY <2>1 DEF LoadProgress
<1>b. ASSUME NEW name \in Names, CrashOnFile(name)
      PROVE  LoadProgress'
  BY <1>1, <1>b DEF CrashOnFile
<1>8. CASE NextFolder
  <2>1. UNCHANGED <<tree, store>> /\ folder # 0 /\ listed /\ todo = {} /\ listed' = FALSE
    BY <1>8 DEF NextFolder
  <2>2. FolderDone(folder)
    BY <2>1 DEF LoadProgress, FolderUnderWay, FolderDone, Kind
  <2>3. \A i \in 1 .. folder : FolderDone(i)
    BY <1>a, <2>1, <2>2 DEF LoadProgress
  <2>4. \A i \in 1 .. folder : FolderDone(i)'
    BY <1>a, <2>1, <2>3, DoneStaysDone
  <2>5. CASE folder < 3
    <3>1. folder' = folder + 1 /\ ~ complete'
      <4>1. folder < Len(Folders) /\ folder # Len(Folders)
        BY <1>a, <2>5
      <4> QED  BY <1>8, <4>1 DEF NextFolder, FolderAfter
    <3>2. 1 .. folder' - 1 = 1 .. folder
      BY <1>a, <3>1
    <3>3. \A i \in 1 .. folder' - 1 : FolderDone(i)'
      BY <2>4, <3>2
    <3> QED  BY <2>1, <3>1, <3>3 DEF LoadProgress
  <2>6. CASE folder = 3
    <3>1. folder' = 0
      BY <1>8, <2>6 DEF NextFolder, FolderAfter
    <3> QED  BY <1>a, <2>1, <2>4, <2>6, <3>1 DEF LoadProgress
  <2> QED  BY <1>a, <2>5, <2>6
<1>9. CASE UNCHANGED vars
  BY <1>1, <1>9 DEF vars
<1> QED  BY <1>2, <1>3, <1>4, <1>5, <1>6, <1>7, <1>b, <1>8, <1>9 DEF Next, LoadStep, HandleFile

(* A load that went to its end left out no file that holds an item,        *)
(* whatever the order of the files and whatever was added before.          *)
THEOREM NothingMissed == Spec => []CompleteLoadMissesNothing
<1>1. Init => LoadProgress
  BY DEF Init, LoadProgress
<1>2. LoadProgress => CompleteLoadMissesNothing
  BY FolderKinds DEF LoadProgress, CompleteLoadMissesNothing, FolderDone, Folders
<1> QED  BY <1>1, <1>2, ProgressKept, TypeCorrect, PTL DEF Spec

=============================================================================
