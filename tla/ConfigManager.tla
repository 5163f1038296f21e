---------------------------- MODULE ConfigManager ---------------------------
(***************************************************************************)
(* config_manager: the named format templates, chroma sitings and          *)
(* conversion matrices, and an index from subsamplings to the names of     *)
(* chroma sitings.  Items are added one by one or by loading the files of  *)
(* a directory tree; the maps' emplace keeps an item that is already       *)
(* there.                                                                  *)
(***************************************************************************)
EXTENDS Naturals, Sequences

CONSTANTS
  Names,           \* keys of items and names of files
  ItemsOf,         \* what the three parsers return: kind -> items
  Subsamplings,
  SubsamplingOf(_),  \* the subsampling of a chroma siting
  Missing,         \* not an item: there is nothing under this name
  Trees            \* directory trees: folder -> name -> item, error or Missing

(* The folders, which are also the kinds of items, in the order they load. *)
Folders == <<"px_fmt", "chroma_siting", "rgb_conversion">>
Kinds   == {Folders[i] : i \in DOMAIN Folders}

Items   == UNION {ItemsOf[kind] : kind \in Kinds}

(* Why a file may not give an item: it does not parse; it is a format      *)
(* template with impossible blocks; it cannot be opened; it is a link that *)
(* leads nowhere, for which already the folder cannot be listed; reading   *)
(* it ends the process, by an assertion or by an index beyond a vector.    *)
Error(why)  == [error |-> why]
FatalErrors == {Error("assertion"), Error("undefined")}
Errors == {Error("parse error"), Error("invalid"), Error("unreadable"), Error("dangling link")} \cup FatalErrors

Stores  == [Kinds -> [Names -> Items \cup {Missing}]]
Indexes == [Subsamplings -> SUBSET Names]
AllTrees == [Kinds -> [Names -> Items \cup Errors \cup {Missing}]]

ASSUME ConfigAssumption ==
  /\ Missing \notin Items
  /\ Errors \cap Items = {} /\ Missing \notin Errors
  /\ \A item \in Items : SubsamplingOf(item) \in Subsamplings
  /\ Trees \subseteq AllTrees

VARIABLES
  store,           \* the three maps: kind -> name -> item or Missing
  by_subsampling,  \* the index: subsampling -> names of chroma sitings
  tree,            \* the directory tree being or last loaded
  folder,          \* index of the folder being loaded, 0 when none is
  listed,          \* has that folder been listed?
  todo,            \* files of it still to load
  complete,        \* has the last load gone to its end?
  crashed          \* has the process ended?

vars == <<store, by_subsampling, tree, folder, listed, todo, complete, crashed>>

Init ==
  /\ store = [kind \in Kinds |-> [name \in Names |-> Missing]]
  /\ by_subsampling = [s \in Subsamplings |-> {}]
  /\ tree = [kind \in Kinds |-> [name \in Names |-> Missing]]
  /\ folder = 0
  /\ listed = FALSE
  /\ todo = {}
  /\ complete = FALSE
  /\ crashed = FALSE

-----------------------------------------------------------------------------
(* The three overloads of add.  The index takes the name even if the map   *)
(* did not take the item.                                                  *)
PutReplacesNames(kind, name, item) ==
  /\ store' = IF store[kind][name] = Missing THEN [store EXCEPT ![kind][name] = item] ELSE store
  /\ by_subsampling' = IF kind = "chroma_siting"
                       THEN [by_subsampling EXCEPT ![SubsamplingOf(item)] = {name}]
                       ELSE by_subsampling

Put(kind, name, item) ==
  /\ store' = IF store[kind][name] = Missing THEN [store EXCEPT ![kind][name] = item] ELSE store
  /\ by_subsampling' = IF kind = "chroma_siting"
                       THEN [by_subsampling EXCEPT ![SubsamplingOf(item)] = @ \cup {name}]
                       ELSE by_subsampling

Add(kind, name, item) ==
  /\ folder = 0
  /\ item \in ItemsOf[kind]
  /\ Put(kind, name, item)
  /\ UNCHANGED <<tree, folder, listed, todo, complete, crashed>>

(* load_configurations of a tree, up to its first folder.                  *)
StartLoad ==
  /\ folder = 0
  /\ tree' \in Trees
  /\ folder' = 1
  /\ listed' = FALSE
  /\ complete' = FALSE
  /\ UNCHANGED <<store, by_subsampling, todo, crashed>>

Kind == Folders[folder]
Files == {name \in Names : tree[Kind][name] # Missing}

(* An exception nothing here catches: the rest of the load is given up.    *)
Throw == folder' = 0 /\ todo' = {} /\ listed' = FALSE

ListFolder ==
  /\ folder # 0
  /\ ~ listed
  /\ \/ /\ \A name \in Files : tree[Kind][name] # Error("dangling link")
        /\ todo' = Files
        /\ listed' = TRUE
        /\ UNCHANGED folder
     \/ /\ \E name \in Files : tree[Kind][name] = Error("dangling link")
        /\ Throw
  /\ UNCHANGED <<store, by_subsampling, tree, complete, crashed>>

(* readdir returns the files in no particular order.                       *)
LoadFile(name) ==
  /\ folder # 0
  /\ name \in todo
  /\ tree[Kind][name] \in Items
  /\ Put(Kind, name, tree[Kind][name])
  /\ todo' = todo \ {name}
  /\ UNCHANGED <<tree, folder, listed, complete, crashed>>

(* Which errors the loop over the files of a folder catches.               *)
Caught(kind) == IF kind = "px_fmt" THEN {Error("parse error"), Error("invalid")} ELSE {Error("parse error")}

(* An error caught around the loop instead of in it.                       *)
SkipRest(name) ==
  /\ folder # 0
  /\ name \in todo
  /\ tree[Kind][name] \in Caught(Kind)
  /\ todo' = {}
  /\ UNCHANGED <<store, by_subsampling, tree, folder, listed, complete, crashed>>

SkipFile(name) ==
  /\ folder # 0
  /\ name \in todo
  /\ tree[Kind][name] \in Caught(Kind)
  /\ todo' = todo \ {name}
  /\ UNCHANGED <<store, by_subsampling, tree, folder, listed, complete, crashed>>

FailOnFile(name) ==
  /\ folder # 0
  /\ name \in todo
  /\ tree[Kind][name] \in Errors \ (Caught(Kind) \cup FatalErrors)
  /\ Throw
  /\ UNCHANGED <<store, by_subsampling, tree, complete, crashed>>

(* A file that does not only fail but ends the process.                    *)
CrashOnFile(name) ==
  /\ folder # 0
  /\ name \in todo
  /\ tree[Kind][name] \in FatalErrors
  /\ crashed' = TRUE
  /\ UNCHANGED <<store, by_subsampling, tree, folder, listed, todo, complete>>

(* The folder after this one, 0 after the last.                            *)
FolderAfter == IF folder < Len(Folders) THEN folder + 1 ELSE 0

NextFolder ==
  /\ folder # 0
  /\ listed
  /\ todo = {}
  /\ folder' = FolderAfter
  /\ complete' = (folder = Len(Folders))
  /\ listed' = FALSE
  /\ UNCHANGED <<store, by_subsampling, tree, todo, crashed>>

HandleFile(name) == LoadFile(name) \/ SkipFile(name) \/ FailOnFile(name) \/ CrashOnFile(name)
LoadStep == ~ crashed /\ (ListFolder \/ (\E name \in Names : HandleFile(name)) \/ NextFolder)

Next ==
  \/ ~ crashed /\ \E kind \in Kinds, name \in Names, item \in Items : Add(kind, name, item)
  \/ ~ crashed /\ StartLoad
  \/ LoadStep
  \/ crashed /\ UNCHANGED vars

Spec == Init /\ [][Next]_vars

-----------------------------------------------------------------------------
TypeOK ==
  /\ store \in Stores
  /\ by_subsampling \in Indexes
  /\ tree \in AllTrees
  /\ folder \in 0 .. Len(Folders)
  /\ listed \in BOOLEAN
  /\ todo \in SUBSET Names
  /\ complete \in BOOLEAN
  /\ crashed \in BOOLEAN

Sitings == store["chroma_siting"]

(* get_chroma_sitings(subsampling) leaves no siting of it out ...          *)
IndexComplete ==
  \A name \in Names : Sitings[name] # Missing => name \in by_subsampling[SubsamplingOf(Sitings[name])]

(* ... and each name it returns is one get_chroma_siting(name) knows: the  *)
(* callers pass the one to the other without looking.                      *)
IndexNamesResolve ==
  \A s \in Subsamplings : \A name \in by_subsampling[s] : Sitings[name] # Missing

(* The index kept beside the map misses none of its sitings and has none   *)
(* of its own, whatever was added or loaded, refused or broken off.  A     *)
(* name may be listed besides under the subsampling of a siting that was   *)
(* refused, for add indexes it whether or not emplace took it; so the two  *)
(* need not be the same, whatever get_chroma_sitings promises.             *)
IndexUsable == IndexComplete /\ IndexNamesResolve

(* A load that went to its end has an item for every file that holds one:  *)
(* files that do not parse cost no others.                                 *)
CompleteLoadMissesNothing ==
  complete => \A kind \in Kinds, name \in Names : tree[kind][name] \in Items => store[kind][name] # Missing

(* What makes it so: the folders before this one are done, and of this one *)
(* the files still to load; and a load under way is not complete.          *)
FolderDone(i) == \A name \in Names : tree[Folders[i]][name] \in Items => store[Folders[i]][name] # Missing
FolderUnderWay ==
  \A name \in Names : tree[Kind][name] \in Items => name \in todo \/ store[Kind][name] # Missing
LoadProgress ==
  /\ complete => folder = 0 /\ \A i \in DOMAIN Folders : FolderDone(i)
  /\ folder # 0 => \A i \in 1 .. folder - 1 : FolderDone(i)
  /\ (folder # 0 /\ listed) => FolderUnderWay

=============================================================================
