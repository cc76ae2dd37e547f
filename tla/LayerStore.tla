----------------------------- MODULE LayerStore -----------------------------
(***************************************************************************)
(* layer/layer_store.go: the read-only layers of images, each with a count *)
(* of its users, and the read-write layers (mounts) of containers on top.  *)
(* A layer is deleted, and its parent released, when its count reaches     *)
(* zero.  Calls run concurrently: layerL protects the layers and their     *)
(* counts, and is released while a driver works; the locker of names keeps *)
(* two calls from the same mount.                                          *)
(*                                                                         *)
(* The disk holds a directory of metadata for each committed layer, one    *)
(* for each mount, and the driver's own data; the daemon may die at any    *)
(* step, and the next one loads the store from the disk.                   *)
(*                                                                         *)
(* A layer stands for its roLayer and for its cacheID, which is fresh for  *)
(* each registration, so that a layer registered again is another one.     *)
(* Calls that fail before they have changed anything are not steps.        *)
(* Renaming a directory is assumed to succeed.                             *)
(***************************************************************************)
EXTENDS Integers, FiniteSets

CONSTANTS Procs,     \* goroutines
          Chains,    \* chain IDs
          Parent,    \* the parent of each, or None
          Layers,    \* roLayers, each registered once
          Names,     \* mounts
          Refs,      \* references handed out to callers, each once
          None,
          NoMount,
          MaxCrashes

ASSUME LayerStoreAssumption ==
    /\ Parent \in [Chains -> Chains \cup {None}]
    /\ None \notin Chains \cup Layers \cup Procs \cup Names \cup Refs
    /\ NoMount \notin Chains \cup Layers \cup {None}
    /\ Procs \cap Layers = {} /\ Procs \cap Names = {} /\ Procs \cap Refs = {}
    /\ Layers \cap Names = {} /\ Layers \cap Refs = {} /\ Names \cap Refs = {}
    /\ IsFiniteSet(Procs) /\ IsFiniteSet(Layers) /\ IsFiniteSet(Names) /\ IsFiniteSet(Refs)
    /\ MaxCrashes \in Nat

VARIABLES
    layerMap,  \* chain ID -> layer
    chain,     \* roLayer.chainID
    parent,    \* roLayer.parent
    count,     \* roLayer.referenceCount
    refs,      \* roLayer.references
    mparent,   \* the parent of each mount of ls.mounts, or NoMount
    mrefs,     \* mountedLayer.references
    refOf,     \* what a reference is a reference to
    layerL,    \* who holds layerL across steps
    lock,      \* the locker of names
    \* The disk:
    disk,      \* the committed layer of each chain ID
    removing,  \* layers whose directory was renamed to ...-removing
    driver,    \* the layers the driver has
    mdisk,     \* the recorded parent of each mount, or NoMount
    rw,        \* the driver's directories of each mount: none, made, or torn by a removal
    \* The call each goroutine is in:
    pc, want, par, new, rel, name, ref,
    \* For the properties:
    st,        \* how far each layer has come
    idle,      \* loaded layers and mounts nobody has asked for since
    crashes

mem == <<layerMap, parent, count, refs, mparent, mrefs, refOf>>
durable == <<disk, removing, driver, mdisk, rw>>
locks == <<layerL, lock>>
call == <<pc, want, par, new, rel, name, ref>>
vars == <<mem, chain, durable, locks, call, st, idle, crashes>>

Init ==
    /\ layerMap = [c \in Chains |-> None]
    /\ chain = [l \in Layers |-> None]
    /\ parent = [l \in Layers |-> None]
    /\ count = [l \in Layers |-> 0]
    /\ refs = [l \in Layers |-> {}]
    /\ mparent = [n \in Names |-> NoMount]
    /\ mrefs = [n \in Names |-> {}]
    /\ refOf = [r \in Refs |-> None]
    /\ layerL = None
    /\ lock = [n \in Names |-> None]
    /\ disk = [c \in Chains |-> None]
    /\ removing = {}
    /\ driver = {}
    /\ mdisk = [n \in Names |-> NoMount]
    /\ rw = [n \in Names |-> "none"]
    /\ pc = [g \in Procs |-> "idle"]
    /\ want = [g \in Procs |-> None]
    /\ par = [g \in Procs |-> None]
    /\ new = [g \in Procs |-> None]
    /\ rel = [g \in Procs |-> None]
    /\ name = [g \in Procs |-> None]
    /\ ref = [g \in Procs |-> None]
    /\ st = [l \in Layers |-> "new"]
    /\ idle = {}
    /\ crashes = 0

Goto(g, label) == pc' = [pc EXCEPT ![g] = label]

\* The end of a call, with the deferred Unlock of the name it holds.
Returns(g) ==
    /\ pc' = [pc EXCEPT ![g] = "idle"]
    /\ want' = [want EXCEPT ![g] = None]
    /\ par' = [par EXCEPT ![g] = None]
    /\ new' = [new EXCEPT ![g] = None]
    /\ rel' = [rel EXCEPT ![g] = None]
    /\ name' = [name EXCEPT ![g] = None]
    /\ ref' = [ref EXCEPT ![g] = None]
    /\ lock' = [n \in Names |-> IF lock[n] = g THEN None ELSE lock[n]]
-----------------------------------------------------------------------------
(***************************************************************************)
(* Get, and the counting of users.                                         *)
(***************************************************************************)
\* getWithoutLock, of a layer that exists.
Retain(l) ==
    /\ count' = [count EXCEPT ![l] = @ + 1]
    /\ idle' = idle \ {l}

\* getReference
NewRef(l, r) ==
    /\ refOf[r] = None
    /\ refOf' = [refOf EXCEPT ![r] = l]
    /\ refs' = [refs EXCEPT ![l] = @ \cup {r}]

Get(g, c, r) ==
    /\ pc[g] = "idle" /\ layerL = None
    /\ layerMap[c] # None
    /\ Retain(layerMap[c])
    /\ NewRef(layerMap[c], r)
    /\ UNCHANGED <<layerMap, chain, parent, mparent, mrefs, locks, durable, call, st, crashes>>

(***************************************************************************)
(* releaseLayer, under layerL: one step for each turn of its loop, and one *)
(* for the driver's part of deleteLayer.  The first turn deletes a layer   *)
(* nobody uses from the map and renames its directory.                     *)
(***************************************************************************)
\* Mutant: a layer is deleted while it has one user left.
ReleaseLayerEarly(g) ==
    LET l == rel[g] IN
    /\ pc[g] = "release"
    /\ count' = [count EXCEPT ![l] = @ - 1]
    /\ IF count[l] > 2
         THEN /\ Returns(g) /\ layerL' = None
              /\ UNCHANGED <<layerMap, disk, removing, st>>
         ELSE /\ layerMap' = [layerMap EXCEPT ![chain[l]] = None]
              /\ disk' = [disk EXCEPT ![chain[l]] = None]
              /\ removing' = removing \cup {l}
              /\ st' = [st EXCEPT ![l] = "deleting"]
              /\ Goto(g, "remove")
              /\ UNCHANGED <<layerL, lock, want, par, new, rel, name, ref>>
    /\ UNCHANGED <<chain, parent, refs, mparent, mrefs, refOf, driver, mdisk, rw, idle, crashes>>

\* Mutant: the directory keeps its name until the driver's part is done.
ReleaseLayerUnmarked(g) ==
    LET l == rel[g] IN
    /\ pc[g] = "release"
    /\ count' = [count EXCEPT ![l] = @ - 1]
    /\ IF count[l] # 1
         THEN /\ Returns(g) /\ layerL' = None
              /\ UNCHANGED <<layerMap, st>>
         ELSE /\ layerMap' = [layerMap EXCEPT ![chain[l]] = None]
              /\ st' = [st EXCEPT ![l] = "deleting"]
              /\ Goto(g, "remove")
              /\ UNCHANGED <<layerL, lock, want, par, new, rel, name, ref>>
    /\ UNCHANGED <<chain, parent, refs, mparent, mrefs, refOf, durable, idle, crashes>>

ReleaseLayer(g) ==
    LET l == rel[g] IN
    /\ pc[g] = "release"
    /\ count' = [count EXCEPT ![l] = @ - 1]
    /\ IF count[l] # 1
         THEN /\ Returns(g) /\ layerL' = None
              /\ UNCHANGED <<layerMap, disk, removing, st>>
         ELSE /\ layerMap' = [layerMap EXCEPT ![chain[l]] = None]
              /\ disk' = [disk EXCEPT ![chain[l]] = None]
              /\ removing' = removing \cup {l}
              /\ st' = [st EXCEPT ![l] = "deleting"]
              /\ Goto(g, "remove")
              /\ UNCHANGED <<layerL, lock, want, par, new, rel, name, ref>>
    /\ UNCHANGED <<chain, parent, refs, mparent, mrefs, refOf, driver, mdisk, rw, idle, crashes>>

(***************************************************************************)
(* deleteLayer succeeds, and the loop goes on with the parent.  RemoveAll  *)
(* is given the name the directory had before it was renamed: the renamed  *)
(* one stays.                                                              *)
(***************************************************************************)
DeleteLayer(g) ==
    LET l == rel[g] IN
    /\ pc[g] = "remove"
    /\ driver' = driver \ {l}
    /\ st' = [st EXCEPT ![l] = "gone"]
    /\ IF parent[l] = None
         THEN Returns(g) /\ layerL' = None
         ELSE /\ rel' = [rel EXCEPT ![g] = parent[l]]
              /\ Goto(g, "release")
              /\ UNCHANGED <<layerL, lock, want, par, new, name, ref>>
    /\ UNCHANGED <<mem, chain, disk, removing, mdisk, rw, idle, crashes>>

\* deleteLayer fails, in the driver or after it: the parent keeps its count.
DeleteLayerFails(g) ==
    LET l == rel[g] IN
    /\ pc[g] = "remove"
    /\ driver' \in {driver, driver \ {l}}
    /\ st' = [st EXCEPT ![l] = "stuck"]
    /\ Returns(g) /\ layerL' = None
    /\ UNCHANGED <<mem, chain, disk, removing, mdisk, rw, idle, crashes>>

\* Mutant: the parent is not released.
DropNothing(g) ==
    /\ pc[g] = "drop"
    /\ Returns(g)
    /\ UNCHANGED <<mem, chain, durable, layerL, st, idle, crashes>>

\* The deferred release of the parent, when a call fails (or unmounts).
Drop(g) ==
    /\ pc[g] = "drop"
    /\ IF par[g] = None
         THEN Returns(g) /\ UNCHANGED layerL
         ELSE /\ layerL = None /\ layerL' = g
              /\ rel' = [rel EXCEPT ![g] = par[g]]
              /\ par' = [par EXCEPT ![g] = None]
              /\ Goto(g, "release")
              /\ UNCHANGED <<lock, want, new, name, ref>>
    /\ UNCHANGED <<mem, chain, durable, st, idle, crashes>>

HasReference(l, r) == r \in refs[l]

\* Release, of a reference handed out before, perhaps released already.
Release(g, r) ==
    /\ pc[g] = "idle" /\ layerL = None
    /\ refOf[r] \in Layers
    /\ LET l == layerMap[chain[refOf[r]]] IN
       /\ l # None /\ HasReference(l, r)
       /\ refs' = [refs EXCEPT ![l] = @ \ {r}]
       /\ rel' = [rel EXCEPT ![g] = l]
    /\ layerL' = g
    /\ Goto(g, "release")
    /\ UNCHANGED <<layerMap, parent, count, mparent, mrefs, refOf, chain, lock, durable,
                   want, par, new, name, ref, st, idle, crashes>>
-----------------------------------------------------------------------------
(***************************************************************************)
(* registerWithDescriptor                                                  *)
(***************************************************************************)
Register(g, c) ==
    /\ pc[g] = "idle"
    /\ IF Parent[c] = None
         THEN UNCHANGED <<count, idle, par>>
         ELSE /\ layerL = None
              /\ layerMap[Parent[c]] # None
              /\ Retain(layerMap[Parent[c]])
              /\ par' = [par EXCEPT ![g] = layerMap[Parent[c]]]
    /\ want' = [want EXCEPT ![g] = c]
    /\ Goto(g, "create")
    /\ UNCHANGED <<layerMap, parent, refs, mparent, mrefs, refOf, chain, locks, durable,
                   new, rel, name, ref, st, crashes>>

\* Too many layers, or the driver's Create fails.
CreateFails(g) ==
    /\ pc[g] = "create"
    /\ Goto(g, "drop")
    /\ UNCHANGED <<mem, chain, locks, durable, want, par, new, rel, name, ref, st, idle, crashes>>

\* The driver creates a layer; StartTransaction may then fail.
Create(g, l) ==
    /\ pc[g] = "create"
    /\ st[l] = "new"
    /\ driver' = driver \cup {l}
    /\ chain' = [chain EXCEPT ![l] = want[g]]
    /\ \/ /\ parent' = [parent EXCEPT ![l] = par[g]]
          /\ count' = [count EXCEPT ![l] = 1]
          /\ st' = [st EXCEPT ![l] = "building"]
          /\ new' = [new EXCEPT ![g] = l]
          /\ Goto(g, "apply")
       \/ /\ st' = [st EXCEPT ![l] = "abandoned"]
          /\ Goto(g, "drop")
          /\ UNCHANGED <<parent, count, new>>
    /\ UNCHANGED <<layerMap, refs, mparent, mrefs, refOf, locks, disk, removing, mdisk, rw,
                   want, par, rel, name, ref, idle, crashes>>

\* applyTar, storeLayer or Commit fails.
ApplyFails(g) ==
    /\ pc[g] = "apply"
    /\ Goto(g, "cleanup")
    /\ UNCHANGED <<mem, chain, locks, durable, want, par, new, rel, name, ref, st, idle, crashes>>

\* Somebody else has registered the same chain ID: that one is returned.
Exists(g, r) ==
    /\ pc[g] = "apply" /\ layerL = None
    /\ layerMap[want[g]] # None
    /\ Retain(layerMap[want[g]])
    /\ NewRef(layerMap[want[g]], r)
    /\ Goto(g, "cleanup")
    /\ UNCHANGED <<layerMap, parent, mparent, mrefs, chain, locks, durable,
                   want, par, new, rel, name, ref, st, crashes>>

\* Mutant: the parent is released although the layer was committed.
CommitDropsParent(g, r) ==
    LET l == new[g] IN
    /\ pc[g] = "apply" /\ layerL = None
    /\ layerMap[want[g]] = None
    /\ disk' = [disk EXCEPT ![want[g]] = l]
    /\ layerMap' = [layerMap EXCEPT ![want[g]] = l]
    /\ NewRef(l, r)
    /\ st' = [st EXCEPT ![l] = "stored"]
    /\ new' = [new EXCEPT ![g] = None]
    /\ Goto(g, "drop")
    /\ UNCHANGED <<parent, count, mparent, mrefs, chain, locks, removing, driver, mdisk, rw,
                   want, par, rel, name, ref, idle, crashes>>

\* Committed and entered in the map, in one section under layerL.
Commit(g, r) ==
    LET l == new[g] IN
    /\ pc[g] = "apply" /\ layerL = None
    /\ layerMap[want[g]] = None
    /\ disk' = [disk EXCEPT ![want[g]] = l]
    /\ layerMap' = [layerMap EXCEPT ![want[g]] = l]
    /\ NewRef(l, r)
    /\ st' = [st EXCEPT ![l] = "stored"]
    /\ Returns(g)
    /\ UNCHANGED <<parent, count, mparent, mrefs, chain, layerL, removing, driver, mdisk, rw, idle, crashes>>

\* The deferred clean-up: driver.Remove, whose error is only logged.
Cleanup(g) ==
    LET l == new[g] IN
    /\ pc[g] = "cleanup"
    /\ driver' \in {driver, driver \ {l}}
    /\ st' = [st EXCEPT ![l] = "abandoned"]
    /\ count' = [count EXCEPT ![l] = 0]
    /\ new' = [new EXCEPT ![g] = None]
    /\ Goto(g, "drop")
    /\ UNCHANGED <<layerMap, parent, refs, mparent, mrefs, refOf, chain, locks,
                   disk, removing, mdisk, rw, want, par, rel, name, ref, idle, crashes>>
-----------------------------------------------------------------------------
(***************************************************************************)
(* The mounts of containers.                                               *)
(***************************************************************************)
\* CreateRWLayer, up to the parent's retaining.
CreateRWLayer(g, n, c) ==
    /\ pc[g] = "idle" /\ lock[n] = None /\ layerL = None
    /\ mparent[n] = NoMount
    /\ layerMap[c] # None
    /\ Retain(layerMap[c])
    /\ lock' = [lock EXCEPT ![n] = g]
    /\ name' = [name EXCEPT ![g] = n]
    /\ par' = [par EXCEPT ![g] = layerMap[c]]
    /\ Goto(g, "mount")
    /\ UNCHANGED <<layerMap, parent, refs, mparent, mrefs, refOf, chain, layerL, durable,
                   want, new, rel, ref, st, crashes>>

\* The driver's CreateReadWrite, for the init layer or the mount, fails, or saveMount does.
MountFails(g) ==
    /\ pc[g] \in {"mount", "made", "save"}
    /\ Goto(g, "drop")
    /\ UNCHANGED <<mem, chain, locks, durable, want, par, new, rel, name, ref, st, idle, crashes>>

\* initMount and CreateReadWrite: the driver makes the directories of the mount.
CreateReadWrite(g) ==
    /\ pc[g] = "mount"
    /\ rw' = [rw EXCEPT ![name[g]] = "made"]
    /\ Goto(g, "made")
    /\ UNCHANGED <<mem, chain, locks, disk, removing, driver, mdisk, want, par, new, rel, name, ref, st,
                   idle, crashes>>

\* saveMount: SetMountID and SetInitID; the parent is written next.
SaveMountID(g) ==
    /\ pc[g] = "made"
    /\ mdisk' = [mdisk EXCEPT ![name[g]] = None]
    /\ Goto(g, "save")
    /\ UNCHANGED <<mem, chain, locks, disk, removing, driver, rw, want, par, new, rel, name, ref, st,
                   idle, crashes>>

\* saveMount: SetMountParent and the map; then getReference.
SaveMount(g, r) ==
    LET n == name[g] IN
    /\ pc[g] = "save"
    /\ refOf[r] = None
    /\ mdisk' = [mdisk EXCEPT ![n] = chain[par[g]]]
    /\ mparent' = [mparent EXCEPT ![n] = par[g]]
    /\ mrefs' = [mrefs EXCEPT ![n] = {r}]
    /\ refOf' = [refOf EXCEPT ![r] = n]
    /\ Returns(g)
    /\ UNCHANGED <<layerMap, parent, count, refs, chain, layerL, disk, removing, driver, rw, st, idle, crashes>>

GetRWLayer(g, n, r) ==
    /\ pc[g] = "idle" /\ lock[n] = None
    /\ mparent[n] # NoMount
    /\ refOf[r] = None
    /\ refOf' = [refOf EXCEPT ![r] = n]
    /\ mrefs' = [mrefs EXCEPT ![n] = @ \cup {r}]
    /\ idle' = idle \ {n}
    /\ UNCHANGED <<layerMap, parent, count, refs, mparent, chain, locks, durable, call, st, crashes>>

\* ReleaseRWLayer: the reference goes; the last one starts the removal.
ReleaseRWLayer(g, r) ==
    LET n == refOf[r] IN
    /\ pc[g] = "idle"
    /\ n \in Names /\ lock[n] = None
    /\ mparent[n] # NoMount /\ r \in mrefs[n]
    /\ mrefs' = [mrefs EXCEPT ![n] = @ \ {r}]
    /\ IF mrefs[n] # {r}
         THEN UNCHANGED <<lock, name, ref, pc>>
         ELSE /\ lock' = [lock EXCEPT ![n] = g]
              /\ name' = [name EXCEPT ![g] = n]
              /\ ref' = [ref EXCEPT ![g] = r]
              /\ Goto(g, "unmount")
    /\ UNCHANGED <<layerMap, parent, count, refs, mparent, refOf, chain, layerL, durable,
                   want, par, new, rel, st, idle, crashes>>

\* The driver's Remove, of the mount and of its init layer.
RemoveRW(g) ==
    /\ pc[g] = "unmount"
    /\ rw' = [rw EXCEPT ![name[g]] = "torn"]
    /\ Goto(g, "unmounted")
    /\ UNCHANGED <<mem, chain, locks, disk, removing, driver, mdisk, want, par, new, rel, name, ref, st,
                   idle, crashes>>

(***************************************************************************)
(* The driver refuses, perhaps after it removed the first of the two, or   *)
(* RemoveMount does: retakeReference.                                      *)
(***************************************************************************)
UnmountFails(g) ==
    /\ pc[g] \in {"unmount", "unmounted"}
    /\ rw' \in {rw, [rw EXCEPT ![name[g]] = "torn"]}
    /\ mrefs' = [mrefs EXCEPT ![name[g]] = @ \cup {ref[g]}]
    /\ Returns(g)
    /\ UNCHANGED <<layerMap, parent, count, refs, mparent, refOf, chain, layerL, disk, removing, driver,
                   mdisk, st, idle, crashes>>

\* The mount is removed from the disk and the map; its parent is released next.
Unmount(g) ==
    LET n == name[g] IN
    /\ pc[g] = "unmounted"
    /\ mdisk' = [mdisk EXCEPT ![n] = NoMount]
    /\ rw' = [rw EXCEPT ![n] = "none"]
    /\ mparent' = [mparent EXCEPT ![n] = NoMount]
    /\ par' = [par EXCEPT ![g] = mparent[n]]
    /\ Goto(g, "drop")
    /\ UNCHANGED <<layerMap, parent, count, refs, mrefs, refOf, chain, locks, disk, removing, driver,
                   want, new, rel, name, ref, st, idle, crashes>>
-----------------------------------------------------------------------------
(***************************************************************************)
(* Store.Cleanup, at shutdown: the driver removes the orphans it can.      *)
(* Their directories stay: store.Remove compares their names, which begin  *)
(* with the hexadecimal digits, with the digest's string, which does not.  *)
(***************************************************************************)
RemoveOrphan(l) ==
    /\ l \in removing
    /\ driver' = driver \ {l}
    /\ UNCHANGED <<mem, chain, disk, removing, mdisk, rw, locks, call, st, idle, crashes>>

\* The layer a chain ID read from the disk is loaded as.
Load(c) == IF c = None THEN None ELSE disk[c]

OnDisk(l) == chain[l] # None /\ disk[chain[l]] = l

\* What newStoreFromGraphDriver counts: the children and the mounts on the disk.
LoadedUsers(l) ==
    {k \in Layers : OnDisk(k) /\ Load(Parent[chain[k]]) = l}
    \cup {n \in Names : mdisk[n] # NoMount /\ Load(mdisk[n]) = l}

(***************************************************************************)
(* The daemon dies, and the next one loads the store.  A layer or a mount  *)
(* whose parent is not on the disk would not be loaded: CrashConsistent    *)
(* says that there is none.                                                *)
(***************************************************************************)
Crash ==
    /\ crashes < MaxCrashes
    /\ crashes' = crashes + 1
    /\ layerMap' = disk
    /\ parent' = [l \in Layers |-> IF OnDisk(l) THEN Load(Parent[chain[l]]) ELSE None]
    /\ count' = [l \in Layers |-> IF OnDisk(l) THEN Cardinality(LoadedUsers(l)) ELSE 0]
    /\ refs' = [l \in Layers |-> {}]
    /\ mparent' = [n \in Names |-> IF mdisk[n] = NoMount THEN NoMount ELSE Load(mdisk[n])]
    /\ mrefs' = [n \in Names |-> {}]
    /\ refOf' = [r \in Refs |-> None]
    /\ layerL' = None
    /\ lock' = [n \in Names |-> None]
    /\ pc' = [g \in Procs |-> "idle"]
    /\ want' = [g \in Procs |-> None]
    /\ par' = [g \in Procs |-> None]
    /\ new' = [g \in Procs |-> None]
    /\ rel' = [g \in Procs |-> None]
    /\ name' = [g \in Procs |-> None]
    /\ ref' = [g \in Procs |-> None]
    /\ st' = [l \in Layers |-> CASE st[l] = "building" -> "abandoned"
                               [] st[l] \in {"deleting", "stuck"} -> "gone"
                               [] OTHER -> st[l]]
    /\ idle' = {l \in Layers : OnDisk(l)} \cup {n \in Names : mdisk[n] # NoMount}
    /\ UNCHANGED <<chain, durable>>

Next ==
    \/ \E g \in Procs :
         \/ \E c \in Chains, r \in Refs : Get(g, c, r)
         \/ \E c \in Chains : Register(g, c)
         \/ \E l \in Layers : Create(g, l)
         \/ \E r \in Refs : Release(g, r) \/ Exists(g, r) \/ Commit(g, r) \/ SaveMount(g, r) \/ ReleaseRWLayer(g, r)
         \/ ReleaseLayer(g) \/ DeleteLayer(g) \/ DeleteLayerFails(g) \/ Drop(g)
         \/ CreateFails(g) \/ ApplyFails(g) \/ Cleanup(g)
         \/ \E n \in Names, c \in Chains : CreateRWLayer(g, n, c)
         \/ \E n \in Names, r \in Refs : GetRWLayer(g, n, r)
         \/ MountFails(g) \/ CreateReadWrite(g) \/ SaveMountID(g)
         \/ RemoveRW(g) \/ UnmountFails(g) \/ Unmount(g)
    \/ \E l \in Layers : RemoveOrphan(l)
    \/ Crash

Spec == Init /\ [][Next]_vars
-----------------------------------------------------------------------------
TypeOK ==
    /\ layerMap \in [Chains -> Layers \cup {None}]
    /\ chain \in [Layers -> Chains \cup {None}]
    /\ parent \in [Layers -> Layers \cup {None}]
    /\ count \in [Layers -> Nat]
    /\ refs \in [Layers -> SUBSET Refs]
    /\ mparent \in [Names -> Layers \cup {None, NoMount}]
    /\ mrefs \in [Names -> SUBSET Refs]
    /\ refOf \in [Refs -> Layers \cup Names \cup {None}]
    /\ layerL \in Procs \cup {None}
    /\ lock \in [Names -> Procs \cup {None}]
    /\ disk \in [Chains -> Layers \cup {None}]
    /\ removing \in SUBSET Layers
    /\ driver \in SUBSET Layers
    /\ mdisk \in [Names -> Chains \cup {None, NoMount}]
    /\ rw \in [Names -> {"none", "made", "torn"}]
    /\ pc \in [Procs -> {"idle", "create", "apply", "cleanup", "drop", "release", "remove",
                         "mount", "made", "save", "unmount", "unmounted"}]
    /\ want \in [Procs -> Chains \cup {None}]
    /\ par \in [Procs -> Layers \cup {None}]
    /\ new \in [Procs -> Layers \cup {None}]
    /\ rel \in [Procs -> Layers \cup {None}]
    /\ name \in [Procs -> Names \cup {None}]
    /\ ref \in [Procs -> Refs \cup {None}]
    /\ st \in [Layers -> {"new", "building", "stored", "deleting", "stuck", "gone", "abandoned"}]
    /\ idle \in SUBSET (Layers \cup Names)
    /\ crashes \in 0..MaxCrashes

\* Who relies on a layer: references, children, mounts, and calls in progress.
Users(l) ==
    refs[l]
    \cup {k \in Layers : st[k] \in {"stored", "deleting", "stuck"} /\ parent[k] = l}
    \cup {n \in Names : mparent[n] = l}
    \cup {g \in Procs : par[g] = l \/ new[g] = l \/ (pc[g] = "release" /\ rel[g] = l)}

(***************************************************************************)
(* The count of a layer is the number of its users, through all the calls, *)
(* their failures and their clean-ups, which count up and down in          *)
(* different sections, and after the store has been loaded.                *)
(***************************************************************************)
CountExact == \A l \in Layers : count[l] = Cardinality(Users(l))

(***************************************************************************)
(* releaseLayer does not panic: the layer it releases is retained, and has *)
(* no references when its last user is gone.                               *)
(***************************************************************************)
NoPanic ==
    \A g \in Procs : pc[g] = "release" =>
        /\ count[rel[g]] > 0
        /\ count[rel[g]] = 1 => refs[rel[g]] = {}

(***************************************************************************)
(* A layer somebody relies on is the one the map holds for its chain ID,   *)
(* and the driver has it: no interleaving of a release with Get, Register  *)
(* or CreateRWLayer deletes a layer under its users.  (A layer under       *)
(* construction is not in the map yet.)                                    *)
(***************************************************************************)
InUseExists ==
    \A l \in Layers : Users(l) # {} =>
        /\ l \in driver
        /\ st[l] # "building" => chain[l] # None /\ layerMap[chain[l]] = l

(***************************************************************************)
(* Nothing is left in the map that nobody uses, but what was loaded and    *)
(* not asked for since.                                                    *)
(***************************************************************************)
NoLeak == \A c \in Chains : layerMap[c] # None => Users(layerMap[c]) # {} \/ layerMap[c] \in idle

(***************************************************************************)
(* A mount has an owner, who can release it: somebody with a reference to  *)
(* it, or a call that is removing it and takes the reference back when the *)
(* driver refuses.  (Or it was loaded, and its container has not asked.)   *)
(***************************************************************************)
MountOwned ==
    \A n \in Names : mparent[n] # NoMount =>
        mrefs[n] # {} \/ n \in idle
        \/ \E g \in Procs : pc[g] \in {"unmount", "unmounted"} /\ name[g] = n

(***************************************************************************)
(* At every step, what is on the disk is what a daemon that dies there     *)
(* needs: a committed layer has its data and its parent is committed, so   *)
(* is the parent recorded for a mount, and the directories of a recorded   *)
(* mount were made, and are there until a removal has begun on them.       *)
(***************************************************************************)
CrashConsistent ==
    /\ \A c \in Chains : disk[c] # None =>
         /\ disk[c] \in driver
         /\ Parent[c] # None => disk[Parent[c]] # None
    /\ \A n \in Names : /\ mdisk[n] \in Chains => disk[mdisk[n]] # None
                        /\ mdisk[n] # NoMount => rw[n] # "none"

(***************************************************************************)
(* "Rename layer digest folder first so we detect orphan layer(s)": data   *)
(* of the driver that no committed layer stands for is marked, for Cleanup *)
(* to find, whatever failed and however often the daemon died.  The one    *)
(* exception is data that never was a layer's: of a registration that is   *)
(* under way, or that failed or was cut short, and left it behind for      *)
(* good.                                                                   *)
(***************************************************************************)
OrphansMarked ==
    \A l \in driver : OnDisk(l) \/ l \in removing \/ st[l] \in {"building", "abandoned"}

(***************************************************************************)
(* The reference counts are exact at every moment, so that releaseLayer    *)
(* never meets a count of zero.                                            *)
(***************************************************************************)
RefsExact == TypeOK /\ CountExact /\ NoPanic

(***************************************************************************)
(* What somebody uses is there: layers for their children, references and  *)
(* mounts, and mounts, also those that could not be removed, for those who *)
(* hold them.                                                              *)
(***************************************************************************)
UsedIsThere == InUseExists /\ MountOwned

(***************************************************************************)
(* Wherever the daemon dies, the next one finds every layer with its       *)
(* parents and files, and what is left of layers that were committed is    *)
(* marked for Cleanup.  What a registration leaves that did not come to    *)
(* its end is not.                                                         *)
(***************************************************************************)
CrashSafe == CrashConsistent /\ OrphansMarked
=============================================================================
