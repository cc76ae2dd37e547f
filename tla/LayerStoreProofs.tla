-------------------------- MODULE LayerStoreProofs --------------------------
(***************************************************************************)
(* The layer store is right for any images, any finite number of layers,   *)
(* mounts, references and goroutines, and any number of crashes.  The      *)
(* argument: the map is what the disk says; a layer in use is stored, or   *)
(* under construction by its one user; every call takes a user away from a *)
(* layer, or adds one, in the step that changes the count.                 *)
(***************************************************************************)
EXTENDS LayerStore, TLAPS, FiniteSetTheorems

\* The map is what the disk says, and has the layers that are stored.
MapOK ==
    /\ disk = layerMap
    /\ \A c \in Chains : layerMap[c] # None => chain[layerMap[c]] = c /\ st[layerMap[c]] = "stored"
    /\ \A l \in Layers : st[l] = "stored" => chain[l] \in Chains /\ layerMap[chain[l]] = l

\* Which layers the driver has, and which are marked.
FilesOK ==
    \A l \in Layers :
        /\ st[l] \in {"building", "stored"} => l \in driver
        /\ st[l] \in {"new", "building", "stored"} => l \notin removing
        /\ st[l] \in {"deleting", "stuck", "gone"} => l \in removing
        /\ st[l] = "new" => l \notin driver

\* References are to stored layers, and each is handed out once.
RefsOK ==
    /\ \A l \in Layers : \A r \in refs[l] : refOf[r] # None /\ st[l] = "stored"
    /\ \A r \in Refs : refOf[r] \in Layers => chain[refOf[r]] \in Chains

\* The layer of the parent's chain ID.
ParentOf(c) == IF Parent[c] = None THEN None ELSE layerMap[Parent[c]]

\* A layer's parent is stored, and is the one a restart would load.
ParentsOK ==
    \A k \in Layers :
        /\ st[k] \in {"stored", "deleting", "stuck"} /\ parent[k] # None => st[parent[k]] = "stored"
        /\ st[k] = "stored" => /\ parent[k] = ParentOf(chain[k])
                               /\ Parent[chain[k]] # None => parent[k] # None

\* A mount's parent is stored, and is the one a restart would load.
MountsOK ==
    \A n \in Names :
        /\ mparent[n] \in Layers => st[mparent[n]] = "stored" /\ mdisk[n] = chain[mparent[n]]
        /\ mparent[n] \in {None, NoMount} => mdisk[n] \in {None, mparent[n]}
        /\ mdisk[n] # NoMount => rw[n] # "none"

\* What each call has in hand.
CallsOK ==
    \A g \in Procs :
        /\ layerL = g <=> pc[g] \in {"release", "remove"}
        /\ pc[g] \in {"idle", "release", "remove", "unmount", "unmounted"} => par[g] = None
        /\ new[g] # None <=> pc[g] \in {"apply", "cleanup"}
        /\ par[g] # None => st[par[g]] = "stored"
        /\ new[g] # None => st[new[g]] = "building" /\ parent[new[g]] = par[g] /\ chain[new[g]] = want[g]
        /\ pc[g] \in {"create", "apply", "cleanup"} =>
              /\ want[g] \in Chains /\ par[g] = ParentOf(want[g])
              /\ Parent[want[g]] # None => par[g] # None
        /\ pc[g] = "release" => rel[g] \in Layers /\ st[rel[g]] = "stored"
        /\ pc[g] = "remove" => rel[g] \in Layers /\ st[rel[g]] = "deleting"
        /\ pc[g] \in {"mount", "made", "save", "unmount", "unmounted"} => name[g] \in Names /\ lock[name[g]] = g
        /\ pc[g] \in {"mount", "made", "save"} => mparent[name[g]] = NoMount /\ par[g] # None
        /\ pc[g] \in {"made", "save"} => rw[name[g]] # "none"
        /\ pc[g] \in {"unmount", "unmounted"} => mparent[name[g]] # NoMount /\ ref[g] \in Refs

\* A layer under construction has one builder.
NewOK == \A g, h \in Procs : new[g] # None /\ new[g] = new[h] => g = h

Shape == MapOK /\ FilesOK /\ RefsOK /\ ParentsOK /\ MountsOK /\ CallsOK /\ NewOK

IInv == TypeOK /\ Shape /\ CountExact /\ NoLeak /\ MountOwned
-----------------------------------------------------------------------------
\* The users of a layer are finitely many.
LEMMA UsersFinite ==
  ASSUME TypeOK, NEW l \in Layers
  PROVE  /\ IsFiniteSet(Users(l)) /\ Users(l) \subseteq Refs \cup Layers \cup Names \cup Procs
         /\ Cardinality(Users(l)) \in Nat
         /\ Cardinality(Users(l)) = 0 <=> Users(l) = {}
<1>1. Users(l) \subseteq Refs \cup Layers \cup Names \cup Procs
  BY DEF Users, TypeOK
<1>2. IsFiniteSet(Refs \cup Layers \cup Names \cup Procs)
  BY LayerStoreAssumption, FS_Union
<1>3. IsFiniteSet(Users(l))
  BY <1>1, <1>2, FS_Subset
<1> QED
  BY <1>1, <1>3, FS_CardinalityType, FS_EmptySet

(***************************************************************************)
(* What a step may do to the users of a layer and to its count: nothing,   *)
(* or one user more, or one less, or one in the place of another.          *)
(***************************************************************************)
Follows(l) ==
    \/ Users(l)' = Users(l) /\ count'[l] = count[l]
    \/ \E x : x \notin Users(l) /\ Users(l)' = Users(l) \cup {x} /\ count'[l] = count[l] + 1
    \/ \E x \in Users(l) : Users(l)' = Users(l) \ {x} /\ count'[l] = count[l] - 1
    \/ \E x \in Users(l) : \E y : /\ y \notin Users(l)
                                  /\ Users(l)' = (Users(l) \ {x}) \cup {y} /\ count'[l] = count[l]

\* Such steps keep the counts exact.
LEMMA CountsFollow ==
  ASSUME TypeOK, CountExact, \A l \in Layers : Follows(l)
  PROVE  CountExact'
<1> SUFFICES ASSUME NEW l \in Layers PROVE count'[l] = Cardinality(Users(l)')
  BY DEF CountExact
<1>1. IsFiniteSet(Users(l)) /\ count[l] = Cardinality(Users(l)) /\ Cardinality(Users(l)) \in Nat
  BY UsersFinite DEF CountExact
<1>2. Follows(l)
  OBVIOUS
<1>3. CASE Users(l)' = Users(l) /\ count'[l] = count[l]
  BY <1>1, <1>3
<1>4. CASE \E x : x \notin Users(l) /\ Users(l)' = Users(l) \cup {x} /\ count'[l] = count[l] + 1
  BY <1>1, <1>4, FS_AddElement
<1>5. CASE \E x \in Users(l) : Users(l)' = Users(l) \ {x} /\ count'[l] = count[l] - 1
  BY <1>1, <1>5, FS_RemoveElement
<1>6. CASE \E x \in Users(l) : \E y : /\ y \notin Users(l)
                                    /\ Users(l)' = (Users(l) \ {x}) \cup {y} /\ count'[l] = count[l]
  <2>0. PICK x \in Users(l) : \E y : /\ y \notin Users(l)
                                     /\ Users(l)' = (Users(l) \ {x}) \cup {y} /\ count'[l] = count[l]
    BY <1>6
  <2>1. PICK y : y \notin Users(l) /\ Users(l)' = (Users(l) \ {x}) \cup {y} /\ count'[l] = count[l]
    BY <2>0
  <2>2. IsFiniteSet(Users(l) \ {x}) /\ Cardinality(Users(l) \ {x}) = Cardinality(Users(l)) - 1
    BY <1>1, FS_RemoveElement
  <2>3. Cardinality((Users(l) \ {x}) \cup {y}) = Cardinality(Users(l) \ {x}) + 1
    BY <2>1, <2>2, FS_AddElement
  <2> QED
    BY <1>1, <2>1, <2>2, <2>3
<1> QED
  BY <1>2, <1>3, <1>4, <1>5, <1>6 DEF Follows

\* Get adds a reference.
LEMMA GetStep ==
  ASSUME IInv, NEW g \in Procs, NEW c \in Chains, NEW r \in Refs, Get(g, c, r)
  PROVE  IInv'
<1> USE DEF mem, durable, locks, call
<1>1. TypeOK'
  BY DEF IInv, Get, Retain, NewRef, TypeOK
<1>2. Shape'
  BY DEF IInv, Get, Retain, NewRef, TypeOK, Shape, MapOK, FilesOK, RefsOK, ParentsOK, MountsOK,
        CallsOK, NewOK, ParentOf
<1>3. layerMap[c] \in Layers /\ refOf[r] = None /\ r \notin Users(layerMap[c])
  BY LayerStoreAssumption DEF IInv, Get, NewRef, TypeOK, Shape, RefsOK, Users
<1>4. \A l \in Layers : Users(l)' = IF l = layerMap[c] THEN Users(l) \cup {r} ELSE Users(l)
  BY <1>3 DEF IInv, Get, Retain, NewRef, TypeOK, Users
<1>5. \A l \in Layers : count'[l] = IF l = layerMap[c] THEN count[l] + 1 ELSE count[l]
  BY <1>3 DEF IInv, Get, Retain, TypeOK
<1>6. \A l \in Layers : Follows(l)
  BY <1>3, <1>4, <1>5 DEF Follows
<1>7. NoLeak'
  BY <1>3, <1>4 DEF IInv, Get, Retain, TypeOK, NoLeak
<1>8. MountOwned'
  BY <1>3, LayerStoreAssumption DEF IInv, Get, Retain, TypeOK, MountOwned
<1> QED
  BY <1>1, <1>2, <1>6, <1>7, <1>8, CountsFollow DEF IInv
-----------------------------------------------------------------------------
\* The users of a layer by kind.
Children(l) == {k \in Layers : st[k] \in {"stored", "deleting", "stuck"} /\ parent[k] = l}
MountedOn(l) == {n \in Names : mparent[n] = l}
Callers(l) == {g \in Procs : par[g] = l \/ new[g] = l \/ (pc[g] = "release" /\ rel[g] = l)}

\* The users of a layer, now and next, are those of the four kinds.
LEMMA UsersByKind ==
  \A l : /\ Users(l) = refs[l] \cup Children(l) \cup MountedOn(l) \cup Callers(l)
         /\ Users(l)' = refs'[l] \cup Children(l)' \cup MountedOn(l)' \cup Callers(l)'
  BY DEF Users, Children, MountedOn, Callers

\* Steps that change neither the users of a layer nor its count.
LEMMA QuietStep ==
  ASSUME IInv, TypeOK', Shape', UNCHANGED <<layerMap, count, idle>>,
         \A l \in Layers : Users(l)' = Users(l), MountOwned'
  PROVE  IInv'
<1>1. \A l \in Layers : Follows(l)
  BY DEF Follows
<1>2. NoLeak'
  BY DEF IInv, TypeOK, NoLeak
<1> QED
  BY <1>1, <1>2, CountsFollow DEF IInv

\* The steps of a call that fails, or only writes a mount's ID or its directories.
LEMMA QuietSteps ==
  ASSUME IInv, NEW g \in Procs,
         CreateFails(g) \/ ApplyFails(g) \/ MountFails(g) \/ CreateReadWrite(g) \/ SaveMountID(g) \/ RemoveRW(g)
  PROVE  IInv'
<1> USE DEF mem, durable, locks, call, Goto
<1>1. TypeOK'
  BY DEF IInv, TypeOK, CreateFails, ApplyFails, MountFails, CreateReadWrite, SaveMountID, RemoveRW, Shape, CallsOK
<1>2. Shape'
  <2>1. CASE CreateFails(g)
    BY <2>1 DEF IInv, CreateFails, TypeOK, Shape, MapOK, FilesOK, RefsOK, ParentsOK, MountsOK,
          CallsOK, NewOK, ParentOf
  <2>2. CASE ApplyFails(g)
    BY <2>2 DEF IInv, ApplyFails, TypeOK, Shape, MapOK, FilesOK, RefsOK, ParentsOK, MountsOK,
          CallsOK, NewOK, ParentOf
  <2>3. CASE MountFails(g)
    BY <2>3 DEF IInv, MountFails, TypeOK, Shape, MapOK, FilesOK, RefsOK, ParentsOK, MountsOK,
          CallsOK, NewOK, ParentOf
  <2>4. CASE SaveMountID(g)
    BY <2>4, LayerStoreAssumption DEF IInv, SaveMountID, TypeOK, Shape, MapOK, FilesOK, RefsOK,
          ParentsOK, MountsOK, CallsOK, NewOK, ParentOf
  <2>5. CASE CreateReadWrite(g) \/ RemoveRW(g)
    BY <2>5, LayerStoreAssumption DEF IInv, CreateReadWrite, RemoveRW, TypeOK, Shape, MapOK, FilesOK,
          RefsOK, ParentsOK, MountsOK, CallsOK, NewOK, ParentOf
  <2> QED
    BY <2>1, <2>2, <2>3, <2>4, <2>5
<1>3. UNCHANGED <<layerMap, count, idle>>
  BY DEF CreateFails, ApplyFails, MountFails, CreateReadWrite, SaveMountID, RemoveRW
<1>4. \A k \in Layers : Users(k)' = Users(k)
  BY DEF IInv, TypeOK, CreateFails, ApplyFails, MountFails, CreateReadWrite, SaveMountID, RemoveRW, Users
<1>5. MountOwned'
  BY DEF IInv, TypeOK, CreateFails, ApplyFails, MountFails, CreateReadWrite, SaveMountID, RemoveRW, MountOwned
<1> QED
  BY <1>1, <1>2, <1>3, <1>4, <1>5, QuietStep

\* Cleanup removes what is marked.
LEMMA OrphanStep ==
  ASSUME IInv, NEW l \in Layers, RemoveOrphan(l)
  PROVE  IInv'
<1> USE DEF mem, durable, locks, call
<1>1. TypeOK'
  BY DEF IInv, TypeOK, RemoveOrphan
<1>2. Shape'
  BY DEF IInv, RemoveOrphan, TypeOK, Shape, MapOK, FilesOK, RefsOK, ParentsOK, MountsOK,
        CallsOK, NewOK, ParentOf
<1>3. UNCHANGED <<layerMap, count, idle>> /\ \A k \in Layers : Users(k)' = Users(k)
  BY DEF RemoveOrphan, Users
<1>4. MountOwned'
  BY DEF IInv, RemoveOrphan, MountOwned
<1> QED
  BY <1>1, <1>2, <1>3, <1>4, QuietStep

\* The steps of a mount's references.
LEMMA MountRefSteps ==
  ASSUME IInv, NEW g \in Procs, NEW r \in Refs,
         (\E n \in Names : GetRWLayer(g, n, r)) \/ ReleaseRWLayer(g, r) \/ UnmountFails(g)
  PROVE  IInv'
<1> USE DEF mem, durable, locks, call, Goto
<1>1. TypeOK'
  <2>1. CASE \E n \in Names : GetRWLayer(g, n, r)
    BY <2>1 DEF IInv, TypeOK, GetRWLayer
  <2>2. CASE ReleaseRWLayer(g, r)
    <3>1. CASE mrefs[refOf[r]] # {r}
      BY <2>2, <3>1 DEF IInv, TypeOK, ReleaseRWLayer
    <3>2. CASE mrefs[refOf[r]] = {r}
      <4> DEFINE n == refOf[r]
      <4>1. /\ n \in Names /\ mrefs' = [mrefs EXCEPT ![n] = @ \ {r}] /\ lock' = [lock EXCEPT ![n] = g]
            /\ name' = [name EXCEPT ![g] = n] /\ ref' = [ref EXCEPT ![g] = r]
            /\ pc' = [pc EXCEPT ![g] = "unmount"]
            /\ UNCHANGED <<layerMap, parent, count, refs, mparent, refOf, chain, layerL, durable, want, par, new,
                           rel, st, idle, crashes>>
        BY <2>2, <3>2, Zenon DEF ReleaseRWLayer
      <4> QED
        BY <4>1 DEF IInv, TypeOK
    <3> QED
      BY <3>1, <3>2
  <2>3. CASE UnmountFails(g)
    <3>1. name[g] \in Names /\ ref[g] \in Refs
      BY <2>3 DEF UnmountFails, IInv, Shape, CallsOK
    <3> QED
      BY <2>3, <3>1 DEF IInv, TypeOK, UnmountFails, Returns
  <2> QED
    BY <2>1, <2>2, <2>3
<1>2. Shape'
  <2>1. CASE \E n \in Names : GetRWLayer(g, n, r)
    BY <2>1, LayerStoreAssumption DEF IInv, GetRWLayer, TypeOK, Shape, MapOK, FilesOK, RefsOK,
          ParentsOK, MountsOK, CallsOK, NewOK, ParentOf
  <2>2. CASE ReleaseRWLayer(g, r)
    BY <2>2, LayerStoreAssumption DEF IInv, ReleaseRWLayer, TypeOK, Shape, MapOK, FilesOK,
          RefsOK, ParentsOK, MountsOK, CallsOK, NewOK, ParentOf
  <2>3. CASE UnmountFails(g)
    BY <2>3 DEF IInv, UnmountFails, Returns, TypeOK, Shape, MapOK, FilesOK, RefsOK, ParentsOK,
          MountsOK, CallsOK, NewOK, ParentOf
  <2> QED
    BY <2>1, <2>2, <2>3
<1>3. UNCHANGED <<layerMap, count>> /\ idle \cap Layers = idle' \cap Layers
  BY LayerStoreAssumption DEF GetRWLayer, ReleaseRWLayer, UnmountFails, IInv, TypeOK
<1>4. \A k \in Layers : Users(k)' = Users(k)
  <2>1. CASE \E n \in Names : GetRWLayer(g, n, r)
    BY <2>1 DEF GetRWLayer, Users
  <2>2. CASE ReleaseRWLayer(g, r)
    BY <2>2 DEF ReleaseRWLayer, Users, IInv, TypeOK
  <2>3. CASE UnmountFails(g)
    BY <2>3 DEF UnmountFails, Returns, Users, IInv, TypeOK, Shape, CallsOK
  <2> QED
    BY <2>1, <2>2, <2>3
<1>5. MountOwned'
  <2>1. CASE \E n \in Names : GetRWLayer(g, n, r)
    <3>1. PICK n \in Names : GetRWLayer(g, n, r)
      BY <2>1
    <3>2. \A m \in Names : r \in mrefs'[n] /\ (m # n => mrefs'[m] = mrefs[m] /\ (m \in idle <=> m \in idle'))
      BY <3>1 DEF IInv, TypeOK, GetRWLayer
    <3> QED
      BY <3>1, <3>2 DEF IInv, GetRWLayer, MountOwned
  <2>2. CASE ReleaseRWLayer(g, r)
    BY <2>2 DEF IInv, TypeOK, ReleaseRWLayer, MountOwned
  <2>3. CASE UnmountFails(g)
    BY <2>3, ZenonT(60) DEF IInv, TypeOK, UnmountFails, Returns, MountOwned
  <2> QED
    BY <2>1, <2>2, <2>3
<1>6. \A k \in Layers : Follows(k)
  BY <1>3, <1>4 DEF Follows
<1>7. NoLeak'
  BY <1>3, <1>4 DEF IInv, TypeOK, NoLeak
<1> QED
  BY <1>1, <1>2, <1>5, <1>6, <1>7, CountsFollow DEF IInv
-----------------------------------------------------------------------------
\* Register, CreateRWLayer and Exists find a layer in the map and retain it.
LEMMA RegisterStep ==
  ASSUME IInv, NEW g \in Procs, NEW c \in Chains, Register(g, c)
  PROVE  IInv'
<1> USE DEF mem, durable, locks, call, Goto
<1> DEFINE p == ParentOf(c)
<1>1. p \in Layers \cup {None} /\ (Parent[c] # None <=> p # None)
  BY LayerStoreAssumption DEF IInv, TypeOK, Register, ParentOf
<1>2. par' = [par EXCEPT ![g] = p] /\ par[g] = None
  BY DEF Register, ParentOf, IInv, Shape, CallsOK, TypeOK
<1>3. TypeOK'
  <2>1. CASE Parent[c] = None
    BY <1>1, <1>2, <2>1 DEF IInv, TypeOK, Register, Retain
  <2>2. CASE Parent[c] # None
    BY <1>1, <1>2, <2>2 DEF IInv, TypeOK, Register, Retain, ParentOf
  <2> QED
    BY <2>1, <2>2
<1>4. Shape'
  <2>1. CallsOK'
    <3>1. p # None => st[p] = "stored"
      BY <1>1, LayerStoreAssumption DEF IInv, Shape, MapOK, TypeOK, ParentOf
    <3>2. ParentOf(c)' = p /\ \A d \in Chains : ParentOf(d)' = ParentOf(d)
      BY DEF ParentOf, Register
    <3> QED
      BY <1>1, <1>2, <3>1, <3>2 DEF IInv, Register, TypeOK, Shape, CallsOK
  <2>2. MapOK' /\ FilesOK' /\ RefsOK' /\ ParentsOK' /\ MountsOK' /\ NewOK'
    BY DEF IInv, Register, Shape, MapOK, FilesOK, RefsOK, ParentsOK, MountsOK, NewOK, ParentOf
  <2> QED
    BY <2>1, <2>2 DEF Shape
<1>5. \A l \in Layers : g \notin Users(l)
  BY <1>2, LayerStoreAssumption DEF IInv, TypeOK, Shape, CallsOK, Register, Users
<1>6. \A l \in Layers : Users(l)' = IF l = p THEN Users(l) \cup {g} ELSE Users(l)
  <2>1. \A l \in Layers : Callers(l)' = IF l = p THEN Callers(l) \cup {g} ELSE Callers(l)
    BY <1>1, <1>2, LayerStoreAssumption DEF IInv, Register, TypeOK, Callers, Shape, CallsOK
  <2>2. \A l \in Layers : refs'[l] = refs[l] /\ Children(l)' = Children(l) /\ MountedOn(l)' = MountedOn(l)
    BY DEF Register, Children, MountedOn
  <2> QED
    BY <2>1, <2>2, UsersByKind
<1>7. \A l \in Layers : count'[l] = IF l = p THEN count[l] + 1 ELSE count[l]
  <2>1. CASE Parent[c] = None
    BY <1>1, <2>1, LayerStoreAssumption DEF Register
  <2>2. CASE Parent[c] # None
    BY <1>1, <2>2 DEF IInv, Register, Retain, TypeOK, ParentOf
  <2> QED
    BY <2>1, <2>2
<1>8. idle' = idle \ {p}
  BY <1>1, LayerStoreAssumption DEF IInv, Register, Retain, TypeOK, ParentOf
<1>9. NoLeak'
  BY <1>6, <1>8, ZenonT(60) DEF IInv, TypeOK, NoLeak, Register
<1>10. MountOwned'
  BY <1>1, <1>8, LayerStoreAssumption DEF IInv, TypeOK, MountOwned, Register
<1>11. \A l \in Layers : Follows(l)
  BY <1>5, <1>6, <1>7 DEF Follows
<1> QED
  BY <1>3, <1>4, <1>9, <1>10, <1>11, CountsFollow DEF IInv

\* registerWithDescriptor finds the chain stored: its reference is a user of that layer.
LEMMA ExistsStep ==
  ASSUME IInv, NEW g \in Procs, NEW r \in Refs, Exists(g, r)
  PROVE  IInv'
<1> USE DEF mem, durable, locks, call, Goto
<1> DEFINE e == layerMap[want[g]]
<1>1. want[g] \in Chains /\ e \in Layers /\ refOf[r] = None /\ r \notin Users(e)
  BY LayerStoreAssumption DEF IInv, Exists, NewRef, TypeOK, Shape, RefsOK, CallsOK, Users
<1>2. TypeOK'
  BY <1>1 DEF IInv, TypeOK, Exists, Retain, NewRef
<1>3. Shape'
  BY <1>1 DEF IInv, Exists, Retain, NewRef, TypeOK, Shape, MapOK, FilesOK, RefsOK, ParentsOK,
        MountsOK, CallsOK, NewOK, ParentOf
<1>4. \A l \in Layers : Users(l)' = IF l = e THEN Users(l) \cup {r} ELSE Users(l)
  BY <1>1 DEF IInv, Exists, NewRef, TypeOK, Users
<1>5. \A l \in Layers : count'[l] = IF l = e THEN count[l] + 1 ELSE count[l]
  BY <1>1 DEF IInv, Exists, Retain, TypeOK
<1>6. \A l \in Layers : Follows(l)
  BY <1>1, <1>4, <1>5 DEF Follows
<1>7. NoLeak'
  BY <1>1, <1>4 DEF IInv, Exists, Retain, TypeOK, NoLeak
<1>8. MountOwned'
  BY <1>1, LayerStoreAssumption DEF IInv, Exists, Retain, TypeOK, MountOwned
<1> QED
  BY <1>2, <1>3, <1>6, <1>7, <1>8, CountsFollow DEF IInv

\* CreateRWLayer: the call is a user of the parent it retains.
LEMMA CreateRWLayerStep ==
  ASSUME IInv, NEW g \in Procs, NEW n \in Names, NEW c \in Chains, CreateRWLayer(g, n, c)
  PROVE  IInv'
<1> USE DEF mem, durable, locks, call, Goto
<1> DEFINE p == layerMap[c]
<1>1. p \in Layers /\ par[g] = None
  BY LayerStoreAssumption DEF IInv, CreateRWLayer, TypeOK, Shape, CallsOK
<1>2. TypeOK'
  BY <1>1 DEF IInv, TypeOK, CreateRWLayer, Retain
<1>3. Shape'
  BY <1>1, LayerStoreAssumption DEF IInv, CreateRWLayer, Retain, TypeOK, Shape, MapOK, FilesOK,
        RefsOK, ParentsOK, MountsOK, CallsOK, NewOK, ParentOf
<1>4. \A l \in Layers : g \notin Users(l)
  BY <1>1, LayerStoreAssumption DEF IInv, TypeOK, Shape, CallsOK, CreateRWLayer, Users
<1>5. \A l \in Layers : Users(l)' = IF l = p THEN Users(l) \cup {g} ELSE Users(l)
  <2>1. \A l \in Layers : Callers(l)' = IF l = p THEN Callers(l) \cup {g} ELSE Callers(l)
    BY <1>1, LayerStoreAssumption DEF IInv, CreateRWLayer, TypeOK, Callers, Shape, CallsOK
  <2>2. \A l \in Layers : refs'[l] = refs[l] /\ Children(l)' = Children(l) /\ MountedOn(l)' = MountedOn(l)
    BY DEF CreateRWLayer, Children, MountedOn
  <2> QED
    BY <2>1, <2>2, UsersByKind
<1>6. \A l \in Layers : count'[l] = IF l = p THEN count[l] + 1 ELSE count[l]
  BY <1>1 DEF IInv, CreateRWLayer, Retain, TypeOK
<1>7. \A l \in Layers : Follows(l)
  BY <1>4, <1>5, <1>6 DEF Follows
<1>8. NoLeak'
  BY <1>1, <1>5 DEF IInv, CreateRWLayer, Retain, TypeOK, NoLeak
<1>9. MountOwned'
  BY <1>1, LayerStoreAssumption DEF IInv, CreateRWLayer, Retain, TypeOK, MountOwned
<1> QED
  BY <1>2, <1>3, <1>7, <1>8, <1>9, CountsFollow DEF IInv
-----------------------------------------------------------------------------
\* The driver creates a layer, which has its builder as its one user.
LEMMA CreateStep ==
  ASSUME IInv, NEW g \in Procs, NEW n \in Layers, Create(g, n)
  PROVE  IInv'
<1> USE DEF mem, durable, locks, call, Goto
<1>1. Users(n) = {} /\ count[n] = 0
  <2>1. Users(n) = {}
    BY LayerStoreAssumption
    DEF IInv, Create, TypeOK, Shape, RefsOK, ParentsOK, MountsOK, CallsOK, Users
  <2> QED
    BY <2>1, UsersFinite DEF IInv, CountExact
<1>0. want[g] \in Chains
  BY DEF IInv, Create, Shape, CallsOK
<1>2. TypeOK'
  <2>1. /\ chain' = [chain EXCEPT ![n] = want[g]] /\ driver' = driver \cup {n}
        /\ parent' \in [Layers -> Layers \cup {None}] /\ count' \in [Layers -> Nat]
        /\ new' \in [Procs -> Layers \cup {None}]
    BY DEF IInv, TypeOK, Create
  <2>3. st' \in [Layers -> {"new", "building", "stored", "deleting", "stuck", "gone", "abandoned"}]
    <3>1. st' \in {[st EXCEPT ![n] = "building"], [st EXCEPT ![n] = "abandoned"]}
      BY DEF Create
    <3> QED
      BY <3>1 DEF IInv, TypeOK
  <2>2. pc' \in [Procs -> {"idle", "create", "apply", "cleanup", "drop", "release", "remove",
                           "mount", "made", "save", "unmount", "unmounted"}]
    BY DEF IInv, TypeOK, Create
  <2> QED
    BY <1>0, <2>1, <2>2, <2>3 DEF IInv, TypeOK, Create
<1>3. CASE new' = [new EXCEPT ![g] = n] /\ st' = [st EXCEPT ![n] = "building"] /\ count' = [count EXCEPT ![n] = 1]
           /\ parent' = [parent EXCEPT ![n] = par[g]] /\ Goto(g, "apply")
  <2>1. Shape'
    <3>1. MapOK' /\ FilesOK' /\ RefsOK' /\ MountsOK'
      BY <1>0, <1>3 DEF IInv, Create, TypeOK, Shape, MapOK, FilesOK, RefsOK, MountsOK
    <3>2. ParentsOK'
      BY <1>3 DEF IInv, Create, TypeOK, Shape, ParentsOK, ParentOf
    <3>3. CallsOK' /\ NewOK'
      BY <1>3, LayerStoreAssumption DEF IInv, Create, TypeOK, Shape, CallsOK, NewOK, ParentOf
    <3> QED
      BY <3>1, <3>2, <3>3 DEF Shape
  <2>2. \A l \in Layers : Users(l)' = IF l = n THEN Users(l) \cup {g} ELSE Users(l)
    <3>1. \A l \in Layers : Callers(l)' = IF l = n THEN Callers(l) \cup {g} ELSE Callers(l)
      BY <1>3, LayerStoreAssumption DEF IInv, Create, TypeOK, Callers, Shape, CallsOK
    <3>2. \A l \in Layers : refs'[l] = refs[l] /\ Children(l)' = Children(l) /\ MountedOn(l)' = MountedOn(l)
      BY <1>3 DEF Create, Children, MountedOn, IInv, TypeOK
    <3> QED
      BY <3>1, <3>2, UsersByKind
  <2>3. \A l \in Layers : Follows(l)
    <3>1. \A l \in Layers : count'[l] = IF l = n THEN count[l] + 1 ELSE count[l]
      BY <1>1, <1>3 DEF IInv, TypeOK
    <3>2. g \notin Users(n)
      BY <1>1
    <3> QED
      BY <3>1, <3>2, <2>2 DEF Follows
  <2>4. NoLeak' /\ MountOwned'
    BY <1>3, <2>2 DEF IInv, TypeOK, Create, NoLeak, MountOwned
  <2> QED
    BY <1>2, <2>1, <2>3, <2>4, CountsFollow DEF IInv
<1>4. CASE st' = [st EXCEPT ![n] = "abandoned"] /\ Goto(g, "drop") /\ UNCHANGED <<parent, count, new>>
  <2>1. Shape'
    <3>1. MapOK' /\ FilesOK' /\ RefsOK' /\ MountsOK'
      BY <1>0, <1>4 DEF IInv, Create, TypeOK, Shape, MapOK, FilesOK, RefsOK, MountsOK
    <3>2. ParentsOK'
      BY <1>4 DEF IInv, Create, TypeOK, Shape, ParentsOK, ParentOf
    <3>3. CallsOK' /\ NewOK'
      BY <1>4, LayerStoreAssumption DEF IInv, Create, TypeOK, Shape, CallsOK, NewOK, ParentOf
    <3> QED
      BY <3>1, <3>2, <3>3 DEF Shape
  <2>2. \A l \in Layers : Users(l)' = Users(l)
    BY <1>4 DEF IInv, Create, TypeOK, Users
  <2>3. MountOwned'
    BY <1>4 DEF IInv, TypeOK, Create, MountOwned
  <2> QED
    BY <1>2, <1>4, <2>1, <2>2, <2>3, QuietStep DEF Create
<1> QED
  BY <1>3, <1>4 DEF Create

\* A layer is committed: its builder hands it to the reference, and its parent to the layer.
LEMMA CommitStep ==
  ASSUME IInv, NEW g \in Procs, NEW r \in Refs, Commit(g, r)
  PROVE  IInv'
<1> USE DEF mem, durable, locks, call, Goto
<1>0. PICK n, p, c : n = new[g] /\ p = par[g] /\ c = want[g]
  OBVIOUS
<1>1. /\ n \in Layers /\ st[n] = "building" /\ parent[n] = p /\ chain[n] = c /\ c \in Chains
      /\ p = ParentOf(c) /\ (Parent[c] # None => p # None) /\ p \in Layers \cup {None} /\ p # n
      /\ p # None => st[p] = "stored"
  BY <1>0, LayerStoreAssumption DEF IInv, Commit, TypeOK, Shape, CallsOK
<1>2. /\ layerMap[c] = None /\ refOf[r] = None /\ pc[g] = "apply" /\ layerL = None
      /\ layerMap' = [layerMap EXCEPT ![c] = n] /\ disk' = [disk EXCEPT ![c] = n]
      /\ refOf' = [refOf EXCEPT ![r] = n] /\ refs' = [refs EXCEPT ![n] = @ \cup {r}]
      /\ st' = [st EXCEPT ![n] = "stored"]
      /\ Returns(g)
      /\ UNCHANGED <<parent, count, mparent, mrefs, chain, layerL, removing, driver, mdisk, rw, idle, crashes>>
  BY <1>0 DEF Commit, NewRef
<1>3. TypeOK'
  BY <1>1, <1>2 DEF IInv, TypeOK, Returns
<1>4. Shape'
  <2>1. MapOK' /\ FilesOK' /\ RefsOK' /\ MountsOK'
    BY <1>1, <1>2, LayerStoreAssumption DEF IInv, TypeOK, Shape, MapOK, FilesOK, RefsOK, MountsOK
  <2>2. \A d \in Chains : ParentOf(d) # None => ParentOf(d)' = ParentOf(d)
    BY <1>1, <1>2, LayerStoreAssumption DEF ParentOf, IInv, TypeOK
  <2>3. ParentsOK'
    BY <1>1, <1>2, <2>2, LayerStoreAssumption DEF IInv, TypeOK, Shape, ParentsOK, ParentOf
  <2>4. CallsOK' /\ NewOK'
    BY <1>0, <1>1, <1>2, <2>2, LayerStoreAssumption DEF IInv, Returns, TypeOK, Shape, CallsOK,
          NewOK, ParentOf
  <2> QED
    BY <2>1, <2>3, <2>4 DEF Shape
<1>5. /\ g \in Users(n) /\ r \notin Users(n)
      /\ p # None => g \in Users(p) /\ n \notin Users(p)
  BY <1>0, <1>1, <1>2, LayerStoreAssumption DEF Users, IInv, TypeOK, Shape, RefsOK
<1>6. /\ Users(n)' = (Users(n) \ {g}) \cup {r}
      /\ p # None => Users(p)' = (Users(p) \ {g}) \cup {n}
      /\ \A l \in Layers \ {n, p} : Users(l)' = Users(l)
  <2>1. \A l \in Layers : Callers(l)' = Callers(l) \ {g}
    BY <1>0, <1>1, <1>2, LayerStoreAssumption DEF Callers, Returns, IInv, TypeOK
  <2>2. \A l \in Layers : g \in Callers(l) => l \in {n, p}
    BY <1>0, <1>1, <1>2 DEF Callers
  <2>3. \A l \in Layers : refs'[l] = IF l = n THEN refs[l] \cup {r} ELSE refs[l]
    BY <1>1, <1>2 DEF IInv, TypeOK
  <2>4. \A l \in Layers : Children(l)' = IF l = p THEN Children(l) \cup {n} ELSE Children(l)
    BY <1>1, <1>2 DEF IInv, TypeOK, Children
  <2>5. \A l \in Layers : MountedOn(l)' = MountedOn(l)
    BY <1>2 DEF MountedOn
  <2>6. \A l \in Layers : g \notin refs[l] /\ g \notin Children(l) /\ g \notin MountedOn(l) /\ g # r /\ g # n
    BY <1>1, LayerStoreAssumption DEF IInv, TypeOK, Children, MountedOn
  <2>7. Users(n)' = (Users(n) \ {g}) \cup {r}
    BY <1>1, <2>1, <2>3, <2>4, <2>5, <2>6, UsersByKind
  <2>8. ASSUME p # None PROVE Users(p)' = (Users(p) \ {g}) \cup {n}
    <3>1. p \in Layers /\ p # n
      BY <1>1, <2>8
    <3>2. /\ Callers(p)' = Callers(p) \ {g} /\ refs'[p] = refs[p] /\ Children(p)' = Children(p) \cup {n}
          /\ MountedOn(p)' = MountedOn(p) /\ g \notin refs[p] \cup Children(p) \cup MountedOn(p) \cup {n}
      BY <2>1, <2>3, <2>4, <2>5, <2>6, <3>1
    <3>3. /\ Users(p) = refs[p] \cup Children(p) \cup MountedOn(p) \cup Callers(p)
          /\ Users(p)' = refs'[p] \cup Children(p)' \cup MountedOn(p)' \cup Callers(p)'
      BY UsersByKind
    <3> QED
      BY <3>2, <3>3
  <2>9. ASSUME NEW l \in Layers \ {n, p} PROVE Users(l)' = Users(l)
    BY <1>1, <2>1, <2>2, <2>3, <2>4, <2>5, <2>6, UsersByKind
  <2> QED
    BY <2>7, <2>8, <2>9
<1>7. \A l \in Layers : Follows(l)
  <2> SUFFICES ASSUME NEW l \in Layers PROVE Follows(l)
    OBVIOUS
  <2>1. count'[l] = count[l]
    BY <1>2
  <2>2. CASE l = n
    BY <1>5, <1>6, <2>1, <2>2 DEF Follows
  <2>3. CASE l = p
    BY <1>1, <1>5, <1>6, <2>1, <2>3, LayerStoreAssumption DEF Follows
  <2>4. CASE l \notin {n, p}
    BY <1>6, <2>1, <2>4 DEF Follows
  <2> QED
    BY <2>2, <2>3, <2>4
<1>8. NoLeak'
  <2>1. \A l \in Layers : Users(l) # {} => Users(l)' # {}
    BY <1>1, <1>6, LayerStoreAssumption
  <2>2. Users(n)' # {}
    BY <1>6
  <2> QED
    BY <1>1, <1>2, <2>1, <2>2 DEF IInv, TypeOK, NoLeak
<1>9. MountOwned'
  BY <1>2 DEF IInv, TypeOK, MountOwned, Returns
<1> QED
  BY <1>3, <1>4, <1>7, <1>8, <1>9, CountsFollow DEF IInv

\* A registration that did not come to its end: the layer's one user forgets it.
LEMMA CleanupStep ==
  ASSUME IInv, NEW g \in Procs, Cleanup(g)
  PROVE  IInv'
<1> USE DEF mem, durable, locks, call, Goto
<1>0. PICK n : n = new[g]
  OBVIOUS
<1>1. /\ n \in Layers /\ st[n] = "building" /\ n # None /\ pc[g] = "cleanup"
      /\ new' = [new EXCEPT ![g] = None] /\ st' = [st EXCEPT ![n] = "abandoned"]
      /\ count' = [count EXCEPT ![n] = 0] /\ pc' = [pc EXCEPT ![g] = "drop"]
      /\ driver' \in {driver, driver \ {n}}
      /\ UNCHANGED <<layerMap, parent, refs, mparent, mrefs, refOf, chain, locks,
                     disk, removing, mdisk, rw, want, par, rel, name, ref, idle, crashes>>
  BY <1>0, LayerStoreAssumption DEF IInv, Cleanup, TypeOK, Shape, CallsOK
<1>2. TypeOK'
  BY <1>1 DEF IInv, TypeOK
<1>3. Shape'
  <2>1. MapOK' /\ FilesOK' /\ RefsOK' /\ MountsOK'
    BY <1>1 DEF IInv, TypeOK, Shape, MapOK, FilesOK, RefsOK, MountsOK
  <2>2. ParentsOK'
    BY <1>1 DEF IInv, TypeOK, Shape, ParentsOK, ParentOf
  <2>3. CallsOK' /\ NewOK'
    BY <1>0, <1>1, LayerStoreAssumption DEF IInv, TypeOK, Shape, CallsOK, NewOK, ParentOf
  <2> QED
    BY <2>1, <2>2, <2>3 DEF Shape
<1>4. Users(n) = {g} /\ count[n] = 1
  <2>1. Users(n) = {g}
    BY <1>0, <1>1, LayerStoreAssumption
    DEF IInv, TypeOK, Shape, RefsOK, ParentsOK, MountsOK, CallsOK, NewOK, Users
  <2> QED
    BY <1>1, <2>1, FS_Singleton DEF IInv, CountExact
<1>5. \A l \in Layers : Users(l)' = IF l = n THEN {} ELSE Users(l)
  <2>1. \A l \in Layers : Callers(l)' = IF l = n THEN Callers(l) \ {g} ELSE Callers(l)
    BY <1>0, <1>1, LayerStoreAssumption DEF IInv, TypeOK, Callers, Shape, CallsOK
  <2>2. \A l \in Layers : refs'[l] = refs[l] /\ Children(l)' = Children(l) /\ MountedOn(l)' = MountedOn(l)
    BY <1>1 DEF Children, MountedOn, IInv, TypeOK
  <2>3. \A l \in Layers : g \notin refs[l] /\ g \notin Children(l) /\ g \notin MountedOn(l)
    BY LayerStoreAssumption DEF IInv, TypeOK, Children, MountedOn
  <2>4. \A l \in Layers : Users(l)' = IF l = n THEN Users(l) \ {g} ELSE Users(l)
    BY <2>1, <2>2, <2>3, UsersByKind
  <2> QED
    BY <1>4, <2>4
<1>6. \A l \in Layers : Follows(l)
  <2>1. \A l \in Layers : count'[l] = IF l = n THEN count[l] - 1 ELSE count[l]
    BY <1>1, <1>4 DEF IInv, TypeOK
  <2>2. {} = {g} \ {g}
    OBVIOUS
  <2> QED
    BY <1>4, <1>5, <2>1, <2>2 DEF Follows
<1>7. NoLeak'
  BY <1>1, <1>5 DEF IInv, TypeOK, Shape, MapOK, NoLeak
<1>8. MountOwned'
  BY <1>1 DEF IInv, TypeOK, MountOwned
<1> QED
  BY <1>2, <1>3, <1>6, <1>7, <1>8, CountsFollow DEF IInv
-----------------------------------------------------------------------------
\* A mount takes its parent over from the call that makes it.
LEMMA SaveMountStep ==
  ASSUME IInv, NEW g \in Procs, NEW r \in Refs, SaveMount(g, r)
  PROVE  IInv'
<1> USE DEF mem, durable, locks, call, Goto
<1>0. PICK n, p : n = name[g] /\ p = par[g]
  OBVIOUS
<1>1. /\ n \in Names /\ lock[n] = g /\ p \in Layers /\ mparent[n] = NoMount /\ st[p] = "stored"
      /\ pc[g] = "save" /\ refOf[r] = None /\ new[g] = None /\ chain[p] \in Chains /\ rw[n] # "none"
      /\ mdisk' = [mdisk EXCEPT ![n] = chain[p]] /\ mparent' = [mparent EXCEPT ![n] = p]
      /\ mrefs' = [mrefs EXCEPT ![n] = {r}] /\ refOf' = [refOf EXCEPT ![r] = n]
      /\ Returns(g)
      /\ UNCHANGED <<layerMap, parent, count, refs, chain, layerL, disk, removing, driver, rw, st, idle, crashes>>
  BY <1>0, LayerStoreAssumption DEF IInv, SaveMount, TypeOK, Shape, CallsOK, MapOK
<1>2. TypeOK'
  BY <1>1 DEF IInv, TypeOK, Returns
<1>3. Shape'
  <2>1. MapOK' /\ FilesOK' /\ RefsOK' /\ ParentsOK'
    BY <1>1, LayerStoreAssumption DEF IInv, TypeOK, Shape, MapOK, FilesOK, RefsOK, ParentsOK,
          ParentOf
  <2>2. MountsOK'
    BY <1>1, LayerStoreAssumption DEF IInv, TypeOK, Shape, MountsOK
  <2>3. CallsOK' /\ NewOK'
    BY <1>0, <1>1, LayerStoreAssumption DEF IInv, TypeOK, Shape, CallsOK, NewOK, ParentOf, Returns
  <2> QED
    BY <2>1, <2>2, <2>3 DEF Shape
<1>4. g \in Users(p) /\ n \notin Users(p)
  BY <1>0, <1>1, LayerStoreAssumption DEF Users, IInv, TypeOK
<1>5. \A l \in Layers : Users(l)' = IF l = p THEN (Users(l) \ {g}) \cup {n} ELSE Users(l)
  <2>1. \A l \in Layers : Callers(l)' = IF l = p THEN Callers(l) \ {g} ELSE Callers(l)
    BY <1>0, <1>1, LayerStoreAssumption DEF IInv, TypeOK, Callers, Shape, CallsOK, Returns
  <2>2. \A l \in Layers : refs'[l] = refs[l] /\ Children(l)' = Children(l)
    BY <1>1 DEF Children
  <2>3. \A l \in Layers : MountedOn(l)' = IF l = p THEN MountedOn(l) \cup {n} ELSE MountedOn(l)
    BY <1>1, LayerStoreAssumption DEF MountedOn, IInv, TypeOK
  <2>4. \A l \in Layers : g \notin refs[l] /\ g \notin Children(l) /\ g \notin MountedOn(l) /\ g # n
    BY <1>1, LayerStoreAssumption DEF IInv, TypeOK, Children, MountedOn
  <2> QED
    BY <2>1, <2>2, <2>3, <2>4, UsersByKind
<1>6. \A l \in Layers : Follows(l)
  BY <1>1, <1>4, <1>5 DEF Follows
<1>7. NoLeak'
  BY <1>1, <1>5, ZenonT(60) DEF IInv, TypeOK, NoLeak
<1>8. MountOwned'
  <2>1. \A m \in Names : /\ mrefs'[m] = IF m = n THEN {r} ELSE mrefs[m]
                         /\ m # n => mparent'[m] = mparent[m]
    BY <1>1 DEF IInv, TypeOK
  <2>2. \A h \in Procs : h # g => pc'[h] = pc[h] /\ name'[h] = name[h]
    BY <1>1 DEF IInv, TypeOK, Returns
  <2> QED
    BY <1>1, <2>1, <2>2 DEF IInv, MountOwned
<1> QED
  BY <1>2, <1>3, <1>6, <1>7, <1>8, CountsFollow DEF IInv

\* A mount is removed, and hands its parent to the call that removes it.
LEMMA UnmountStep ==
  ASSUME IInv, NEW g \in Procs, Unmount(g)
  PROVE  IInv'
<1> USE DEF mem, durable, locks, call, Goto
<1>0. PICK n, p : n = name[g] /\ p = mparent[n]
  OBVIOUS
<1>1. /\ n \in Names /\ lock[n] = g /\ p \in Layers \cup {None} /\ (p # None => st[p] = "stored")
      /\ pc[g] = "unmounted" /\ new[g] = None /\ par[g] = None /\ rw' = [rw EXCEPT ![n] = "none"]
      /\ mdisk' = [mdisk EXCEPT ![n] = NoMount] /\ mparent' = [mparent EXCEPT ![n] = NoMount]
      /\ par' = [par EXCEPT ![g] = p] /\ pc' = [pc EXCEPT ![g] = "drop"]
      /\ UNCHANGED <<layerMap, parent, count, refs, mrefs, refOf, chain, locks, disk, removing, driver,
                     want, new, rel, name, ref, st, idle, crashes>>
  BY <1>0, LayerStoreAssumption DEF IInv, Unmount, TypeOK, Shape, CallsOK, MountsOK
<1>2. TypeOK'
  BY <1>1 DEF IInv, TypeOK
<1>3. Shape'
  <2>1. MapOK' /\ FilesOK' /\ RefsOK' /\ ParentsOK'
    BY <1>1, LayerStoreAssumption DEF IInv, TypeOK, Shape, MapOK, FilesOK, RefsOK, ParentsOK,
          ParentOf
  <2>2. MountsOK'
    BY <1>1, LayerStoreAssumption DEF IInv, TypeOK, Shape, MountsOK
  <2>3. CallsOK' /\ NewOK'
    BY <1>0, <1>1, LayerStoreAssumption DEF IInv, TypeOK, Shape, CallsOK, NewOK, ParentOf
  <2> QED
    BY <2>1, <2>2, <2>3 DEF Shape
<1>4. ASSUME p # None PROVE n \in Users(p) /\ g \notin Users(p)
  BY <1>0, <1>1, <1>4, LayerStoreAssumption DEF Users, IInv, TypeOK
<1>5. \A l \in Layers : Users(l)' = IF l = p THEN (Users(l) \ {n}) \cup {g} ELSE Users(l)
  <2>1. \A l \in Layers : Callers(l)' = IF l = p THEN Callers(l) \cup {g} ELSE Callers(l)
    BY <1>0, <1>1, LayerStoreAssumption DEF IInv, TypeOK, Callers, Shape, CallsOK
  <2>2. \A l \in Layers : refs'[l] = refs[l] /\ Children(l)' = Children(l)
    BY <1>1 DEF Children
  <2>3. \A l \in Layers : MountedOn(l)' = IF l = p THEN MountedOn(l) \ {n} ELSE MountedOn(l)
    BY <1>0, <1>1, LayerStoreAssumption DEF MountedOn, IInv, TypeOK
  <2>4. \A l \in Layers : n \notin refs[l] /\ n \notin Children(l) /\ n \notin Callers(l) /\ g # n
    BY <1>1, LayerStoreAssumption DEF IInv, TypeOK, Children, Callers
  <2> QED
    BY <2>1, <2>2, <2>3, <2>4, UsersByKind
<1>6. \A l \in Layers : Follows(l)
  BY <1>1, <1>4, <1>5, LayerStoreAssumption DEF Follows
<1>7. NoLeak'
  BY <1>1, <1>5 DEF IInv, TypeOK, NoLeak
<1>8. MountOwned'
  BY <1>0, <1>1 DEF IInv, TypeOK, MountOwned
<1> QED
  BY <1>2, <1>3, <1>6, <1>7, <1>8, CountsFollow DEF IInv
-----------------------------------------------------------------------------
\* The caller of releaseLayer stays a user until it counts down.
LEMMA DropStep ==
  ASSUME IInv, NEW g \in Procs, Drop(g)
  PROVE  IInv'
<1> USE DEF mem, durable, locks, call, Goto
<1>0. PICK p : p = par[g]
  OBVIOUS
<1>1. /\ pc[g] = "drop" /\ new[g] = None /\ p \in Layers \cup {None} /\ (p # None => st[p] = "stored")
      /\ UNCHANGED <<mem, chain, durable, st, idle, crashes>>
  BY <1>0 DEF IInv, Drop, TypeOK, Shape, CallsOK
<1>2. CASE p = None
  <2>1. Returns(g) /\ UNCHANGED layerL
    BY <1>0, <1>2 DEF Drop
  <2>2. TypeOK'
    BY <1>1, <2>1 DEF IInv, TypeOK, Returns
  <2>3. MapOK' /\ FilesOK' /\ RefsOK' /\ ParentsOK' /\ MountsOK'
    BY <1>1 DEF IInv, TypeOK, Shape, MapOK, FilesOK, RefsOK, ParentsOK, ParentOf, MountsOK
  <2>4. CallsOK' /\ NewOK'
    BY <1>1, <2>1, LayerStoreAssumption DEF IInv, TypeOK, Shape, CallsOK, NewOK, ParentOf, Returns
  <2>5. \A l \in Layers : Users(l)' = Users(l)
    <3>0. /\ par[g] = None /\ new[g] = None /\ pc[g] = "drop"
          /\ par'[g] = None /\ new'[g] = None /\ pc'[g] = "idle"
          /\ \A h \in Procs \ {g} : par'[h] = par[h] /\ new'[h] = new[h] /\ pc'[h] = pc[h] /\ rel'[h] = rel[h]
      BY <1>0, <1>1, <1>2, <2>1 DEF Returns, IInv, TypeOK
    <3>1. \A l \in Layers : Callers(l)' = Callers(l)
      BY <3>0, LayerStoreAssumption DEF Callers
    <3>2. \A l \in Layers : refs'[l] = refs[l] /\ Children(l)' = Children(l) /\ MountedOn(l)' = MountedOn(l)
      BY <1>1 DEF Children, MountedOn
    <3> QED
      BY <3>1, <3>2, UsersByKind
  <2>6. MountOwned'
    BY <1>1, <2>1 DEF IInv, TypeOK, MountOwned, Returns
  <2> QED
    BY <1>1, <2>2, <2>3, <2>4, <2>5, <2>6, QuietStep DEF Shape
<1>3. CASE p # None
  <2>1. /\ layerL = None /\ layerL' = g /\ rel' = [rel EXCEPT ![g] = p] /\ par' = [par EXCEPT ![g] = None]
        /\ pc' = [pc EXCEPT ![g] = "release"] /\ UNCHANGED <<lock, want, new, name, ref>>
    BY <1>0, <1>3 DEF Drop
  <2>2. TypeOK'
    BY <1>1, <2>1 DEF IInv, TypeOK
  <2>3. MapOK' /\ FilesOK' /\ RefsOK' /\ ParentsOK' /\ MountsOK'
    BY <1>1 DEF IInv, TypeOK, Shape, MapOK, FilesOK, RefsOK, ParentsOK, ParentOf, MountsOK
  <2>4. CallsOK' /\ NewOK'
    BY <1>1, <1>3, <2>1, LayerStoreAssumption DEF IInv, TypeOK, Shape, CallsOK, NewOK, ParentOf
  <2>5. \A l \in Layers : Users(l)' = Users(l)
    <3>1. \A l \in Layers : Callers(l)' = Callers(l)
      BY <1>0, <1>1, <1>3, <2>1, LayerStoreAssumption DEF Callers, IInv, TypeOK
    <3>2. \A l \in Layers : refs'[l] = refs[l] /\ Children(l)' = Children(l) /\ MountedOn(l)' = MountedOn(l)
      BY <1>1 DEF Children, MountedOn
    <3> QED
      BY <3>1, <3>2, UsersByKind
  <2>6. MountOwned'
    BY <1>1, <2>1 DEF IInv, TypeOK, MountOwned
  <2> QED
    BY <1>1, <2>2, <2>3, <2>4, <2>5, <2>6, QuietStep DEF Shape
<1> QED
  BY <1>2, <1>3

\* A reference hands its layer to the call that releases it.
LEMMA ReleaseStep ==
  ASSUME IInv, NEW g \in Procs, NEW r \in Refs, Release(g, r)
  PROVE  IInv'
<1> USE DEF mem, durable, locks, call, Goto
<1>0. PICK p : p = layerMap[chain[refOf[r]]]
  OBVIOUS
<1>1. /\ pc[g] = "idle" /\ layerL = None /\ new[g] = None /\ par[g] = None
      /\ p # None /\ r \in refs[p]
      /\ refs' = [refs EXCEPT ![p] = @ \ {r}] /\ rel' = [rel EXCEPT ![g] = p]
      /\ layerL' = g /\ pc' = [pc EXCEPT ![g] = "release"]
      /\ UNCHANGED <<layerMap, parent, count, mparent, mrefs, refOf, chain, lock, durable,
                     want, par, new, name, ref, st, idle, crashes>>
  BY <1>0 DEF IInv, Release, HasReference, Shape, CallsOK
<1>2. p \in Layers /\ st[p] = "stored"
  <2>1. chain[refOf[r]] \in Chains
    BY DEF Release, IInv, Shape, RefsOK
  <2> QED
    BY <1>0, <1>1, <2>1 DEF IInv, TypeOK, Shape, MapOK
<1>3. TypeOK'
  BY <1>1, <1>2 DEF IInv, TypeOK
<1>4. MapOK' /\ FilesOK' /\ RefsOK' /\ ParentsOK' /\ MountsOK'
  BY <1>1, <1>2 DEF IInv, TypeOK, Shape, MapOK, FilesOK, RefsOK, ParentsOK, ParentOf, MountsOK
<1>5. CallsOK' /\ NewOK'
  BY <1>1, <1>2, LayerStoreAssumption DEF IInv, TypeOK, Shape, CallsOK, NewOK, ParentOf
<1>6. r \in Users(p) /\ g \notin Users(p)
  BY <1>1, <1>2, LayerStoreAssumption DEF Users, IInv, TypeOK
<1>7. \A l \in Layers : Users(l)' = IF l = p THEN (Users(l) \ {r}) \cup {g} ELSE Users(l)
  <2>1. \A l \in Layers : Callers(l)' = IF l = p THEN Callers(l) \cup {g} ELSE Callers(l)
    BY <1>1, <1>2, LayerStoreAssumption DEF IInv, TypeOK, Callers
  <2>2. \A l \in Layers : Children(l)' = Children(l) /\ MountedOn(l)' = MountedOn(l)
    BY <1>1 DEF Children, MountedOn
  <2>3. \A l \in Layers : refs'[l] = IF l = p THEN refs[l] \ {r} ELSE refs[l]
    BY <1>1, <1>2 DEF IInv, TypeOK
  <2>4. \A l \in Layers : r \notin Children(l) /\ r \notin MountedOn(l) /\ r \notin Callers(l) /\ g # r
    BY LayerStoreAssumption DEF Children, MountedOn, Callers
  <2> QED
    BY <2>1, <2>2, <2>3, <2>4, UsersByKind
<1>8. \A l \in Layers : Follows(l)
  BY <1>1, <1>6, <1>7 DEF Follows
<1>9. NoLeak'
  BY <1>1, <1>7 DEF IInv, TypeOK, NoLeak
<1>10. MountOwned'
  BY <1>1 DEF IInv, TypeOK, MountOwned
<1> QED
  BY <1>3, <1>4, <1>5, <1>8, <1>9, <1>10, CountsFollow DEF IInv, Shape

\* What Returns does to the call that ends.
LEMMA ReturnsFacts ==
  ASSUME TypeOK, NEW g \in Procs, Returns(g)
  PROVE  /\ par'[g] = None /\ new'[g] = None /\ pc'[g] = "idle"
         /\ \A h \in Procs \ {g} : /\ par'[h] = par[h] /\ new'[h] = new[h] /\ pc'[h] = pc[h]
                                   /\ rel'[h] = rel[h] /\ want'[h] = want[h] /\ name'[h] = name[h] /\ ref'[h] = ref[h]
         /\ \A n \in Names : lock[n] # g => lock'[n] = lock[n]
  BY DEF Returns, TypeOK

\* A turn of releaseLayer: the caller is a user no more; a layer without users is deleted.
LEMMA ReleaseLayerStep ==
  ASSUME IInv, NEW g \in Procs, ReleaseLayer(g)
  PROVE  IInv'
<1> USE DEF mem, durable, locks, call, Goto
<1>0. PICK l : l = rel[g]
  OBVIOUS
<1>1. /\ pc[g] = "release" /\ layerL = g /\ new[g] = None /\ par[g] = None /\ l \in Layers /\ st[l] = "stored"
      /\ chain[l] \in Chains /\ layerMap[chain[l]] = l
      /\ count' = [count EXCEPT ![l] = @ - 1]
      /\ UNCHANGED <<chain, parent, refs, mparent, mrefs, refOf, driver, mdisk, rw, idle, crashes>>
  BY <1>0 DEF IInv, ReleaseLayer, TypeOK, Shape, CallsOK, MapOK
<1>2. g \in Users(l) /\ count[l] \in Nat /\ count[l] > 0 /\ (count[l] = 1 => Users(l) = {g})
  <2>1. g \in Users(l)
    BY <1>0, <1>1 DEF Users
  <2>2. IsFiniteSet(Users(l)) /\ count[l] = Cardinality(Users(l)) /\ Cardinality(Users(l)) \in Nat
        /\ Cardinality(Users(l)) # 0
    BY <1>1, <2>1, UsersFinite DEF IInv, CountExact
  <2>3. count[l] = 1 => \E x : Users(l) = {x}
    BY <2>2, FS_Singleton
  <2> QED
    BY <2>1, <2>2, <2>3
<1>3. CASE count[l] # 1
  <2>1. Returns(g) /\ layerL' = None /\ UNCHANGED <<layerMap, disk, removing, st>>
    BY <1>0, <1>3 DEF ReleaseLayer
  <2>2. TypeOK'
    BY <1>1, <1>2, <2>1 DEF IInv, TypeOK, Returns
  <2>3. MapOK' /\ FilesOK' /\ RefsOK' /\ ParentsOK' /\ MountsOK'
    BY <1>1, <2>1 DEF IInv, TypeOK, Shape, MapOK, FilesOK, RefsOK, ParentsOK, ParentOf, MountsOK
  <2>4. CallsOK' /\ NewOK'
    BY <1>1, <2>1, LayerStoreAssumption DEF IInv, TypeOK, Shape, CallsOK, NewOK, ParentOf, Returns
  <2>5. \A k \in Layers : Users(k)' = IF k = l THEN Users(k) \ {g} ELSE Users(k)
    <3>1. \A k \in Layers : Callers(k)' = IF k = l THEN Callers(k) \ {g} ELSE Callers(k)
      BY <1>0, <1>1, <2>1, ReturnsFacts, LayerStoreAssumption DEF Callers, IInv
    <3>2. \A k \in Layers : refs'[k] = refs[k] /\ Children(k)' = Children(k) /\ MountedOn(k)' = MountedOn(k)
      BY <1>1, <2>1 DEF Children, MountedOn
    <3>3. \A k \in Layers : g \notin refs[k] /\ g \notin Children(k) /\ g \notin MountedOn(k)
      BY LayerStoreAssumption DEF IInv, TypeOK, Children, MountedOn
    <3> QED
      BY <3>1, <3>2, <3>3, UsersByKind
  <2>6. \A k \in Layers : Follows(k)
    BY <1>1, <1>2, <2>5 DEF Follows, IInv, TypeOK
  <2>7. NoLeak'
    <3>1. Users(l)' # {}
      <4>1. Users(l) # {g}
        BY <1>1, <1>3, FS_Singleton DEF IInv, CountExact
      <4> QED
        BY <1>1, <1>2, <2>5, <4>1
    <3> QED
      BY <1>1, <2>1, <2>5, <3>1 DEF IInv, TypeOK, NoLeak
  <2>8. MountOwned'
    BY <1>1, <2>1 DEF IInv, TypeOK, MountOwned, Returns
  <2> QED
    BY <2>2, <2>3, <2>4, <2>6, <2>7, <2>8, CountsFollow DEF IInv, Shape
<1>4. CASE count[l] = 1
  <2>1. /\ layerMap' = [layerMap EXCEPT ![chain[l]] = None] /\ disk' = [disk EXCEPT ![chain[l]] = None]
        /\ removing' = removing \cup {l} /\ st' = [st EXCEPT ![l] = "deleting"]
        /\ pc' = [pc EXCEPT ![g] = "remove"]
        /\ UNCHANGED <<layerL, lock, want, par, new, rel, name, ref>>
    BY <1>0, <1>4 DEF ReleaseLayer
  <2>2. TypeOK'
    BY <1>1, <1>4, <2>1 DEF IInv, TypeOK
  <2>3. /\ refs[l] = {} /\ \A k \in Layers : st[k] \in {"stored", "deleting", "stuck"} => parent[k] # l
        /\ \A n \in Names : mparent[n] # l
        /\ \A h \in Procs : par[h] # l /\ new[h] # l /\ (pc[h] = "release" /\ rel[h] = l => h = g)
    BY <1>1, <1>2, <1>4, LayerStoreAssumption DEF Users, IInv, TypeOK
  <2>4. MapOK' /\ FilesOK' /\ RefsOK' /\ MountsOK'
    BY <1>1, <2>1, <2>3, LayerStoreAssumption DEF IInv, TypeOK, Shape, MapOK, FilesOK, RefsOK,
          MountsOK
  <2>5. \A d \in Chains : ParentOf(d) # l => ParentOf(d)' = ParentOf(d)
    BY <1>1, <2>1, LayerStoreAssumption DEF ParentOf, IInv, TypeOK, Shape, MapOK
  <2>6. ParentsOK'
    <3>1. \A k \in Layers : st'[k] = IF k = l THEN "deleting" ELSE st[k]
      BY <1>1, <2>1 DEF IInv, TypeOK
    <3>2. \A k \in Layers : st[k] \in {"stored", "deleting", "stuck"} /\ parent[k] # None =>
             parent[k] # l /\ parent[k] \in Layers /\ st[parent[k]] = "stored"
      BY <2>3 DEF IInv, TypeOK, Shape, ParentsOK
    <3>3. \A k \in Layers : st'[k] \in {"stored", "deleting", "stuck"} /\ parent[k] # None => st'[parent[k]] = "stored"
      BY <1>1, <3>1, <3>2
    <3>4. \A k \in Layers : st[k] = "stored" =>
             /\ chain[k] \in Chains /\ parent[k] # l /\ parent[k] = ParentOf(chain[k])
             /\ Parent[chain[k]] # None => parent[k] # None
      BY <2>3 DEF IInv, Shape, ParentsOK, MapOK
    <3>5. \A k \in Layers : st'[k] = "stored" =>
             /\ parent[k] = IF Parent[chain[k]] = None THEN None ELSE layerMap'[Parent[chain[k]]]
             /\ Parent[chain[k]] # None => parent[k] # None
      BY <1>1, <2>5, <3>1, <3>4 DEF ParentOf
    <3> QED
      BY <1>1, <3>3, <3>5 DEF ParentsOK, ParentOf
  <2>7. CallsOK' /\ NewOK'
    BY <1>0, <1>1, <2>1, <2>3, <2>5, LayerStoreAssumption DEF IInv, TypeOK, Shape, CallsOK, NewOK
  <2>8. \A k \in Layers : Users(k)' = IF k = l THEN Users(k) \ {g} ELSE Users(k)
    <3>1. \A k \in Layers : Callers(k)' = IF k = l THEN Callers(k) \ {g} ELSE Callers(k)
      BY <1>0, <1>1, <2>1, <2>3, LayerStoreAssumption DEF Callers, IInv, TypeOK
    <3>2. \A k \in Layers : refs'[k] = refs[k] /\ Children(k)' = Children(k) /\ MountedOn(k)' = MountedOn(k)
      BY <1>1, <2>1 DEF Children, MountedOn, IInv, TypeOK
    <3>3. \A k \in Layers : g \notin refs[k] /\ g \notin Children(k) /\ g \notin MountedOn(k)
      BY LayerStoreAssumption DEF IInv, TypeOK, Children, MountedOn
    <3> QED
      BY <3>1, <3>2, <3>3, UsersByKind
  <2>9. \A k \in Layers : Follows(k)
    BY <1>1, <1>2, <2>8 DEF Follows, IInv, TypeOK
  <2>10. NoLeak'
    BY <1>1, <2>1, <2>8 DEF IInv, TypeOK, NoLeak, Shape, MapOK
  <2>11. MountOwned'
    BY <1>1, <2>1 DEF IInv, TypeOK, MountOwned
  <2> QED
    BY <2>2, <2>4, <2>6, <2>7, <2>9, <2>10, <2>11, CountsFollow DEF IInv, Shape
<1> QED
  BY <1>3, <1>4
-----------------------------------------------------------------------------
\* deleteLayer succeeds: the deleted child hands its parent to the call.
LEMMA DeleteLayerStep ==
  ASSUME IInv, NEW g \in Procs, DeleteLayer(g)
  PROVE  IInv'
<1> USE DEF mem, durable, locks, call, Goto
<1>0. PICK l, p : l = rel[g] /\ p = parent[l]
  OBVIOUS
<1>1. /\ pc[g] = "remove" /\ layerL = g /\ new[g] = None /\ par[g] = None /\ l \in Layers /\ st[l] = "deleting"
      /\ p \in Layers \cup {None} /\ (p # None => p \in Layers /\ st[p] = "stored")
      /\ driver' = driver \ {l} /\ st' = [st EXCEPT ![l] = "gone"]
      /\ UNCHANGED <<mem, chain, disk, removing, mdisk, rw, idle, crashes>>
  BY <1>0 DEF IInv, DeleteLayer, TypeOK, Shape, CallsOK, ParentsOK
<1>2. st' \in [Layers -> {"new", "building", "stored", "deleting", "stuck", "gone", "abandoned"}] /\ driver' \subseteq driver
      /\ \A k \in Layers : st'[k] = IF k = l THEN "gone" ELSE st[k]
  BY <1>1 DEF IInv, TypeOK
<1>3. MapOK' /\ FilesOK' /\ RefsOK' /\ ParentsOK' /\ MountsOK'
  <2>1. MapOK'
    BY <1>1, <1>2, LayerStoreAssumption DEF IInv, TypeOK, Shape, MapOK
  <2>2. FilesOK'
    BY <1>1, <1>2 DEF IInv, TypeOK, Shape, FilesOK
  <2>3. RefsOK'
    BY <1>1, <1>2 DEF IInv, TypeOK, Shape, RefsOK
  <2>4. ParentsOK'
    BY <1>1, <1>2 DEF IInv, TypeOK, Shape, ParentsOK, ParentOf
  <2>5. MountsOK'
    BY <1>1, <1>2 DEF IInv, TypeOK, Shape, MountsOK
  <2> QED
    BY <2>1, <2>2, <2>3, <2>4, <2>5
<1>4. \A k \in Layers : /\ refs'[k] = refs[k] /\ MountedOn(k)' = MountedOn(k)
                        /\ Children(k)' = IF k = p THEN Children(k) \ {l} ELSE Children(k)
  BY <1>0, <1>1, <1>2 DEF Children, MountedOn
<1>5. \A k \in Layers : l \notin refs[k] /\ l \notin MountedOn(k) /\ l \notin Callers(k) /\ l # g
  BY <1>1, LayerStoreAssumption DEF IInv, TypeOK, MountedOn, Callers
<1>6. CASE p = None
  <2>1. Returns(g) /\ layerL' = None
    BY <1>0, <1>6 DEF DeleteLayer
  <2>2. TypeOK'
    BY <1>1, <1>2, <2>1 DEF IInv, TypeOK, Returns
  <2>3. CallsOK' /\ NewOK'
    BY <1>1, <1>2, <2>1, LayerStoreAssumption DEF IInv, TypeOK, Shape, CallsOK, NewOK, ParentOf,
          Returns
  <2>4. \A k \in Layers : Callers(k)' = Callers(k)
    BY <1>1, <2>1, ReturnsFacts, LayerStoreAssumption DEF Callers, IInv
  <2>5. \A k \in Layers : Users(k)' = Users(k)
    BY <1>4, <1>6, <2>4, UsersByKind, LayerStoreAssumption
  <2>6. MountOwned'
    BY <1>1, <2>1 DEF IInv, TypeOK, MountOwned, Returns
  <2> QED
    BY <1>1, <1>3, <2>2, <2>3, <2>5, <2>6, QuietStep DEF Shape
<1>7. CASE p # None
  <2>1. /\ rel' = [rel EXCEPT ![g] = p] /\ pc' = [pc EXCEPT ![g] = "release"]
        /\ UNCHANGED <<layerL, lock, want, par, new, name, ref>>
    BY <1>0, <1>7 DEF DeleteLayer
  <2>2. TypeOK'
    BY <1>1, <1>2, <2>1 DEF IInv, TypeOK
  <2>3. CallsOK' /\ NewOK'
    BY <1>1, <1>2, <1>7, <2>1, LayerStoreAssumption DEF IInv, TypeOK, Shape, CallsOK, NewOK,
          ParentOf
  <2>4. \A k \in Layers : Callers(k)' = IF k = p THEN Callers(k) \cup {g} ELSE Callers(k)
    BY <1>1, <1>7, <2>1, LayerStoreAssumption DEF Callers, IInv, TypeOK
  <2>5. \A k \in Layers : Users(k)' = IF k = p THEN (Users(k) \ {l}) \cup {g} ELSE Users(k)
    BY <1>4, <1>5, <2>4, UsersByKind
  <2>6. l \in Users(p) /\ g \notin Users(p)
    BY <1>0, <1>1, <1>7, LayerStoreAssumption DEF Users, IInv, TypeOK
  <2>7. \A k \in Layers : Follows(k)
    BY <1>1, <2>5, <2>6 DEF Follows
  <2>8. NoLeak'
    <3>1. \A k \in Layers : Users(k) # {} => Users(k)' # {}
      BY <2>5
    <3>2. layerMap' = layerMap /\ idle' = idle /\ \A k \in Chains : layerMap[k] \in Layers \cup {None}
      BY <1>1 DEF IInv, TypeOK
    <3>3. NoLeak
      BY DEF IInv
    <3> QED
      BY <3>1, <3>2, <3>3 DEF NoLeak
  <2>9. MountOwned'
    BY <1>1, <2>1 DEF IInv, TypeOK, MountOwned
  <2> QED
    BY <1>3, <2>2, <2>3, <2>7, <2>8, <2>9, CountsFollow DEF IInv, Shape
<1> QED
  BY <1>6, <1>7

\* deleteLayer fails: the layer stays a user of its parent.
LEMMA DeleteLayerFailsStep ==
  ASSUME IInv, NEW g \in Procs, DeleteLayerFails(g)
  PROVE  IInv'
<1> USE DEF mem, durable, locks, call, Goto
<1>0. PICK l : l = rel[g]
  OBVIOUS
<1>1. /\ pc[g] = "remove" /\ layerL = g /\ new[g] = None /\ par[g] = None /\ l \in Layers /\ st[l] = "deleting"
      /\ driver' \in {driver, driver \ {l}} /\ st' = [st EXCEPT ![l] = "stuck"]
      /\ Returns(g) /\ layerL' = None
      /\ UNCHANGED <<mem, chain, disk, removing, mdisk, rw, idle, crashes>>
  BY <1>0 DEF IInv, DeleteLayerFails, TypeOK, Shape, CallsOK
<1>2. st' \in [Layers -> {"new", "building", "stored", "deleting", "stuck", "gone", "abandoned"}] /\ driver' \subseteq driver
      /\ (\A k \in Layers : st'[k] = IF k = l THEN "stuck" ELSE st[k])
      /\ driver \ {l} \subseteq driver'
  BY <1>1 DEF IInv, TypeOK
<1>3. TypeOK'
  BY <1>1, <1>2 DEF IInv, TypeOK, Returns
<1>4. Shape'
  <2>1. MapOK'
    BY <1>1, <1>2, LayerStoreAssumption DEF IInv, TypeOK, Shape, MapOK
  <2>2. FilesOK'
    BY <1>1, <1>2 DEF IInv, TypeOK, Shape, FilesOK
  <2>3. RefsOK'
    BY <1>1, <1>2 DEF IInv, TypeOK, Shape, RefsOK
  <2>4. ParentsOK'
    BY <1>1, <1>2 DEF IInv, TypeOK, Shape, ParentsOK, ParentOf
  <2>5. MountsOK'
    BY <1>1, <1>2 DEF IInv, TypeOK, Shape, MountsOK
  <2>6. CallsOK' /\ NewOK'
    BY <1>1, <1>2, LayerStoreAssumption DEF IInv, TypeOK, Shape, CallsOK, NewOK, ParentOf, Returns
  <2> QED
    BY <2>1, <2>2, <2>3, <2>4, <2>5, <2>6 DEF Shape
<1>5. \A k \in Layers : Users(k)' = Users(k)
  <2>1. \A k \in Layers : /\ refs'[k] = refs[k] /\ MountedOn(k)' = MountedOn(k) /\ Children(k)' = Children(k)
    BY <1>1, <1>2 DEF Children, MountedOn
  <2>2. \A k \in Layers : Callers(k)' = Callers(k)
    BY <1>1, ReturnsFacts, LayerStoreAssumption DEF Callers, IInv
  <2> QED
    BY <2>1, <2>2, UsersByKind
<1>6. MountOwned'
  BY <1>1 DEF IInv, TypeOK, MountOwned, Returns
<1> QED
  BY <1>1, <1>3, <1>4, <1>5, <1>6, QuietStep
-----------------------------------------------------------------------------
(***************************************************************************)
(* The daemon that starts again counts, for each layer, the children and   *)
(* the mounts it finds on the disk: those are its users.                   *)
(***************************************************************************)
LEMMA CrashStep ==
  ASSUME IInv, Crash
  PROVE  IInv'
<1> USE DEF mem, durable, locks, call
<1>1. \A k \in Layers : OnDisk(k) <=> st[k] = "stored"
  BY LayerStoreAssumption DEF OnDisk, IInv, TypeOK, Shape, MapOK
<1>2. \A k \in Layers : st[k] = "stored" => Load(Parent[chain[k]]) = parent[k]
  BY LayerStoreAssumption DEF Load, ParentOf, IInv, TypeOK, Shape, MapOK, ParentsOK
<1>3. \A n \in Names : mdisk[n] # NoMount =>
         \/ mparent[n] \in Layers /\ Load(mdisk[n]) = mparent[n] /\ st[mparent[n]] = "stored"
            /\ mdisk[n] = chain[mparent[n]]
         \/ mdisk[n] = None /\ Load(mdisk[n]) = None
  <2> SUFFICES ASSUME NEW n \in Names, mdisk[n] # NoMount
               PROVE  \/ mparent[n] \in Layers /\ Load(mdisk[n]) = mparent[n] /\ st[mparent[n]] = "stored"
                         /\ mdisk[n] = chain[mparent[n]]
                      \/ mdisk[n] = None /\ Load(mdisk[n]) = None
    OBVIOUS
  <2>1. CASE mparent[n] \in Layers
    <3>1. st[mparent[n]] = "stored" /\ mdisk[n] = chain[mparent[n]]
      BY <2>1 DEF IInv, Shape, MountsOK
    <3>2. mdisk[n] \in Chains /\ disk[mdisk[n]] = mparent[n]
      BY <2>1, <3>1 DEF IInv, Shape, MapOK
    <3> QED
      BY <2>1, <3>1, <3>2, LayerStoreAssumption DEF Load
  <2>2. CASE mparent[n] \in {None, NoMount}
    BY <2>2 DEF Load, IInv, Shape, MountsOK
  <2> QED
    BY <2>1, <2>2 DEF IInv, TypeOK
<1>4. /\ \A k \in Layers : st'[k] = IF st[k] = "building" THEN "abandoned"
                                   ELSE IF st[k] \in {"deleting", "stuck"} THEN "gone" ELSE st[k]
      /\ \A k \in Layers : parent'[k] = IF st[k] = "stored" THEN parent[k] ELSE None
      /\ \A n \in Names : mparent'[n] = IF mdisk[n] = NoMount THEN NoMount ELSE Load(mdisk[n])
      /\ \A k \in Layers : refs'[k] = {}
      /\ \A r \in Refs : refOf'[r] = None
      /\ \A g \in Procs : par'[g] = None /\ new'[g] = None /\ pc'[g] = "idle"
      /\ \A k \in Layers : count'[k] = IF st[k] = "stored" THEN Cardinality(LoadedUsers(k)) ELSE 0
      /\ idle' = {k \in Layers : st[k] = "stored"} \cup {n \in Names : mdisk[n] # NoMount}
      /\ layerL' = None /\ layerMap' = disk /\ UNCHANGED <<chain, disk, removing, driver, mdisk, rw>>
  BY <1>1, <1>2 DEF Crash
<1>5. MapOK' /\ FilesOK' /\ RefsOK'
  <2>1. MapOK'
    BY <1>4, SMTT(30) DEF IInv, TypeOK, Shape, MapOK
  <2>2. FilesOK'
    BY <1>4 DEF IInv, TypeOK, Shape, FilesOK
  <2>3. RefsOK'
    BY <1>4, LayerStoreAssumption DEF IInv, TypeOK, Shape, RefsOK
  <2> QED
    BY <2>1, <2>2, <2>3
<1>6. ParentsOK'
  BY <1>4 DEF IInv, TypeOK, Shape, ParentsOK, ParentOf, MapOK
<1>7. MountsOK'
  BY <1>3, <1>4, LayerStoreAssumption DEF IInv, TypeOK, Shape, MountsOK
<1>8. CallsOK' /\ NewOK'
  BY <1>4, LayerStoreAssumption DEF CallsOK, NewOK
<1>9. \A l \in Layers : Users(l)' = LoadedUsers(l)
  <2> SUFFICES ASSUME NEW l \in Layers PROVE Users(l)' = LoadedUsers(l)
    OBVIOUS
  <2>1. refs'[l] = {} /\ Callers(l)' = {}
    BY <1>4, LayerStoreAssumption DEF Callers
  <2>2. Children(l)' = {k \in Layers : OnDisk(k) /\ Load(Parent[chain[k]]) = l}
    BY <1>1, <1>2, <1>4, LayerStoreAssumption DEF Children
  <2>3. MountedOn(l)' = {n \in Names : mdisk[n] # NoMount /\ Load(mdisk[n]) = l}
    BY <1>4, LayerStoreAssumption DEF MountedOn
  <2> QED
    BY <2>1, <2>2, <2>3, UsersByKind DEF LoadedUsers
<1>10. \A l \in Layers : st[l] # "stored" => LoadedUsers(l) = {}
  BY <1>1, <1>2, <1>3, LayerStoreAssumption DEF LoadedUsers, IInv, Shape, ParentsOK
<1>11. TypeOK'
  <2>1. \A l \in Layers : IsFiniteSet(LoadedUsers(l))
    <3>1. IsFiniteSet(Layers \cup Names)
      BY LayerStoreAssumption, FS_Union
    <3>2. \A l \in Layers : LoadedUsers(l) \subseteq Layers \cup Names
      BY DEF LoadedUsers
    <3> QED
      BY <3>1, <3>2, FS_Subset
  <2>2. \A l \in Layers : Cardinality(LoadedUsers(l)) \in Nat
    BY <2>1, FS_CardinalityType
  <2>3. count' \in [Layers -> Nat]
    BY <2>2, <1>1 DEF Crash
  <2>4. parent' \in [Layers -> Layers \cup {None}]
    BY <1>1, <1>2 DEF Crash, IInv, TypeOK
  <2>5. mparent' \in [Names -> Layers \cup {None, NoMount}]
    BY <1>3 DEF Crash, IInv, TypeOK
  <2>6. idle' \in SUBSET (Layers \cup Names)
    BY <1>4
  <2>7. st' \in [Layers -> {"new", "building", "stored", "deleting", "stuck", "gone", "abandoned"}]
    BY DEF Crash, IInv, TypeOK
  <2>8. crashes' \in 0..MaxCrashes
    BY LayerStoreAssumption DEF Crash, IInv, TypeOK
  <2> QED
    BY <2>3, <2>4, <2>5, <2>6, <2>7, <2>8 DEF Crash, IInv, TypeOK
<1>12. CountExact'
  <2>1. IsFiniteSet({}) /\ Cardinality({}) = 0
    BY FS_EmptySet
  <2> QED
    BY <1>4, <1>9, <1>10, <2>1 DEF CountExact
<1>13. NoLeak'
  BY <1>4, <1>5, <1>11 DEF NoLeak, MapOK, TypeOK, IInv, Shape
<1>14. MountOwned'
  BY <1>4 DEF MountOwned
<1> QED
  BY <1>5, <1>6, <1>7, <1>8, <1>11, <1>12, <1>13, <1>14 DEF IInv, Shape
-----------------------------------------------------------------------------
\* A new store is empty.
LEMMA InitIInv == Init => IInv
<1> SUFFICES ASSUME Init PROVE IInv
  OBVIOUS
<1>1. TypeOK
  BY LayerStoreAssumption DEF Init, TypeOK
<1>2. Shape
  BY LayerStoreAssumption DEF Init, Shape, MapOK, FilesOK, RefsOK, ParentsOK, MountsOK, CallsOK,
        NewOK
<1>3. CountExact
  <2>1. \A l \in Layers : Users(l) = {} /\ count[l] = 0
    BY LayerStoreAssumption DEF Init, Users
  <2> QED
    BY <2>1, FS_EmptySet DEF CountExact
<1>4. NoLeak /\ MountOwned
  BY DEF Init, NoLeak, MountOwned
<1> QED
  BY <1>1, <1>2, <1>3, <1>4 DEF IInv

\* A step that changes nothing.
LEMMA StutterStep ==
  ASSUME IInv, UNCHANGED vars
  PROVE  IInv'
<1> USE DEF mem, durable, locks, call, vars
<1>1. TypeOK'
  BY DEF IInv, TypeOK
<1>2. Shape'
  BY DEF IInv, Shape, MapOK, FilesOK, RefsOK, ParentsOK, MountsOK, CallsOK, NewOK, ParentOf
<1>3. \A l \in Layers : Users(l)' = Users(l)
  BY DEF Users
<1>4. MountOwned'
  BY DEF IInv, MountOwned
<1> QED
  BY <1>1, <1>2, <1>3, <1>4, QuietStep

(***************************************************************************)
(* The shape of the store, the exact counts, and the owners of layers and  *)
(* mounts are an invariant: one lemma for each operation of the code.      *)
(***************************************************************************)
THEOREM Invariance == Spec => []IInv
<1>1. IInv /\ [Next]_vars => IInv'
  <2> SUFFICES ASSUME IInv, [Next]_vars PROVE IInv'
    OBVIOUS
  <2>1. CASE UNCHANGED vars
    BY <2>1, StutterStep
  <2>2. CASE Crash
    BY <2>2, CrashStep
  <2>3. ASSUME NEW l \in Layers, RemoveOrphan(l) PROVE IInv'
    BY <2>3, OrphanStep
  <2>4. ASSUME NEW g \in Procs,
               \/ \E c \in Chains, r \in Refs : Get(g, c, r)
               \/ \E c \in Chains : Register(g, c)
               \/ \E l \in Layers : Create(g, l)
               \/ \E r \in Refs : \/ Release(g, r) \/ Exists(g, r) \/ Commit(g, r) \/ SaveMount(g, r)
                                  \/ ReleaseRWLayer(g, r)
        PROVE  IInv'
    BY <2>4, GetStep, RegisterStep, CreateStep, ReleaseStep, ExistsStep, CommitStep,
          SaveMountStep, MountRefSteps
  <2>5. ASSUME NEW g \in Procs, ReleaseLayer(g) \/ DeleteLayer(g) \/ DeleteLayerFails(g) \/ Drop(g)
                                \/ Cleanup(g) \/ Unmount(g)
        PROVE  IInv'
    BY <2>5, ReleaseLayerStep, DeleteLayerStep, DeleteLayerFailsStep, DropStep, CleanupStep,
          UnmountStep
  <2>6. ASSUME NEW g \in Procs, CreateFails(g) \/ ApplyFails(g) \/ MountFails(g) \/ CreateReadWrite(g) \/ SaveMountID(g) \/ RemoveRW(g)
        PROVE  IInv'
    BY <2>6, QuietSteps
  <2>7. ASSUME NEW g \in Procs, \/ UnmountFails(g)
                                \/ \E n \in Names, r \in Refs : GetRWLayer(g, n, r)
        PROVE  IInv'
    <3>1. CASE UnmountFails(g)
      <4>1. ref[g] \in Refs
        BY <3>1 DEF UnmountFails, IInv, Shape, CallsOK
      <4> QED
        BY <3>1, <4>1, MountRefSteps
    <3>2. CASE \E n \in Names, r \in Refs : GetRWLayer(g, n, r)
      BY <3>2, MountRefSteps
    <3> QED
      BY <2>7, <3>1, <3>2
  <2>8. ASSUME NEW g \in Procs, \E n \in Names, c \in Chains : CreateRWLayer(g, n, c)
        PROVE  IInv'
    BY <2>8, CreateRWLayerStep
  <2> QED
    BY <2>1, <2>2, <2>3, <2>4, <2>5, <2>6, <2>7, <2>8 DEF Next
<1> QED
  BY <1>1, InitIInv, PTL DEF Spec

\* What the invariant says of the files: nothing a restart needs is missing.
LEMMA CrashSafeHolds == IInv => CrashSafe
<1> SUFFICES ASSUME IInv PROVE CrashSafe
  OBVIOUS
<1>1. \A c \in Chains : disk[c] # None => disk[c] \in driver
  BY DEF IInv, TypeOK, Shape, MapOK, FilesOK
<1>2. \A c \in Chains : disk[c] # None /\ Parent[c] # None => disk[Parent[c]] # None
  BY LayerStoreAssumption DEF IInv, TypeOK, Shape, MapOK, ParentsOK, ParentOf
<1>3. \A n \in Names : mdisk[n] \in Chains => disk[mdisk[n]] # None
  <2> SUFFICES ASSUME NEW n \in Names, mdisk[n] \in Chains PROVE disk[mdisk[n]] # None
    OBVIOUS
  <2>1. mparent[n] \in Layers
    BY LayerStoreAssumption DEF IInv, TypeOK, Shape, MountsOK
  <2> QED
    BY <2>1, LayerStoreAssumption DEF IInv, Shape, MountsOK, MapOK
<1>4. OrphansMarked
  BY LayerStoreAssumption DEF IInv, TypeOK, Shape, MapOK, FilesOK, OrphansMarked, OnDisk
<1>5. \A n \in Names : mdisk[n] # NoMount => rw[n] # "none"
  BY DEF IInv, Shape, MountsOK
<1> QED
  BY <1>1, <1>2, <1>3, <1>4, <1>5 DEF CrashSafe, CrashConsistent

\* A layer in use is in the map with its data, or is being built by its one user.
LEMMA InUseHolds == IInv => InUseExists
<1> SUFFICES ASSUME IInv, NEW l \in Layers, Users(l) # {}
             PROVE  l \in driver /\ (st[l] # "building" => chain[l] # None /\ layerMap[chain[l]] = l)
  BY DEF InUseExists
<1>1. st[l] \in {"building", "stored"}
  BY LayerStoreAssumption DEF Users, IInv, TypeOK, Shape, RefsOK, ParentsOK, MountsOK, CallsOK
<1> QED
  BY <1>1, LayerStoreAssumption DEF IInv, Shape, MapOK, FilesOK

\* The layer releaseLayer counts down has the caller as a user, and no other when the count is one.
LEMMA NoPanicHolds == IInv => NoPanic
<1> SUFFICES ASSUME IInv, NEW g \in Procs, pc[g] = "release"
             PROVE  count[rel[g]] > 0 /\ (count[rel[g]] = 1 => refs[rel[g]] = {})
  BY DEF NoPanic
<1>1. PICK l : l = rel[g]
  OBVIOUS
<1>2. l \in Layers /\ g \in Users(l)
  BY <1>1 DEF IInv, Shape, CallsOK, Users
<1>3. IsFiniteSet(Users(l)) /\ count[l] = Cardinality(Users(l)) /\ count[l] \in Nat /\ count[l] # 0
  BY <1>2, UsersFinite DEF IInv, CountExact
<1>4. count[l] = 1 => \E x : Users(l) = {x}
  BY <1>3, FS_Singleton
<1>5. count[l] = 1 => Users(l) = {g}
  BY <1>2, <1>4
<1>6. refs[l] \subseteq Users(l) /\ g \notin refs[l]
  BY <1>2, LayerStoreAssumption DEF Users, IInv, TypeOK
<1> QED
  BY <1>1, <1>3, <1>5, <1>6

(***************************************************************************)
(* The count of each layer is the number of its users at every moment,     *)
(* also between the sections of a call that fails and after a restart, and *)
(* releaseLayer never panics.                                              *)
(***************************************************************************)
THEOREM ReferenceCounts == Spec => []RefsExact
<1>1. IInv => RefsExact
  BY NoPanicHolds DEF IInv, RefsExact
<1> QED
  BY <1>1, Invariance, PTL

(***************************************************************************)
(* No interleaving of releaseLayer with Get, Register or CreateRWLayer     *)
(* deletes a layer under its users, and each mount has an owner.           *)
(***************************************************************************)
THEOREM InUse == Spec => []UsedIsThere
<1>1. IInv => UsedIsThere
  BY InUseHolds DEF IInv, UsedIsThere
<1> QED
  BY <1>1, Invariance, PTL

\* releaseLayer leaves nothing in the map that nobody uses.
THEOREM NothingLeaks == Spec => []NoLeak
<1>1. IInv => NoLeak
  BY DEF IInv
<1> QED
  BY <1>1, Invariance, PTL

(***************************************************************************)
(* Wherever the daemon dies, the layers on the disk have their parents and *)
(* their data, so have the mounts, and what is left of a layer that was    *)
(* committed is marked for Cleanup.                                        *)
(***************************************************************************)
THEOREM CrashRecovery == Spec => []CrashSafe
  BY Invariance, CrashSafeHolds, PTL
=============================================================================
