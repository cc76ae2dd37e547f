------------------------- MODULE VolumeStoreProofs -------------------------
(***************************************************************************)
(* The volume store keeps what is in use, for any volumes, drivers,        *)
(* containers and clients, and whatever the drivers do by themselves.  The *)
(* argument: an operation under the lock of a name finds the volume as the *)
(* one before it left it; a container's volume is referred to, or nothing  *)
(* but the lock's holder knows it, or it is lost, or a restart left the    *)
(* container without it; and a driver is counted once for each volume that *)
(* is cached or about to be.                                               *)
(***************************************************************************)
EXTENDS VolumeStore, TLAPS, FiniteSetTheorems

\* An operation that has the lock of its name.
Busy(p) == pc[p] \notin {"idle", "rm"}

\* Who may be where, and with what in hand.
LocksOK ==
    \A p \in Procs :
        /\ Busy(p) => name[p] \in Names /\ holder[name[p]] = p
        /\ pc[p] = "rm" => name[p] \in Names
        /\ pc[p] \in {"rm", "delete", "purge"} => p \in Clients
        /\ pc[p] \in {"create", "get"} => drv[p] \in Drivers \cup {AnyDriver}
        /\ pc[p] = "get" /\ p \in Clients => drv[p] = AnyDriver
        /\ pc[p] \in {"make", "record", "name", "found", "rm", "delete", "purge"} => drv[p] \in Drivers
        /\ phase = "restore" => pc[p] = "idle"
        /\ phase = "mounts" /\ pc[p] # "idle" => p \in todo /\ pc[p] \in {"get", "found"}

\* A container asks for one volume, and asks again only for the one it has lost sight of.
Asks(c) ==
    /\ pc[c] \in {"create", "probe", "make", "record", "name"} => mount[c] = None
    /\ pc[c] = "get" => drv[c] \in Drivers
    /\ pc[c] \in {"get", "found"} /\ mount[c] # None =>
          mount[c] = <<name[c], drv[c]>> /\ (phase = "mounts" \/ c \in absent)

AsksOK == \A c \in Containers : Asks(c)

\* What an operation has found out stays true until it acts on it.
Stage(p) ==
    /\ pc[p] \in {"probe", "make", "record"} => cached[name[p]] = None
    /\ pc[p] = "name" => cached[name[p]] = drv[p] \/ (cached[name[p]] = None /\ meta[name[p]] = drv[p])
    /\ pc[p] \in {"record", "name", "found"} => name[p] \in vols[drv[p]] \/ name[p] \in lost
    /\ pc[p] = "found" => meta[name[p]] \in {None, drv[p]}
    /\ pc[p] \in {"delete", "purge"} => refs[name[p]] = {}

StagesOK == \A p \in Procs : Stage(p)

\* What the store has under a name is about one volume.
StoreOK ==
    \A n \in Names :
        /\ refs[n] \subseteq Mounts(n) \cup leaked /\ (refs[n] # {} => cached[n] # None)
        /\ cached[n] # None =>
              /\ meta[n] \in {cached[n], None}
              /\ meta[n] = None => cached[n] \in drift
              /\ \/ n \in vols[cached[n]] \/ n \in lost \/ n \in cut
                 \/ \E p \in Procs : pc[p] = "purge" /\ name[p] = n

\* The volume of a container: where it is, and who knows.
MountsOK ==
    \A c \in Containers \ absent : mount[c] # None => LET n == mount[c][1] d == mount[c][2] IN
        \/ n \in lost
        \/ /\ n \in vols[d] /\ meta[n] \in {d, None} /\ cached[n] \in {d, None}
           /\ \A e \in Containers \ absent : mount[e] # None /\ mount[e][1] = n => mount[e][2] = d
           /\ (phase = "up" \/ (phase = "mounts" /\ c \notin todo)) => c \in refs[n] /\ cached[n] = d

\* What is left of a restart.
BootOK ==
    /\ phase = "up" => todo = {}
    /\ phase = "restore" => todo \subseteq Names /\ \A n \in todo : meta[n] # None /\ cached[n] = None
    /\ phase = "restore" => \A n \in Names : refs[n] = {}
    /\ phase = "mounts" => todo \subseteq Containers
    /\ \A c \in absent \cup (IF phase = "mounts" THEN todo ELSE {}) : mount[c] # None /\ \A n \in Names : c \notin refs[n]
    /\ \A c \in fresh : phase = "up" /\ mount[c] # None /\ c \notin absent

\* The volumes a driver is referenced for.
Counted(d) ==
    {n \in Names : cached[n] = d \/ \E p \in Procs : pc[p] \in {"record", "name"} /\ name[p] = n /\ drv[p] = d}

CountOK == \A d \in Drivers : d \in drift \/ count[d] = Cardinality(Counted(d))

IInv == TypeOK /\ LocksOK /\ AsksOK /\ StagesOK /\ StoreOK /\ MountsOK /\ BootOK /\ CountOK
-----------------------------------------------------------------------------
\* The volume and the driver in a container's configuration.
LEMMA MountFacts ==
  ASSUME TypeOK, NEW c \in Containers, mount[c] # None
  PROVE  mount[c][1] \in Names /\ mount[c][2] \in Drivers /\ mount[c] = <<mount[c][1], mount[c][2]>>
  BY DEF TypeOK

\* A driver is referenced for finitely many volumes.
LEMMA CountedFinite ==
  ASSUME TypeOK, NEW d \in Drivers
  PROVE  /\ IsFiniteSet(Counted(d)) /\ Cardinality(Counted(d)) \in Nat
         /\ Cardinality(Counted(d)) <= Cardinality(Names) /\ Cardinality(Names) \in Nat
  BY VolumeAssumption, FS_Subset, FS_CardinalityType DEF Counted

(***************************************************************************)
(* What a step may do to the volumes a driver is referenced for and to its *)
(* count: nothing, or one more, or one less.                               *)
(***************************************************************************)
Follows(d) ==
    \/ Counted(d)' = Counted(d) /\ count'[d] = count[d]
    \/ \E n \in Names : n \notin Counted(d) /\ Counted(d)' = Counted(d) \cup {n} /\ count'[d] = CreateDriver(count[d])
    \/ \E n \in Counted(d) : Counted(d)' = Counted(d) \ {n} /\ count'[d] = ReleaseDriver(count[d])

\* Such steps keep the counts.
LEMMA CountsFollow ==
  ASSUME TypeOK, CountOK, \A d \in Drivers : d \in drift' \/ (d \notin drift /\ Follows(d))
  PROVE  CountOK'
<1> SUFFICES ASSUME NEW d \in Drivers, d \notin drift' PROVE count'[d] = Cardinality(Counted(d)')
  BY DEF CountOK
<1>1. /\ IsFiniteSet(Counted(d)) /\ count[d] = Cardinality(Counted(d)) /\ Follows(d)
      /\ Cardinality(Counted(d)) \in Nat /\ Cardinality(Counted(d)) <= Cardinality(Names) /\ Cardinality(Names) \in Nat
  BY CountedFinite DEF CountOK
<1>2. CASE Counted(d)' = Counted(d) /\ count'[d] = count[d]
  BY <1>1, <1>2
<1>3. CASE \E n \in Names : /\ n \notin Counted(d) /\ Counted(d)' = Counted(d) \cup {n}
                            /\ count'[d] = CreateDriver(count[d])
  <2>1. PICK n \in Names : n \notin Counted(d) /\ Counted(d)' = Counted(d) \cup {n} /\ count'[d] = CreateDriver(count[d])
    BY <1>3
  <2>2. Cardinality(Counted(d) \cup {n}) = Cardinality(Counted(d)) + 1
    BY <1>1, <2>1, FS_AddElement
  <2>3. CreateDriver(count[d]) = count[d] + 1
    BY <1>1 DEF CreateDriver
  <2> QED
    BY <1>1, <2>1, <2>2, <2>3
<1>4. CASE \E n \in Counted(d) : Counted(d)' = Counted(d) \ {n} /\ count'[d] = ReleaseDriver(count[d])
  <2>1. PICK n \in Counted(d) : Counted(d)' = Counted(d) \ {n} /\ count'[d] = ReleaseDriver(count[d])
    BY <1>4
  <2>2. Cardinality(Counted(d) \ {n}) = Cardinality(Counted(d)) - 1
    BY <1>1, <2>1, FS_RemoveElement
  <2>3. ReleaseDriver(count[d]) = count[d] - 1
    BY <1>1 DEF ReleaseDriver
  <2> QED
    BY <1>1, <2>1, <2>2, <2>3
<1> QED
  BY <1>1, <1>2, <1>3, <1>4 DEF Follows

\* Steps that leave all the counts alone.
LEMMA CountsKept ==
  ASSUME TypeOK, CountOK, UNCHANGED count, drift \subseteq drift',
         \A d \in Drivers : d \in drift' \/ Counted(d)' = Counted(d)
  PROVE  CountOK'
<1>1. \A d \in Drivers : d \in drift' \/ (d \notin drift /\ Follows(d))
  BY DEF Follows
<1> QED
  BY <1>1, CountsFollow
-----------------------------------------------------------------------------
\* An operation begins; it knows nothing yet.
LEMMA LocksStep ==
  ASSUME IInv, NEW p \in Procs, NEW op \in {"create", "get"}, NEW n \in Names, NEW d \in Drivers \cup {AnyDriver},
         Locks(p, op, n, d),
         \/ phase = "up" /\ (p \in Containers => mount[p] = None)
         \/ p \in Containers /\ op = "get" /\ mount[p] = <<n, d>>
            /\ ((phase = "mounts" /\ p \in todo) \/ (phase = "up" /\ p \in absent)),
         op = "get" /\ p \in Containers => d \in Drivers,
         op = "get" /\ p \in Clients => d = AnyDriver
  PROVE  IInv'
<1> USE DEF store, boot, aside, config
<1>1. LocksOK'
  BY VolumeAssumption DEF IInv, TypeOK, Locks, LocksOK, Busy, Procs
<1>2. TypeOK'
  BY <1>1 DEF IInv, TypeOK, Locks, LocksOK, Busy
<1>3. AsksOK'
  BY DEF IInv, TypeOK, Locks, AsksOK, Asks, Procs
<1>4. StagesOK'
  BY DEF IInv, TypeOK, Locks, StagesOK, Stage, LocksOK, Busy
<1>5. StoreOK'
  BY DEF IInv, TypeOK, Locks, StoreOK, Mounts
<1>6. MountsOK' /\ BootOK'
  BY DEF IInv, TypeOK, Locks, MountsOK, BootOK
<1>7. CountOK'
  <2>1. \A e \in Drivers : Counted(e)' = Counted(e)
    BY DEF IInv, TypeOK, Locks, Counted
  <2> QED
    BY <2>1, CountsKept DEF IInv, Locks
<1> QED
  BY <1>1, <1>2, <1>3, <1>4, <1>5, <1>6, <1>7 DEF IInv

\* create and get take the lock of the name, and nothing else.
LEMMA BeginsStep ==
  ASSUME IInv, NEW p \in Procs, NEW op \in {"create", "get"}, NEW n \in Names, NEW d \in Drivers \cup {AnyDriver},
         Begins(p, op, n, d)
  PROVE  IInv'
<1>1. op = "get" /\ p \in Containers => d \in Drivers
  <2> SUFFICES ASSUME op = "get", p \in Containers PROVE d \in Drivers
    OBVIOUS
  <2>1. PICK e \in Containers : mount[e] = <<n, d>>
    BY VolumeAssumption DEF Begins
  <2>2. <<n, d>> \in Names \X (Drivers \cup {AnyDriver}) /\ <<n, d>> # None
    BY VolumeAssumption
  <2>3. <<n, d>> \in Names \X Drivers
    BY <2>1, <2>2 DEF IInv, TypeOK
  <2> QED
    BY <2>1, <2>3
<1> QED
  BY <1>1, LocksStep DEF Begins

\* After a restart, a container takes the lock of the volume it has.
LEMMA RemountsStep ==
  ASSUME IInv, NEW c \in Containers, Remounts(c)
  PROVE  IInv'
<1>1. mount[c][1] \in Names /\ mount[c][2] \in Drivers /\ mount[c] = <<mount[c][1], mount[c][2]>>
  BY MountFacts DEF IInv, Remounts
<1>2. PICK n \in Names, d \in Drivers : n = mount[c][1] /\ d = mount[c][2] /\ mount[c] = <<n, d>>
  BY <1>1
<1> QED
  BY <1>2, LocksStep, VolumeAssumption DEF Remounts, Procs
-----------------------------------------------------------------------------
\* An operation ends, and has changed nothing, or has removed a volume and not purged it.
LEMMA EndsStep ==
  ASSUME IInv, NEW p \in Procs, MakeFails(p) \/ (DeleteFails(p) /\ Ends(p, name[p])) \/ PurgeCancelled(p)
  PROVE  IInv'
<1> USE DEF store, boot, aside, config
<1>0. /\ pc[p] \in {"make", "delete", "purge"} /\ Ends(p, name[p])
      /\ UNCHANGED <<store, meta, vols, config, boot, lost, absent, drift, faults>>
      /\ cut' = IF pc[p] = "purge" THEN cut \cup {name[p]} ELSE cut
  BY DEF MakeFails, DeleteFails, PurgeCancelled
<1>1. name[p] \in Names
  BY <1>0 DEF IInv, LocksOK, Busy
<1>2. LocksOK'
  BY <1>0, <1>1 DEF IInv, TypeOK, Ends, LocksOK, Busy
<1>3. TypeOK'
  BY <1>0, <1>1, <1>2 DEF IInv, TypeOK, Ends, LocksOK, Busy
<1>4. AsksOK'
  BY <1>0 DEF IInv, TypeOK, Ends, AsksOK, Asks, Procs
<1>5. StagesOK'
  BY <1>0 DEF IInv, TypeOK, Ends, StagesOK, Stage
<1>6. StoreOK'
  BY <1>0, <1>1 DEF IInv, TypeOK, Ends, StoreOK, Mounts
<1>7. MountsOK' /\ BootOK'
  BY <1>0 DEF IInv, TypeOK, MountsOK, BootOK
<1>8. CountOK'
  <2>1. \A e \in Drivers : Counted(e)' = Counted(e)
    BY <1>0 DEF IInv, TypeOK, Ends, Counted
  <2> QED
    BY <1>0, <2>1, CountsKept DEF IInv
<1> QED
  BY <1>2, <1>3, <1>4, <1>5, <1>6, <1>7, <1>8 DEF IInv

\* Prune decides on a volume, without its lock.
LEMMA FindsStep ==
  ASSUME IInv, NEW p \in Clients, NEW n \in Names, Finds(p, n)
  PROVE  IInv'
<1> USE DEF store, boot, aside, config, Procs
<1>0. /\ phase = "up" /\ pc[p] = "idle" /\ p \in Procs /\ p \notin Containers /\ DefaultDriver \in Drivers
      /\ pc' = [pc EXCEPT ![p] = "rm"]
      /\ name' = [name EXCEPT ![p] = n] /\ drv' = [drv EXCEPT ![p] = DefaultDriver]
      /\ UNCHANGED <<store, meta, vols, holder, config, boot, aside>>
  BY VolumeAssumption DEF Finds
<1>1. LocksOK'
  BY <1>0 DEF IInv, TypeOK, LocksOK, Busy
<1>2. TypeOK'
  BY <1>0, <1>1 DEF IInv, TypeOK, LocksOK, Busy
<1>3. AsksOK'
  BY <1>0 DEF IInv, TypeOK, AsksOK, Asks
<1>4. StagesOK'
  BY <1>0 DEF IInv, TypeOK, StagesOK, Stage
<1>5. StoreOK'
  BY <1>0 DEF IInv, TypeOK, StoreOK, Mounts
<1>6. MountsOK' /\ BootOK'
  BY <1>0 DEF IInv, TypeOK, MountsOK, BootOK
<1>7. CountOK'
  <2>1. \A e \in Drivers : Counted(e)' = Counted(e)
    BY <1>0 DEF IInv, TypeOK, Counted
  <2> QED
    BY <1>0, <2>1, CountsKept DEF IInv
<1> QED
  BY <1>1, <1>2, <1>3, <1>4, <1>5, <1>6, <1>7 DEF IInv

(***************************************************************************)
(* The driver removes the volume, or fails to: nobody refers to it, so     *)
(* that the containers that have it have lost it before.                   *)
(***************************************************************************)
LEMMA DeleteStep ==
  ASSUME IInv, NEW p \in Procs, Delete(p) \/ (DeleteFails(p) /\ Goes(p, "purge", drv[p]))
  PROVE  IInv'
<1> USE DEF store, boot, aside, config
<1>0. PICK n, d : n = name[p] /\ d = drv[p]
  OBVIOUS
<1>1. /\ pc[p] = "delete" /\ Goes(p, "purge", d)
      /\ UNCHANGED <<store, meta, config, boot, aside>>
      /\ vols' \in {vols, [vols EXCEPT ![d] = @ \ {n}]}
  BY <1>0 DEF Delete, DeleteFails
<1>2. n \in Names /\ d \in Drivers /\ holder[n] = p /\ refs[n] = {} /\ phase = "up" /\ p \in Clients
  BY <1>0, <1>1 DEF IInv, TypeOK, LocksOK, Busy, StagesOK, Stage
<1>3. /\ \A m \in Names : m # n => \A e \in Drivers : m \in vols'[e] <=> m \in vols[e]
      /\ vols' \in [Drivers -> SUBSET Names]
  BY <1>1, <1>2 DEF IInv, TypeOK
<1>4. LocksOK'
  BY <1>0, <1>1, <1>2 DEF IInv, TypeOK, Goes, LocksOK, Busy
<1>5. TypeOK'
  BY <1>1, <1>3, <1>4 DEF IInv, TypeOK, Goes, LocksOK, Busy
<1>6. AsksOK'
  BY <1>1, <1>2, VolumeAssumption DEF IInv, TypeOK, Goes, AsksOK, Asks, Procs
<1>7. StagesOK'
  <2>1. \A q \in Procs : q # p => pc'[q] = pc[q] /\ name'[q] = name[q] /\ drv'[q] = drv[q]
    BY <1>1 DEF IInv, TypeOK, Goes
  <2>2. \A q \in Procs : q # p /\ pc[q] \in {"record", "name", "found"} =>
           name[q] # n /\ name[q] \in Names /\ drv[q] \in Drivers
    BY <1>2 DEF IInv, LocksOK, Busy
  <2>3. pc'[p] = "purge" /\ name'[p] = n
    BY <1>0, <1>1 DEF IInv, TypeOK, Goes
  <2> QED
    BY <1>1, <1>2, <1>3, <2>1, <2>2, <2>3 DEF IInv, TypeOK, StagesOK, Stage
<1>8. StoreOK'
  <2>1. pc'[p] = "purge" /\ name'[p] = n
    BY <1>0, <1>1 DEF IInv, TypeOK, Goes
  <2>2. \A q \in Procs : pc[q] = "purge" => pc'[q] = "purge" /\ name'[q] = name[q]
    BY <1>1 DEF IInv, TypeOK, Goes
  <2> QED
    BY <1>1, <1>3, <2>1, <2>2 DEF IInv, TypeOK, StoreOK, Mounts
<1>9. MountsOK'
  <2>1. \A c \in Containers \ absent : mount[c] # None =>
          /\ mount[c][1] \in Names /\ mount[c][2] \in Drivers
          /\ mount[c][1] = n => n \in lost
    BY <1>2, MountFacts DEF IInv, MountsOK
  <2> QED
    BY <1>1, <1>3, <2>1 DEF IInv, MountsOK
<1>10. BootOK'
  BY <1>1 DEF IInv, BootOK
<1>11. CountOK'
  <2>1. \A e \in Drivers : Counted(e)' = Counted(e)
    BY <1>1 DEF IInv, TypeOK, Goes, Counted
  <2> QED
    BY <1>1, <2>1, CountsKept DEF IInv
<1> QED
  BY <1>4, <1>5, <1>6, <1>7, <1>8, <1>9, <1>10, <1>11 DEF IInv

\* What the drivers do by themselves.
LEMMA DriverSteps ==
  ASSUME IInv, NEW d \in Drivers, NEW n \in Names, DriverLoses(d, n) \/ DriverGains(d, n)
  PROVE  IInv'
<1> USE DEF store, boot, proc, config
<1>1. /\ UNCHANGED <<store, meta, holder, proc, config, boot, absent, drift, cut>>
      /\ vols' \in [Drivers -> SUBSET Names] /\ lost \subseteq lost' /\ lost' \subseteq Names
      /\ faults' \subseteq {"wrong", "loses", "gains", "crash", "label"}
      /\ \A m \in Names, e \in Drivers : m \in vols[e] => m \in vols'[e] \/ m \in lost'
  <2>1. CASE DriverLoses(d, n)
    BY <2>1 DEF DriverLoses, IInv, TypeOK
  <2>2. CASE DriverGains(d, n)
    BY <2>2 DEF DriverGains, IInv, TypeOK
  <2> QED
    BY <2>1, <2>2
<1>2. TypeOK' /\ LocksOK' /\ AsksOK'
  BY <1>1 DEF IInv, TypeOK, LocksOK, Busy, AsksOK, Asks
<1>3. StagesOK'
  BY <1>1 DEF IInv, LocksOK, Busy, StagesOK, Stage
<1>4. StoreOK'
  BY <1>1 DEF IInv, TypeOK, StoreOK, Mounts
<1>5. MountsOK'
  BY <1>1, MountFacts DEF IInv, MountsOK
<1>6. BootOK'
  BY <1>1 DEF IInv, BootOK
<1>7. CountOK'
  <2>1. \A e \in Drivers : Counted(e)' = Counted(e)
    BY <1>1 DEF Counted
  <2> QED
    BY <1>1, <2>1, CountsKept DEF IInv
<1> QED
  BY <1>2, <1>3, <1>4, <1>5, <1>6, <1>7 DEF IInv
-----------------------------------------------------------------------------
(***************************************************************************)
(* While a volume is made, the store does not know one of that name; a     *)
(* container that has one has lost it.                                     *)
(***************************************************************************)
LEMMA MakingFacts ==
  ASSUME IInv, NEW p \in Procs, pc[p] \in {"make", "record"}
  PROVE  /\ name[p] \in Names /\ drv[p] \in Drivers /\ holder[name[p]] = p /\ phase = "up"
         /\ cached[name[p]] = None /\ refs[name[p]] = {}
         /\ \A c \in Containers \ absent : mount[c] # None /\ mount[c][1] = name[p] => name[p] \in lost
         /\ \A q \in Procs : q # p /\ Busy(q) => name[q] # name[p]
         /\ \A e \in Drivers : name[p] \in Counted(e) <=> e = drv[p] /\ pc[p] = "record"
<1>1. /\ name[p] \in Names /\ drv[p] \in Drivers /\ holder[name[p]] = p /\ phase = "up"
      /\ cached[name[p]] = None
      /\ \A q \in Procs : q # p /\ Busy(q) => name[q] # name[p]
  BY DEF IInv, TypeOK, LocksOK, Busy, StagesOK, Stage
<1>2. refs[name[p]] = {}
  BY <1>1 DEF IInv, StoreOK
<1>3. \A c \in Containers \ absent : mount[c] # None /\ mount[c][1] = name[p] => name[p] \in lost
  BY <1>1, <1>2 DEF IInv, MountsOK
<1>4. \A e \in Drivers : name[p] \in Counted(e) <=> e = drv[p] /\ pc[p] = "record"
  BY <1>1, VolumeAssumption DEF Counted, Busy
<1> QED
  BY <1>1, <1>2, <1>3, <1>4

\* The driver makes the volume, and is referenced for it.
LEMMA MakeStep ==
  ASSUME IInv, NEW p \in Procs, Make(p)
  PROVE  IInv'
<1> USE DEF store, boot, aside, config
<1>0. PICK n, d : n = name[p] /\ d = drv[p]
  OBVIOUS
<1>1. /\ pc[p] = "make" /\ Goes(p, "record", d)
      /\ vols' = [vols EXCEPT ![d] = @ \cup {n}] /\ count' = [count EXCEPT ![d] = CreateDriver(@)]
      /\ lost' = IF Mounts(n) \subseteq absent THEN lost \ {n} ELSE lost
      /\ UNCHANGED <<cached, refs, meta, config, boot, absent, drift, cut, faults>>
  BY <1>0 DEF Make
<1>2. /\ n \in Names /\ d \in Drivers /\ holder[n] = p /\ phase = "up" /\ cached[n] = None /\ refs[n] = {}
      /\ \A c \in Containers \ absent : mount[c] # None /\ mount[c][1] = n => n \in lost
      /\ \A q \in Procs : q # p /\ Busy(q) => name[q] # n
      /\ \A e \in Drivers : n \notin Counted(e)
  BY <1>0, <1>1, MakingFacts
<1>3. /\ \A e \in Drivers : vols[e] \subseteq vols'[e]
      /\ n \in vols'[d] /\ vols' \in [Drivers -> SUBSET Names]
      /\ \A m \in Names : m # n => (m \in lost' <=> m \in lost)
      /\ lost' \subseteq Names
  BY <1>1, <1>2 DEF IInv, TypeOK
<1>4. LocksOK'
  BY <1>0, <1>1, <1>2 DEF IInv, TypeOK, Goes, LocksOK, Busy
<1>5. TypeOK'
  <2>1. count' \in [Drivers -> Int]
    BY <1>1, <1>2 DEF IInv, TypeOK, CreateDriver
  <2> QED
    BY <1>1, <1>2, <1>3, <1>4, <2>1 DEF IInv, TypeOK, Goes, LocksOK, Busy
<1>6. AsksOK'
  BY <1>1 DEF IInv, TypeOK, Goes, AsksOK, Asks, Procs
<1>7. StagesOK'
  <2>1. \A q \in Procs : q # p => pc'[q] = pc[q] /\ name'[q] = name[q] /\ drv'[q] = drv[q]
    BY <1>1 DEF IInv, TypeOK, Goes
  <2>2. \A q \in Procs : q # p /\ pc[q] \in {"record", "name", "found"} =>
           name[q] # n /\ name[q] \in Names /\ drv[q] \in Drivers
    BY <1>2 DEF IInv, LocksOK, Busy
  <2>3. \A q \in Procs : q # p /\ pc[q] = "found" => name[q] # n /\ name[q] \in Names
    BY <2>2
  <2>4. pc'[p] = "record" /\ name'[p] = n /\ drv'[p] = d
    BY <1>0, <1>1 DEF IInv, TypeOK, Goes
  <2> QED
    BY <1>1, <1>2, <1>3, <2>1, <2>2, <2>3, <2>4 DEF IInv, TypeOK, StagesOK, Stage
<1>8. StoreOK'
  <2>1. \A q \in Procs : pc[q] = "purge" => pc'[q] = "purge" /\ name'[q] = name[q]
    BY <1>1 DEF IInv, TypeOK, Goes
  <2> QED
    BY <1>1, <1>2, <1>3, <2>1 DEF IInv, TypeOK, StoreOK, Mounts
<1>9. MountsOK'
  <2>1. \A c \in Containers \ absent : mount[c] # None /\ mount[c][1] = n => n \in lost'
    BY <1>1, <1>2 DEF Mounts
  <2> QED
    BY <1>1, <1>3, <2>1, MountFacts DEF IInv, MountsOK
<1>10. BootOK'
  BY <1>1 DEF IInv, BootOK
<1>11. CountOK'
  <2>1. \A e \in Drivers : Counted(e)' = IF e = d THEN Counted(e) \cup {n} ELSE Counted(e)
    BY <1>0, <1>1, <1>2 DEF IInv, TypeOK, Goes, Counted
  <2>2. \A e \in Drivers : count'[e] = IF e = d THEN CreateDriver(count[e]) ELSE count[e]
    BY <1>1, <1>2 DEF IInv, TypeOK
  <2>3. \A e \in Drivers : Follows(e)
    BY <1>2, <2>1, <2>2 DEF Follows
  <2> QED
    BY <1>1, <2>3, CountsFollow DEF IInv
<1> QED
  BY <1>4, <1>5, <1>6, <1>7, <1>8, <1>9, <1>10, <1>11 DEF IInv

\* The volume is recorded.
LEMMA RecordStep ==
  ASSUME IInv, NEW p \in Procs, Record(p)
  PROVE  IInv'
<1> USE DEF store, boot, aside, config
<1>0. PICK n, d : n = name[p] /\ d = drv[p]
  OBVIOUS
<1>1. /\ pc[p] = "record" /\ Goes(p, "name", d)
      /\ refs' = [refs EXCEPT ![n] = {}] /\ meta' = [meta EXCEPT ![n] = d]
      /\ UNCHANGED <<cached, count, vols, config, boot, aside>>
  BY <1>0 DEF Record
<1>2. /\ n \in Names /\ d \in Drivers /\ holder[n] = p /\ phase = "up" /\ cached[n] = None /\ refs[n] = {}
      /\ \A c \in Containers \ absent : mount[c] # None /\ mount[c][1] = n => n \in lost
      /\ \A q \in Procs : q # p /\ Busy(q) => name[q] # n
  BY <1>0, <1>1, MakingFacts
<1>3. refs' = refs /\ \A m \in Names : m # n => meta'[m] = meta[m]
  BY <1>1, <1>2 DEF IInv, TypeOK
<1>4. LocksOK'
  BY <1>0, <1>1, <1>2 DEF IInv, TypeOK, Goes, LocksOK, Busy
<1>5. TypeOK'
  BY <1>1, <1>2, <1>3, <1>4 DEF IInv, TypeOK, Goes, LocksOK, Busy
<1>6. AsksOK'
  BY <1>1 DEF IInv, TypeOK, Goes, AsksOK, Asks, Procs
<1>7. StagesOK'
  <2>1. \A q \in Procs : q # p => pc'[q] = pc[q] /\ name'[q] = name[q] /\ drv'[q] = drv[q]
    BY <1>1 DEF IInv, TypeOK, Goes
  <2>2. \A q \in Procs : q # p /\ pc[q] \in {"name", "found"} => name[q] # n /\ name[q] \in Names
    BY <1>2 DEF IInv, LocksOK, Busy
  <2>3. pc'[p] = "name" /\ name'[p] = n /\ drv'[p] = d /\ meta'[n] = d
    BY <1>0, <1>1, <1>2 DEF IInv, TypeOK, Goes
  <2>4. n \in vols[d] \/ n \in lost
    BY <1>0, <1>1 DEF IInv, StagesOK, Stage
  <2> QED
    BY <1>1, <1>2, <1>3, <2>1, <2>2, <2>3, <2>4 DEF IInv, StagesOK, Stage
<1>8. StoreOK'
  <2>1. \A q \in Procs : pc[q] = "purge" => pc'[q] = "purge" /\ name'[q] = name[q]
    BY <1>1 DEF IInv, TypeOK, Goes
  <2> QED
    BY <1>1, <1>2, <1>3, <2>1 DEF IInv, TypeOK, StoreOK, Mounts
<1>9. MountsOK'
  BY <1>1, <1>2, <1>3, MountFacts DEF IInv, MountsOK
<1>10. BootOK'
  BY <1>1, <1>2, <1>3 DEF IInv, BootOK
<1>11. CountOK'
  <2>1. \A e \in Drivers : Counted(e)' = Counted(e)
    BY <1>0, <1>1 DEF IInv, TypeOK, Goes, Counted
  <2> QED
    BY <1>1, <2>1, CountsKept DEF IInv
<1> QED
  BY <1>4, <1>5, <1>6, <1>7, <1>8, <1>9, <1>10, <1>11 DEF IInv

\* It is not recorded: the driver keeps a reference too many.
LEMMA RecordFailsStep ==
  ASSUME IInv, NEW p \in Procs, RecordFails(p)
  PROVE  IInv'
<1> USE DEF store, boot, aside, config
<1>0. PICK n, d : n = name[p] /\ d = drv[p]
  OBVIOUS
<1>1. /\ pc[p] = "record" /\ Ends(p, n)
      /\ refs' = [refs EXCEPT ![n] = {}] /\ drift' = drift \cup {d}
      /\ UNCHANGED <<cached, count, meta, vols, config, boot, lost, absent, cut, faults>>
  BY <1>0 DEF RecordFails
<1>2. n \in Names /\ d \in Drivers /\ holder[n] = p /\ refs[n] = {}
  BY <1>0, <1>1, MakingFacts
<1>3. refs' = refs
  BY <1>1, <1>2 DEF IInv, TypeOK
<1>4. LocksOK'
  BY <1>0, <1>1, <1>2 DEF IInv, TypeOK, Ends, LocksOK, Busy
<1>5. TypeOK'
  BY <1>1, <1>2, <1>3, <1>4 DEF IInv, TypeOK, Ends, LocksOK, Busy
<1>6. AsksOK'
  BY <1>1 DEF IInv, TypeOK, Ends, AsksOK, Asks, Procs
<1>7. StagesOK'
  BY <1>1, <1>3 DEF IInv, TypeOK, Ends, StagesOK, Stage
<1>8. StoreOK'
  BY <1>1, <1>3 DEF IInv, TypeOK, Ends, StoreOK, Mounts
<1>9. MountsOK' /\ BootOK'
  BY <1>1, <1>3 DEF IInv, MountsOK, BootOK
<1>10. CountOK'
  <2>1. \A e \in Drivers : e = d \/ Counted(e)' = Counted(e)
    BY <1>0, <1>1 DEF IInv, TypeOK, Ends, Counted
  <2> QED
    BY <1>1, <2>1, CountsKept DEF IInv
<1> QED
  BY <1>4, <1>5, <1>6, <1>7, <1>8, <1>9, <1>10 DEF IInv
-----------------------------------------------------------------------------
\* Before setNamed: what the operation has found agrees with what is known.
LEMMA NamingFacts ==
  ASSUME IInv, NEW p \in Procs, pc[p] \in {"name", "found"}, NEW n, NEW d, n = name[p], d = drv[p]
  PROVE  /\ n \in Names /\ d \in Drivers /\ holder[n] = p /\ phase # "restore"
         /\ pc[p] = "name" => phase = "up"
         /\ n \in vols[d] \/ n \in lost
         /\ meta[n] \in {None, d}
         /\ p \in Containers => mount[p] \in {None, <<n, d>>}
         /\ \A q \in Procs : q # p /\ Busy(q) => name[q] # n
         /\ n \in lost \/ Contested(n, d) \/ \A c \in Containers \ absent : mount[c] # None /\ mount[c][1] = n => mount[c][2] = d
         /\ pc[p] = "name" => ~Contested(n, d) \/ n \in lost
<1>1. /\ n \in Names /\ d \in Drivers /\ holder[n] = p /\ phase # "restore"
      /\ pc[p] = "name" => phase = "up"
      /\ n \in vols[d] \/ n \in lost
      /\ p \in Containers => mount[p] \in {None, <<n, d>>}
      /\ \A q \in Procs : q # p /\ Busy(q) => name[q] # n
  BY DEF IInv, TypeOK, LocksOK, Busy, StagesOK, Stage, AsksOK, Asks
<1>2. meta[n] \in {None, d}
  BY <1>1, VolumeAssumption DEF IInv, StagesOK, Stage, StoreOK
<1>3. ASSUME n \notin lost, pc[p] = "name" \/ ~Contested(n, d), NEW c \in Containers \ absent, mount[c] # None, mount[c][1] = n
      PROVE  mount[c][2] = d
  <2>1. meta[n] \in {mount[c][2], None} /\ (phase = "up" => cached[n] = mount[c][2]) /\ mount[c][2] \in Drivers
    BY <1>3, MountFacts DEF IInv, MountsOK
  <2>2. CASE meta[n] # None
    BY <1>2, <2>1, <2>2
  <2>3. CASE meta[n] = None /\ ~Contested(n, d)
    BY <1>1, <1>3, <2>3 DEF Contested, Mounts
  <2>4. CASE meta[n] = None /\ pc[p] = "name"
    BY <1>1, <2>1, <2>4, VolumeAssumption DEF IInv, StagesOK, Stage
  <2> QED
    BY <1>3, <2>2, <2>3, <2>4
<1>4. ASSUME pc[p] = "name", n \notin lost PROVE ~Contested(n, d)
  BY <1>3, <1>4 DEF Contested, Mounts
<1> QED
  BY <1>1, <1>2, <1>3, <1>4

\* setNamed: what it does to the store and to the configurations.
LEMMA SetNamedKeeps ==
  ASSUME IInv, NEW p \in Procs, pc[p] \in {"name", "found"}, NEW n, NEW d, n = name[p], d = drv[p],
         SetNamed(p, n, d), Obtains(p, n, d), UNCHANGED <<meta, vols, phase, cut>>, drift \subseteq drift',
         lost \subseteq lost', Contested(n, d) => n \in lost',
         meta[n] = None => d \in drift',
         todo' \subseteq todo, todo \ {p} \subseteq todo', p \in Containers /\ phase = "mounts" => p \notin todo',
         absent' \subseteq absent, absent \ {p} \subseteq absent', p \notin absent',
         \A q \in Procs : pc[q] = "purge" => pc'[q] = "purge" /\ name'[q] = name[q]
  PROVE  StoreOK' /\ MountsOK' /\ BootOK'
<1>1. /\ n \in Names /\ d \in Drivers /\ holder[n] = p /\ phase # "restore" /\ (pc[p] = "name" => phase = "up")
      /\ n \in vols[d] \/ n \in lost
      /\ meta[n] \in {None, d}
      /\ p \in Containers => mount[p] \in {None, <<n, d>>}
      /\ n \notin lost' => \A c \in Containers \ absent : mount[c] # None /\ mount[c][1] = n => mount[c][2] = d
  BY NamingFacts
<1>2. <<n, d>> # None
  BY <1>1, VolumeAssumption
<1>3. /\ \A m \in Names : cached'[m] = IF m = n THEN d ELSE cached[m]
      /\ \A m \in Names : refs'[m] = IF m = n /\ p \in Containers THEN refs[m] \cup {p} ELSE refs[m]
      /\ \A c \in Containers : mount'[c] = IF c = p THEN <<n, d>> ELSE mount[c]
  BY <1>1, ZenonT(60) DEF SetNamed, Obtains, IInv, TypeOK
<1>4. \A c \in Containers : mount'[c] # None =>
         \/ mount[c] # None /\ mount'[c] = mount[c]
         \/ c = p /\ mount[c] = None /\ mount'[c][1] = n /\ mount'[c][2] = d
  BY <1>1, <1>2, <1>3
<1>5. \A c \in Containers : mount[c] # None => mount'[c] = mount[c]
  BY <1>1, <1>3
<1>refs. \A m \in Names : \A c : c \in refs'[m] => c \in refs[m] \/ (m = n /\ c = p /\ p \in Containers)
  <2>1. CASE p \in Containers
    <3>1. \A m \in Names : refs'[m] = IF m = n THEN refs[m] \cup {p} ELSE refs[m]
      BY <1>3, <2>1
    <3> QED
      BY <2>1, <3>1, ZenonT(60)
  <2>2. CASE p \notin Containers
    BY <1>3, <2>2
  <2> QED
    BY <2>1, <2>2
<1>6. StoreOK'
  <2>1. \A m \in Names : refs'[m] \subseteq Mounts(m)' \cup leaked'
    <3>1. \A m \in Names : \A c \in refs[m] : c \in Mounts(m)' \cup leaked'
      BY <1>5 DEF IInv, StoreOK, Mounts, Obtains
    <3>2. p \in Containers => p \in Mounts(n)'
      BY <1>2, <1>3 DEF Mounts
    <3> QED
      BY <1>refs, <3>1, <3>2
  <2>2. \A m \in Names : refs'[m] # {} => cached'[m] # None
    <3>1. \A m \in Names : m # n => refs'[m] = refs[m] /\ cached'[m] = cached[m]
      BY <1>3
    <3>2. cached'[n] # None
      BY <1>1, <1>3, VolumeAssumption
    <3> QED
      BY <3>1, <3>2 DEF IInv, StoreOK
  <2>3. \A m \in Names : cached'[m] # None =>
           /\ meta'[m] \in {cached'[m], None}
           /\ meta'[m] = None => cached'[m] \in drift'
           /\ \/ m \in vols'[cached'[m]] \/ m \in lost' \/ m \in cut'
              \/ \E q \in Procs : pc'[q] = "purge" /\ name'[q] = m
    BY <1>1, <1>3 DEF IInv, StoreOK
  <2> QED
    BY <2>1, <2>2, <2>3 DEF StoreOK
<1>7. MountsOK'
  <2> SUFFICES ASSUME NEW c \in Containers \ absent', mount'[c] # None, NEW m, m = mount'[c][1], NEW x, x = mount'[c][2],
                      m \notin lost'
               PROVE  /\ m \in vols[x] /\ meta[m] \in {x, None} /\ cached'[m] \in {x, None}
                      /\ \A e \in Containers \ absent' : mount'[e] # None /\ mount'[e][1] = m => mount'[e][2] = x
                      /\ (phase = "up" \/ (phase = "mounts" /\ c \notin todo')) => c \in refs'[m] /\ cached'[m] = x
    BY DEF MountsOK
  <2>1. CASE m = n
    <3>0. \A e \in Containers \ absent' : e = p \/ e \notin absent
      OBVIOUS
    <3>1. x = d
      <4>1. CASE c = p
        BY <1>3, <4>1
      <4>2. CASE c # p
        BY <1>1, <1>3, <2>1, <3>0, <4>2, ZenonT(60)
      <4> QED
        BY <4>1, <4>2
    <3>2. \A e \in Containers \ absent' : mount'[e] # None /\ mount'[e][1] = n => mount'[e][2] = d
      BY <1>1, <1>3, <1>4, <2>1, <3>0
    <3>3. cached'[n] = d /\ n \in vols[d]
      BY <1>1, <1>3, <2>1
    <3>4. phase = "up" \/ (phase = "mounts" /\ c \notin todo') => c \in refs'[n]
      <4>1. CASE c = p
        BY <1>1, <1>3, <4>1
      <4>2. CASE c # p
        <5>1. mount[c] # None /\ mount[c][1] = n
          BY <1>3, <2>1, <4>2
        <5>2. phase = "up" \/ (phase = "mounts" /\ c \notin todo') => c \in refs[n]
          BY <2>1, <3>0, <4>2, <5>1 DEF IInv, MountsOK
        <5> QED
          BY <1>1, <1>3, <5>2
      <4> QED
        BY <4>1, <4>2
    <3> QED
      BY <1>1, <2>1, <3>1, <3>2, <3>3, <3>4
  <2>2. CASE m # n
    <3>1. c # p /\ c \notin absent /\ mount[c] # None /\ mount[c][1] = m /\ mount[c][2] = x /\ m \in Names
      BY <1>3, <2>2, MountFacts DEF IInv
    <3>2. \A e \in Containers \ absent' : e # p => e \notin absent
      OBVIOUS
    <3>5. \A e \in Containers \ absent' : mount'[e] # None /\ mount'[e][1] = m => mount[e] # None /\ mount[e][1] = m /\ mount'[e] = mount[e]
      BY <1>4, <2>2
    <3>6. \A e \in Containers \ absent' : mount'[e] # None /\ mount'[e][1] = m => e # p
      BY <1>3, <2>2
    <3>3. /\ m \in vols[x] /\ meta[m] \in {x, None} /\ cached[m] \in {x, None}
          /\ \A e \in Containers \ absent : mount[e] # None /\ mount[e][1] = m => mount[e][2] = x
          /\ (phase = "up" \/ (phase = "mounts" /\ c \notin todo)) => c \in refs[m] /\ cached[m] = x
      BY <3>1 DEF IInv, MountsOK
    <3>4. cached'[m] = cached[m] /\ refs'[m] = refs[m] /\ (c \notin todo' => c \notin todo)
      BY <1>3, <2>2, <3>1
    <3> QED
      BY <3>2, <3>3, <3>4, <3>5, <3>6
  <2> QED
    BY <2>1, <2>2
<1>8. BootOK'
  <2>1. \A c \in absent \cup (IF phase = "mounts" THEN todo ELSE {}) : mount[c] # None /\ \A m \in Names : c \notin refs[m]
    BY DEF IInv, BootOK
  <2>2. /\ phase = "mounts" => todo \subseteq Containers
        /\ phase = "up" => todo = {}
    BY DEF IInv, BootOK
  <2>3. \A c \in absent' \cup (IF phase = "mounts" THEN todo' ELSE {}) : c # p /\ c \in Containers /\ c \in absent \cup (IF phase = "mounts" THEN todo ELSE {})
    BY <1>1, <2>2 DEF IInv, TypeOK
  <2>4. \A c \in absent' \cup (IF phase = "mounts" THEN todo' ELSE {}) : mount'[c] # None /\ \A m \in Names : c \notin refs'[m]
    BY <1>refs, <1>5, <2>1, <2>3
  <2>5. \A c \in fresh' : phase = "up" /\ mount'[c] # None /\ c \notin absent'
    <3>1. \A c \in fresh' : c \in fresh \/ (c = p /\ p \in Containers /\ mount[p] = None)
      BY DEF Obtains
    <3>2. \A c \in fresh : c \in Containers /\ phase = "up" /\ mount[c] # None /\ c \notin absent
      BY DEF IInv, TypeOK, BootOK
    <3>3. p \in Containers /\ mount[p] = None => phase = "up"
      BY <1>1, <2>1 DEF IInv, TypeOK, LocksOK
    <3> QED
      BY <1>2, <1>3, <1>5, <3>1, <3>2, <3>3
  <2> QED
    BY <1>1, <2>2, <2>4, <2>5 DEF BootOK
<1> QED
  BY <1>6, <1>7, <1>8

\* What the other operations have found out is about other names.
LEMMA OthersKept ==
  ASSUME IInv, NEW p \in Procs, NEW n \in Names, \A q \in Procs : q # p /\ Busy(q) => name[q] # n,
         Stage(p)',
         \A q \in Procs : q # p => pc'[q] = pc[q] /\ name'[q] = name[q] /\ drv'[q] = drv[q],
         \A m \in Names : m # n => /\ cached'[m] = cached[m] /\ refs'[m] = refs[m] /\ meta'[m] = meta[m]
                                   /\ m \in lost => m \in lost',
         UNCHANGED vols
  PROVE  StagesOK'
<1>1. \A q \in Procs : q # p /\ Busy(q) => name[q] \in Names /\ name[q] # n
  BY DEF IInv, LocksOK
<1> QED
  BY <1>1 DEF IInv, StagesOK, Stage, Busy

\* The other containers still ask for what they asked.
LEMMA OthersAsk ==
  ASSUME IInv, NEW p \in Procs, UNCHANGED phase, p \in Containers => Asks(p)',
         \A q \in Procs : q # p => pc'[q] = pc[q] /\ name'[q] = name[q] /\ drv'[q] = drv[q],
         \A c \in Containers : c # p => mount'[c] = mount[c] /\ (c \in absent => c \in absent')
  PROVE  AsksOK'
<1>1. p \in Containers => Asks(p)'
  OBVIOUS
<1>2. ASSUME NEW c \in Containers, c # p PROVE Asks(c)'
  <2>1. c \in Procs /\ pc'[c] = pc[c] /\ name'[c] = name[c] /\ drv'[c] = drv[c] /\ mount'[c] = mount[c]
    BY <1>2 DEF Procs
  <2>2. pc[c] = "get" => drv[c] \in Drivers
    BY DEF IInv, AsksOK, Asks
  <2>3. pc[c] \in {"create", "probe", "make", "record", "name"} => mount[c] = None
    BY DEF IInv, AsksOK, Asks
  <2>4. pc[c] \in {"get", "found"} /\ mount[c] # None =>
           mount[c] = <<name[c], drv[c]>> /\ (phase = "mounts" \/ c \in absent)
    BY DEF IInv, AsksOK, Asks
  <2> QED
    BY <1>2, <2>1, <2>2, <2>3, <2>4 DEF Asks
<1> QED
  BY <1>1, <1>2 DEF AsksOK

\* The end of Create.
LEMMA NamedStep ==
  ASSUME IInv, NEW p \in Procs, Named(p)
  PROVE  IInv'
<1> USE DEF store, boot, aside, config
<1>0. PICK n, d : n = name[p] /\ d = drv[p]
  OBVIOUS
<1>1. pc[p] = "name" /\ SetNamed(p, n, d) /\ Obtains(p, n, d) /\ Ends(p, n) /\ UNCHANGED <<count, meta, vols, boot, aside>>
  BY <1>0 DEF Named
<1>2. /\ n \in Names /\ d \in Drivers /\ holder[n] = p /\ phase = "up" /\ meta[n] \in {None, d}
      /\ \A q \in Procs : q # p /\ Busy(q) => name[q] # n
      /\ Contested(n, d) => n \in lost
  BY <1>0, <1>1, NamingFacts
<1>3. cached[n] \in {None, d} /\ (meta[n] = None => d \in drift) /\ (p \in Containers => mount[p] = None)
  BY <1>0, <1>1, <1>2, VolumeAssumption DEF IInv, StagesOK, Stage, StoreOK, AsksOK, Asks
<1>4. /\ pc'[p] = "idle"
      /\ \A q \in Procs : q # p => pc'[q] = pc[q] /\ name'[q] = name[q] /\ drv'[q] = drv[q]
  BY <1>1 DEF IInv, TypeOK, Ends
<1>5. StoreOK' /\ MountsOK' /\ BootOK'
  <2>1. p \notin absent /\ todo = {}
    BY <1>2, <1>3 DEF IInv, BootOK, TypeOK
  <2> QED
    BY <1>0, <1>1, <1>2, <1>3, <1>4, <2>1, SetNamedKeeps
<1>6. LocksOK'
  BY <1>1, <1>2 DEF IInv, TypeOK, Ends, LocksOK, Busy
<1>7. TypeOK'
  BY <1>1, <1>2, <1>6 DEF IInv, TypeOK, Ends, SetNamed, Obtains, LocksOK, Busy
<1>8. AsksOK'
  <2>1. \A c \in Containers : c # p => mount'[c] = mount[c]
    BY <1>1, <1>3 DEF IInv, TypeOK, Obtains
  <2> QED
    BY <1>1, <1>4, <2>1, OthersAsk DEF Asks
<1>9. StagesOK'
  <2>1. \A m \in Names : m # n => cached'[m] = cached[m] /\ refs'[m] = refs[m]
    BY <1>1, <1>2 DEF IInv, TypeOK, SetNamed
  <2> QED
    BY <1>1, <1>2, <1>4, <2>1, OthersKept DEF Stage
<1>10. CountOK'
  <2>1. \A m \in Names : cached'[m] = IF m = n THEN d ELSE cached[m]
    BY <1>1, <1>2 DEF IInv, TypeOK, SetNamed
  <2>2. \A e \in Drivers : Counted(e)' = Counted(e)
    BY <1>0, <1>1, <1>2, <1>3, <1>4, <2>1, VolumeAssumption DEF Counted, Busy
  <2> QED
    BY <1>1, <2>2, CountsKept DEF IInv
<1> QED
  BY <1>5, <1>6, <1>7, <1>8, <1>9, <1>10 DEF IInv

\* The end of Get, and of a Create that found a volume.
LEMMA FoundStep ==
  ASSUME IInv, NEW p \in Procs, Found(p)
  PROVE  IInv'
<1> USE DEF store, boot, aside, config
<1>0. PICK n, d : n = name[p] /\ d = drv[p]
  OBVIOUS
<1>1. /\ pc[p] = "found" /\ SetNamed(p, n, d) /\ Obtains(p, n, d)
      /\ lost' = IF Contested(n, d) THEN lost \cup {n} ELSE lost
      /\ drift' = IF cached[n] = d THEN drift ELSE drift \cup {d}
      /\ todo' = todo \ {p} /\ absent' = absent \ {p}
      /\ holder' = [holder EXCEPT ![n] = None]
      /\ Ends(p, n) \/ (p \in Clients /\ pc' = [pc EXCEPT ![p] = "rm"] /\ UNCHANGED <<name, drv>>)
      /\ UNCHANGED <<count, meta, vols, phase, cut, faults>>
  BY <1>0 DEF Found, Ends
<1>2. /\ n \in Names /\ d \in Drivers /\ holder[n] = p /\ phase # "restore" /\ meta[n] \in {None, d}
      /\ \A q \in Procs : q # p /\ Busy(q) => name[q] # n
      /\ p \in Containers => mount[p] \in {None, <<n, d>>}
  BY <1>0, <1>1, NamingFacts
<1>3. meta[n] = None => d \in drift'
  BY <1>1, <1>2, VolumeAssumption DEF IInv, StoreOK
<1>4. /\ pc'[p] \in {"idle", "rm"} /\ (pc'[p] = "rm" => p \in Clients /\ name'[p] = n /\ drv'[p] = d)
      /\ \A q \in Procs : q # p => pc'[q] = pc[q] /\ name'[q] = name[q] /\ drv'[q] = drv[q]
      /\ pc' \in [Procs -> {"idle", "create", "probe", "make", "record", "name", "get", "found", "rm", "delete", "purge"}]
      /\ name' \in [Procs -> Names \cup {None}] /\ drv' \in [Procs -> Drivers \cup {AnyDriver, None}]
  <2>1. CASE Ends(p, n)
    BY <1>1, <2>1 DEF IInv, TypeOK, Ends
  <2>2. CASE p \in Clients /\ pc' = [pc EXCEPT ![p] = "rm"] /\ UNCHANGED <<name, drv>>
    BY <1>0, <1>1, <2>2 DEF IInv, TypeOK
  <2> QED
    BY <1>1, <2>1, <2>2
<1>5. StoreOK' /\ MountsOK' /\ BootOK'
  <2>1. \A q \in Procs : pc[q] = "purge" => pc'[q] = "purge" /\ name'[q] = name[q]
    BY <1>1, <1>4
  <2> QED
    BY <1>0, <1>1, <1>3, <2>1, SetNamedKeeps
<1>6. LocksOK'
  <2>1. \A q \in Procs : q # p /\ Busy(q) => holder'[name[q]] = q
    BY <1>1, <1>2 DEF IInv, TypeOK, LocksOK
  <2>2. phase = "mounts" => p \notin Clients
    BY <1>1, <1>2, VolumeAssumption DEF IInv, LocksOK, BootOK, Procs
  <2> QED
    BY <1>1, <1>2, <1>4, <2>1, <2>2 DEF IInv, LocksOK, Busy
<1>7. TypeOK'
  BY <1>1, <1>2, <1>4, <1>6 DEF IInv, TypeOK, SetNamed, Obtains, LocksOK, Busy
<1>8. AsksOK'
  <2>1. \A c \in Containers : c # p => mount'[c] = mount[c] /\ (c \in absent => c \in absent')
    BY <1>1 DEF IInv, TypeOK, Obtains
  <2>2. p \in Containers => pc'[p] = "idle"
    BY <1>4, VolumeAssumption
  <2> QED
    BY <1>1, <1>4, <2>1, <2>2, OthersAsk DEF Asks
<1>9. StagesOK'
  <2>1. \A m \in Names : m # n => cached'[m] = cached[m] /\ refs'[m] = refs[m]
    BY <1>1, <1>2 DEF IInv, TypeOK, SetNamed
  <2> QED
    BY <1>1, <1>2, <1>4, <2>1, OthersKept DEF Stage
<1>10. CountOK'
  <2>1. \A m \in Names : cached'[m] = IF m = n THEN d ELSE cached[m]
    BY <1>1, <1>2 DEF IInv, TypeOK, SetNamed
  <2>2. cached[n] \in {None, d} \/ cached[n] \in drift
    BY <1>2 DEF IInv, StoreOK
  <2>3. \A e \in Drivers : e # d /\ e \notin drift => Counted(e)' = Counted(e)
    BY <1>0, <1>1, <1>2, <1>4, <2>1, <2>2, VolumeAssumption DEF Counted, Busy
  <2>4. cached[n] = d => Counted(d)' = Counted(d)
    BY <1>0, <1>1, <1>2, <1>4, <2>1 DEF Counted, Busy
  <2>5. \A e \in Drivers : e \in drift' \/ Counted(e)' = Counted(e)
    BY <1>1, <2>3, <2>4
  <2> QED
    BY <1>1, <2>5, CountsKept DEF IInv
<1> QED
  BY <1>5, <1>6, <1>7, <1>8, <1>9, <1>10 DEF IInv

\* A container is removed.
LEMMA ReleaseStep ==
  ASSUME IInv, NEW c \in Containers, Release(c)
  PROVE  IInv'
<1> USE DEF store, boot, aside, proc, config
<1>0. PICK n, d : n = mount[c][1] /\ d = mount[c][2]
  OBVIOUS
<1>1. /\ phase = "up" /\ pc[c] = "idle" /\ mount[c] # None /\ holder[n] = None
      /\ refs' = IF c \in absent THEN refs ELSE [refs EXCEPT ![n] = @ \ {c}]
      /\ mount' = [mount EXCEPT ![c] = None] /\ fresh' = fresh \ {c} /\ absent' = absent \ {c}
      /\ UNCHANGED <<cached, count, meta, vols, holder, proc, leaked, boot, lost, drift, cut, faults>>
  BY <1>0 DEF Release
<1>2. n \in Names /\ d \in Drivers /\ mount[c] = <<n, d>>
  BY <1>0, <1>1, MountFacts DEF IInv
<1>3. /\ \A m \in Names : refs'[m] \subseteq refs[m] /\ \A e \in refs[m] : e # c => e \in refs'[m]
      /\ \A m \in Names : c \in refs'[m] => c \in leaked
  <2>1. \A m \in Names : c \in refs[m] => m = n \/ c \in leaked
    BY <1>0 DEF IInv, StoreOK, Mounts
  <2>2. c \in absent => \A m \in Names : c \notin refs[m]
    BY DEF IInv, BootOK
  <2>3. c \notin absent => \A m \in Names : refs'[m] = IF m = n THEN refs[m] \ {c} ELSE refs[m]
    BY <1>1, <1>2 DEF IInv, TypeOK
  <2>4. CASE c \in absent
    BY <1>1, <2>2, <2>4
  <2>5. CASE c \notin absent
    <3>1. \A m \in Names : refs'[m] \subseteq refs[m] /\ \A e \in refs[m] : e # c => e \in refs'[m]
      BY <2>3, <2>5
    <3>2. \A m \in Names : c \in refs'[m] => c \in leaked
      BY <2>1, <2>3, <2>5
    <3> QED
      BY <3>1, <3>2
  <2> QED
    BY <2>4, <2>5
<1>4. \A e \in Containers : mount'[e] = IF e = c THEN None ELSE mount[e]
  BY <1>1 DEF IInv, TypeOK
<1>5. LocksOK'
  BY <1>1 DEF IInv, LocksOK, Busy
<1>6. TypeOK'
  <2>1. refs' \in [Names -> SUBSET Containers]
    BY <1>1, <1>2 DEF IInv, TypeOK
  <2> QED
    BY <1>1, <2>1 DEF IInv, TypeOK
<1>7. AsksOK'
  BY <1>1, <1>4 DEF IInv, AsksOK, Asks
<1>8. StagesOK'
  <2>1. \A q \in Procs : pc[q] \in {"delete", "purge"} => name[q] \in Names /\ refs'[name[q]] = {}
    BY <1>3 DEF IInv, StagesOK, Stage, LocksOK, Busy
  <2> QED
    BY <1>1, <2>1 DEF IInv, StagesOK, Stage
<1>9. StoreOK'
  BY <1>1, <1>3, <1>4 DEF IInv, StoreOK, Mounts
<1>10. MountsOK'
  BY <1>1, <1>3, <1>4, MountFacts DEF IInv, MountsOK
<1>11. BootOK'
  BY <1>1, <1>3, <1>4 DEF IInv, BootOK, TypeOK
<1>12. CountOK'
  <2>1. \A e \in Drivers : Counted(e)' = Counted(e)
    BY <1>1 DEF Counted
  <2> QED
    BY <1>1, <2>1, CountsKept DEF IInv
<1> QED
  BY <1>5, <1>6, <1>7, <1>8, <1>9, <1>10, <1>11, <1>12 DEF IInv
-----------------------------------------------------------------------------
(***************************************************************************)
(* What getVolume and checkConflict may do to a name: forget it, when no   *)
(* container is to find it again, or record its driver.                    *)
(***************************************************************************)
Forgets(n) == Purge(n) /\ \A c \in Containers \ absent : mount[c] # None /\ mount[c][1] = n => n \in lost'

Records(n) ==
    /\ UNCHANGED store
    /\ \E k \in Drivers \cup {None} :
          /\ meta' = [meta EXCEPT ![n] = k]
          /\ k = meta[n] \/ (k = cached[n] /\ k # None) \/ (cached[n] = None /\ phase = "up")

\* getVolume, by what it answers.
LEMMA GetVolumeOutcome ==
  ASSUME TypeOK, NEW n \in Names, NEW d \in Drivers \cup {AnyDriver}, NEW a \in Answer, NEW r \in Drivers \cup {None},
         GetVolume(n, d, a, r), d = AnyDriver => phase = "up"
  PROVE  \/ /\ Purge(n) /\ r = None /\ faults' \in {faults, faults \cup {"wrong"}} /\ a = "missing"
            /\ d # AnyDriver => meta[n] \in {None, d}
            /\ \E k \in Drivers : /\ k \in {meta[n], cached[n], d} /\ (d # AnyDriver => k = d)
                                  /\ faults' = faults => n \notin vols[k]
         \/ /\ Records(n) /\ UNCHANGED faults
            /\ r # None => /\ n \in vols[r] /\ meta'[n] \in {None, r}
                           /\ d # AnyDriver => r = d
                           /\ d = AnyDriver => r \in {meta[n], cached[n]} \/ cached[n] = None
<1> USE DEF store, config
<1>0. PICK k : k = Known(n, d)
  OBVIOUS
<1>1. CASE d # AnyDriver /\ meta[n] # None /\ d # meta[n] /\ r = None /\ UNCHANGED <<store, meta, faults>>
  <2>1. meta' = [meta EXCEPT ![n] = meta[n]] /\ meta[n] \in Drivers \cup {None}
    BY <1>1 DEF TypeOK
  <2> QED
    BY <1>1, <2>1 DEF Records
<1>2. CASE /\ k # None /\ (d # AnyDriver => k = d)
           /\ IF k = None THEN FALSE ELSE Answers(k, n, a) /\ Misled(k, n, a)
           /\ r = IF a = "found" THEN k ELSE None
           /\ IF a = "missing" THEN Purge(n)
              ELSE /\ meta' = [meta EXCEPT ![n] = IF d = AnyDriver THEN k ELSE @]
                   /\ UNCHANGED store
  <2>1. /\ k \in Drivers /\ (d # AnyDriver => k = d /\ meta[n] \in {None, d})
        /\ d = AnyDriver => k \in {meta[n], cached[n]}
    BY <1>0, <1>2, VolumeAssumption DEF Known, TypeOK
  <2>2. Answers(k, n, a) /\ Misled(k, n, a)
    BY <1>2
  <2>3. CASE a = "missing"
    <3>1. Purge(n) /\ r = None
      BY <1>2, <2>3
    <3>2. faults' = faults => n \notin vols[k]
      BY <2>2, <2>3 DEF Answers, Misled, MayFault
    <3>3. faults' \in {faults, faults \cup {"wrong"}}
      BY <2>2 DEF Misled
    <3> QED
      BY <2>1, <2>3, <3>1, <3>2, <3>3
  <2>4. CASE a # "missing"
    <3>1. meta' = [meta EXCEPT ![n] = IF d = AnyDriver THEN k ELSE @] /\ UNCHANGED store /\ faults' = faults
      BY <1>2, <2>2, <2>4 DEF Misled
    <3>2. meta'[n] = IF d = AnyDriver THEN k ELSE meta[n]
      BY <3>1 DEF TypeOK
    <3>3. Records(n)
      <4>1. PICK e : e = IF d = AnyDriver THEN k ELSE meta[n]
        OBVIOUS
      <4>2. /\ e \in Drivers \cup {None} /\ meta' = [meta EXCEPT ![n] = e]
            /\ e = meta[n] \/ (e = cached[n] /\ e # None)
        BY <1>2, <2>1, <3>1, <4>1 DEF TypeOK
      <4> QED
        BY <3>1, <4>2 DEF Records
    <3>4. r # None => r = k /\ n \in vols[k]
      BY <1>2, <2>2 DEF Answers
    <3> QED
      BY <2>1, <3>1, <3>2, <3>3, <3>4
  <2> QED
    BY <2>3, <2>4
<1>3. CASE /\ k = None /\ a = "found"
           /\ r \in {e \in Drivers : n \in vols[e]} \cup {None}
           /\ meta' = [meta EXCEPT ![n] = r]
           /\ UNCHANGED <<store, faults>>
  <2>1. d = AnyDriver /\ cached[n] = None /\ phase = "up"
    BY <1>0, <1>3, VolumeAssumption DEF Known
  <2>2. Records(n)
    BY <1>3, <2>1 DEF Records
  <2>3. meta'[n] = r
    BY <1>3 DEF TypeOK
  <2> QED
    BY <1>3, <2>1, <2>2, <2>3
<1> QED
  BY <1>0, <1>1, <1>2, <1>3 DEF GetVolume

(***************************************************************************)
(* An operation that consults the drivers keeps what is said of the store, *)
(* the containers and the counts.                                          *)
(***************************************************************************)
LEMMA ConsultKeeps ==
  ASSUME IInv, NEW p \in Procs, NEW n \in Names, n = name[p],
         pc[p] \in {"create", "probe", "get", "rm", "purge"},
         \A q \in Procs : q # p /\ Busy(q) => name[q] # n,
         \A q \in Procs : q # p => pc'[q] = pc[q] /\ name'[q] = name[q] /\ drv'[q] = drv[q],
         pc'[p] \notin {"record", "purge"}, pc'[p] = "name" => Records(n) /\ name'[p] = n /\ drv'[p] = cached[n],
         UNCHANGED <<vols, config, phase, drift, cut>>, lost \subseteq lost',
         Forgets(n) \/ (Records(n) /\ pc[p] # "purge"),
         \/ UNCHANGED <<todo, absent>>
         \/ /\ p \in Containers /\ mount[p] # None /\ p \notin fresh
            /\ \A m \in Names : p \notin refs[m]
            /\ todo' = todo \ {p} /\ absent' = absent \cup {p}
  PROVE  StoreOK' /\ MountsOK' /\ BootOK' /\ CountOK'
<1> USE DEF store, config
<1>1. phase # "restore"
  BY DEF IInv, LocksOK
<1>2. \A m \in Names : m # n => cached'[m] = cached[m] /\ refs'[m] = refs[m] /\ meta'[m] = meta[m]
  BY DEF Forgets, Purge, Records, IInv, TypeOK
<1>3. \/ /\ cached'[n] = None /\ refs'[n] = {} /\ meta'[n] = None /\ Purge(n)
         /\ \A c \in Containers \ absent : mount[c] # None /\ mount[c][1] = n => n \in lost'
      \/ /\ Records(n) /\ pc[p] # "purge" /\ cached'[n] = cached[n] /\ refs'[n] = refs[n] /\ count' = count
         /\ meta'[n] = meta[n] \/ (meta'[n] = cached[n] /\ cached[n] # None) \/ (cached[n] = None /\ phase = "up")
  <2>1. CASE Forgets(n)
    BY <2>1 DEF Forgets, Purge, IInv, TypeOK
  <2>2. CASE Records(n) /\ pc[p] # "purge"
    <3>1. PICK k \in Drivers \cup {None} :
             /\ meta' = [meta EXCEPT ![n] = k]
             /\ k = meta[n] \/ (k = cached[n] /\ k # None) \/ (cached[n] = None /\ phase = "up")
      BY <2>2 DEF Records
    <3>2. meta'[n] = k
      BY <3>1 DEF IInv, TypeOK
    <3> QED
      BY <2>2, <3>1, <3>2 DEF Records
  <2> QED
    BY <2>1, <2>2
<1>4. StoreOK'
  <2>1. \A q \in Procs : pc[q] = "purge" => name[q] = n \/ (pc'[q] = "purge" /\ name'[q] = name[q])
    OBVIOUS
  <2>2. \A q \in Procs : pc[q] = "purge" /\ pc[p] # "purge" => name[q] # n
    BY DEF Busy
  <2>3. \A m \in Names : Mounts(m)' = Mounts(m)
    BY DEF Mounts
  <2>4. ASSUME NEW m \in Names, m # n
        PROVE  /\ refs'[m] \subseteq Mounts(m) \cup leaked /\ (refs'[m] # {} => cached'[m] # None)
               /\ cached'[m] # None =>
                    /\ meta'[m] \in {cached'[m], None}
                    /\ meta'[m] = None => cached'[m] \in drift
                    /\ \/ m \in vols[cached'[m]] \/ m \in lost' \/ m \in cut
                       \/ \E q \in Procs : pc'[q] = "purge" /\ name'[q] = m
    BY <1>2, <2>1, <2>4 DEF IInv, StoreOK
  <2>5. /\ refs'[n] \subseteq Mounts(n) \cup leaked /\ (refs'[n] # {} => cached'[n] # None)
        /\ cached'[n] # None =>
              /\ meta'[n] \in {cached'[n], None}
              /\ meta'[n] = None => cached'[n] \in drift
              /\ n \in vols[cached'[n]] \/ n \in lost' \/ n \in cut
    BY <1>3, <2>2 DEF IInv, StoreOK
  <2> QED
    BY <2>3, <2>4, <2>5 DEF StoreOK
<1>5. MountsOK'
  <2> SUFFICES ASSUME NEW c \in Containers \ absent', mount[c] # None, NEW m, m = mount[c][1], NEW x, x = mount[c][2],
                      m \notin lost'
               PROVE  /\ m \in vols[x] /\ meta'[m] \in {x, None} /\ cached'[m] \in {x, None}
                      /\ \A e \in Containers \ absent' : mount[e] # None /\ mount[e][1] = m => mount[e][2] = x
                      /\ (phase = "up" \/ (phase = "mounts" /\ c \notin todo')) => c \in refs'[m] /\ cached'[m] = x
    BY DEF MountsOK
  <2>0. absent \subseteq absent' /\ c \notin absent
    OBVIOUS
  <2>1. m \in Names /\ x \in Drivers /\ x # None
    BY MountFacts, VolumeAssumption DEF IInv
  <2>2. /\ m \in vols[x] /\ meta[m] \in {x, None} /\ cached[m] \in {x, None}
        /\ \A e \in Containers \ absent : mount[e] # None /\ mount[e][1] = m => mount[e][2] = x
        /\ (phase = "up" \/ (phase = "mounts" /\ c \notin todo)) => c \in refs[m] /\ cached[m] = x
    BY <2>0 DEF IInv, MountsOK
  <2>3. c \notin todo' => c \notin todo
    BY <2>0
  <2>4. cached'[m] = cached[m] /\ refs'[m] = refs[m] /\ meta'[m] \in {x, None}
    BY <1>2, <1>3, <2>0, <2>1, <2>2
  <2> QED
    BY <2>0, <2>2, <2>3, <2>4
<1>6. BootOK'
  <2>1. \A m \in Names : refs'[m] \subseteq refs[m]
    BY <1>2, <1>3
  <2>2. todo' \subseteq todo
    OBVIOUS
  <2>3. \A c \in absent' \cup (IF phase = "mounts" THEN todo' ELSE {}) : mount[c] # None /\ \A m \in Names : c \notin refs[m]
    BY DEF IInv, BootOK
  <2> QED
    BY <1>1, <2>1, <2>2, <2>3 DEF IInv, BootOK
<1>7. CountOK'
  <2>1. \A q \in Procs : pc[q] \in {"record", "name"} => q # p /\ name[q] # n
    BY DEF Busy
  <2>2. CASE Records(n)
    <3>1. \A m \in Names : cached'[m] = cached[m]
      BY <2>2 DEF Records
    <3>2. \A e \in Drivers : Counted(e)' = Counted(e)
      BY <2>1, <3>1 DEF Counted
    <3> QED
      BY <2>2, <3>2, CountsKept DEF IInv, Records
  <2>3. CASE Forgets(n) /\ ~Records(n)
    <3>1. pc'[p] \notin {"record", "name"} /\ Purge(n)
      BY <2>3 DEF Forgets
    <3>2. cached'[n] = None /\ \A m \in Names : m # n => cached'[m] = cached[m]
      BY <1>2, <3>1 DEF Purge, IInv, TypeOK
    <3>3. \A e \in Drivers : n \in Counted(e) <=> cached[n] = e
      BY <2>1 DEF Counted
    <3>4. \A e \in Drivers : Counted(e)' = Counted(e) \ {n}
      BY <2>1, <3>1, <3>2, VolumeAssumption DEF Counted
    <3>5. \A e \in Drivers : count'[e] = IF cached[n] = e THEN ReleaseDriver(count[e]) ELSE count[e]
      BY <3>1, VolumeAssumption DEF Purge, IInv, TypeOK
    <3>6. ASSUME NEW e \in Drivers PROVE Follows(e)
      <4>1. CASE cached[n] = e
        BY <3>3, <3>4, <3>5, <4>1 DEF Follows
      <4>2. CASE cached[n] # e
        <5>1. Counted(e)' = Counted(e)
          BY <3>3, <3>4, <4>2
        <5> QED
          BY <3>5, <4>2, <5>1 DEF Follows
      <4> QED
        BY <4>1, <4>2
    <3> QED
      BY <3>6, CountsFollow DEF IInv
  <2> QED
    BY <2>2, <2>3
<1> QED
  BY <1>4, <1>5, <1>6, <1>7
-----------------------------------------------------------------------------
\* What consulting the drivers leaves of the types and of the other names.
LEMMA ConsultTypes ==
  ASSUME TypeOK, NEW n \in Names, Purge(n) \/ Records(n)
  PROVE  /\ cached' \in [Names -> Drivers \cup {None}] /\ refs' \in [Names -> SUBSET Containers]
         /\ meta' \in [Names -> Drivers \cup {None}] /\ count' \in [Drivers -> Int]
         /\ \A m \in Names : m # n => cached'[m] = cached[m] /\ refs'[m] = refs[m] /\ meta'[m] = meta[m]
         /\ Records(n) => cached'[n] = cached[n] /\ refs'[n] = refs[n]
         /\ Purge(n) => cached'[n] = None /\ refs'[n] = {} /\ meta'[n] = None
<1>1. CASE Purge(n)
  BY <1>1 DEF TypeOK, Purge, ReleaseDriver, Records, store
<1>2. CASE Records(n)
  BY <1>2 DEF TypeOK, Records, store, Purge
<1> QED
  BY <1>1, <1>2

\* The operation that has the lock of its name is the only one.
LEMMA BusyFacts ==
  ASSUME IInv, NEW p \in Procs, Busy(p), pc[p] \notin {"get", "found"}
  PROVE  /\ name[p] \in Names /\ holder[name[p]] = p /\ phase = "up"
         /\ \A q \in Procs : q # p /\ Busy(q) => name[q] # name[p]
  BY DEF IInv, TypeOK, LocksOK, Busy

\* A volume nobody refers to, or that is not cached, is lost to the containers that should have it.
LEMMA Unreferenced ==
  ASSUME IInv, NEW n \in Names, phase = "up", refs[n] = {} \/ cached[n] = None,
         NEW c \in Containers \ absent, mount[c] # None, mount[c][1] = n
  PROVE  n \in lost
<1>1. mount[c][2] \in Drivers
  BY MountFacts DEF IInv
<1> QED
  BY <1>1, VolumeAssumption DEF IInv, MountsOK

\* The locks and the types, when p goes on with what it found, or ends.
LEMMA GoesOrEnds ==
  ASSUME IInv, NEW p \in Procs, NEW n \in Names, n = name[p], Busy(p), UNCHANGED phase, todo' = todo \ {p} \/ todo' = todo,
         \/ Ends(p, n)
         \/ /\ UNCHANGED todo
            /\ \E w \in {"probe", "make", "name", "found"}, d \in Drivers \cup {AnyDriver} :
                  /\ Goes(p, w, d) /\ (w # "probe" => d \in Drivers)
                  /\ phase = "mounts" => w = "found"
  PROVE  /\ LocksOK' /\ holder' \in [Names -> Procs \cup {None}]
         /\ pc' \in [Procs -> {"idle", "create", "probe", "make", "record", "name", "get", "found", "rm", "delete", "purge"}]
         /\ name' \in [Procs -> Names \cup {None}] /\ drv' \in [Procs -> Drivers \cup {AnyDriver, None}]
         /\ \A q \in Procs : q # p => pc'[q] = pc[q] /\ name'[q] = name[q] /\ drv'[q] = drv[q]
<1>1. holder[n] = p
  BY DEF IInv, LocksOK
<1>2. CASE Ends(p, n)
  BY <1>1, <1>2 DEF IInv, TypeOK, Ends, LocksOK, Busy
<1>3. ASSUME NEW w \in {"probe", "make", "name", "found"}, NEW d \in Drivers \cup {AnyDriver},
             Goes(p, w, d), w # "probe" => d \in Drivers, phase = "mounts" => w = "found", UNCHANGED todo
      PROVE  /\ LocksOK' /\ holder' \in [Names -> Procs \cup {None}]
             /\ pc' \in [Procs -> {"idle", "create", "probe", "make", "record", "name", "get", "found", "rm", "delete", "purge"}]
             /\ name' \in [Procs -> Names \cup {None}] /\ drv' \in [Procs -> Drivers \cup {AnyDriver, None}]
             /\ \A q \in Procs : q # p => pc'[q] = pc[q] /\ name'[q] = name[q] /\ drv'[q] = drv[q]
  <2>1. /\ pc' \in [Procs -> {"idle", "create", "probe", "make", "record", "name", "get", "found", "rm", "delete", "purge"}]
        /\ drv' \in [Procs -> Drivers \cup {AnyDriver, None}]
        /\ \A q \in Procs : q # p => pc'[q] = pc[q] /\ name'[q] = name[q] /\ drv'[q] = drv[q]
        /\ pc'[p] = w /\ drv'[p] = d /\ UNCHANGED <<holder, name>>
    BY <1>3 DEF IInv, TypeOK, Goes
  <2>2. LocksOK'
    BY <1>3, <2>1 DEF IInv, LocksOK, Busy
  <2> QED
    BY <2>1, <2>2 DEF IInv, TypeOK
<1> QED
  BY <1>2, <1>3

\* Create looks for a conflict.
LEMMA CheckConflictStep ==
  ASSUME IInv, NEW p \in Procs, NEW a \in Answer, CheckConflict(p, a)
  PROVE  IInv'
<1> USE DEF store, boot, aside, config
<1>0. PICK n : n = name[p]
  OBVIOUS
<1>1. /\ pc[p] = "create" /\ n \in Names /\ phase = "up" /\ todo = {} /\ drv[p] \in Drivers \cup {AnyDriver}
      /\ \A q \in Procs : q # p /\ Busy(q) => name[q] # n
      /\ p \in Containers => mount[p] = None
      /\ Loses(n) /\ UNCHANGED <<vols, config, boot, absent, drift, cut>>
  BY <1>0, BusyFacts DEF CheckConflict, Busy, IInv, LocksOK, AsksOK, Asks, BootOK
<1>2. \/ /\ cached[n] = None /\ Records(n) /\ UNCHANGED faults
         /\ Goes(p, IF drv[p] = AnyDriver THEN "probe" ELSE "make", drv[p])
      \/ /\ cached[n] # None /\ refs[n] = {} /\ Purge(n) /\ faults' \in {faults, faults \cup {"wrong"}}
         /\ Goes(p, IF drv[p] = AnyDriver THEN "probe" ELSE "make", drv[p])
      \/ /\ cached[n] # None /\ Records(n) /\ n \in vols[cached[n]] /\ faults' \in {faults, faults \cup {"wrong"}}
         /\ Goes(p, "name", cached[n])
      \/ /\ Records(n) /\ faults' \in {faults, faults \cup {"wrong"}}
         /\ Ends(p, n)
  <2>1. UNCHANGED <<store, meta>> => Records(n)
    <3>1. meta = [meta EXCEPT ![n] = meta[n]] /\ meta[n] \in Drivers \cup {None}
      BY <1>1 DEF IInv, TypeOK
    <3> QED
      BY <3>1 DEF Records
  <2>2. CASE cached[n] = None
    BY <1>0, <2>1, <2>2 DEF CheckConflict
  <2>3. CASE cached[n] # None
    <3>1. /\ Answers(cached[n], n, a) /\ Misled(cached[n], n, a)
          /\ IF a = "missing" /\ refs[n] = {}
               THEN Purge(n) /\ Goes(p, IF drv[p] = AnyDriver THEN "probe" ELSE "make", drv[p])
               ELSE /\ IF a = "found" /\ drv[p] \in {AnyDriver, cached[n]}
                         THEN Goes(p, "name", cached[n])
                         ELSE Ends(p, n)
                    /\ UNCHANGED <<store, meta>>
      BY <1>0, <2>3 DEF CheckConflict
    <3>2. faults' \in {faults, faults \cup {"wrong"}} /\ (a = "found" => n \in vols[cached[n]])
      BY <3>1 DEF Misled, Answers
    <3>3. CASE a = "missing" /\ refs[n] = {}
      BY <2>3, <3>1, <3>2, <3>3
    <3>4. CASE ~(a = "missing" /\ refs[n] = {})
      <4>1. UNCHANGED <<store, meta>>
        BY <3>1, <3>4
      <4>2. (a = "found" /\ Goes(p, "name", cached[n])) \/ Ends(p, n)
        BY <3>1, <3>4
      <4> QED
        BY <2>1, <2>3, <3>2, <4>1, <4>2
    <3> QED
      BY <3>3, <3>4
  <2> QED
    BY <2>2, <2>3
<1>3. Forgets(n) \/ Records(n)
  <2>1. CASE refs[n] = {} /\ Purge(n)
    BY <1>1, <2>1, Unreferenced DEF Forgets, Loses
  <2> QED
    BY <1>2, <2>1
<1>4. lost \subseteq lost' /\ lost' \subseteq Names /\ faults' \subseteq {"wrong", "loses", "gains", "crash", "label"}
  BY <1>1, <1>2 DEF Loses, IInv, TypeOK
<1>5. /\ LocksOK' /\ holder' \in [Names -> Procs \cup {None}]
      /\ pc' \in [Procs -> {"idle", "create", "probe", "make", "record", "name", "get", "found", "rm", "delete", "purge"}]
      /\ name' \in [Procs -> Names \cup {None}] /\ drv' \in [Procs -> Drivers \cup {AnyDriver, None}]
      /\ \A q \in Procs : q # p => pc'[q] = pc[q] /\ name'[q] = name[q] /\ drv'[q] = drv[q]
  <2>1. cached[n] # None => cached[n] \in Drivers
    BY <1>1 DEF IInv, TypeOK
  <2>2. \/ Ends(p, n)
        \/ \E w \in {"probe", "make", "name", "found"}, d \in Drivers \cup {AnyDriver} :
              Goes(p, w, d) /\ (w # "probe" => d \in Drivers) /\ (phase = "mounts" => w = "found")
    <3>1. CASE Goes(p, IF drv[p] = AnyDriver THEN "probe" ELSE "make", drv[p])
      <4>1. CASE drv[p] = AnyDriver
        BY <1>1, <3>1, <4>1
      <4>2. CASE drv[p] # AnyDriver
        BY <1>1, <3>1, <4>2
      <4> QED
        BY <4>1, <4>2
    <3>2. CASE cached[n] # None /\ Goes(p, "name", cached[n])
      BY <1>1, <2>1, <3>2
    <3> QED
      BY <1>2, <3>1, <3>2
  <2> QED
    BY <1>0, <1>1, <2>2, GoesOrEnds DEF Busy
<1>6. \/ pc'[p] \in {"probe", "make"} /\ name'[p] = n /\ cached'[n] = None
      \/ pc'[p] = "name" /\ Records(n) /\ name'[p] = n /\ drv'[p] = cached[n] /\ n \in vols[cached[n]] /\ cached'[n] = cached[n]
      \/ pc'[p] = "idle"
  <2>1. Records(n) => cached' = cached
    BY DEF Records
  <2>2. Purge(n) => cached'[n] = None
    BY <1>1 DEF Purge, IInv, TypeOK
  <2>3. CASE Goes(p, IF drv[p] = AnyDriver THEN "probe" ELSE "make", drv[p]) /\ cached'[n] = None
    BY <1>0, <1>1, <2>3 DEF Goes, IInv, TypeOK
  <2>4. CASE cached[n] # None /\ Records(n) /\ n \in vols[cached[n]] /\ Goes(p, "name", cached[n])
    BY <1>0, <1>1, <2>1, <2>4 DEF Goes, IInv, TypeOK
  <2>5. CASE Ends(p, n)
    BY <2>5 DEF Ends, IInv, TypeOK
  <2> QED
    BY <1>2, <2>1, <2>2, <2>3, <2>4, <2>5
<1>7. TypeOK'
  <2>1. /\ cached' \in [Names -> Drivers \cup {None}] /\ refs' \in [Names -> SUBSET Containers]
        /\ meta' \in [Names -> Drivers \cup {None}] /\ count' \in [Drivers -> Int]
    BY <1>1, <1>3, ConsultTypes DEF IInv, Forgets
  <2> QED
    BY <1>1, <1>4, <1>5, <2>1 DEF IInv, TypeOK, LocksOK, Busy
<1>8. AsksOK'
  <2>1. p \in Containers => Asks(p)'
    BY <1>1, <1>6 DEF Asks
  <2> QED
    BY <1>1, <1>5, <2>1, OthersAsk
<1>9. StagesOK'
  <2>1. Stage(p)'
    BY <1>1, <1>6 DEF Stage
  <2>2. \A m \in Names : m # n => cached'[m] = cached[m] /\ refs'[m] = refs[m] /\ meta'[m] = meta[m]
    BY <1>1, <1>3, ConsultTypes DEF IInv, Forgets
  <2> QED
    BY <1>1, <1>4, <1>5, <2>1, <2>2, OthersKept
<1>10. StoreOK' /\ MountsOK' /\ BootOK' /\ CountOK'
  BY <1>0, <1>1, <1>3, <1>4, <1>5, <1>6, ConsultKeeps
<1> QED
  BY <1>5, <1>7, <1>8, <1>9, <1>10 DEF IInv

\* Create asks all the drivers.
LEMMA ProbeStep ==
  ASSUME IInv, NEW p \in Procs, NEW a \in Answer, NEW r \in Drivers \cup {None}, Probe(p, a, r)
  PROVE  IInv'
<1> USE DEF store, boot, aside, config
<1>0. PICK n : n = name[p]
  OBVIOUS
<1>1. /\ pc[p] = "probe" /\ n \in Names /\ phase = "up" /\ todo = {} /\ cached[n] = None
      /\ \A q \in Procs : q # p /\ Busy(q) => name[q] # n
      /\ p \in Containers => mount[p] = None
      /\ GetVolume(n, AnyDriver, a, r)
      /\ IF r # None THEN Goes(p, "found", r) ELSE Goes(p, "make", DefaultDriver)
      /\ Loses(n) /\ UNCHANGED <<vols, config, boot, absent, drift, cut>>
  BY <1>0, BusyFacts DEF Probe, Busy, IInv, LocksOK, AsksOK, Asks, BootOK, StagesOK, Stage
<1>2. \/ Purge(n) /\ r = None /\ faults' \in {faults, faults \cup {"wrong"}}
      \/ Records(n) /\ UNCHANGED faults /\ (r # None => n \in vols[r] /\ meta'[n] \in {None, r})
  BY <1>1, GetVolumeOutcome DEF IInv
<1>3. lost \subseteq lost' /\ lost' \subseteq Names /\ faults' \subseteq {"wrong", "loses", "gains", "crash", "label"}
  BY <1>1, <1>2 DEF Loses, IInv, TypeOK
<1>4. Forgets(n) \/ Records(n)
  BY <1>1, <1>2, <1>3, Unreferenced DEF Forgets
<1>5. /\ cached' \in [Names -> Drivers \cup {None}] /\ refs' \in [Names -> SUBSET Containers]
      /\ meta' \in [Names -> Drivers \cup {None}] /\ count' \in [Drivers -> Int]
      /\ \A m \in Names : m # n => cached'[m] = cached[m] /\ refs'[m] = refs[m] /\ meta'[m] = meta[m]
      /\ cached'[n] = None
  BY <1>1, <1>2, ConsultTypes DEF IInv
<1>6. /\ LocksOK' /\ holder' \in [Names -> Procs \cup {None}]
      /\ pc' \in [Procs -> {"idle", "create", "probe", "make", "record", "name", "get", "found", "rm", "delete", "purge"}]
      /\ name' \in [Procs -> Names \cup {None}] /\ drv' \in [Procs -> Drivers \cup {AnyDriver, None}]
      /\ \A q \in Procs : q # p => pc'[q] = pc[q] /\ name'[q] = name[q] /\ drv'[q] = drv[q]
  <2>1. \E w \in {"probe", "make", "name", "found"}, d \in Drivers \cup {AnyDriver} :
           Goes(p, w, d) /\ (w # "probe" => d \in Drivers) /\ (phase = "mounts" => w = "found")
    <3>1. CASE r # None
      BY <1>1, <3>1
    <3>2. CASE r = None
      BY <1>1, <3>2, VolumeAssumption
    <3> QED
      BY <3>1, <3>2
  <2> QED
    BY <1>0, <1>1, <2>1, GoesOrEnds DEF Busy
<1>7. /\ name'[p] = n
      /\ \/ pc'[p] = "found" /\ r # None /\ drv'[p] = r
         \/ pc'[p] = "make" /\ r = None
  BY <1>0, <1>1 DEF Goes, IInv, TypeOK
<1>8. TypeOK'
  BY <1>1, <1>3, <1>5, <1>6 DEF IInv, TypeOK, LocksOK, Busy
<1>9. AsksOK'
  <2>1. p \in Containers => Asks(p)'
    BY <1>1, <1>7 DEF Asks
  <2> QED
    BY <1>1, <1>6, <2>1, OthersAsk
<1>10. StagesOK'
  <2>1. Stage(p)'
    BY <1>1, <1>2, <1>5, <1>7 DEF Stage
  <2> QED
    BY <1>1, <1>3, <1>5, <1>6, <2>1, OthersKept
<1>11. StoreOK' /\ MountsOK' /\ BootOK' /\ CountOK'
  BY <1>0, <1>1, <1>3, <1>4, <1>6, <1>7, ConsultKeeps
<1> QED
  BY <1>6, <1>8, <1>9, <1>10, <1>11 DEF IInv

\* Remove has nothing to do with a volume that is referred to, and takes the lock of another.
LEMMA RemoveStep ==
  ASSUME IInv, NEW p \in Clients, NEW a \in Answer, NEW r \in Drivers \cup {None}, Remove(p, a, r)
  PROVE  IInv'
<1> USE DEF store, boot, aside, config
<1>0. PICK n, d : n = name[p] /\ d = drv[p]
  OBVIOUS
<1>1. /\ p \in Procs /\ p \notin Containers /\ pc[p] = "rm" /\ n \in Names /\ d \in Drivers /\ d # AnyDriver
      /\ phase = "up" /\ holder[n] = None
      /\ \A q \in Procs : q # p /\ Busy(q) => name[q] # n
      /\ Loses(n) /\ UNCHANGED <<vols, config, boot, absent, drift, cut>>
  BY <1>0, VolumeAssumption DEF Remove, Busy, IInv, TypeOK, LocksOK, Procs
<1>2. \/ refs[n] = {} /\ Purge(n) /\ Ends(p, n) /\ faults' \in {faults, faults \cup {"wrong"}}
      \/ Records(n) /\ UNCHANGED faults /\ Ends(p, n)
      \/ /\ refs[n] = {} /\ Records(n) /\ UNCHANGED faults /\ holder' = [holder EXCEPT ![n] = p]
         /\ pc' = [pc EXCEPT ![p] = "delete"] /\ UNCHANGED <<name, drv>>
  <2>1. CASE refs[n] # {}
    <3>1. Ends(p, n) /\ UNCHANGED <<store, meta, faults>>
      BY <1>0, <2>1 DEF Remove
    <3>2. meta' = [meta EXCEPT ![n] = meta[n]] /\ meta[n] \in Drivers \cup {None}
      BY <1>1, <3>1 DEF IInv, TypeOK
    <3> QED
      BY <3>1, <3>2 DEF Records
  <2>2. CASE refs[n] = {}
    <3>1. /\ GetVolume(n, d, a, r)
          /\ IF r # None THEN /\ holder' = [holder EXCEPT ![n] = p]
                              /\ pc' = [pc EXCEPT ![p] = "delete"] /\ UNCHANGED <<name, drv>>
                         ELSE Ends(p, n)
      BY <1>0, <2>2 DEF Remove
    <3>2. \/ Purge(n) /\ r = None /\ faults' \in {faults, faults \cup {"wrong"}}
          \/ Records(n) /\ UNCHANGED faults
      BY <1>1, <3>1, GetVolumeOutcome DEF IInv
    <3> QED
      BY <2>2, <3>1, <3>2
  <2> QED
    BY <2>1, <2>2
<1>3. lost \subseteq lost' /\ lost' \subseteq Names /\ faults' \subseteq {"wrong", "loses", "gains", "crash", "label"}
  BY <1>1, <1>2 DEF Loses, IInv, TypeOK
<1>4. Forgets(n) \/ Records(n)
  BY <1>1, <1>2, <1>3, Unreferenced DEF Forgets
<1>5. /\ cached' \in [Names -> Drivers \cup {None}] /\ refs' \in [Names -> SUBSET Containers]
      /\ meta' \in [Names -> Drivers \cup {None}] /\ count' \in [Drivers -> Int]
      /\ \A m \in Names : m # n => cached'[m] = cached[m] /\ refs'[m] = refs[m] /\ meta'[m] = meta[m]
      /\ refs[n] = {} => refs'[n] = {}
  BY <1>1, <1>2, ConsultTypes DEF IInv
<1>6. /\ holder' \in [Names -> Procs \cup {None}]
      /\ pc' \in [Procs -> {"idle", "create", "probe", "make", "record", "name", "get", "found", "rm", "delete", "purge"}]
      /\ name' \in [Procs -> Names \cup {None}] /\ drv' \in [Procs -> Drivers \cup {AnyDriver, None}]
      /\ \A q \in Procs : q # p => pc'[q] = pc[q] /\ name'[q] = name[q] /\ drv'[q] = drv[q]
      /\ \/ pc'[p] = "idle"
         \/ pc'[p] = "delete" /\ name'[p] = n /\ drv'[p] = d /\ holder'[n] = p /\ refs[n] = {}
      /\ \A m \in Names : m # n => holder'[m] = holder[m]
  <2>1. CASE Ends(p, n)
    BY <1>1, <2>1 DEF IInv, TypeOK, Ends
  <2>2. CASE /\ refs[n] = {} /\ holder' = [holder EXCEPT ![n] = p]
             /\ pc' = [pc EXCEPT ![p] = "delete"] /\ UNCHANGED <<name, drv>>
    BY <1>0, <1>1, <2>2 DEF IInv, TypeOK
  <2> QED
    BY <1>2, <2>1, <2>2
<1>7. LocksOK'
  BY <1>1, <1>6 DEF IInv, LocksOK, Busy
<1>8. TypeOK'
  BY <1>1, <1>3, <1>5, <1>6, <1>7 DEF IInv, TypeOK, LocksOK, Busy
<1>9. AsksOK'
  BY <1>1, <1>6, OthersAsk
<1>10. StagesOK'
  <2>1. Stage(p)'
    BY <1>1, <1>5, <1>6 DEF Stage
  <2> QED
    BY <1>1, <1>3, <1>5, <1>6, <2>1, OthersKept
<1>11. StoreOK' /\ MountsOK' /\ BootOK' /\ CountOK'
  BY <1>0, <1>1, <1>3, <1>4, <1>6, ConsultKeeps
<1> QED
  BY <1>7, <1>8, <1>9, <1>10, <1>11 DEF IInv

\* Remove forgets the volume it has removed.
LEMMA PurgeRemovedStep ==
  ASSUME IInv, NEW p \in Procs, PurgeRemoved(p)
  PROVE  IInv'
<1> USE DEF store, boot, aside, config
<1>0. PICK n : n = name[p]
  OBVIOUS
<1>1. /\ pc[p] = "purge" /\ n \in Names /\ phase = "up" /\ refs[n] = {}
      /\ \A q \in Procs : q # p /\ Busy(q) => name[q] # n
      /\ Purge(n) /\ Ends(p, n) /\ UNCHANGED <<vols, config, boot, aside>>
  BY <1>0, BusyFacts DEF PurgeRemoved, Busy, IInv, StagesOK, Stage
<1>2. Forgets(n)
  BY <1>1, Unreferenced DEF Forgets
<1>3. /\ cached' \in [Names -> Drivers \cup {None}] /\ refs' \in [Names -> SUBSET Containers]
      /\ meta' \in [Names -> Drivers \cup {None}] /\ count' \in [Drivers -> Int]
      /\ \A m \in Names : m # n => cached'[m] = cached[m] /\ refs'[m] = refs[m] /\ meta'[m] = meta[m]
  BY <1>1, ConsultTypes DEF IInv
<1>4. /\ LocksOK' /\ holder' \in [Names -> Procs \cup {None}]
      /\ pc' \in [Procs -> {"idle", "create", "probe", "make", "record", "name", "get", "found", "rm", "delete", "purge"}]
      /\ name' \in [Procs -> Names \cup {None}] /\ drv' \in [Procs -> Drivers \cup {AnyDriver, None}]
      /\ \A q \in Procs : q # p => pc'[q] = pc[q] /\ name'[q] = name[q] /\ drv'[q] = drv[q]
  BY <1>0, <1>1, GoesOrEnds DEF Busy
<1>5. pc'[p] = "idle"
  BY <1>1 DEF Ends, IInv, TypeOK
<1>6. TypeOK'
  BY <1>1, <1>3, <1>4 DEF IInv, TypeOK, LocksOK, Busy
<1>7. AsksOK' /\ StagesOK'
  <2>1. Stage(p)' /\ Asks(p)'
    BY <1>5 DEF Stage, Asks
  <2>2. AsksOK'
    BY <1>1, <1>4, <2>1, OthersAsk
  <2> QED
    BY <1>1, <1>3, <1>4, <2>1, <2>2, OthersKept
<1>8. StoreOK' /\ MountsOK' /\ BootOK' /\ CountOK'
  BY <1>0, <1>1, <1>2, <1>4, <1>5, ConsultKeeps
<1> QED
  BY <1>4, <1>6, <1>7, <1>8 DEF IInv

(***************************************************************************)
(* Get: a volume its driver does not have any more is forgotten; those who *)
(* had it have lost it.                                                    *)
(***************************************************************************)
LEMMA GetStep ==
  ASSUME IInv, NEW p \in Procs, NEW a \in Answer, NEW r \in Drivers \cup {None}, Get(p, a, r)
  PROVE  IInv'
<1> USE DEF store, boot, aside, config
<1>0. PICK n, d : n = name[p] /\ d = drv[p]
  OBVIOUS
<1>1. /\ pc[p] = "get" /\ n \in Names /\ d \in Drivers \cup {AnyDriver} /\ phase # "restore"
      /\ \A q \in Procs : q # p /\ Busy(q) => name[q] # n
      /\ GetVolume(n, d, a, r)
      /\ UNCHANGED <<vols, config, phase, drift, cut>>
  BY <1>0 DEF Get, Busy, IInv, TypeOK, LocksOK
<1>2. /\ d = AnyDriver => p \in Clients /\ phase = "up"
      /\ d # AnyDriver => p \in Containers
  <2>1. p \in Clients \/ p \in Containers
    BY DEF Procs
  <2>2. CASE p \in Clients
    BY <1>0, <1>1, <2>2, VolumeAssumption DEF IInv, TypeOK, LocksOK, BootOK
  <2>3. CASE p \in Containers
    BY <1>0, <1>1, <2>3, VolumeAssumption DEF IInv, AsksOK, Asks
  <2> QED
    BY <2>1, <2>2, <2>3
<1>3. CASE r # None
  <2>1. /\ Goes(p, "found", r) /\ Loses(n) /\ UNCHANGED <<absent, todo>>
    BY <1>0, <1>3 DEF Get
  <2>2. /\ Records(n) /\ UNCHANGED faults /\ n \in vols[r] /\ meta'[n] \in {None, r}
        /\ d # AnyDriver => r = d
        /\ d = AnyDriver => r \in {meta[n], cached[n]} \/ cached[n] = None
    BY <1>1, <1>2, <1>3, GetVolumeOutcome DEF IInv
  <2>3. lost' = lost
    BY <2>1, <2>2 DEF Loses
  <2>4. /\ cached' \in [Names -> Drivers \cup {None}] /\ refs' \in [Names -> SUBSET Containers]
        /\ meta' \in [Names -> Drivers \cup {None}] /\ count' \in [Drivers -> Int]
        /\ \A m \in Names : m # n => cached'[m] = cached[m] /\ refs'[m] = refs[m] /\ meta'[m] = meta[m]
        /\ cached'[n] = cached[n]
    BY <1>1, <2>2, ConsultTypes DEF IInv
  <2>5. /\ LocksOK' /\ holder' \in [Names -> Procs \cup {None}]
        /\ pc' \in [Procs -> {"idle", "create", "probe", "make", "record", "name", "get", "found", "rm", "delete", "purge"}]
        /\ name' \in [Procs -> Names \cup {None}] /\ drv' \in [Procs -> Drivers \cup {AnyDriver, None}]
        /\ \A q \in Procs : q # p => pc'[q] = pc[q] /\ name'[q] = name[q] /\ drv'[q] = drv[q]
    BY <1>0, <1>1, <1>3, <2>1, GoesOrEnds DEF Busy
  <2>6. pc'[p] = "found" /\ name'[p] = n /\ drv'[p] = r
    BY <1>0, <2>1 DEF Goes, IInv, TypeOK
  <2>7. TypeOK'
    BY <1>1, <2>1, <2>2, <2>3, <2>4, <2>5 DEF IInv, TypeOK, LocksOK, Busy
  <2>8. AsksOK'
    <3>1. p \in Containers => Asks(p)'
      <4>1. ASSUME p \in Containers PROVE r = d
        BY <1>2, <2>2, <4>1, VolumeAssumption
      <4>2. ASSUME p \in Containers, mount[p] # None PROVE mount[p] = <<n, d>> /\ (phase = "mounts" \/ p \in absent)
        BY <1>0, <1>1, <4>2 DEF IInv, AsksOK, Asks
      <4> QED
        BY <1>1, <2>1, <2>6, <4>1, <4>2 DEF Asks
    <3> QED
      BY <1>1, <2>1, <2>5, <3>1, OthersAsk
  <2>9. StagesOK'
    <3>1. Stage(p)'
      BY <1>1, <2>2, <2>3, <2>4, <2>6 DEF Stage
    <3> QED
      BY <1>1, <2>3, <2>4, <2>5, <3>1, OthersKept
  <2>10. StoreOK' /\ MountsOK' /\ BootOK' /\ CountOK'
    BY <1>0, <1>1, <2>1, <2>2, <2>3, <2>5, <2>6, ConsultKeeps
  <2> QED
    BY <2>5, <2>7, <2>8, <2>9, <2>10 DEF IInv
<1>4. CASE r = None
  <2>1. /\ Ends(p, n) /\ todo' = todo \ {p}
        /\ \/ p \in Containers /\ mount[p] # None /\ absent' = absent \cup {p}
           \/ ~(p \in Containers /\ mount[p] # None) /\ UNCHANGED absent
        /\ IF a = "missing" /\ Contested(n, d) THEN lost' = lost \cup {n} ELSE Loses(n)
    <3>1. CASE p \in Containers /\ mount[p] # None
      BY <1>0, <1>4, <3>1 DEF Get
    <3>2. CASE ~(p \in Containers /\ mount[p] # None)
      BY <1>0, <1>4, <3>2 DEF Get
    <3> QED
      BY <3>1, <3>2
  <2>2. faults' \in {faults, faults \cup {"wrong"}} /\ (Purge(n) \/ Records(n))
    BY <1>1, <1>2, GetVolumeOutcome DEF IInv
  <2>3. lost \subseteq lost' /\ lost' \subseteq Names /\ faults' \subseteq {"wrong", "loses", "gains", "crash", "label"}
        /\ (faults' # faults => n \in lost') /\ (a = "missing" /\ Contested(n, d) => n \in lost')
    BY <1>1, <2>1, <2>2 DEF Loses, IInv, TypeOK
  <2>4. Forgets(n) \/ Records(n)
    <3> SUFFICES ASSUME ~Records(n) PROVE Forgets(n)
      OBVIOUS
    <3>1. /\ Purge(n) /\ a = "missing" /\ (d # AnyDriver => meta[n] \in {None, d})
          /\ \E k \in Drivers : /\ k \in {meta[n], cached[n], d} /\ (d # AnyDriver => k = d)
                                /\ faults' = faults => n \notin vols[k]
      BY <1>1, <1>2, GetVolumeOutcome DEF IInv
    <3>2. PICK k \in Drivers : /\ k \in {meta[n], cached[n], d} /\ (d # AnyDriver => k = d)
                               /\ faults' = faults => n \notin vols[k]
      BY <3>1
    <3>3. ASSUME NEW c \in Containers \ absent, mount[c] # None, mount[c][1] = n, n \notin lost' PROVE FALSE
      <4>1. n \notin lost /\ n \notin vols[k]
        BY <2>3, <3>2, <3>3
      <4>2. PICK x : x = mount[c][2]
        OBVIOUS
      <4>3. /\ n \in vols[x] /\ meta[n] \in {x, None} /\ cached[n] \in {x, None} /\ x \in Drivers
        BY <3>3, <4>1, <4>2, MountFacts DEF IInv, MountsOK
      <4>4. CASE d = AnyDriver
        BY <3>2, <4>1, <4>3, <4>4, VolumeAssumption
      <4>5. CASE d # AnyDriver
        <5>1. d \in Drivers /\ meta[n] \in {None, d} /\ d # x
          BY <3>1, <3>2, <4>1, <4>3, <4>5
        <5>2. meta[n] = None => Contested(n, d)
          BY <3>3, <4>2, <5>1 DEF Contested, Mounts
        <5> QED
          BY <2>3, <3>1, <3>3, <4>3, <5>1, <5>2
      <4> QED
        BY <4>4, <4>5
    <3> QED
      BY <3>1, <3>3 DEF Forgets
  <2>5. /\ cached' \in [Names -> Drivers \cup {None}] /\ refs' \in [Names -> SUBSET Containers]
        /\ meta' \in [Names -> Drivers \cup {None}] /\ count' \in [Drivers -> Int]
        /\ \A m \in Names : m # n => cached'[m] = cached[m] /\ refs'[m] = refs[m] /\ meta'[m] = meta[m]
    BY <1>1, <2>2, ConsultTypes DEF IInv
  <2>6. /\ LocksOK' /\ holder' \in [Names -> Procs \cup {None}]
        /\ pc' \in [Procs -> {"idle", "create", "probe", "make", "record", "name", "get", "found", "rm", "delete", "purge"}]
        /\ name' \in [Procs -> Names \cup {None}] /\ drv' \in [Procs -> Drivers \cup {AnyDriver, None}]
        /\ \A q \in Procs : q # p => pc'[q] = pc[q] /\ name'[q] = name[q] /\ drv'[q] = drv[q]
    BY <1>0, <1>1, <2>1, GoesOrEnds DEF Busy
  <2>7. pc'[p] = "idle"
    BY <2>1 DEF Ends, IInv, TypeOK
  <2>8. TypeOK'
    <3>1. absent' \subseteq Containers /\ todo' \subseteq Names \cup Containers
      BY <2>1 DEF IInv, TypeOK
    <3> QED
      BY <1>1, <2>3, <2>5, <2>6, <3>1 DEF IInv, TypeOK, LocksOK, Busy
  <2>9. AsksOK' /\ StagesOK'
    <3>1. Stage(p)' /\ Asks(p)'
      BY <2>7 DEF Stage, Asks
    <3>2. absent \subseteq absent'
      BY <2>1
    <3>3. AsksOK'
      BY <1>1, <2>6, <3>1, <3>2, OthersAsk
    <3> QED
      BY <1>1, <2>3, <2>5, <2>6, <3>1, <3>3, OthersKept
  <2>10. \/ UNCHANGED <<todo, absent>>
         \/ /\ p \in Containers /\ mount[p] # None /\ p \notin fresh
            /\ \A m \in Names : p \notin refs[m]
            /\ todo' = todo \ {p} /\ absent' = absent \cup {p}
    <3>1. CASE p \in Containers /\ mount[p] # None
      <4>1. mount[p] = <<n, d>> /\ (phase = "mounts" \/ p \in absent)
        BY <1>0, <1>1, <3>1 DEF IInv, AsksOK, Asks
      <4>2. phase = "mounts" => p \in todo
        BY <1>1 DEF IInv, LocksOK
      <4>3. p \notin fresh /\ \A m \in Names : p \notin refs[m]
        BY <4>1, <4>2 DEF IInv, BootOK
      <4> QED
        BY <2>1, <3>1, <4>1, <4>3
    <3>2. CASE ~(p \in Containers /\ mount[p] # None)
      <4>1. p \notin todo
        BY <1>1, <3>2 DEF IInv, TypeOK, BootOK
      <4> QED
        BY <2>1, <3>2, <4>1
    <3> QED
      BY <3>1, <3>2
  <2>11. StoreOK' /\ MountsOK' /\ BootOK' /\ CountOK'
    BY <1>0, <1>1, <2>3, <2>4, <2>6, <2>7, <2>10, ConsultKeeps
  <2> QED
    BY <2>6, <2>8, <2>9, <2>11 DEF IInv
<1> QED
  BY <1>3, <1>4
-----------------------------------------------------------------------------
\* The configuration of a new container is saved.
LEMMA RegistersStep ==
  ASSUME IInv, NEW c \in Containers, Registers(c)
  PROVE  IInv'
<1>1. UNCHANGED <<cached, refs, count, meta, vols, holder, pc, name, drv, mount, leaked, phase, todo, absent, lost, drift, cut, faults>>
      /\ fresh' = fresh \ {c}
  BY DEF Registers, store, proc, boot, aside
<1>2. TypeOK' /\ LocksOK' /\ AsksOK'
  BY <1>1 DEF IInv, TypeOK, LocksOK, Busy, AsksOK, Asks
<1>3. StagesOK' /\ StoreOK'
  BY <1>1 DEF IInv, StagesOK, Stage, StoreOK, Mounts
<1>4. MountsOK' /\ BootOK'
  BY <1>1 DEF IInv, MountsOK, BootOK
<1>5. CountOK'
  <2>1. \A e \in Drivers : Counted(e)' = Counted(e)
    BY <1>1 DEF Counted
  <2> QED
    BY <1>1, <2>1, CountsKept DEF IInv
<1> QED
  BY <1>2, <1>3, <1>4, <1>5 DEF IInv

(***************************************************************************)
(* A container comes to have no volume, and nobody is told: it was not     *)
(* created, or it is removed when the daemon starts; or it is left without *)
(* the one it has.                                                         *)
(***************************************************************************)
LEMMA AsideStep ==
  ASSUME IInv, NEW c \in Containers, RelabelFails(c) \/ SkipsMounts(c) \/ AutoRemoved(c)
  PROVE  IInv'
<1>1. /\ UNCHANGED <<cached, refs, count, meta, vols, holder, pc, name, drv, phase, lost, drift, cut>>
      /\ faults' \subseteq {"wrong", "loses", "gains", "crash", "label"}
      /\ pc[c] = "idle" \/ c \in fresh
      /\ fresh' \subseteq fresh /\ leaked \subseteq leaked' /\ leaked' \subseteq Containers
      /\ todo' \subseteq todo /\ todo \ {c} \subseteq todo'
      /\ absent \ {c} \subseteq absent' /\ absent' \ {c} \subseteq absent
  BY DEF RelabelFails, SkipsMounts, AutoRemoved, store, proc, boot, config, IInv, TypeOK
<1>2. /\ \A e \in Containers : mount'[e] = mount[e] \/ (e = c /\ mount'[e] = None)
      /\ mount' \in [Containers -> (Names \X Drivers) \cup {None}]
  BY DEF RelabelFails, SkipsMounts, AutoRemoved, config, IInv, TypeOK
<1>3. /\ phase # "restore" /\ (phase = "up" => todo' = todo)
      /\ mount[c] # None
      /\ \A n \in Names : c \in refs[n] => c \in leaked' \/ mount'[c] = mount[c]
      /\ \/ mount'[c] = None /\ c \notin absent' /\ c \notin fresh' /\ c \notin todo'
         \/ mount'[c] # None /\ c \in absent' /\ c \notin fresh /\ \A n \in Names : c \notin refs[n]
  <2>1. CASE RelabelFails(c)
    <3>1. phase = "up" /\ mount[c] # None /\ c \notin absent /\ todo = {}
      BY <2>1 DEF RelabelFails, IInv, BootOK
    <3> QED
      BY <2>1, <3>1 DEF RelabelFails, boot, IInv, TypeOK
  <2>2. CASE SkipsMounts(c) \/ AutoRemoved(c)
    <3>1. phase = "mounts" /\ mount[c] # None /\ c \notin fresh /\ \A n \in Names : c \notin refs[n]
      BY <2>2 DEF SkipsMounts, AutoRemoved, IInv, BootOK
    <3> QED
      BY <2>2, <3>1 DEF SkipsMounts, AutoRemoved, config, IInv, TypeOK
  <2> QED
    BY <2>1, <2>2
<1>4. TypeOK'
  <2>1. absent' \subseteq Containers
    BY <1>1 DEF IInv, TypeOK
  <2> QED
    BY <1>1, <1>2, <2>1 DEF IInv, TypeOK
<1>5. LocksOK'
  <2>1. c \in todo /\ c \notin todo' => pc[c] = "idle"
    BY <1>1, <1>3 DEF IInv, BootOK
  <2> QED
    BY <1>1, <2>1 DEF IInv, LocksOK, Busy
<1>6. AsksOK'
  <2>1. \A e \in Containers : mount'[e] # None => mount'[e] = mount[e]
    BY <1>2
  <2>2. \A e \in Containers : e \in absent /\ mount'[e] # None => e \in absent'
    BY <1>1, <1>3
  <2>3. \A e \in Containers : mount[e] = None => mount'[e] = None
    BY <1>2
  <2> QED
    BY <1>1, <2>1, <2>2, <2>3 DEF IInv, AsksOK, Asks
<1>7. StagesOK'
  BY <1>1 DEF IInv, StagesOK, Stage
<1>8. StoreOK'
  <2>1. \A n \in Names : refs[n] \subseteq Mounts(n)' \cup leaked'
    <3>1. \A n \in Names : \A e \in refs[n] : e \in Containers /\ e \in Mounts(n) \cup leaked
      BY DEF IInv, TypeOK, StoreOK
    <3>2. \A n \in Names : \A e \in Mounts(n) : e # c => e \in Mounts(n)'
      BY <1>2 DEF Mounts
    <3>3. \A n \in Names : c \in refs[n] => c \in leaked' \/ (c \in Mounts(n) => c \in Mounts(n)')
      BY <1>3 DEF Mounts
    <3> QED
      BY <1>1, <3>1, <3>2, <3>3
  <2> QED
    BY <1>1, <2>1 DEF IInv, StoreOK
<1>9. MountsOK'
  <2>1. \A e \in Containers \ absent' : mount'[e] # None => e \notin absent /\ mount'[e] = mount[e] /\ e # c
    BY <1>1, <1>2, <1>3
  <2>2. \A e \in Containers : e # c => (e \in todo <=> e \in todo')
    BY <1>1
  <2> QED
    BY <1>1, <2>1, <2>2 DEF IInv, MountsOK
<1>10. BootOK'
  <2>1. \A e \in absent' \cup (IF phase = "mounts" THEN todo' ELSE {}) : mount'[e] # None /\ \A n \in Names : e \notin refs[n]
    <3> SUFFICES ASSUME NEW e \in absent' \cup (IF phase = "mounts" THEN todo' ELSE {})
                 PROVE  mount'[e] # None /\ \A n \in Names : e \notin refs[n]
      OBVIOUS
    <3>1. CASE e = c
      BY <1>3, <3>1
    <3>2. CASE e # c
      <4>1. e \in absent \cup (IF phase = "mounts" THEN todo ELSE {}) /\ e \in Containers
        BY <1>1, <3>2 DEF IInv, TypeOK, BootOK
      <4> QED
        BY <1>2, <3>2, <4>1 DEF IInv, BootOK
    <3> QED
      BY <3>1, <3>2
  <2>2. \A e \in fresh' : phase = "up" /\ mount'[e] # None /\ e \notin absent'
    <3>1. \A e \in fresh' : e # c /\ e \in fresh /\ e \in Containers
      BY <1>1, <1>3 DEF IInv, TypeOK
    <3>2. \A e \in fresh : phase = "up" /\ mount[e] # None /\ e \notin absent
      BY DEF IInv, BootOK
    <3> QED
      BY <1>1, <1>2, <3>1, <3>2
  <2> QED
    BY <1>1, <1>3, <2>1, <2>2 DEF IInv, BootOK
<1>11. CountOK'
  <2>1. \A e \in Drivers : Counted(e)' = Counted(e)
    BY <1>1 DEF Counted
  <2> QED
    BY <1>1, <2>1, CountsKept DEF IInv
<1> QED
  BY <1>4, <1>5, <1>6, <1>7, <1>8, <1>9, <1>10, <1>11 DEF IInv

\* The daemon dies: the configurations, the drivers and the database stay.
LEMMA CrashStep ==
  ASSUME IInv, Crash
  PROVE  IInv'
<1>1. TypeOK'
  BY DEF IInv, TypeOK, Crash, MayFault
<1>2. LocksOK' /\ AsksOK' /\ StagesOK'
  BY DEF Crash, LocksOK, Busy, AsksOK, Asks, StagesOK, Stage, Procs
<1>3. StoreOK'
  BY DEF Crash, StoreOK
<1>4. MountsOK'
  BY MountFacts DEF IInv, Crash, MountsOK
<1>5. BootOK'
  <2>1. \A c \in absent : c \in Containers /\ c \notin fresh /\ mount[c] # None
    BY DEF IInv, TypeOK, BootOK
  <2>2. \A c \in absent : mount'[c] # None
    BY <2>1 DEF Crash
  <2> QED
    BY <2>2 DEF Crash, BootOK
<1>6. CountOK'
  <2>1. \A d \in Drivers : Counted(d)' = {} /\ count'[d] = 0
    BY VolumeAssumption DEF Crash, Counted
  <2> QED
    BY <2>1, FS_EmptySet DEF CountOK
<1> QED
  BY <1>1, <1>2, <1>3, <1>4, <1>5, <1>6 DEF IInv

\* The next one loads a volume.
LEMMA RestoreStep ==
  ASSUME IInv, NEW n \in Names, NEW a \in Answer, Restore(n, a)
  PROVE  IInv'
<1> USE DEF store, proc, config
<1>0. PICK d : d = meta[n]
  OBVIOUS
<1>1. /\ phase = "restore" /\ n \in todo /\ d \in Drivers /\ cached[n] = None /\ refs[n] = {}
      /\ todo \subseteq Names /\ \A p \in Procs : pc[p] = "idle"
      /\ Answers(d, n, a) /\ Misled(d, n, a) /\ Loses(n) /\ todo' = todo \ {n}
      /\ UNCHANGED <<refs, vols, holder, pc, name, drv, config, phase, absent, drift, cut>>
  BY <1>0 DEF Restore, IInv, TypeOK, BootOK, LocksOK
<1>2. \/ /\ a = "found" /\ n \in vols[d] /\ cached' = [cached EXCEPT ![n] = d]
         /\ count' = [count EXCEPT ![d] = CreateDriver(@)] /\ UNCHANGED meta
      \/ /\ a # "found" /\ meta' = [meta EXCEPT ![n] = IF a = "missing" THEN None ELSE @]
         /\ UNCHANGED <<cached, count>>
  BY <1>0, <1>1 DEF Restore, Answers
<1>3. lost \subseteq lost' /\ lost' \subseteq Names /\ faults' \subseteq {"wrong", "loses", "gains", "crash", "label"}
  BY <1>1 DEF Loses, Misled, IInv, TypeOK
<1>4. /\ \A m \in Names : m # n => cached'[m] = cached[m] /\ meta'[m] = meta[m]
      /\ meta'[n] \in {d, None} /\ cached'[n] \in {d, None}
      /\ cached'[n] = d => meta'[n] = d /\ n \in vols[d]
      /\ cached' \in [Names -> Drivers \cup {None}] /\ meta' \in [Names -> Drivers \cup {None}]
      /\ count' \in [Drivers -> Int]
  <2>1. CASE a = "found"
    BY <1>0, <1>1, <1>2, <2>1 DEF IInv, TypeOK, CreateDriver
  <2>2. CASE a # "found"
    BY <1>0, <1>1, <1>2, <2>2, VolumeAssumption DEF IInv, TypeOK
  <2> QED
    BY <2>1, <2>2
<1>5. TypeOK'
  BY <1>1, <1>3, <1>4 DEF IInv, TypeOK
<1>6. LocksOK' /\ AsksOK' /\ StagesOK'
  BY <1>1 DEF LocksOK, Busy, AsksOK, Asks, StagesOK, Stage, Procs
<1>7. StoreOK'
  BY <1>1, <1>3, <1>4, VolumeAssumption DEF IInv, StoreOK, Mounts
<1>8. MountsOK'
  BY <1>0, <1>1, <1>3, <1>4, MountFacts DEF IInv, MountsOK
<1>9. BootOK'
  BY <1>1, <1>4 DEF IInv, BootOK
<1>10. CountOK'
  <2>1. \A e \in Drivers : Counted(e) = {m \in Names : cached[m] = e} /\ Counted(e)' = {m \in Names : cached'[m] = e}
    BY <1>1 DEF Counted
  <2>2. CASE a = "found"
    <3>1. cached'[n] = d /\ cached[n] \notin Drivers
      BY <1>1, <1>2, <2>2, VolumeAssumption DEF IInv, TypeOK
    <3>2. Counted(d)' = Counted(d) \cup {n}
      <4>1. \A m \in Names : cached'[m] = d <=> cached[m] = d \/ m = n
        BY <1>4, <3>1
      <4> QED
        BY <2>1, <1>1, <4>1
    <3>3. \A e \in Drivers : e # d => Counted(e)' = Counted(e)
      <4>1. \A e \in Drivers : e # d => \A m \in Names : cached'[m] = e <=> cached[m] = e
        BY <1>4, <3>1
      <4> QED
        BY <2>1, <4>1
    <3>4. \A e \in Drivers : Counted(e)' = IF e = d THEN Counted(e) \cup {n} ELSE Counted(e)
      BY <3>2, <3>3
    <3>5. \A e \in Drivers : count'[e] = IF e = d THEN CreateDriver(count[e]) ELSE count[e]
      BY <1>1, <1>2, <2>2 DEF IInv, TypeOK
    <3>6. n \notin Counted(d)
      BY <1>1, <2>1, VolumeAssumption
    <3>7. \A e \in Drivers : Follows(e)
      BY <3>4, <3>5, <3>6 DEF Follows
    <3> QED
      BY <1>1, <3>7, CountsFollow DEF IInv
  <2>3. CASE a # "found"
    <3>1. \A e \in Drivers : Counted(e)' = Counted(e)
      BY <1>2, <2>1, <2>3
    <3> QED
      BY <1>1, <1>2, <2>3, <3>1, CountsKept DEF IInv
  <2> QED
    BY <2>2, <2>3
<1> QED
  BY <1>5, <1>6, <1>7, <1>8, <1>9, <1>10 DEF IInv

\* The stages of the start, and steps that change nothing.
LEMMA BootSteps ==
  ASSUME IInv, Restored \/ Serves \/ UNCHANGED vars
  PROVE  IInv'
<1> USE DEF store, proc, aside, vars, boot, config
<1>1. /\ UNCHANGED <<store, meta, vols, holder, proc, config, aside>>
      /\ \/ phase = "restore" /\ phase' = "mounts" /\ todo' = {c \in Containers : mount[c] # None}
         \/ phase = "mounts" /\ todo = {} /\ phase' = "up" /\ todo' = {}
         \/ UNCHANGED <<phase, todo>>
  BY DEF Restored, Serves
<1>2. TypeOK'
  BY <1>1 DEF IInv, TypeOK
<1>3. LocksOK'
  BY <1>1 DEF IInv, LocksOK, Busy
<1>4. AsksOK'
  BY <1>1 DEF IInv, AsksOK, Asks, LocksOK, Procs
<1>5. StagesOK' /\ StoreOK'
  BY <1>1 DEF IInv, StagesOK, Stage, StoreOK, Mounts
<1>6. MountsOK'
  BY <1>1 DEF IInv, MountsOK
<1>7. BootOK'
  BY <1>1 DEF IInv, BootOK
<1>8. CountOK'
  <2>1. \A e \in Drivers : Counted(e)' = Counted(e)
    BY <1>1 DEF Counted
  <2> QED
    BY <1>1, <2>1, CountsKept DEF IInv
<1> QED
  BY <1>2, <1>3, <1>4, <1>5, <1>6, <1>7, <1>8 DEF IInv

\* Initially there are no volumes.
LEMMA InitIInv == Init => IInv
<1> SUFFICES ASSUME Init PROVE IInv
  OBVIOUS
<1>1. TypeOK /\ LocksOK /\ AsksOK /\ StagesOK /\ StoreOK /\ MountsOK /\ BootOK
  BY DEF Init, TypeOK, LocksOK, Busy, AsksOK, Asks, StagesOK, Stage, StoreOK, MountsOK, BootOK,
        Procs
<1>2. CountOK
  <2>1. \A d \in Drivers : Counted(d) = {} /\ count[d] = 0
    BY VolumeAssumption DEF Init, Counted
  <2> QED
    BY <2>1, FS_EmptySet DEF CountOK
<1> QED
  BY <1>1, <1>2 DEF IInv

(***************************************************************************)
(* What the store, the database, the drivers and the containers know of    *)
(* each other is an invariant: one lemma for each operation of the code.   *)
(***************************************************************************)
THEOREM Invariance == Spec => []IInv
<1>1. IInv /\ [Next]_vars => IInv'
  <2> SUFFICES ASSUME IInv, [Next]_vars PROVE IInv'
    OBVIOUS
  <2>1. ASSUME NEW p \in Procs,
               \/ \E n \in Names, d \in Drivers \cup {AnyDriver}, op \in {"create", "get"} : Begins(p, op, n, d)
               \/ \E a \in Answer : CheckConflict(p, a)
               \/ \E a \in Answer, r \in Drivers \cup {None} : Probe(p, a, r) \/ Get(p, a, r)
        PROVE  IInv'
    BY <2>1, BeginsStep, CheckConflictStep, ProbeStep, GetStep
  <2>2. ASSUME NEW p \in Procs, Make(p) \/ MakeFails(p) \/ Record(p) \/ RecordFails(p) \/ Named(p) \/ Found(p)
        PROVE  IInv'
    BY <2>2, MakeStep, EndsStep, RecordStep, RecordFailsStep, NamedStep, FoundStep
  <2>3. ASSUME NEW p \in Clients,
               \/ \E n \in Names : Finds(p, n)
               \/ \E a \in Answer, r \in Drivers \cup {None} : Remove(p, a, r)
        PROVE  IInv'
    BY <2>3, FindsStep, RemoveStep
  <2>4. ASSUME NEW p \in Clients, Delete(p) \/ DeleteFails(p) \/ PurgeRemoved(p) \/ PurgeCancelled(p)
        PROVE  IInv'
    <3>1. p \in Procs
      BY DEF Procs
    <3>2. CASE DeleteFails(p)
      BY <3>1, <3>2, EndsStep, DeleteStep DEF DeleteFails
    <3> QED
      BY <2>4, <3>1, <3>2, DeleteStep, PurgeRemovedStep, EndsStep
  <2>5. ASSUME NEW c \in Containers, \/ Remounts(c) \/ SkipsMounts(c) \/ AutoRemoved(c)
                                      \/ Registers(c) \/ RelabelFails(c) \/ Release(c)
        PROVE  IInv'
    BY <2>5, RemountsStep, AsideStep, RegistersStep, ReleaseStep
  <2>6. CASE Crash \/ Restored \/ Serves \/ UNCHANGED vars
    BY <2>6, CrashStep, BootSteps
  <2>7. ASSUME NEW n \in Names, \/ \E a \in Answer : Restore(n, a)
                                \/ \E d \in Drivers : DriverLoses(d, n) \/ DriverGains(d, n)
        PROVE  IInv'
    BY <2>7, RestoreStep, DriverSteps
  <2> QED
    BY <2>1, <2>2, <2>3, <2>4, <2>5, <2>6, <2>7 DEF Next
<1> QED
  BY <1>1, InitIInv, PTL DEF Spec

(***************************************************************************)
(* No removal, prune, crash or restart takes the volume of a container     *)
(* that has it: one that is created, or that the last restart did not      *)
(* leave without it.                                                       *)
(***************************************************************************)
THEOREM VolumesInUse == Spec => []InUseKept
<1>1. IInv => InUseKept
  BY DEF IInv, MountsOK, InUseKept
<1> QED
  BY <1>1, Invariance, PTL

\* While requests are taken, the store knows who has a volume, but for those a restart skipped.
THEOREM MountsReferenced == Spec => []MountReferenced
<1>1. IInv => MountReferenced
  BY DEF IInv, MountsOK, MountReferenced
<1> QED
  BY <1>1, Invariance, PTL

(***************************************************************************)
(* No reference outlives its container, no cached volume is missing in its *)
(* driver without a reason, and each driver is counted once for each of    *)
(* its volumes.                                                            *)
(***************************************************************************)
THEOREM StoreAgrees == Spec => []RecordsAgree
<1>1. ASSUME IInv PROVE NoStaleRefs
  BY <1>1 DEF IInv, StoreOK, NoStaleRefs
<1>2. ASSUME IInv PROVE CacheFresh
  <2>1. \A n \in Names, p \in Procs : holder[n] = None /\ pc[p] = "purge" => name[p] # n
    BY <1>2, VolumeAssumption DEF IInv, LocksOK, Busy, Procs
  <2> QED
    BY <1>2, <2>1 DEF IInv, StoreOK, CacheFresh
<1>3. ASSUME IInv PROVE DriversCounted
  <2> SUFFICES ASSUME \A n \in Names : holder[n] = None, NEW d \in Drivers
               PROVE  d \in drift \/ count[d] = Cardinality({n \in Names : cached[n] = d})
    BY DEF DriversCounted
  <2>1. \A p \in Procs : ~Busy(p)
    BY <1>3, VolumeAssumption DEF IInv, LocksOK, Procs
  <2>2. Counted(d) = {n \in Names : cached[n] = d}
    BY <2>1 DEF Counted, Busy
  <2> QED
    BY <1>3, <2>2 DEF IInv, CountOK
<1>4. IInv => RecordsAgree
  BY <1>1, <1>2, <1>3 DEF IInv, RecordsAgree
<1> QED
  BY <1>4, Invariance, PTL
=============================================================================
