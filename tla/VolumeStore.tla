---------------------------- MODULE VolumeStore ----------------------------
(***************************************************************************)
(* volume/service: the store of volumes.  It caches which driver has a     *)
(* volume, keeps the containers that refer to it, and writes its driver to *)
(* a database; a volume with references is not removed.  Drivers live      *)
(* elsewhere: they fail, and lose or gain volumes by themselves.  The      *)
(* daemon dies at any time; on a restart the store reads its database, and *)
(* containers ask for their volumes again before any request is taken, but *)
(* not all of them: those the daemon starts or removes itself are skipped. *)
(*                                                                         *)
(* An operation holds the lock of the volume's name, and has a step for    *)
(* each write of the driver or the database, where a crash may come        *)
(* between.  The lock is that of module Locker.                            *)
(***************************************************************************)
EXTENDS Integers, FiniteSets

CONSTANTS Names, Drivers, DefaultDriver,
          Containers,
          Clients,      \* of the API, who create and remove volumes
          AnyDriver,    \* no driver is given
          None,
          MaxFaults     \* bound: how many kinds of fault, each once, in a behaviour

ASSUME VolumeAssumption ==
    /\ DefaultDriver \in Drivers /\ AnyDriver \notin Drivers /\ None \notin Drivers \cup Containers \cup Clients
    /\ None \notin Names \X (Drivers \cup {AnyDriver})
    /\ Containers \cap Clients = {} /\ MaxFaults \in Nat
    /\ IsFiniteSet(Names) /\ IsFiniteSet(Drivers) /\ IsFiniteSet(Containers) /\ IsFiniteSet(Clients)

Procs == Containers \cup Clients

VARIABLES
    cached,       \* names: the driver of each volume the store knows
    refs,
    meta,         \* the database: the driver recorded for each volume
    vols,         \* the volumes each driver has
    count,        \* the references to each driver
    holder,       \* of the lock of each name
    pc, name, drv,    \* the operation of each process, and what it is about
    mount,        \* the volume and the driver each container has
    fresh,        \* containers being created: what they have is not in their configuration
    leaked,       \* containers that were not created, and still refer to a volume
    phase, todo,  \* of the daemon's start, and what is left of it
    absent,       \* containers a restart left without their volume
    \* History:
    lost,         \* volumes a driver lost, or said it had lost, or two drivers have
    drift,        \* drivers whose references are not those of their volumes
    cut,          \* volumes removed, but not from the store: the context had ended
    faults        \* crashes, and what the drivers did by themselves

store == <<cached, refs, count>>
proc == <<pc, name, drv>>
config == <<mount, fresh, leaked>>
boot == <<phase, todo>>
aside == <<absent, lost, drift, cut, faults>>
vars == <<store, meta, vols, holder, proc, config, boot, aside>>

Init ==
    /\ cached = [n \in Names |-> None] /\ refs = [n \in Names |-> {}]
    /\ meta = [n \in Names |-> None]
    /\ vols = [d \in Drivers |-> {}] /\ count = [d \in Drivers |-> 0]
    /\ holder = [n \in Names |-> None]
    /\ pc = [p \in Procs |-> "idle"]
    /\ name = [p \in Procs |-> None] /\ drv = [p \in Procs |-> None]
    /\ mount = [c \in Containers |-> None] /\ fresh = {} /\ leaked = {}
    /\ phase = "up" /\ todo = {}
    /\ lost = {} /\ absent = {} /\ drift = {} /\ cut = {} /\ faults = {}

MayFault(f) == f \notin faults /\ Cardinality(faults) < MaxFaults

Mounts(n) == {c \in Containers : mount[c] # None /\ mount[c][1] = n}
-----------------------------------------------------------------------------
(***************************************************************************)
(* The store's helpers.                                                    *)
(***************************************************************************)
\* lookupVolume: an error that is none of the network's counts as no volume.
Answers(d, n, a) ==
    /\ a \in {"found", "missing", "error"}
    /\ a = "found" => n \in vols[d]
    /\ a = "missing" => n \notin vols[d] \/ MayFault("wrong")

\* It said that a volume is missing which it has.
Misled(d, n, a) ==
    faults' = IF a = "missing" /\ n \in vols[d] THEN faults \cup {"wrong"} ELSE faults

\* The volume is lost if the driver's answer was wrong.
Loses(n) == lost' = IF faults' # faults THEN lost \cup {n} ELSE lost

(***************************************************************************)
(* CreateDriver and ReleaseDriver add one to the references of a driver or *)
(* take one away.  Bound: a count that has gone astray stops at one more   *)
(* than there are volumes, or less than none.                              *)
(***************************************************************************)
CreateDriver(k) == IF k > Cardinality(Names) THEN k ELSE k + 1
ReleaseDriver(k) == IF k < 0 THEN k ELSE k - 1

\* Mutant: the references survive.
PurgeKeepsRefs(n) ==
    /\ count' = IF cached[n] = None THEN count ELSE [count EXCEPT ![cached[n]] = ReleaseDriver(@)]
    /\ cached' = [cached EXCEPT ![n] = None]
    /\ meta' = [meta EXCEPT ![n] = None]
    /\ UNCHANGED refs

Purge(n) ==
    /\ count' = IF cached[n] = None THEN count ELSE [count EXCEPT ![cached[n]] = ReleaseDriver(@)]
    /\ cached' = [cached EXCEPT ![n] = None]
    /\ refs' = [refs EXCEPT ![n] = {}]
    /\ meta' = [meta EXCEPT ![n] = None]

\* Mutant: the volume is cached, and who asked for it is not recorded.
SetNamedOnly(p, n, d) ==
    /\ cached' = [cached EXCEPT ![n] = d]
    /\ UNCHANGED refs

\* setNamed: the volume is cached, and a container that asked for it refers to it.
SetNamed(p, n, d) ==
    /\ cached' = [cached EXCEPT ![n] = d]
    /\ refs' = IF p \in Containers THEN [refs EXCEPT ![n] = @ \cup {p}] ELSE refs

\* The container that asked has the volume; if it is new, not in its configuration yet.
Obtains(p, n, d) ==
    /\ mount' = IF p \in Containers THEN [mount EXCEPT ![p] = <<n, d>>] ELSE mount
    /\ fresh' = fresh \cup {c \in {p} \cap Containers : mount[c] = None}
    /\ UNCHANGED leaked

\* The driver a container asks is not the one whose volume others have, and nothing is recorded.
Contested(n, d) ==
    /\ d \in Drivers /\ meta[n] = None
    /\ \E c \in Mounts(n) \ absent : mount[c][2] # d

\* The driver getVolume asks, if it need not ask them all.
Known(n, d) == IF meta[n] # None THEN meta[n] ELSE IF d # AnyDriver THEN d ELSE cached[n]

(***************************************************************************)
(* getVolume, with the driver's answer a, ends with the driver r that has  *)
(* the volume, or with None.  The driver of a volume that is cached or     *)
(* found by asking them all is recorded; a volume its driver does not have *)
(* is forgotten, references and all.                                       *)
(***************************************************************************)
GetVolume(n, d, a, r) ==
    LET k == Known(n, d) IN
    \/ /\ d # AnyDriver /\ meta[n] # None /\ d # meta[n]
       /\ r = None
       /\ UNCHANGED <<store, meta, faults>>
    \/ /\ k # None /\ (d # AnyDriver => k = d)
       /\ IF k = None THEN FALSE ELSE Answers(k, n, a) /\ Misled(k, n, a)
       /\ r = IF a = "found" THEN k ELSE None
       /\ IF a = "missing" THEN Purge(n)
          ELSE /\ meta' = [meta EXCEPT ![n] = IF d = AnyDriver THEN k ELSE @]
               /\ UNCHANGED store
    \/ /\ k = None /\ a = "found"
       /\ r \in {e \in Drivers : n \in vols[e]} \cup {None}
       /\ meta' = [meta EXCEPT ![n] = r]
       /\ UNCHANGED <<store, faults>>

\* The operation of p is over; it had the lock of n.
Ends(p, n) ==
    /\ holder' = [holder EXCEPT ![n] = None]
    /\ pc' = [pc EXCEPT ![p] = "idle"]
    /\ name' = [name EXCEPT ![p] = None]
    /\ drv' = [drv EXCEPT ![p] = None]

Goes(p, where, d) ==
    /\ pc' = [pc EXCEPT ![p] = where]
    /\ drv' = [drv EXCEPT ![p] = d]
    /\ UNCHANGED <<holder, name>>
-----------------------------------------------------------------------------
(***************************************************************************)
(* An operation begins, with the lock of the name: Create or Get, by a     *)
(* container that will refer to the volume or by a client that will not.   *)
(* A container that uses the volumes of another asks for its driver.       *)
(***************************************************************************)
Locks(p, op, n, d) ==
    /\ pc[p] = "idle" /\ holder[n] = None
    /\ holder' = [holder EXCEPT ![n] = p]
    /\ pc' = [pc EXCEPT ![p] = op]
    /\ name' = [name EXCEPT ![p] = n] /\ drv' = [drv EXCEPT ![p] = d]
    /\ UNCHANGED <<store, meta, vols, config, boot, aside>>

Begins(p, op, n, d) ==
    /\ phase = "up" /\ (p \in Containers => mount[p] = None /\ p \notin leaked)
    /\ op = "get" => IF p \in Clients THEN d = AnyDriver ELSE \E c \in Containers \ fresh : mount[c] = <<n, d>>
    /\ Locks(p, op, n, d)

\* A container asks for its volume again: on the restart, and when it is started later.
Remounts(c) ==
    /\ mount[c] # None
    /\ (phase = "mounts" /\ c \in todo) \/ (phase = "up" /\ c \in absent)
    /\ Locks(c, "get", mount[c][1], mount[c][2])

\* Create: checkConflict.
CheckConflict(p, a) ==
    LET n == name[p] IN
    /\ pc[p] = "create"
    /\ IF cached[n] = None
         THEN /\ Goes(p, IF drv[p] = AnyDriver THEN "probe" ELSE "make", drv[p])
              /\ a = "found"
              /\ UNCHANGED <<store, meta, faults>>
         ELSE /\ Answers(cached[n], n, a) /\ Misled(cached[n], n, a)
              /\ IF a = "missing" /\ refs[n] = {}
                   THEN Purge(n) /\ Goes(p, IF drv[p] = AnyDriver THEN "probe" ELSE "make", drv[p])
                   ELSE /\ IF a = "found" /\ drv[p] \in {AnyDriver, cached[n]}
                             THEN Goes(p, "name", cached[n])
                             ELSE Ends(p, n)
                        /\ UNCHANGED <<store, meta>>
    /\ Loses(name[p])
    /\ UNCHANGED <<vols, config, boot, absent, drift, cut>>

\* No driver is given: does any driver have the volume?
Probe(p, a, r) ==
    /\ pc[p] = "probe"
    /\ GetVolume(name[p], AnyDriver, a, r)
    /\ IF r # None THEN Goes(p, "found", r) ELSE Goes(p, "make", DefaultDriver)
    /\ Loses(name[p])
    /\ UNCHANGED <<vols, config, boot, absent, drift, cut>>

\* CreateDriver, and Get or Create of the driver.
Make(p) ==
    LET n == name[p] d == drv[p] IN
    /\ pc[p] = "make"
    /\ vols' = [vols EXCEPT ![d] = @ \cup {n}]
    /\ count' = [count EXCEPT ![d] = CreateDriver(@)]
    /\ lost' = IF Mounts(n) \subseteq absent THEN lost \ {n} ELSE lost
    /\ Goes(p, "record", d)
    /\ UNCHANGED <<cached, refs, meta, config, boot, absent, drift, cut, faults>>

\* The driver is not there or fails; its reference is given back.
MakeFails(p) ==
    /\ pc[p] = "make"
    /\ Ends(p, name[p])
    /\ UNCHANGED <<store, meta, vols, config, boot, aside>>

\* The references start anew, and the volume is recorded.
Record(p) ==
    LET n == name[p] IN
    /\ pc[p] = "record"
    /\ refs' = [refs EXCEPT ![n] = {}]
    /\ meta' = [meta EXCEPT ![n] = drv[p]]
    /\ Goes(p, "name", drv[p])
    /\ UNCHANGED <<cached, count, vols, config, boot, aside>>

\* The database fails; the driver stays referenced.
RecordFails(p) ==
    LET n == name[p] IN
    /\ pc[p] = "record"
    /\ refs' = [refs EXCEPT ![n] = {}]
    /\ drift' = drift \cup {drv[p]}
    /\ Ends(p, n)
    /\ UNCHANGED <<cached, count, meta, vols, config, boot, lost, absent, cut, faults>>

\* The end of Create: setNamed.
Named(p) ==
    /\ pc[p] = "name"
    /\ SetNamed(p, name[p], drv[p]) /\ Obtains(p, name[p], drv[p])
    /\ Ends(p, name[p])
    /\ UNCHANGED <<count, meta, vols, boot, aside>>
-----------------------------------------------------------------------------
\* Get: getVolume.
Get(p, a, r) ==
    LET n == name[p]
        again == IF p \in Containers THEN mount[p] # None ELSE FALSE
    IN  /\ pc[p] = "get"
        /\ GetVolume(n, drv[p], a, r)
        /\ IF r # None
             THEN Goes(p, "found", r) /\ Loses(n) /\ UNCHANGED <<absent, todo>>
             ELSE /\ Ends(p, n)
                  /\ todo' = todo \ {p}
                  /\ absent' = IF again THEN absent \cup {p} ELSE absent
                  /\ IF a = "missing" /\ Contested(n, drv[p]) THEN lost' = lost \cup {n} ELSE Loses(n)
        /\ UNCHANGED <<vols, config, phase, drift, cut>>

(***************************************************************************)
(* A volume was found: setNamed.  One that is new to the cache does not    *)
(* reference its driver.  A client may be about to remove it.              *)
(***************************************************************************)
Found(p) ==
    LET n == name[p] d == drv[p] IN
    /\ pc[p] = "found"
    /\ SetNamed(p, n, d) /\ Obtains(p, n, d)
    /\ lost' = IF Contested(n, d) THEN lost \cup {n} ELSE lost
    /\ drift' = IF cached[n] = d THEN drift ELSE drift \cup {d}
    /\ todo' = todo \ {p} /\ absent' = absent \ {p}
    /\ \/ Ends(p, n)
       \/ /\ p \in Clients
          /\ holder' = [holder EXCEPT ![n] = None]
          /\ pc' = [pc EXCEPT ![p] = "rm"]
          /\ UNCHANGED <<name, drv>>
    /\ UNCHANGED <<count, meta, vols, phase, cut, faults>>

(***************************************************************************)
(* Prune: Find lists what nobody refers to of what the default driver has, *)
(* or, when it cannot say, of what the store has cached for it.            *)
(***************************************************************************)
Finds(p, n) ==
    /\ phase = "up" /\ pc[p] = "idle"
    /\ n \in vols[DefaultDriver] \/ cached[n] = DefaultDriver
    /\ refs[n] = {} /\ cached[n] \in {None, DefaultDriver}
    /\ pc' = [pc EXCEPT ![p] = "rm"]
    /\ name' = [name EXCEPT ![p] = n] /\ drv' = [drv EXCEPT ![p] = DefaultDriver]
    /\ UNCHANGED <<store, meta, vols, holder, config, boot, aside>>

\* Mutant: the references are not looked at again, under the lock.
RemoveUnchecked(p, a, r) ==
    LET n == name[p] IN
    /\ pc[p] = "rm" /\ holder[n] = None
    /\ GetVolume(n, drv[p], a, r)
    /\ IF r # None
         THEN holder' = [holder EXCEPT ![n] = p] /\ pc' = [pc EXCEPT ![p] = "delete"] /\ UNCHANGED <<name, drv>>
         ELSE Ends(p, n)
    /\ Loses(n)
    /\ UNCHANGED <<vols, config, boot, absent, drift, cut>>

\* Remove: nothing that is referred to; getVolume.
Remove(p, a, r) ==
    LET n == name[p] IN
    /\ pc[p] = "rm" /\ holder[n] = None
    /\ IF refs[n] # {}
         THEN Ends(p, n) /\ r = None /\ a = "error" /\ UNCHANGED <<store, meta, faults>>
         ELSE /\ GetVolume(n, drv[p], a, r)
              /\ IF r # None
                   THEN /\ holder' = [holder EXCEPT ![n] = p]
                        /\ pc' = [pc EXCEPT ![p] = "delete"]
                        /\ UNCHANGED <<name, drv>>
                   ELSE Ends(p, n)
    /\ Loses(n)
    /\ UNCHANGED <<vols, config, boot, absent, drift, cut>>

\* The driver's Remove.
Delete(p) ==
    /\ pc[p] = "delete"
    /\ vols' = [vols EXCEPT ![drv[p]] = @ \ {name[p]}]
    /\ Goes(p, "purge", drv[p])
    /\ UNCHANGED <<store, meta, config, boot, aside>>

\* It fails; with PurgeOnError the volume is forgotten all the same.
DeleteFails(p) ==
    /\ pc[p] = "delete"
    /\ Ends(p, name[p]) \/ Goes(p, "purge", drv[p])
    /\ UNCHANGED <<store, meta, vols, config, boot, aside>>

PurgeRemoved(p) ==
    /\ pc[p] = "purge"
    /\ Purge(name[p])
    /\ Ends(p, name[p])
    /\ UNCHANGED <<vols, config, boot, aside>>

\* The caller's context has ended, and nothing is purged.
PurgeCancelled(p) ==
    /\ pc[p] = "purge"
    /\ Ends(p, name[p])
    /\ cut' = cut \cup {name[p]}
    /\ UNCHANGED <<store, meta, vols, config, boot, lost, absent, drift, faults>>

(***************************************************************************)
(* The configuration of a new container is set, and the container is saved *)
(* and registered.                                                         *)
(***************************************************************************)
Registers(c) ==
    /\ c \in fresh
    /\ fresh' = fresh \ {c}
    /\ UNCHANGED <<store, meta, vols, holder, proc, mount, leaked, boot, aside>>

\* A new volume of a new container cannot be labelled: it is not in the configuration to be released.
RelabelFails(c) ==
    /\ MayFault("label") /\ faults' = faults \cup {"label"}
    /\ c \in fresh /\ refs[mount[c][1]] = {c}
    /\ mount' = [mount EXCEPT ![c] = None]
    /\ fresh' = fresh \ {c} /\ leaked' = leaked \cup {c}
    /\ UNCHANGED <<store, meta, vols, holder, proc, boot, absent, lost, drift, cut>>

(***************************************************************************)
(* Release: of a container that is removed, by removeMountPoints, or whose *)
(* creation fails.  Without a volume it is not called.                     *)
(***************************************************************************)
Release(c) ==
    /\ phase = "up" /\ pc[c] = "idle" /\ mount[c] # None
    /\ holder[mount[c][1]] = None
    /\ refs' = IF c \in absent THEN refs ELSE [refs EXCEPT ![mount[c][1]] = @ \ {c}]
    /\ mount' = [mount EXCEPT ![c] = None] /\ fresh' = fresh \ {c}
    /\ absent' = absent \ {c}
    /\ UNCHANGED <<cached, count, meta, vols, holder, proc, leaked, boot, lost, drift, cut, faults>>
-----------------------------------------------------------------------------
(***************************************************************************)
(* The daemon dies.  The database, the drivers and the configurations of   *)
(* the containers stay.                                                    *)
(***************************************************************************)
Crash ==
    /\ MayFault("crash") /\ faults' = faults \cup {"crash"}
    /\ cached' = [n \in Names |-> None] /\ refs' = [n \in Names |-> {}]
    /\ count' = [d \in Drivers |-> 0]
    /\ holder' = [n \in Names |-> None]
    /\ pc' = [p \in Procs |-> "idle"]
    /\ name' = [p \in Procs |-> None] /\ drv' = [p \in Procs |-> None]
    /\ phase' = "restore" /\ todo' = {n \in Names : meta[n] # None}
    /\ mount' = [c \in Containers |-> IF c \in fresh THEN None ELSE mount[c]]
    /\ fresh' = {} /\ leaked' = {}
    /\ drift' = {} /\ cut' = {}
    /\ UNCHANGED <<meta, vols, absent, lost>>

\* restore, for one entry of the database.
Restore(n, a) ==
    /\ phase = "restore" /\ n \in todo
    /\ Answers(meta[n], n, a) /\ Misled(meta[n], n, a) /\ Loses(n)
    /\ todo' = todo \ {n}
    /\ IF a = "found"
         THEN /\ cached' = [cached EXCEPT ![n] = meta[n]]
              /\ count' = [count EXCEPT ![meta[n]] = CreateDriver(@)]
              /\ UNCHANGED meta
         ELSE /\ meta' = [meta EXCEPT ![n] = IF a = "missing" THEN None ELSE @]
              /\ UNCHANGED <<cached, count>>
    /\ UNCHANGED <<refs, vols, holder, proc, config, phase, absent, drift, cut>>

(***************************************************************************)
(* The store is restored.  The daemon starts the containers whose policy   *)
(* says so, removes those with AutoRemove, and has the rest prepare their  *)
(* mount points; here in any order, which allows more.                     *)
(***************************************************************************)
Restored ==
    /\ phase = "restore" /\ todo = {}
    /\ phase' = "mounts" /\ todo' = {c \in Containers : mount[c] # None}
    /\ UNCHANGED <<store, meta, vols, holder, proc, config, aside>>

(***************************************************************************)
(* A container in restartContainers does not prepare its mount points, and *)
(* its start ended before createSpec: it is running since before the       *)
(* restart, or its layer or its network could not be set up.  Nor does one *)
(* in removeContainers whose removal failed.                               *)
(***************************************************************************)
SkipsMounts(c) ==
    /\ phase = "mounts" /\ c \in todo /\ pc[c] = "idle"
    /\ todo' = todo \ {c} /\ absent' = absent \cup {c}
    /\ UNCHANGED <<store, meta, vols, holder, proc, config, phase, lost, drift, cut, faults>>

\* A container in removeContainers is removed; it has no volume to release.
AutoRemoved(c) ==
    /\ phase = "mounts" /\ c \in todo /\ pc[c] = "idle"
    /\ todo' = todo \ {c} /\ absent' = absent \ {c}
    /\ mount' = [mount EXCEPT ![c] = None]
    /\ UNCHANGED <<store, meta, vols, holder, proc, fresh, leaked, phase, lost, drift, cut, faults>>

\* Requests are taken.
Serves ==
    /\ phase = "mounts" /\ todo = {}
    /\ phase' = "up"
    /\ UNCHANGED <<store, meta, vols, holder, proc, config, todo, aside>>

\* A driver loses a volume, or has a new one.
DriverLoses(d, n) ==
    /\ MayFault("loses") /\ n \in vols[d]
    /\ vols' = [vols EXCEPT ![d] = @ \ {n}]
    /\ lost' = lost \cup {n} /\ faults' = faults \cup {"loses"}
    /\ UNCHANGED <<store, meta, holder, proc, config, boot, absent, drift, cut>>

DriverGains(d, n) ==
    /\ MayFault("gains") /\ n \notin vols[d]
    /\ vols' = [vols EXCEPT ![d] = @ \cup {n}]
    /\ faults' = faults \cup {"gains"}
    /\ UNCHANGED <<store, meta, holder, proc, config, boot, lost, absent, drift, cut>>

Answer == {"found", "missing", "error"}

Next ==
    \/ \E p \in Procs :
        \/ \E n \in Names, d \in Drivers \cup {AnyDriver}, op \in {"create", "get"} : Begins(p, op, n, d)
        \/ \E a \in Answer : CheckConflict(p, a)
        \/ \E a \in Answer, r \in Drivers \cup {None} : Probe(p, a, r) \/ Get(p, a, r)
        \/ Make(p) \/ MakeFails(p) \/ Record(p) \/ RecordFails(p) \/ Named(p) \/ Found(p)
    \/ \E p \in Clients :
        \/ \E n \in Names : Finds(p, n)
        \/ \E a \in Answer, r \in Drivers \cup {None} : Remove(p, a, r)
        \/ Delete(p) \/ DeleteFails(p) \/ PurgeRemoved(p) \/ PurgeCancelled(p)
    \/ \E c \in Containers :
        \/ Remounts(c) \/ SkipsMounts(c) \/ AutoRemoved(c)
        \/ Registers(c) \/ RelabelFails(c) \/ Release(c)
    \/ Crash \/ Restored \/ Serves
    \/ \E n \in Names : \/ \E a \in Answer : Restore(n, a)
                        \/ \E d \in Drivers : DriverLoses(d, n) \/ DriverGains(d, n)

Spec == Init /\ [][Next]_vars
-----------------------------------------------------------------------------
TypeOK ==
    /\ cached \in [Names -> Drivers \cup {None}] /\ refs \in [Names -> SUBSET Containers]
    /\ meta \in [Names -> Drivers \cup {None}]
    /\ vols \in [Drivers -> SUBSET Names] /\ count \in [Drivers -> Int]
    /\ holder \in [Names -> Procs \cup {None}]
    /\ pc \in [Procs -> {"idle", "create", "probe", "make", "record", "name", "get", "found", "rm", "delete", "purge"}]
    /\ name \in [Procs -> Names \cup {None}] /\ drv \in [Procs -> Drivers \cup {AnyDriver, None}]
    /\ mount \in [Containers -> (Names \X Drivers) \cup {None}]
    /\ fresh \subseteq Containers /\ leaked \subseteq Containers
    /\ phase \in {"up", "restore", "mounts"} /\ todo \subseteq Names \cup Containers
    /\ lost \subseteq Names /\ absent \subseteq Containers
    /\ drift \subseteq Drivers /\ cut \subseteq Names
    /\ faults \subseteq {"wrong", "loses", "gains", "crash", "label"}
    /\ \A p \in Procs : pc[p] \notin {"idle", "rm"} => holder[name[p]] = p

(***************************************************************************)
(* The volume of a container is not removed by the store: not by a removal *)
(* or a prune that decided on it before the container came, not before the *)
(* container is configured, not after a crash between two steps and not    *)
(* after a restart; but for the containers the restart left without their  *)
(* volume, and for volumes the driver lost.                                *)
(***************************************************************************)
InUseKept ==
    \A c \in Containers \ absent : mount[c] # None =>
        mount[c][1] \in vols[mount[c][2]] \/ mount[c][1] \in lost

(***************************************************************************)
(* "You cannot remove a volume that is in use by a container"              *)
(* (volume_rm.md:33), and "do not prepare the mountpoints since it has     *)
(* been done on restarting" (daemon.go:542): the volume in a container's   *)
(* configuration is there, unless its driver lost it.  It is removed when  *)
(* the restart skipped the container and its start ended too early.        *)
(***************************************************************************)
InUseNeverRemoved ==
    \A c \in Containers : mount[c] # None =>
        mount[c][1] \in vols[mount[c][2]] \/ mount[c][1] \in lost

(***************************************************************************)
(* While requests are taken, a container that has its volume is among the  *)
(* references to it, and the store has it with the same driver: whether    *)
(* the container was created since or prepared its mount points on a       *)
(* restart, and whoever else asked for that name meanwhile.                *)
(***************************************************************************)
MountReferenced ==
    phase = "up" => \A c \in Containers \ absent : mount[c] # None =>
        \/ c \in refs[mount[c][1]] /\ cached[mount[c][1]] = mount[c][2]
        \/ mount[c][1] \in lost

(***************************************************************************)
(* No reference outlives its container, so that no volume is in use for    *)
(* ever, but for that of a container whose new volume was not labelled;    *)
(* and references are to volumes the store knows.                          *)
(***************************************************************************)
NoStaleRefs ==
    \A n \in Names : refs[n] \subseteq Mounts(n) \cup leaked /\ (refs[n] # {} => cached[n] # None)

(***************************************************************************)
(* When no operation is under way, the store knows no volume its driver    *)
(* does not have, unless the driver lost it, or the caller of a removal    *)
(* left before the end; and the database agrees with the cache.            *)
(***************************************************************************)
CacheFresh ==
    \A n \in Names : holder[n] = None /\ cached[n] # None =>
        /\ n \in vols[cached[n]] \/ n \in lost \/ n \in cut
        /\ meta[n] \in {cached[n], None}

(***************************************************************************)
(* A driver is referenced once for each volume of it the store knows, as   *)
(* restore sets it up, so that a plugin in use is not disabled, apart from *)
(* two cases: a volume the store found, rather than created, and one whose *)
(* record could not be written.                                            *)
(***************************************************************************)
DriversCounted ==
    (\A n \in Names : holder[n] = None) =>
        \A d \in Drivers : d \in drift \/ count[d] = Cardinality({n \in Names : cached[n] = d})

(***************************************************************************)
(* What the store has under a name (the volume, the references, the count  *)
(* of its driver) is about one and the same volume, whatever the drivers   *)
(* did behind its back.                                                    *)
(***************************************************************************)
RecordsAgree == TypeOK /\ NoStaleRefs /\ CacheFresh /\ DriversCounted
=============================================================================
