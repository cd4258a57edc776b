-------------------------- MODULE SealedStoreProofs --------------------------
(***************************************************************************)
(* What was acknowledged can be read on every disk a crash or a power loss *)
(* may leave, for any number of processes, keys and contents.              *)
(***************************************************************************)
EXTENDS SealedStore, FiniteSetTheorems, TLAPS

\* A leaf is tried with Zenon, which is soon done, and then with SMT, unless it
\* names its prover.
USE ZenonT(10), SMTT(20)

Kinds == {"none", "file", "ss"}
Sealed == [key: Int, val: Int]
Trees == [there: BOOLEAN, marker: Kinds, key: Int, recs: [Names -> Sealed]]
Disks == [state: Trees, repl: Trees, bak: Trees]

\* Where a process is: opening, with its store open, and migrating.
Copying == {"copy", "build", "swap"}
Opened == {"recover", "identity", "bind", "run", "temp", "renamed"} \cup Copying
Moving == Copying \cup Swapping
Places == {"off", "load"} \cup FirstRun \cup Opened \cup Moving

Processes ==
    [pc: Places, asked: {"auto", "file", "ss"}, target: Kinds, kind: Kinds, key: Int,
     id: Int, name: Names, val: Int, temp: BOOLEAN, copy: [Names -> Int]]

Typed ==
    /\ disk \in Disks /\ hist \subseteq Disks /\ disk \in hist
    /\ ring \subseteq Int \ {0} /\ IsFiniteSet(ring)
    /\ procs \in [Procs -> Processes]
    /\ fresh \in Nat
    /\ base \in [Names -> Int] /\ tried \in [Names -> SUBSET Int]
    /\ unguarded \in {"none", "firstRuns", "swap", "entry"}

\* The key k is the one a tree designates, and it can be had.
Opens(t, keys, k) ==
    /\ k # 0
    /\ \/ t.marker = "file" /\ t.key = k
       \/ t.marker = "ss" /\ keys = {k}

\* A record that is absent, or is sealed under that key and has a content.
Readable(t, keys, n) ==
    t.recs[n] = Absent \/ (Opens(t, keys, t.recs[n].key) /\ t.recs[n].val # Nothing)

\* A tree whose records can be read and hold what they may.
Sound(t, keys, b, w) ==
    /\ t.marker # "none" => \E k \in keys \cup {t.key} : Opens(t, keys, k)
    /\ \A n \in Names : Readable(t, keys, n) /\ t.recs[n].val \in {b[n]} \cup w[n]

Used(d) == IF d.state.there THEN d.state ELSE d.bak

\* A disk a power loss may leave.
SoundDisk(d, keys, b, w) ==
    /\ Sound(Used(d), keys, b, w)
    /\ ~d.state.there => d.state = NoTree
    /\ ~d.bak.there => d.bak = NoTree

\* A replacement that holds the contents that were copied.
Replaces(r, copy, keys, target) ==
    /\ r.there /\ r.marker = target /\ \E k \in keys \cup {r.key} : Opens(r, keys, k)
    /\ \A n \in Names : Readable(r, keys, n) /\ r.recs[n].val = copy[n]

\* What a process in its first run, with an open store, as a daemon, and in a
\* migration relies on.
FirstRunFits(o, d, keys) ==
    /\ o.pc \in FirstRun \ {"marksync"} => d.state.there /\ d.state.marker = "none"
    /\ o.pc = "ringkey" => o.kind = "ss" /\ keys = {}
    /\ o.pc = "keyfile" => o.kind = "file" /\ d.state.key = 0
    /\ o.pc = "keysync" => o.kind = "file"
    /\ o.pc \in {"keysync", "marker"} =>
          /\ o.key # 0
          /\ \/ o.kind = "file" /\ d.state.key = o.key
             \/ o.kind = "ss" /\ keys = {o.key}

OpenFits(o, d, keys) ==
    /\ o.pc \in Opened \cup {"load", "marksync"} =>
          d.state.there /\ o.kind = d.state.marker /\ o.kind # "none"
    /\ o.pc \in Opened \cup {"marksync"} => Opens(d.state, keys, o.key)

Daemon(o) == o.pc \in {"bind", "run"} \/ (o.pc \in Writing /\ o.name = "note")

DaemonFits(o, d, w) ==
    /\ o.pc \in Writing => o.val \in w[o.name]
    /\ o.pc = "temp" => o.val # Nothing
    /\ o.pc = "renamed" => d.state.recs[o.name].val = o.val
    /\ o.pc \in Writing /\ o.name = "identity" => o.id = o.val
    /\ o.pc = "renamed" /\ o.name = "identity" => d.state.recs["identity"] # Absent
    /\ o.pc = "temp" /\ o.name = "identity" => d.state.recs["identity"] = Absent
    /\ Daemon(o) => d.state.recs["identity"] # Absent /\ d.state.recs["identity"].val = o.id

MoveFits(o, d, h, keys) ==
    /\ o.pc \in Moving => o.target # "none"
    /\ o.pc \in {"off", "identity", "bind", "run"} \cup Writing => o.target = "none"
    /\ o.pc \in Moving \ {"copy"} => o.kind # o.target /\ o.kind # "none"
    /\ o.pc \in Copying \cup {"aside"} => \A e \in h : Used(e).marker = o.kind
    /\ o.pc \in {"dropkey", "drop"} => h = {d}
    /\ o.pc = "dropkey" => o.kind = "ss"
    /\ o.pc = "build" => o.val # 0 /\ (o.target = "ss" => keys = {o.val})
    /\ o.pc \in {"swap", "aside"} => Replaces(d.repl, o.copy, keys, o.target)
    /\ o.pc = "aside" =>
          /\ ~d.state.there /\ d.bak.there
          /\ \A n \in Names : d.bak.recs[n].val = o.copy[n]
    /\ o.pc \in {"swapped", "dropkey", "drop"} => d.state.there /\ d.state.marker = o.target

Fits(o, d, h, keys, w) ==
    /\ FirstRunFits(o, d, keys) /\ OpenFits(o, d, keys)
    /\ DaemonFits(o, d, w) /\ MoveFits(o, d, h, keys)

\* What two processes cannot be doing together.
Apart(o, q) ==
    /\ ~(o.pc \in FirstRun /\ q.pc \in FirstRun)
    /\ ~(o.pc \in Writing /\ q.pc \in Writing /\ o.name = q.name)
    /\ ~(o.pc = "run" /\ (q.pc = "run" \/ (q.pc \in Writing /\ q.name = "note")))
    /\ o.target # "none" => q.target = "none"
    /\ o.pc \in Swapping => q.pc = "off"

\* Once an identity is acknowledged no other is written.
IdentitySettled ==
    base["identity"] # Nothing =>
        /\ tried["identity"] = {}
        /\ \A p \in Procs : ~(procs[p].pc \in Writing /\ procs[p].name = "identity")

Consistent ==
    /\ \A d \in hist : SoundDisk(d, ring, base, tried)
    /\ \A p \in Procs : Fits(procs[p], disk, hist, ring, tried)
    /\ \A p, q \in Procs : p # q => Apart(procs[p], procs[q])
    /\ IdentitySettled

IInv == Typed /\ (Followed => Consistent)

(***************************************************************************)
(* Types.                                                                  *)
(***************************************************************************)
LEMMA ConstantTypes ==
    /\ Absent \in Sealed /\ NoTree \in Trees /\ Off \in Processes
    /\ \A d \in Disks : d.state \in Trees /\ d.repl \in Trees /\ d.bak \in Trees
<1>1. Absent \in Sealed
  BY DEF Absent, Sealed, Nothing
<1>2. NoTree \in Trees
  BY <1>1 DEF NoTree, Trees, Kinds
<1>3. Off \in Processes
  BY DEF Off, Processes, Places, Kinds, Names, Nothing
<1> QED
  BY <1>1, <1>2, <1>3 DEF Disks

\* Every way an action changes a disk leaves a disk.
LEMMA DiskTypes ==
    ASSUME NEW d \in Disks
    PROVE  /\ \A t \in Trees : /\ [d EXCEPT !.state = t] \in Disks
                               /\ [d EXCEPT !.repl = t] \in Disks
                               /\ [d EXCEPT !.bak = t] \in Disks
                               /\ \A u \in Trees : [d EXCEPT !.bak = t, !.state = u] \in Disks
                               /\ \A u \in Trees : [d EXCEPT !.state = t, !.repl = u] \in Disks
                               /\ \A u \in Trees : [d EXCEPT !.state = t, !.bak = u] \in Disks
           /\ \A k \in Int : [d EXCEPT !.state.key = k] \in Disks
           /\ \A m \in Kinds : [d EXCEPT !.state.marker = m] \in Disks
           /\ \A n \in Names, r \in Sealed : [d EXCEPT !.state.recs[n] = r] \in Disks
           /\ \A rs \in [Names -> Sealed] : [d EXCEPT !.state.recs = rs] \in Disks
<1>1. \A n \in Names, r \in Sealed : [d.state.recs EXCEPT ![n] = r] \in [Names -> Sealed]
  BY DEF Disks, Trees
<1> QED
  BY <1>1 DEF Disks, Trees

\* The key of a tree is an integer, and one of the ring when it is taken there.
LEMMA KeyTypes ==
    ASSUME NEW t \in Trees, NEW keys \in SUBSET Int
    PROVE  /\ KeyOf(t, keys) \in Int
           /\ keys # {} => (CHOOSE k \in keys : TRUE) \in keys
<1>1. keys # {} => (CHOOSE k \in keys : TRUE) \in keys
  OBVIOUS
<1>2. Cardinality(keys) = 1 => keys # {}
  BY FS_EmptySet, SMTT(20)
<1>3. t.key \in Int /\ 0 \in Int /\ \A k \in keys : k \in Int
  BY SMTT(20) DEF Trees
<1> QED
  BY <1>1, <1>2, <1>3 DEF KeyOf

\* What is read from a tree is an integer.
LEMMA ReadTypes ==
    ASSUME NEW t \in Trees, NEW k, NEW n \in Names
    PROVE  Read(t, k, n) \in Int
BY SMTT(20) DEF Read, Trees, Sealed, Nothing, Unreadable

\* The steps that open a store keep the types.
LEMMA OpenTypes == ASSUME Typed, NEW p \in Procs, Open(p) PROVE Typed'
<1> USE DEF At, Go, Change, Synced, Kept, ghosts
<1>0. disk \in Disks /\ hist \subseteq Disks /\ disk.state \in Trees /\ procs[p] \in Processes
  BY ConstantTypes DEF Typed
<1>1. ASSUME NEW asked \in {"auto", "file", "ss"}, NEW target \in Kinds, Begin(p, asked, target)
      PROVE  Typed'
  <2> DEFINE t == [disk.state EXCEPT !.there = TRUE]
             o == [Off EXCEPT !.asked = asked, !.target = target, !.kind = t.marker,
                              !.pc = IF t.marker = "none" THEN "first" ELSE "load"]
  <2>1. t \in Trees
    BY <1>0 DEF Trees
  <2>2. [disk EXCEPT !.state = t] \in Disks
    BY <2>1, <1>0, DiskTypes
  <2>3. o \in Processes
    BY <2>1, ConstantTypes DEF Processes, Trees, Places, FirstRun, Off
  <2>4. procs' = [procs EXCEPT ![p] = o]
    BY <1>1 DEF Begin, Off
  <2> QED
    BY <2>2, <2>3, <2>4, <1>1 DEF Begin, Met, Typed
<1>2. CASE Load(p)
  BY <1>2, <1>0, KeyTypes DEF Load, Typed, Processes, Places, Opened, Trees, ghosts
<1>3. CASE FirstRunRing(p)
  BY <1>3, <1>0, KeyTypes DEF FirstRunRing, Typed, Processes, Places, FirstRun, Kinds
<1>4. CASE CreateRingKey(p)
  <2>2. fresh' = fresh + 1 /\ ring' = ring \cup {fresh'} /\ fresh \in Nat /\ IsFiniteSet(ring)
    BY <1>4 DEF CreateRingKey, Typed
  <2>3. IsFiniteSet(ring')
    BY ONLY <2>2, FS_AddElement, ZenonT(20)
  <2>1. fresh' \in Nat /\ fresh' \in Int \ {0} /\ IsFiniteSet(ring')
    BY ONLY <2>2, <2>3, SMTT(20)
  <2> QED
    BY <1>4, <1>0, <2>1 DEF CreateRingKey, Typed, Processes, Places, FirstRun
<1>5. CASE FirstRunFile(p)
  BY <1>5, <1>0 DEF FirstRunFile, Typed, Processes, Places, FirstRun, Kinds
<1>6. CASE WriteKeyFile(p)
  <2>1. fresh' \in Nat /\ fresh' \in Int \ {0}
    BY <1>6, SMTT(20) DEF WriteKeyFile, Typed
  <2>2. [disk EXCEPT !.state.key = fresh'] \in Disks
    BY <1>0, <2>1, DiskTypes
  <2> QED
    BY <1>6, <1>0, <2>1, <2>2 DEF WriteKeyFile, Typed, Processes, Places, FirstRun
<1>7. CASE SyncKeyFile(p)
  BY <1>7, <1>0 DEF SyncKeyFile, Typed, Processes, Places, FirstRun
<1>8. CASE WriteMarker(p)
  <2>1. disk' \in Disks
    BY <1>8, <1>0, DiskTypes DEF WriteMarker, Processes
  <2> QED
    BY <1>8, <1>0, <2>1 DEF WriteMarker, Typed, Processes, Places, FirstRun
<1>9. CASE SyncMarker(p)
  BY <1>9, <1>0 DEF SyncMarker, Typed, Processes, Places, Opened
<1>10. CASE Recover(p)
  <2> DEFINE mine == [procs[p] EXCEPT !.pc = IF procs[p].target = "none" THEN "identity" ELSE "copy"]
             others(q) == [procs[q] EXCEPT !.temp = FALSE]
  <2>2. procs' = [q \in Procs |-> IF q = p THEN mine ELSE others(q)]
    BY <1>10 DEF Recover
  <2>3. mine \in Processes
    BY <1>0 DEF Processes, Places, Opened, Copying
  <2>4. ASSUME NEW q \in Procs PROVE others(q) \in Processes
    <3>1. procs[q] \in Processes
      BY DEF Typed
    <3> QED
      BY ONLY <3>1, ZenonT(20) DEF Processes
  <2> HIDE DEF mine, others
  <2>1. procs' \in [Procs -> Processes]
    BY ONLY <2>2, <2>3, <2>4, ZenonT(20)
  <2> QED
    BY <1>10, <1>0, <2>1 DEF Recover, Typed
<1>11. "none" \in Kinds
  BY DEF Kinds
<1> QED
  BY <1>1, <1>2, <1>3, <1>4, <1>5, <1>6, <1>7, <1>8, <1>9, <1>10, <1>11 DEF Open

\* The steps that use an open store keep the types.
LEMMA UseTypes == ASSUME Typed, NEW p \in Procs, Use(p) PROVE Typed'
<1> USE DEF At, Go, Change, Synced, Kept, ghosts
<1>0. /\ disk \in Disks /\ hist \subseteq Disks /\ disk.state \in Trees /\ procs[p] \in Processes
      /\ Absent \in Sealed
  BY ConstantTypes DEF Typed
<1>10. Nothing \in Int /\ "note" \in Names /\ {"bind", "run", "renamed"} \subseteq Places
  BY DEF Nothing, Names, Places, Opened
<1>1. ASSUME NEW n \in Names, NEW v \in Int, NEW id \in Int, WriteTemp(p, n, v, id)
      PROVE  procs' \in [Procs -> Processes] /\ tried' \in [Names -> SUBSET Int]
  BY <1>1, <1>0 DEF WriteTemp, Typed, Processes, Places, Opened
<1>2. CASE LoadOrCreateIdentity(p)
  <2> DEFINE v == Read(disk.state, procs[p].key, "identity")
  <2>1. v \in Int
    BY <1>0, ReadTypes DEF Names
  <2>2. CASE /\ procs' = [procs EXCEPT ![p] = [procs[p] EXCEPT !.pc = "bind", !.id = v]]
             /\ UNCHANGED <<fresh, tried, unguarded>>
    BY <1>2, <2>2, <2>1, <1>0 DEF LoadOrCreateIdentity, Typed, Processes, Places, Opened
  <2>3. CASE /\ fresh' = fresh + 1 /\ WriteTemp(p, "identity", fresh', fresh')
             /\ unguarded' \in {"none", "firstRuns"}
    <3>1. fresh' \in Nat /\ fresh' \in Int \ {0}
      BY <2>3, SMTT(20) DEF Typed
    <3>2. procs' \in [Procs -> Processes] /\ tried' \in [Names -> SUBSET Int]
      BY <2>3, <3>1, <1>1 DEF Names
    <3> QED
      BY <1>2, <2>3, <3>1, <3>2, <1>0 DEF LoadOrCreateIdentity, Typed
  <2> QED
    BY <1>2, <2>2, <2>3 DEF LoadOrCreateIdentity, Met
<1>3. CASE Bind(p)
  BY <1>3, <1>0 DEF Bind, Typed, Processes, Places, Opened
<1>4. ASSUME NEW v \in Values, Write(p, v) PROVE Typed'
  <2>1. v \in Int /\ procs[p].id \in Int /\ "note" \in Names
    BY StoreAssumption, <1>0, SMTT(20) DEF Processes, Names
  <2>2. procs' \in [Procs -> Processes] /\ tried' \in [Names -> SUBSET Int]
    BY <1>4, <1>1, <2>1 DEF Write
  <2> QED
    BY <1>4, <1>0, <2>2 DEF Write, Typed
<1>5. CASE Rename(p)
  <2>1. [key |-> procs[p].key, val |-> procs[p].val] \in Sealed /\ procs[p].name \in Names
    BY <1>0 DEF Processes, Sealed
  <2>2. disk' \in Disks
    BY <2>1, <1>0, <1>5, DiskTypes DEF Rename
  <2> QED
    BY <1>5, <1>0, <2>2 DEF Rename, Typed, Processes, Places, Opened
<1>6. CASE Delete(p)
  <2>1. disk' \in Disks
    BY <1>0, <1>6, DiskTypes DEF Delete, Names
  <2>2. [procs[p] EXCEPT !.pc = "renamed", !.name = "note", !.val = Nothing] \in Processes
    BY <1>0, <1>10 DEF Processes
  <2>3. tried' \in [Names -> SUBSET Int]
    BY <1>6, <1>10 DEF Delete, Typed
  <2> QED
    BY <1>6, <1>0, <2>1, <2>2, <2>3 DEF Delete, Typed
<1>7. Written(p) \in Processes
  BY <1>0, <1>10 DEF Written, Processes
<1>8. CASE Acknowledge(p)
  <2>1. base' \in [Names -> Int] /\ tried' \in [Names -> SUBSET Int]
    BY <1>8, <1>0 DEF Acknowledge, Acked, Typed, Processes
  <2> QED
    BY <1>8, <1>0, <1>7, <2>1 DEF Acknowledge, Typed
<1>9. CASE WriteFails(p)
  BY <1>9, <1>0, <1>7 DEF WriteFails, Typed
<1> QED
  BY <1>2, <1>3, <1>4, <1>5, <1>6, <1>8, <1>9 DEF Use

\* The steps of a migration keep the types.
LEMMA MigrateTypes == ASSUME Typed, NEW p \in Procs, Migrate(p) PROVE Typed'
<1> USE DEF At, Go, Change, Synced, Kept, ghosts
<1>0. /\ disk \in Disks /\ hist \subseteq Disks /\ procs[p] \in Processes
      /\ disk.state \in Trees /\ disk.repl \in Trees /\ disk.bak \in Trees
      /\ NoTree \in Trees /\ Off \in Processes
  BY ConstantTypes DEF Typed
<1>1. \A target \in {"file", "ss"} : Begin(p, "auto", target) => Typed'
  \* The types do not depend on the target.
  <2> SUFFICES ASSUME NEW target \in {"file", "ss"}, Begin(p, "auto", target) PROVE Typed'
    OBVIOUS
  <2> DEFINE t == [disk.state EXCEPT !.there = TRUE]
             o == [Off EXCEPT !.asked = "auto", !.target = target, !.kind = t.marker,
                              !.pc = IF t.marker = "none" THEN "first" ELSE "load"]
  <2>1. t \in Trees
    BY <1>0 DEF Trees
  <2>2. [disk EXCEPT !.state = t] \in Disks
    BY <2>1, <1>0, DiskTypes
  <2>3. o \in Processes
    <3>1. t.marker \in Kinds \cup {"none"}
      BY <2>1 DEF Trees, Kinds
    <3> HIDE DEF t
    <3> QED
      BY <3>1, <1>0 DEF Processes, Places, FirstRun, Off, Kinds
  <2>4. procs' = [procs EXCEPT ![p] = o]
    BY DEF Begin, Off
  <2> QED
    BY <2>2, <2>3, <2>4 DEF Begin, Met, Typed
<1>2. CASE MigrateCopy(p)
  <2>1. fresh' \in Nat /\ fresh' \in Int
    BY <1>2, SMTT(20) DEF MigrateCopy, Typed
  <2>2. ring' = ring \/ (ring' = {fresh'} /\ fresh' # 0)
    BY <1>2, SMTT(20) DEF MigrateCopy, Typed
  <2>8. IsFiniteSet({fresh'})
    BY FS_Singleton
  <2>3. IsFiniteSet(ring')
    BY <2>2, <2>8 DEF Typed
  <2>7. ring' \subseteq Int \ {0}
    BY <2>1, <2>2 DEF Typed
  <2>6. ring # {} => (CHOOSE k \in ring : TRUE) \in Int
    BY KeyTypes, <1>0 DEF Typed
  <2> DEFINE copy == [n \in Names |-> disk.state.recs[n].val]
  <2>9. copy \in [Names -> Int]
    BY <1>0 DEF Trees, Sealed
  <2>4. PICK k \in Int : procs' = [procs EXCEPT ![p] = [procs[p] EXCEPT !.pc = "build", !.val = k, !.copy = copy]]
    BY <1>2, <2>1, <2>6 DEF MigrateCopy
  <2> HIDE DEF copy
  <2>5. procs' \in [Procs -> Processes]
    BY <2>4, <2>9, <1>0 DEF Typed, Processes, Places, Opened, Copying
  <2> QED
    BY <1>2, <2>1, <2>3, <2>5, <2>7 DEF MigrateCopy, Typed
<1>3. CASE MigrateBuild(p)
  <2> DEFINE sealed(n) == IF procs[p].copy[n] = Nothing THEN Absent
                          ELSE [key |-> procs[p].val, val |-> procs[p].copy[n]]
             r == [there |-> TRUE, marker |-> procs[p].target,
                   key |-> IF procs[p].target = "file" THEN procs[p].val ELSE 0,
                   recs |-> [n \in Names |-> sealed(n)]]
  <2>1. \A n \in Names : sealed(n) \in Sealed
    BY <1>0, ConstantTypes DEF Sealed, Processes
  <2>2. [n \in Names |-> sealed(n)] \in [Names -> Sealed]
    BY <2>1
  <2>3. r \in Trees
    BY <2>2, <1>0, SMTT(20) DEF Trees, Processes
  <2>4. disk' = [disk EXCEPT !.repl = r] /\ hist' = {[d EXCEPT !.repl = r] : d \in hist}
    BY <1>3 DEF MigrateBuild
  <2> HIDE DEF r
  <2>8. \A d \in Disks : [d EXCEPT !.repl = r] \in Disks
    BY <2>3, DiskTypes
  <2>9. disk \in hist /\ hist \subseteq Disks
    BY DEF Typed
  <2>5. disk' \in Disks /\ hist' \subseteq Disks /\ disk' \in hist'
    BY ONLY <2>4, <2>8, <2>9, SMTT(20)
  <2>7. Nothing \in Int /\ "swap" \in Places
    BY DEF Nothing, Places, Opened, Copying
  <2>6. [procs[p] EXCEPT !.pc = "swap", !.val = Nothing] \in Processes
    BY <1>0, <2>7 DEF Processes
  <2> QED
    BY <1>3, <2>5, <2>6 DEF MigrateBuild, Typed
<1>4. MayDropKey(p) => ring' \subseteq Int \ {0} /\ IsFiniteSet(ring')
  BY FS_EmptySet DEF MayDropKey, Typed
<1>5. CASE MigrateBuildFails(p)
  BY <1>5, <1>4, <1>0 DEF MigrateBuildFails, Typed
<1>6. CASE MigrateAside(p)
  <2>1. disk' \in Disks
    BY <1>6, <1>0, DiskTypes DEF MigrateAside
  <2> QED
    BY <1>6, <1>0, <2>1 DEF MigrateAside, Met, Typed, Processes, Places, Moving, Swapping
<1>7. CASE MigrateInto(p)
  <2>1. disk' \in Disks
    BY <1>7, <1>0, DiskTypes DEF MigrateInto
  <2> QED
    BY <1>7, <1>0, <2>1 DEF MigrateInto, Typed, Processes, Places, Moving, Swapping
<1>8. CASE MigrateBack(p)
  <2>1. [disk EXCEPT !.state = disk.bak, !.bak = NoTree] \in Disks
    BY <1>0, DiskTypes
  <2> QED
    BY <1>8, <1>0, <1>4, <2>1 DEF MigrateBack, Typed
<1>9. CASE MigrateSync(p)
  BY <1>9, <1>0 DEF MigrateSync, Typed, Processes, Places, Moving, Swapping
<1>10. CASE MigrateDropKey(p)
  BY <1>10, <1>0, FS_EmptySet DEF MigrateDropKey, Typed, Processes, Places, Moving, Swapping
<1>11. CASE MigrateEnd(p)
  <2>1. [disk EXCEPT !.bak = NoTree] \in Disks
    BY <1>0, DiskTypes
  <2> QED
    BY <1>11, <1>0, <2>1 DEF MigrateEnd, Typed
<1> QED
  BY <1>1, <1>2, <1>3, <1>5, <1>6, <1>7, <1>8, <1>9, <1>10, <1>11 DEF Migrate

\* Every step keeps the types.
LEMMA TypeStep == Typed /\ [Next]_vars => Typed'
<1> SUFFICES ASSUME Typed, [Next]_vars PROVE Typed'
  OBVIOUS
<1>1. CASE UNCHANGED vars
  BY <1>1 DEF vars, Typed
<1>2. CASE PowerLoss
  <2>1. PICK d \in hist :
            \/ disk' = d /\ UNCHANGED unguarded
            \/ /\ disk' \in {[d EXCEPT !.state = NoTree], [d EXCEPT !.state.recs = NoTree.recs]}
               /\ unguarded' = "entry"
    BY <1>2 DEF PowerLoss, Met
  <2>2. NoTree \in Trees /\ NoTree.recs \in [Names -> Sealed] /\ d \in Disks
    BY ConstantTypes DEF Trees, Typed
  <2>3. disk' \in Disks
    BY <2>1, <2>2, DiskTypes
  <2> QED
    BY <1>2, <2>1, <2>3, ConstantTypes DEF PowerLoss, Typed
<1>3. ASSUME NEW p \in Procs, Crash(p) PROVE Typed'
  BY <1>3, ConstantTypes DEF Crash, Go, Typed, ghosts
<1> QED
  BY <1>1, <1>2, <1>3, OpenTypes, UseTypes, MigrateTypes DEF Next

(***************************************************************************)
(* Keys, trees and processes.                                              *)
(***************************************************************************)
\* The key that opens a tree is the one the tree designates.
LEMMA OpensKey ==
    ASSUME NEW t, NEW keys, NEW k, Opens(t, keys, k)
    PROVE  KeyOf(t, keys) = k
<1>1. CASE t.marker = "file"
  BY <1>1 DEF Opens, KeyOf
<1>2. CASE t.marker = "ss" /\ keys = {k}
  <2>1. Cardinality(keys) = 1
    BY <1>2, FS_Singleton
  <2>2. (CHOOSE j \in keys : TRUE) = k
    BY <1>2
  <2> QED
    BY <1>2, <2>1, <2>2 DEF KeyOf
<1> QED
  BY <1>1, <1>2 DEF Opens

\* A key that is found opens the tree.
LEMMA KeyOpens ==
    ASSUME NEW t, NEW keys, IsFiniteSet(keys), KeyOf(t, keys) # 0
    PROVE  Opens(t, keys, KeyOf(t, keys)) /\ t.marker \in {"file", "ss"}
<1>1. CASE t.marker = "file"
  BY <1>1 DEF Opens, KeyOf
<1>2. CASE t.marker # "file"
  <2>1. t.marker = "ss" /\ Cardinality(keys) = 1
    BY <1>2 DEF KeyOf
  <2>2. PICK k : keys = {k}
    BY <2>1, FS_Singleton
  <2>3. KeyOf(t, keys) = k
    BY <2>1, <2>2 DEF KeyOf
  <2> QED
    BY <2>1, <2>2, <2>3 DEF Opens
<1> QED
  BY <1>1, <1>2

\* A record reads as its content.
LEMMA SoundRead ==
    ASSUME NEW t, NEW keys, NEW n \in Names,
           Readable(t, keys, n)
    PROVE  Read(t, KeyOf(t, keys), n) = t.recs[n].val
<1>1. CASE t.recs[n] = Absent
  BY <1>1 DEF Read, Absent
<1>2. CASE Opens(t, keys, t.recs[n].key)
  <2>1. KeyOf(t, keys) = t.recs[n].key /\ t.recs[n].key # 0
    BY <1>2, OpensKey DEF Opens
  <2> QED
    BY <2>1 DEF Read, Absent
<1> QED
  BY <1>1, <1>2 DEF Readable

\* A tree whose key is not in the keyring does not depend on the keyring.
LEMMA RingIndependent ==
    ASSUME NEW t, NEW keys, NEW others, NEW b, NEW w,
           t.marker # "ss", Sound(t, keys, b, w)
    PROVE  Sound(t, others, b, w)
<1>1. \A k : Opens(t, keys, k) => Opens(t, others, k) /\ k = t.key
  BY DEF Opens
<1> QED
  BY <1>1 DEF Sound, Readable

\* A tree stays sound when more writes are tried.
LEMMA SoundGrows ==
    ASSUME NEW t, NEW keys, NEW b, NEW w, NEW x, Sound(t, keys, b, w),
           \A n \in Names : w[n] \subseteq x[n]
    PROVE  Sound(t, keys, b, x)
BY DEF Sound

\* A process that is not there fits, and disturbs no other.
LEMMA OffFits ==
    ASSUME NEW o, o.pc = "off", o.target = "none", NEW d, NEW h, NEW keys, NEW w
    PROVE  Fits(o, d, h, keys, w)
BY DEF Fits, FirstRunFits, OpenFits, DaemonFits, MoveFits, Daemon, Writing, FirstRun, Opened, Moving,
       Copying, Swapping

\* While a process makes its first run, or moves the trees, the others are off.
LEMMA Alone ==
    ASSUME Typed, Consistent, NEW p \in Procs, NEW q \in Procs, p # q,
           procs[p].pc \in (FirstRun \ {"marksync"}) \cup Swapping
    PROVE  procs[q].pc = "off" /\ procs[q].target = "none"
<1>1. /\ Apart(procs[p], procs[q]) /\ Apart(procs[q], procs[p])
      /\ Fits(procs[p], disk, hist, ring, tried) /\ Fits(procs[q], disk, hist, ring, tried)
      /\ procs[q].pc \in Places
  BY DEF Consistent, Typed, Processes
<1>2. procs[p].pc # "off"
  BY DEF FirstRun, Swapping
<1>3. procs[q].pc = "off" => procs[q].target = "none"
  BY <1>1 DEF Fits, MoveFits
<1>4. CASE procs[p].pc \in Swapping
  BY <1>1, <1>3, <1>4 DEF Apart
<1>5. CASE procs[p].pc \in FirstRun \ {"marksync"}
  <2>1. disk.state.marker = "none" /\ procs[q].pc \notin FirstRun
    BY <1>1, <1>5 DEF Apart, Fits, FirstRunFits
  <2>2. procs[q].pc \notin Opened \cup {"load"}
    BY <2>1, <1>1 DEF Fits, OpenFits
  <2>3. procs[q].pc \notin Swapping
    BY <1>1, <1>2 DEF Apart
  <2> QED
    BY <2>1, <2>2, <2>3, <1>1, <1>3 DEF Places, Moving, Opened
<1> QED
  BY <1>4, <1>5

\* The consistency of a state in which one process has moved.
LEMMA Compose ==
    ASSUME Typed, NEW p \in Procs, NEW o, procs' = [procs EXCEPT ![p] = o],
           \A d \in hist' : SoundDisk(d, ring', base', tried'),
           Fits(o, disk', hist', ring', tried'),
           \A q \in Procs \ {p} : /\ Fits(procs[q], disk', hist', ring', tried')
                                  /\ Apart(o, procs[q]) /\ Apart(procs[q], o)
                                  /\ \A r \in Procs : q # r => Apart(procs[q], procs[r]),
           IdentitySettled'
    PROVE  Consistent'
<1>1. procs'[p] = o /\ \A q \in Procs \ {p} : procs'[q] = procs[q]
  BY DEF Typed
<1>2. \A q \in Procs : Fits(procs'[q], disk', hist', ring', tried')
  BY <1>1
<1>3. ASSUME NEW q \in Procs, NEW r \in Procs, q # r PROVE Apart(procs'[q], procs'[r])
  <2>1. CASE q = p
    BY <2>1, <1>1, <1>3
  <2>2. CASE r = p
    BY <2>2, <1>1, <1>3
  <2>3. CASE q # p /\ r # p
    BY <2>3, <1>1, <1>3
  <2> QED
    BY <2>1, <2>2, <2>3
<1> QED
  BY <1>2, <1>3 DEF Consistent

\* The same for a process that is the only one there, and writes no record.
LEMMA ComposeAlone ==
    ASSUME Typed, Consistent, NEW p \in Procs, NEW o, procs' = [procs EXCEPT ![p] = o],
           \A q \in Procs \ {p} : procs[q].pc = "off" /\ procs[q].target = "none",
           \A d \in hist' : SoundDisk(d, ring', base', tried'),
           Fits(o, disk', hist', ring', tried'), o.pc \notin Writing,
           UNCHANGED <<base, tried>>
    PROVE  Consistent'
<1>1. \A q \in Procs \ {p} : Fits(procs[q], disk', hist', ring', tried')
  BY OffFits
<1>2. \A q \in Procs \ {p} : Apart(o, procs[q]) /\ Apart(procs[q], o)
  BY DEF Apart, FirstRun, Writing, Swapping
<1>3. \A q \in Procs \ {p}, r \in Procs : q # r => Apart(procs[q], procs[r])
  BY DEF Consistent
<1>4. procs'[p] = o /\ \A q \in Procs \ {p} : procs'[q] = procs[q]
  BY DEF Typed
<1>5. IdentitySettled'
  BY <1>4 DEF Consistent, IdentitySettled, Writing
<1> QED
  BY <1>1, <1>2, <1>3, <1>5, Compose

\* The same for a migration that copies the records, or gives up, beside others.
LEMMA ComposeBeside ==
    ASSUME Typed, Consistent, NEW p \in Procs, NEW o, procs' = [procs EXCEPT ![p] = o],
           procs[p].pc # "off", o.pc \in {"off", "build", "swap"}, o.target \in {procs[p].target, "none"},
           \A d \in hist' : SoundDisk(d, ring', base', tried'),
           Fits(o, disk', hist', ring', tried'),
           \A q \in Procs \ {p} : Fits(procs[q], disk', hist', ring', tried'),
           UNCHANGED <<base, tried>>
    PROVE  Consistent'
<1>1. ASSUME NEW q \in Procs \ {p} PROVE Apart(o, procs[q]) /\ Apart(procs[q], o)
  <2>1. Apart(procs[p], procs[q]) /\ Apart(procs[q], procs[p])
    BY DEF Consistent
  <2> QED
    BY <2>1 DEF Apart, FirstRun, Writing, Swapping
<1>2. \A q \in Procs \ {p}, r \in Procs : q # r => Apart(procs[q], procs[r])
  BY DEF Consistent
<1>3. procs'[p] = o /\ \A q \in Procs \ {p} : procs'[q] = procs[q]
  BY DEF Typed
<1>4. IdentitySettled'
  BY <1>3 DEF Consistent, IdentitySettled, Writing
<1> QED
  BY <1>1, <1>2, <1>4, Compose

(***************************************************************************)
(* open.                                                                   *)
(***************************************************************************)
LEMMA FirstRunStep ==
    ASSUME Typed, Consistent, NEW p \in Procs,
           \/ FirstRunRing(p) \/ CreateRingKey(p) \/ FirstRunFile(p)
           \/ WriteKeyFile(p) \/ SyncKeyFile(p) \/ WriteMarker(p)
    PROVE  Consistent'
<1> USE DEF At, Go, Change, Synced, Kept, ghosts
<1>1. procs[p].pc \in FirstRun \ {"marksync"}
  BY DEF FirstRunRing, CreateRingKey, FirstRunFile, WriteKeyFile, SyncKeyFile, WriteMarker, FirstRun
<1>2. \A q \in Procs \ {p} : procs[q].pc = "off" /\ procs[q].target = "none"
  BY <1>1, Alone
<1>3. FirstRunFits(procs[p], disk, ring) /\ disk.state.there /\ disk.state.marker = "none"
  BY <1>1 DEF Consistent, Fits, FirstRunFits
<1>4. \A d \in hist : SoundDisk(d, ring, base, tried)
  BY DEF Consistent
<1>5. ASSUME NEW n \in Names
      PROVE  disk.state.recs[n] = Absent /\ disk.state.recs[n].val \in {base[n]} \cup tried[n]
  BY <1>3, <1>4 DEF Typed, SoundDisk, Used, Sound, Readable, Opens
<1>6. ASSUME NEW o, NEW d, NEW h, NEW keys, NEW w, o.pc \in FirstRun \ {"marksync"},
             FirstRunFits(o, d, keys)
      PROVE  Fits(o, d, h, keys, w) /\ o.pc \notin Writing
  BY <1>6 DEF Fits, OpenFits, DaemonFits, MoveFits, Daemon, Writing, FirstRun, Opened, Moving,
              Copying, Swapping
<1>7. disk \in Disks /\ procs[p] \in Processes /\ procs \in [Procs -> Processes] /\ disk \in hist
  BY DEF Typed
<1>8. CASE FirstRunRing(p)
  <2> DEFINE o == [procs[p] EXCEPT !.kind = "ss"]
  <2>1. CASE ring = {}
    <3> DEFINE u == [o EXCEPT !.pc = "ringkey"]
    <3>1. procs' = [procs EXCEPT ![p] = u] /\ UNCHANGED <<disk, hist, ring, base, tried>>
      BY <1>8, <2>1 DEF FirstRunRing
    <3>2. u.pc = "ringkey" /\ u.kind = "ss"
      BY <1>7 DEF Processes
    <3> HIDE DEF u
    <3>3. FirstRunFits(u, disk, ring)
      BY <3>2, <2>1, <1>3 DEF FirstRunFits
    <3>4. Fits(u, disk', hist', ring', tried') /\ u.pc \notin Writing
      BY <3>1, <3>2, <3>3, <1>6 DEF FirstRun
    <3> QED
      BY <1>2, <1>4, <3>1, <3>4, ComposeAlone
  <2>2. CASE ring # {}
    <3> DEFINE k == CHOOSE j \in ring : TRUE
               u == [o EXCEPT !.pc = "marker", !.key = k, !.asked = "auto"]
    <3>6. IsFiniteSet(ring) /\ Cardinality(ring) \in Nat /\ Cardinality(ring) # 0
      BY <2>2, FS_EmptySet, FS_CardinalityType DEF Typed
    <3>7. Cardinality(ring) = 1
      BY <1>8, <3>6 DEF FirstRunRing
    <3>0. PICK j : ring = {j}
      BY <3>6, <3>7, FS_Singleton
    <3>1. procs' = [procs EXCEPT ![p] = u] /\ UNCHANGED <<disk, hist, ring, base, tried>>
      BY <1>8, <2>2 DEF FirstRunRing
    <3>2. u.pc = "marker" /\ u.kind = "ss" /\ u.key = k
      BY <1>7 DEF Processes
    <3>3. ring = {k} /\ k # 0
      BY <3>0 DEF Typed
    <3> HIDE DEF u, k
    <3>4. FirstRunFits(u, disk, ring)
      BY <3>2, <3>3, <1>3 DEF FirstRunFits
    <3>5. Fits(u, disk', hist', ring', tried') /\ u.pc \notin Writing
      BY <3>1, <3>2, <3>4, <1>6 DEF FirstRun
    <3> QED
      BY <1>2, <1>4, <3>1, <3>5, ComposeAlone
  <2> QED
    BY <2>1, <2>2
<1>9. CASE CreateRingKey(p)
  <2> DEFINE u == [procs[p] EXCEPT !.pc = "marker", !.key = fresh', !.asked = "auto"]
  <2>1. /\ procs' = [procs EXCEPT ![p] = u] /\ UNCHANGED <<disk, hist, base, tried>>
        /\ ring = {} /\ ring' = {fresh'} /\ fresh' # 0
    BY <1>9, <1>3, SMTT(20) DEF CreateRingKey, FirstRunFits, Typed
  <2>2. u.pc = "marker" /\ u.kind = "ss" /\ u.key = fresh'
    BY <1>9, <1>3, <1>7 DEF CreateRingKey, FirstRunFits, Processes
  <2> HIDE DEF u
  <2>3. FirstRunFits(u, disk', ring')
    BY <2>1, <2>2, <1>3 DEF FirstRunFits
  <2>4. Fits(u, disk', hist', ring', tried') /\ u.pc \notin Writing
    BY <2>2, <2>3, <1>6 DEF FirstRun
  <2>5. \A d \in hist : Used(d).marker # "ss"
    BY <1>4, <2>1 DEF SoundDisk, Sound, Opens
  <2>6. \A d \in hist : Sound(Used(d), ring', base, tried)
    BY <1>4, <2>5, RingIndependent DEF SoundDisk
  <2>7. \A d \in hist' : SoundDisk(d, ring', base', tried')
    BY <1>4, <2>1, <2>6 DEF SoundDisk
  <2> QED
    BY <1>2, <2>1, <2>4, <2>7, ComposeAlone
<1>10. CASE FirstRunFile(p)
  <2> DEFINE u == [procs[p] EXCEPT !.pc = "keyfile", !.kind = "file", !.asked = "auto"]
  <2>1. procs' = [procs EXCEPT ![p] = u] /\ UNCHANGED <<disk, hist, ring, base, tried>>
    BY <1>10 DEF FirstRunFile
  <2>2. u.pc = "keyfile" /\ u.kind = "file" /\ disk.state.key = 0
    BY <1>10, <1>7 DEF FirstRunFile, Processes
  <2> HIDE DEF u
  <2>3. FirstRunFits(u, disk, ring)
    BY <2>2, <1>3 DEF FirstRunFits
  <2>4. Fits(u, disk', hist', ring', tried') /\ u.pc \notin Writing
    BY <2>1, <2>2, <2>3, <1>6 DEF FirstRun
  <2> QED
    BY <1>2, <1>4, <2>1, <2>4, ComposeAlone
<1>11. CASE WriteKeyFile(p)
  <2> DEFINE u == [procs[p] EXCEPT !.pc = "keysync", !.key = fresh']
  <2>1. /\ procs' = [procs EXCEPT ![p] = u] /\ UNCHANGED <<ring, base, tried>>
        /\ disk' = [disk EXCEPT !.state.key = fresh'] /\ hist' = hist \cup {disk'} /\ fresh' # 0
    BY <1>11, SMTT(20) DEF WriteKeyFile, Typed
  <2>2. u.pc = "keysync" /\ u.kind = "file" /\ u.key = fresh'
    BY <1>11, <1>3, <1>7 DEF WriteKeyFile, FirstRunFits, Processes
  <2>3. /\ disk'.state.there /\ disk'.state.marker = "none" /\ disk'.state.key = fresh'
        /\ disk'.state.recs = disk.state.recs /\ disk'.bak = disk.bak
    BY <2>1, <1>3, <1>7 DEF Disks, Trees
  <2> HIDE DEF u
  <2>4. FirstRunFits(u, disk', ring')
    BY <2>1, <2>2, <2>3 DEF FirstRunFits
  <2>5. Fits(u, disk', hist', ring', tried') /\ u.pc \notin Writing
    BY <2>2, <2>4, <1>6 DEF FirstRun
  <2>6. SoundDisk(disk', ring, base, tried)
    BY <2>3, <1>4, <1>5, <1>7 DEF SoundDisk, Used, Sound, Readable
  <2>7. \A d \in hist' : SoundDisk(d, ring', base', tried')
    BY <1>4, <2>1, <2>6
  <2> QED
    BY <1>2, <2>1, <2>5, <2>7, ComposeAlone
<1>12. CASE SyncKeyFile(p)
  <2> DEFINE u == [procs[p] EXCEPT !.pc = "marker"]
  <2>1. /\ procs' = [procs EXCEPT ![p] = u] /\ UNCHANGED <<disk, ring, base, tried>>
        /\ hist' = {disk}
    BY <1>12 DEF SyncKeyFile
  <2>2. u.pc = "marker" /\ u.kind = procs[p].kind /\ u.key = procs[p].key /\ procs[p].pc = "keysync"
    BY <1>12, <1>7 DEF SyncKeyFile, Processes
  <2> HIDE DEF u
  <2>3. FirstRunFits(u, disk, ring)
    BY <2>2, <1>3 DEF FirstRunFits, FirstRun
  <2>4. Fits(u, disk', hist', ring', tried') /\ u.pc \notin Writing
    BY <2>1, <2>2, <2>3, <1>6 DEF FirstRun
  <2>5. \A d \in hist' : SoundDisk(d, ring', base', tried')
    BY <1>4, <1>7, <2>1
  <2> QED
    BY <1>2, <2>1, <2>4, <2>5, ComposeAlone
<1>13. CASE WriteMarker(p)
  <2> DEFINE u == [procs[p] EXCEPT !.pc = "marksync"]
  <2>1. /\ procs' = [procs EXCEPT ![p] = u] /\ UNCHANGED <<ring, base, tried>>
        /\ disk' = [disk EXCEPT !.state.marker = procs[p].kind] /\ hist' = hist \cup {disk'}
    BY <1>13 DEF WriteMarker
  <2>2. u.pc = "marksync" /\ u.kind = procs[p].kind /\ u.key = procs[p].key /\ procs[p].pc = "marker"
    BY <1>13, <1>7 DEF WriteMarker, Processes
  <2>3. /\ disk'.state.there /\ disk'.state.marker = u.kind /\ disk'.state.key = disk.state.key
        /\ disk'.state.recs = disk.state.recs /\ disk'.bak = disk.bak
    BY <2>1, <2>2, <1>3, <1>7 DEF Disks, Trees
  <2> HIDE DEF u
  <2>4. Opens(disk'.state, ring, u.key) /\ u.kind # "none"
    BY <2>2, <2>3, <1>3 DEF FirstRunFits, Opens
  <2>5. Fits(u, disk', hist', ring', tried') /\ u.pc \notin Writing
    BY <2>1, <2>2, <2>3, <2>4
       DEF Fits, FirstRunFits, OpenFits, DaemonFits, MoveFits, Daemon, Writing, FirstRun, Opened, Moving,
           Copying, Swapping
  <2>6. \E k \in ring \cup {disk'.state.key} : Opens(disk'.state, ring, k)
    BY <2>4 DEF Opens
  <2>7. SoundDisk(disk', ring, base, tried)
    BY <2>3, <2>6, <1>4, <1>5, <1>7 DEF SoundDisk, Used, Sound, Readable
  <2>8. \A d \in hist' : SoundDisk(d, ring', base', tried')
    BY <1>4, <2>1, <2>7
  <2> QED
    BY <1>2, <2>1, <2>5, <2>8, ComposeAlone
<1> QED
  BY <1>8, <1>9, <1>10, <1>11, <1>12, <1>13

\* A process that does not move the trees still fits when the marker, the key
\* file and the keyring stay, and so does what it relies on of the records and,
\* in a migration, of the replacement.
LEMMA StillFits ==
    ASSUME NEW o, NEW d, NEW e, NEW h, NEW g, NEW keys, NEW w, NEW x,
           Fits(o, d, h, keys, w), o.pc \notin Swapping,
           /\ e.state.there = d.state.there /\ e.state.marker = d.state.marker
           /\ e.state.key = d.state.key,
           o.pc \in {"bind", "run"} \cup Writing => e.state.recs["identity"] = d.state.recs["identity"],
           o.pc = "renamed" => e.state.recs[o.name].val = d.state.recs[o.name].val,
           o.pc \in Writing /\ o.val \in w[o.name] => o.val \in x[o.name],
           o.target # "none" => /\ e.repl = d.repl
                                /\ \A y \in g : y \in h \/ Used(y).marker = d.state.marker
    PROVE  Fits(o, e, g, keys, x)
<1>1. FirstRunFits(o, e, keys)
  BY DEF Fits, FirstRunFits
<1>2. OpenFits(o, e, keys)
  BY DEF Fits, OpenFits, Opens
<1>3. DaemonFits(o, e, x)
  BY DEF Fits, DaemonFits, Daemon, Writing
<1>4. MoveFits(o, e, g, keys)
  <2>1. MoveFits(o, d, h, keys) /\ (o.pc \in Copying => o.kind = d.state.marker)
    BY DEF Fits, OpenFits, Opened
  <2>2. CASE o.pc \notin Copying
    BY <2>1, <2>2 DEF MoveFits, Moving, Copying, Swapping
  <2>3. CASE o.pc \in Copying
    <3>1. o.target # "none"
      BY <2>1, <2>3 DEF MoveFits, Moving
    <3>2. \A y \in g : Used(y).marker = o.kind
      BY <3>1, <2>1, <2>3 DEF MoveFits
    <3> QED
      BY <3>1, <3>2, <2>1, <2>3 DEF MoveFits, Moving, Copying, Swapping, Writing
  <2> QED
    BY <2>2, <2>3
<1> QED
  BY <1>1, <1>2, <1>3, <1>4 DEF Fits

\* A process that does not migrate does not depend on the keyring when the
\* provider of the store is a file.
LEMMA RingFits ==
    ASSUME NEW o, NEW d, NEW h, NEW keys, NEW others, NEW w,
           Fits(o, d, h, keys, w), o.target = "none", d.state.marker = "file"
    PROVE  Fits(o, d, h, others, w)
<1>1. FirstRunFits(o, d, others)
  BY DEF Fits, FirstRunFits, FirstRun
<1>2. OpenFits(o, d, others)
  BY DEF Fits, OpenFits, Opens
<1>3. DaemonFits(o, d, w)
  BY DEF Fits
<1>4. MoveFits(o, d, h, others)
  BY DEF Fits, MoveFits, Moving, Copying, Swapping
<1> QED
  BY <1>1, <1>2, <1>3, <1>4 DEF Fits

\* A process that starts keeps the store consistent.
LEMMA BeginStep ==
    ASSUME Typed, Consistent, NEW p \in Procs, NEW asked, NEW target, Begin(p, asked, target)
    PROVE  Followed' => Consistent'
<1> SUFFICES ASSUME Followed' PROVE Consistent'
  OBVIOUS
<1> USE DEF At, Go, Change, Followed
<1> DEFINE t == [disk.state EXCEPT !.there = TRUE]
           u == [Off EXCEPT !.asked = asked, !.target = target, !.kind = t.marker,
                            !.pc = IF t.marker = "none" THEN "first" ELSE "load"]
<1>1. /\ procs' = [procs EXCEPT ![p] = u] /\ UNCHANGED <<ring, base, tried>>
      /\ disk' = [disk EXCEPT !.state = t] /\ hist' = hist \cup {disk'}
  BY DEF Begin, Off
<1>2. disk \in Disks /\ disk \in hist /\ disk.state \in Trees /\ procs \in [Procs -> Processes]
  BY ConstantTypes DEF Typed
<1>3. /\ u.target = target /\ u.kind = disk.state.marker
      /\ u.pc = IF disk.state.marker = "none" THEN "first" ELSE "load"
  BY <1>2 DEF Off, Trees
<1>4. /\ disk'.state.there /\ disk'.state.marker = disk.state.marker
      /\ disk'.state.key = disk.state.key /\ disk'.state.recs = disk.state.recs
      /\ disk'.bak = disk.bak /\ (disk.state.there => disk' = disk)
  <2>1. disk.state.there => t = disk.state
    BY <1>2 DEF Trees
  <2> QED
    BY <1>1, <1>2, <2>1 DEF Disks, Trees
<1>5. /\ ~disk.state.there => ~disk.bak.there
      /\ \A q \in Procs : procs[q].pc \notin Swapping
      /\ target # "none" => \A q \in Procs : procs[q].target = "none"
      /\ t.marker = "none" => \A q \in Procs : procs[q].pc \notin FirstRun
  BY DEF Begin, Met, Migrating
<1>6. ASSUME NEW q \in Procs, q # p
      PROVE  /\ procs[q].pc \notin Swapping /\ Fits(procs[q], disk, hist, ring, tried)
             /\ (target # "none" => procs[q].target = "none") /\ procs[q].pc \in Places
             /\ (disk.state.marker = "none" => procs[q].pc \notin FirstRun)
             /\ (procs[q].pc = "off" => procs[q].target = "none")
  <2>2. Fits(procs[q], disk, hist, ring, tried) /\ procs[q].pc \in Places
    BY <1>2 DEF Consistent, Processes
  <2>3. t.marker = disk.state.marker
    BY <1>2 DEF Trees
  <2>4. procs[q].pc = "off" => procs[q].target = "none"
    BY <2>2 DEF Fits, MoveFits
  <2> QED
    BY <1>5, <2>2, <2>3, <2>4
<1> HIDE DEF u, t
<1>7. Fits(u, disk', hist', ring', tried')
  BY <1>3, <1>4 DEF Fits, FirstRunFits, OpenFits, DaemonFits, MoveFits, Daemon, Writing, FirstRun,
                    Opened, Moving, Copying, Swapping
<1>8. ASSUME NEW q \in Procs \ {p}
      PROVE  /\ Fits(procs[q], disk', hist', ring', tried')
             /\ Apart(u, procs[q]) /\ Apart(procs[q], u)
             /\ \A r \in Procs : q # r => Apart(procs[q], procs[r])
  <2>0. Apart(u, procs[q]) /\ Apart(procs[q], u)
    BY <1>3, <1>6 DEF Apart, FirstRun, Writing, Swapping
  <2>1. CASE procs[q].pc = "off"
    BY <2>0, <2>1, <1>6, OffFits DEF Consistent
  <2>2. CASE procs[q].pc # "off"
    <3>1. disk.state.there
      BY <2>2, <1>6 DEF Fits, FirstRunFits, OpenFits, Places, Moving, Opened
    <3>2. disk' = disk /\ hist' = hist
      BY <3>1, <1>1, <1>2, <1>4
    <3>4. ring' = ring /\ tried' = tried
      BY <1>1
    <3>5. Fits(procs[q], disk, hist, ring, tried)
      BY <1>6
    <3>3. Fits(procs[q], disk', hist', ring', tried')
      BY ONLY <3>2, <3>4, <3>5
    <3> QED
      BY <2>0, <3>3 DEF Consistent
  <2> QED
    BY <2>1, <2>2
<1>9. SoundDisk(disk', ring, base, tried)
  <2>1. SoundDisk(disk, ring, base, tried)
    BY <1>2 DEF Consistent
  <2>2. CASE disk.state.there
    BY <2>1, <2>2, <1>4
  <2>3. CASE ~disk.state.there
    <3>1. disk.state = NoTree /\ disk.bak = NoTree /\ Sound(NoTree, ring, base, tried)
      BY <2>1, <2>3, <1>5 DEF SoundDisk, Used
    <3>2. Sound(disk'.state, ring, base, tried)
      BY <3>1, <1>4 DEF Sound, Readable, NoTree, Opens
    <3> QED
      BY <3>1, <3>2, <1>4, <1>5, <2>3 DEF SoundDisk, Used
  <2> QED
    BY <2>2, <2>3
<1>10. \A d \in hist' : SoundDisk(d, ring', base', tried')
  BY <1>1, <1>9 DEF Consistent
<1>11. IdentitySettled'
  BY <1>1, <1>2, <1>3 DEF Consistent, IdentitySettled, Writing
<1> QED
  BY <1>1, <1>7, <1>8, <1>10, <1>11, Compose

\* A process that opens the store keeps it consistent.
LEMMA OpeningStep ==
    ASSUME Typed, Consistent, NEW p \in Procs, Load(p) \/ SyncMarker(p) \/ Recover(p)
    PROVE  Consistent'
<1> USE DEF At, Go, Synced, ghosts
<1>1. /\ disk \in hist /\ procs \in [Procs -> Processes] /\ procs[p] \in Processes
      /\ IsFiniteSet(ring)
  BY DEF Typed
<1>2. /\ UNCHANGED <<disk, ring, base, tried>> /\ hist' \in {hist, {disk}}
      /\ procs[p].pc \in {"load", "marksync", "recover"}
  BY DEF Load, SyncMarker, Recover
<1>3. \A d \in hist' : SoundDisk(d, ring', base', tried')
  BY <1>1, <1>2 DEF Consistent
<1>4. /\ Fits(procs[p], disk, hist, ring, tried)
      /\ disk.state.there /\ procs[p].kind = disk.state.marker /\ procs[p].kind # "none"
      /\ (procs[p].pc # "load" => Opens(disk.state, ring, procs[p].key))
  BY <1>2 DEF Consistent, Fits, OpenFits, Opened
\* Where the process goes, with the key of the tree.
<1>5. PICK pc, k :
          /\ procs'[p].pc = pc /\ procs'[p].key = k /\ procs'[p].kind = procs[p].kind
          /\ procs'[p].target = procs[p].target
          /\ Opens(disk.state, ring, k)
          /\ pc \in {"recover", "identity", "copy"}
          /\ pc = "identity" => procs[p].target = "none"
          /\ pc = "copy" => procs[p].target # "none" /\ hist' = {disk}
  <2>1. CASE Load(p)
    <3>1. PICK k : k # 0 /\ procs' = [procs EXCEPT ![p] = [procs[p] EXCEPT !.pc = "recover", !.key = k,
                                                                          !.asked = "auto"]]
                   /\ k = IF procs[p].kind = "file" THEN disk.state.key ELSE KeyOf(disk.state, ring)
      BY <2>1 DEF Load
    <3>2. k = KeyOf(disk.state, ring)
      BY <3>1, <1>4 DEF KeyOf
    <3>3. Opens(disk.state, ring, k)
      BY <3>1, <3>2, <1>1, KeyOpens
    <3> QED
      BY <3>1, <3>3, <1>1, SMTT(20) DEF Processes
  <2>2. CASE SyncMarker(p)
    BY <2>2, <1>1, <1>4, SMTT(20) DEF SyncMarker, Processes
  <2>3. CASE Recover(p)
    BY <2>3, <1>1, <1>4, SMTT(20) DEF Recover, Processes
  <2> QED
    BY <2>1, <2>2, <2>3
<1>6. ASSUME NEW q \in Procs, q # p
      PROVE  /\ procs'[q].pc = procs[q].pc /\ procs'[q].kind = procs[q].kind
             /\ procs'[q].key = procs[q].key /\ procs'[q].target = procs[q].target
             /\ procs'[q].name = procs[q].name /\ procs'[q].val = procs[q].val
             /\ procs'[q].id = procs[q].id /\ procs'[q].copy = procs[q].copy
  <2>1. procs[q] \in Processes
    BY <1>1
  <2>2. procs'[q] = procs[q] \/ procs'[q] = [procs[q] EXCEPT !.temp = FALSE]
    BY <1>1, <1>6 DEF Load, SyncMarker, Recover
  <2> QED
    BY <2>1, <2>2 DEF Processes
<1>7. Fits(procs'[p], disk', hist', ring', tried')
  <2>1. Used(disk).marker = procs[p].kind
    BY <1>4 DEF Used
  <2> QED
    BY <2>1, <1>2, <1>4, <1>5
       DEF Fits, FirstRunFits, OpenFits, DaemonFits, MoveFits, Daemon, Writing, FirstRun, Opened, Moving,
           Copying, Swapping
<1>8. ASSUME NEW q \in Procs, q # p
      PROVE  Fits(procs'[q], disk', hist', ring', tried') /\ procs[q].pc \notin Swapping
  <2>1. procs[q].pc \notin Swapping /\ Fits(procs[q], disk, hist, ring, tried)
    BY <1>2, <1>8 DEF Consistent, Apart
  <2>6. \A y \in hist' : y \in hist
    BY <1>1, <1>2
  <2>2. Fits(procs[q], disk', hist', ring', tried')
    BY <2>1, <2>6, <1>2, StillFits
  <2>3. FirstRunFits(procs'[q], disk', ring') /\ OpenFits(procs'[q], disk', ring')
    BY <2>2, <1>6, <1>8 DEF Fits, FirstRunFits, OpenFits
  <2>4. DaemonFits(procs'[q], disk', tried')
    BY <2>2, <1>6, <1>8 DEF Fits, DaemonFits, Daemon
  <2>5. MoveFits(procs'[q], disk', hist', ring')
    BY <2>2, <1>6, <1>8 DEF Fits, MoveFits
  <2> QED
    BY <2>1, <2>3, <2>4, <2>5 DEF Fits
<1>9. ASSUME NEW q \in Procs, NEW r \in Procs, q # r PROVE Apart(procs'[q], procs'[r])
  <2>1. Apart(procs[q], procs[r])
    BY <1>9 DEF Consistent
  <2>2. procs[p].pc # "off" /\ procs'[p].pc # "off"
    BY <1>2, <1>5
  <2>3. CASE q = p
    BY <2>1, <2>3, <1>5, <1>6, <1>8, <1>9 DEF Apart, FirstRun, Writing, Swapping
  <2>4. CASE r = p
    BY <2>1, <2>2, <2>4, <1>5, <1>6, <1>8, <1>9 DEF Apart, FirstRun, Writing, Swapping
  <2>5. CASE q # p /\ r # p
    BY <2>1, <2>5, <1>6 DEF Apart
  <2> QED
    BY <2>3, <2>4, <2>5
<1>10. IdentitySettled'
  <2>1. \A q \in Procs : procs'[q].pc \in Writing => q # p
    BY <1>5 DEF Writing
  <2> QED
    BY <2>1, <1>2, <1>6 DEF Consistent, IdentitySettled
<1> QED
  BY <1>3, <1>7, <1>8, <1>9, <1>10 DEF Consistent

(***************************************************************************)
(* The records.                                                            *)
(***************************************************************************)
\* A process that uses the store does not migrate, and none moves the trees.
LEMMA UserFacts ==
    ASSUME Typed, Consistent, NEW p \in Procs,
           procs[p].pc \in {"identity", "bind", "run"} \cup Writing
    PROVE  /\ Fits(procs[p], disk, hist, ring, tried) /\ procs[p].target = "none"
           /\ disk.state.there /\ Opens(disk.state, ring, procs[p].key)
           /\ \A q \in Procs : q # p => /\ procs[q].pc \notin Swapping
                                        /\ Fits(procs[q], disk, hist, ring, tried)
                                        /\ Apart(procs[p], procs[q]) /\ Apart(procs[q], procs[p])
           /\ procs[p].name \in Names /\ procs[p].pc # "off"
           /\ SoundDisk(disk, ring, base, tried) /\ Sound(disk.state, ring, base, tried)
<1>1. Fits(procs[p], disk, hist, ring, tried) /\ procs[p].pc # "off" /\ procs[p].name \in Names
  BY DEF Consistent, Typed, Processes, Writing
<1>2. procs[p].target = "none" /\ disk.state.there /\ Opens(disk.state, ring, procs[p].key)
  BY <1>1 DEF Fits, OpenFits, MoveFits, Opened, Writing
<1>3. \A q \in Procs : q # p => /\ procs[q].pc \notin Swapping
                                /\ Fits(procs[q], disk, hist, ring, tried)
                                /\ Apart(procs[p], procs[q]) /\ Apart(procs[q], procs[p])
  BY <1>1 DEF Consistent, Apart
<1>4. SoundDisk(disk, ring, base, tried) /\ Sound(disk.state, ring, base, tried)
  BY <1>2 DEF Consistent, Typed, SoundDisk, Used
<1> QED
  BY <1>1, <1>2, <1>3, <1>4

\* The identity on disk is readable, and its content is what a process reads.
LEMMA IdentityRead ==
    ASSUME Typed, Consistent, NEW p \in Procs,
           procs[p].pc \in {"identity", "bind", "run"} \cup Writing
    PROVE  Read(disk.state, procs[p].key, "identity") = disk.state.recs["identity"].val
<1>1. Opens(disk.state, ring, procs[p].key) /\ Sound(disk.state, ring, base, tried)
  BY UserFacts
<1>2. KeyOf(disk.state, ring) = procs[p].key
  BY <1>1, OpensKey
<1>3. Readable(disk.state, ring, "identity")
  BY <1>1 DEF Sound, Names
<1> QED
  BY <1>2, <1>3, SoundRead DEF Names

\* The identity that is loaded or made keeps the store consistent.
LEMMA IdentityStep ==
    ASSUME Typed, Consistent, NEW p \in Procs, LoadOrCreateIdentity(p)
    PROVE  Followed' => Consistent'
<1> USE DEF At, Go, Followed
<1>0. procs[p].pc = "identity" /\ UNCHANGED <<disk, hist, ring, base>>
  BY DEF LoadOrCreateIdentity
<1>1. /\ disk \in hist /\ procs \in [Procs -> Processes] /\ procs[p] \in Processes
      /\ tried \in [Names -> SUBSET Int] /\ "identity" \in Names
  BY DEF Typed, Names
<1>2. /\ Fits(procs[p], disk, hist, ring, tried) /\ procs[p].target = "none"
      /\ Opens(disk.state, ring, procs[p].key) /\ Sound(disk.state, ring, base, tried)
      /\ \A q \in Procs : q # p => /\ procs[q].pc \notin Swapping
                                   /\ Fits(procs[q], disk, hist, ring, tried)
                                   /\ Apart(procs[p], procs[q]) /\ Apart(procs[q], procs[p])
  BY <1>0, UserFacts
<1>3. Read(disk.state, procs[p].key, "identity") = disk.state.recs["identity"].val
  BY <1>0, IdentityRead
<1>4. CASE /\ Read(disk.state, procs[p].key, "identity") \notin {Nothing, Unreadable}
           /\ procs' = [procs EXCEPT ![p] = [procs[p] EXCEPT !.pc = "bind",
                                        !.id = Read(disk.state, procs[p].key, "identity")]]
           /\ UNCHANGED tried
  <2> DEFINE v == Read(disk.state, procs[p].key, "identity")
             u == [procs[p] EXCEPT !.pc = "bind", !.id = v]
  <2>1. /\ u.pc = "bind" /\ u.id = v /\ u.target = "none" /\ u.key = procs[p].key
        /\ u.kind = procs[p].kind /\ procs' = [procs EXCEPT ![p] = u]
    BY <1>1, <1>2, <1>4 DEF Processes
  <2>2. disk.state.recs["identity"] # Absent /\ disk.state.recs["identity"].val = v
    BY <1>3, <1>4 DEF Absent
  <2> HIDE DEF u, v
  <2>3. OpenFits(u, disk, ring)
    BY <2>1, <1>0, <1>2 DEF Fits, OpenFits, Opened
  <2>4. Fits(u, disk, hist, ring, tried)
    BY <2>1, <2>2, <2>3 DEF Fits, FirstRunFits, DaemonFits, MoveFits, Daemon, Writing, FirstRun, Moving, Copying, Swapping
  <2>5. \A q \in Procs \ {p} : /\ Fits(procs[q], disk, hist, ring, tried)
                               /\ Apart(u, procs[q]) /\ Apart(procs[q], u)
                               /\ \A r \in Procs : q # r => Apart(procs[q], procs[r])
    BY <2>1, <1>2 DEF Apart, Consistent, FirstRun, Writing, Swapping
  <2>6. \A d \in hist' : SoundDisk(d, ring', base', tried')
    BY <1>0, <1>4 DEF Consistent
  <2>7. IdentitySettled'
    BY <2>1, <1>0, <1>1, <1>4 DEF Consistent, IdentitySettled, Writing
  <2> QED
    BY <2>1, <2>4, <2>5, <2>6, <2>7, <1>0, <1>4, Compose
<1>5. CASE /\ Read(disk.state, procs[p].key, "identity") = Nothing
           /\ fresh' = fresh + 1 /\ WriteTemp(p, "identity", fresh', fresh')
           /\ Followed' => ~\E q \in Procs \ {p} : procs[q].pc \in Writing /\ procs[q].name = "identity"
  <2> SUFFICES ASSUME Followed' PROVE Consistent'
    OBVIOUS
  <2> DEFINE u == [procs[p] EXCEPT !.pc = "temp", !.name = "identity", !.val = fresh',
                                   !.temp = TRUE, !.id = fresh']
  <2>0. fresh' # Nothing
    BY <1>5, SMTT(20) DEF Typed, Nothing
  <2>1. /\ u.pc = "temp" /\ u.name = "identity" /\ u.val = fresh' /\ u.id = fresh'
        /\ u.target = "none" /\ u.key = procs[p].key /\ u.kind = procs[p].kind
        /\ procs' = [procs EXCEPT ![p] = u]
    BY <1>1, <1>2, <1>5 DEF Processes, WriteTemp
  <2>2. /\ tried'["identity"] = tried["identity"] \cup {fresh'}
        /\ \A n \in Names : tried[n] \subseteq tried'[n]
    BY <1>1, <1>5 DEF WriteTemp
  <2>3. disk.state.recs["identity"] = Absent
    BY <1>1, <1>2, <1>3, <1>5 DEF Sound, Readable
  <2> HIDE DEF u
  <2>4. OpenFits(u, disk, ring)
    BY <2>1, <1>0, <1>2 DEF Fits, OpenFits, Opened
  <2>5. DaemonFits(u, disk, tried')
    BY <2>0, <2>1, <2>2, <2>3 DEF DaemonFits, Daemon
  <2>6. Fits(u, disk, hist, ring, tried')
    BY <2>1, <2>4, <2>5 DEF Fits, FirstRunFits, MoveFits, FirstRun, Moving, Copying, Swapping
  <2>7. ASSUME NEW q \in Procs \ {p}
        PROVE  /\ Fits(procs[q], disk, hist, ring, tried')
               /\ Apart(u, procs[q]) /\ Apart(procs[q], u)
               /\ \A r \in Procs : q # r => Apart(procs[q], procs[r])
    <3>1. procs[q].name \in Names
      BY <1>1 DEF Processes
    <3>2. Fits(procs[q], disk, hist, ring, tried')
      BY <3>1, <2>2, <1>2, StillFits
    <3> QED
      BY <3>2, <2>1, <1>2, <1>5 DEF Apart, Consistent, FirstRun, Writing, Swapping
  <2>8. \A d \in hist' : SoundDisk(d, ring', base', tried')
    BY <1>0, <2>2, SoundGrows DEF Consistent, SoundDisk
  <2>9. IdentitySettled'
    <3>1. base["identity"] = Nothing
      <4>1. disk.state.recs["identity"].val \in {base["identity"]} \cup tried["identity"]
        BY <1>1, <1>2 DEF Sound
      <4> QED
        BY <4>1, <1>3, <1>5 DEF Consistent, IdentitySettled
    <3> QED
      BY <3>1, <1>0 DEF IdentitySettled
  <2> QED
    BY <2>1, <2>6, <2>7, <2>8, <2>9, <1>0, Compose
<1> QED
  BY <1>4, <1>5 DEF LoadOrCreateIdentity, Met

\* A write begins, or ends without a result, or the lock is taken: what the
\* daemon relies on stays, and it is the only one that has the lock.
LEMMA QuietStep ==
    ASSUME Typed, Consistent, NEW p \in Procs, Followed,
           Bind(p) \/ (\E v \in Values : Write(p, v)) \/ WriteFails(p)
    PROVE  Consistent'
<1> USE DEF At, Go, ghosts
<1>0. /\ UNCHANGED <<disk, hist, ring, base>>
      /\ procs[p].pc \in {"identity", "bind", "run"} \cup Writing /\ Daemon(procs[p])
  BY DEF Bind, Write, WriteFails, Daemon
<1>1. /\ procs \in [Procs -> Processes] /\ procs[p] \in Processes
      /\ tried \in [Names -> SUBSET Int] /\ "note" \in Names /\ "identity" \in Names
  BY DEF Typed, Names
<1>2. /\ Fits(procs[p], disk, hist, ring, tried) /\ procs[p].target = "none"
      /\ \A q \in Procs : q # p => /\ procs[q].pc \notin Swapping
                                   /\ Fits(procs[q], disk, hist, ring, tried)
                                   /\ Apart(procs[p], procs[q]) /\ Apart(procs[q], procs[p])
  BY <1>0, UserFacts
<1>3. ASSUME NEW q \in Procs \ {p}
      PROVE  procs[q].pc # "run" /\ ~(procs[q].pc \in Writing /\ procs[q].name = "note")
  BY <1>2 DEF Bind, Write, WriteFails, Apart
<1>4. ASSUME NEW u, procs' = [procs EXCEPT ![p] = u], u.pc \in {"run", "temp"}, u.target = "none",
             u.kind = procs[p].kind, u.key = procs[p].key, u.id = procs[p].id, u.name = "note" \/ u.pc = "run",
             u.pc = "temp" => u.val # Nothing /\ u.val \in tried'["note"],
             \A n \in Names : tried[n] \subseteq tried'[n],
             tried'["identity"] = tried["identity"]
      PROVE  Consistent'
  <2>1. OpenFits(u, disk, ring)
    BY <1>0, <1>2, <1>4 DEF Fits, OpenFits, Opened, Writing
  <2>2. DaemonFits(u, disk, tried')
    BY <1>0, <1>2, <1>4 DEF Fits, DaemonFits, Daemon, Writing
  <2>3. Fits(u, disk, hist, ring, tried')
    BY <2>1, <2>2, <1>4 DEF Fits, FirstRunFits, MoveFits, FirstRun, Moving, Copying, Swapping
  <2>4. ASSUME NEW q \in Procs \ {p}
        PROVE  /\ Fits(procs[q], disk, hist, ring, tried')
               /\ Apart(u, procs[q]) /\ Apart(procs[q], u)
               /\ \A r \in Procs : q # r => Apart(procs[q], procs[r])
    <3>1. procs[q].name \in Names
      BY <1>1 DEF Processes
    <3>2. Fits(procs[q], disk, hist, ring, tried')
      BY <3>1, <1>2, <1>4, StillFits
    <3>3. Apart(u, procs[q]) /\ Apart(procs[q], u)
      BY <1>2, <1>3, <1>4 DEF Apart, FirstRun, Writing, Swapping
    <3> QED
      BY <3>2, <3>3 DEF Consistent
  <2>5. \A d \in hist' : SoundDisk(d, ring', base', tried')
    BY <1>0, <1>4, SoundGrows DEF Consistent, SoundDisk
  <2>6. IdentitySettled'
    <3>1. \A q \in Procs : procs'[q].pc \in Writing /\ procs'[q].name = "identity" => procs'[q] = procs[q]
      BY <1>1, <1>4 DEF Writing
    <3> QED
      BY <3>1, <1>0, <1>4 DEF Consistent, IdentitySettled
  <2> QED
    BY <2>3, <2>4, <2>5, <2>6, <1>0, <1>4, Compose
<1>5. CASE Bind(p)
  <2> DEFINE u == [procs[p] EXCEPT !.pc = "run"]
  <2>1. /\ procs' = [procs EXCEPT ![p] = u] /\ u.pc = "run" /\ u.target = "none"
        /\ u.kind = procs[p].kind /\ u.key = procs[p].key /\ u.id = procs[p].id /\ UNCHANGED tried
    BY <1>5, <1>1, <1>2 DEF Bind, Processes
  <2> HIDE DEF u
  <2> QED
    BY <2>1, <1>4
<1>6. ASSUME NEW v \in Values, Write(p, v) PROVE Consistent'
  <2> DEFINE u == [procs[p] EXCEPT !.pc = "temp", !.name = "note", !.val = v, !.temp = TRUE,
                                   !.id = procs[p].id]
  <2>1. /\ procs' = [procs EXCEPT ![p] = u] /\ u.pc = "temp" /\ u.target = "none" /\ u.name = "note"
        /\ u.val = v /\ u.kind = procs[p].kind /\ u.key = procs[p].key /\ u.id = procs[p].id
    BY <1>6, <1>1, <1>2 DEF Write, WriteTemp, Processes
  <2>2. v # Nothing
    BY StoreAssumption DEF Nothing
  <2>3. /\ v \in tried'["note"] /\ tried'["identity"] = tried["identity"]
        /\ \A n \in Names : tried[n] \subseteq tried'[n]
    BY <1>6, <1>1 DEF Write, WriteTemp
  <2> HIDE DEF u
  <2> QED
    BY <2>1, <2>2, <2>3, <1>4
<1>7. CASE WriteFails(p)
  <2> DEFINE u == Written(p)
  <2>1. /\ procs' = [procs EXCEPT ![p] = u] /\ u.pc = "run" /\ u.target = "none"
        /\ u.kind = procs[p].kind /\ u.key = procs[p].key /\ u.id = procs[p].id /\ UNCHANGED tried
    BY <1>7, <1>1, <1>2 DEF WriteFails, Written, Processes
  <2> HIDE DEF u
  <2> QED
    BY <2>1, <1>4
<1> QED
  BY <1>5, <1>6, <1>7

\* A write that is acknowledged keeps the store consistent.
LEMMA AcknowledgeStep ==
    ASSUME Typed, Consistent, NEW p \in Procs, Acknowledge(p)
    PROVE  Consistent'
<1> USE DEF At, Go, Synced
<1> DEFINE n == procs[p].name
           v == procs[p].val
           u == Written(p)
<1>0. /\ UNCHANGED <<disk, ring>> /\ hist' = {disk} /\ procs[p].pc = "renamed"
      /\ base' = Acked(n, v) /\ tried' = [tried EXCEPT ![n] = {}]
      /\ procs' = [procs EXCEPT ![p] = u]
  BY DEF Acknowledge
<1>1. /\ procs \in [Procs -> Processes] /\ procs[p] \in Processes /\ n \in Names
      /\ tried \in [Names -> SUBSET Int] /\ base \in [Names -> Int] /\ "identity" \in Names
      /\ disk \in hist
  BY DEF Typed, Processes, Names
<1>2. /\ Fits(procs[p], disk, hist, ring, tried) /\ procs[p].target = "none"
      /\ SoundDisk(disk, ring, base, tried) /\ Sound(disk.state, ring, base, tried) /\ disk.state.there
      /\ \A q \in Procs : q # p => /\ procs[q].pc \notin Swapping
                                   /\ Fits(procs[q], disk, hist, ring, tried)
                                   /\ Apart(procs[p], procs[q]) /\ Apart(procs[q], procs[p])
  BY <1>0, UserFacts DEF Writing
<1>3. /\ u.pc = (IF n = "identity" THEN "bind" ELSE "run") /\ u.target = "none"
      /\ u.kind = procs[p].kind /\ u.key = procs[p].key /\ u.id = procs[p].id
  BY <1>1, <1>2 DEF Written, Processes
<1>4. n = "identity" => base["identity"] = Nothing
  BY <1>0 DEF Consistent, IdentitySettled, Writing
<1>5. /\ base'[n] = v /\ tried'[n] = {}
      /\ \A m \in Names : m # n => base'[m] = base[m] /\ tried'[m] = tried[m]
  BY <1>0, <1>1, <1>4 DEF Acked
<1>6. disk.state.recs[n].val = v
  BY <1>0, <1>2 DEF Fits, DaemonFits
<1> HIDE DEF u
<1>7. OpenFits(u, disk, ring)
  BY <1>0, <1>2, <1>3 DEF Fits, OpenFits, Opened
<1>8. DaemonFits(u, disk, tried')
  <2>1. n \in {"identity", "note"}
    BY <1>1 DEF Names
  <2>2. disk.state.recs["identity"] # Absent /\ disk.state.recs["identity"].val = procs[p].id
    BY <2>1, <1>0, <1>2, <1>6 DEF Fits, DaemonFits, Daemon, Writing
  <2> QED
    BY <2>2, <1>3 DEF DaemonFits, Daemon, Writing
<1>9. Fits(u, disk, {disk}, ring, tried')
  BY <1>3, <1>7, <1>8 DEF Fits, FirstRunFits, MoveFits, FirstRun, Moving, Copying, Swapping
<1>10. ASSUME NEW q \in Procs \ {p}
       PROVE  /\ Fits(procs[q], disk, {disk}, ring, tried')
              /\ Apart(u, procs[q]) /\ Apart(procs[q], u)
              /\ \A r \in Procs : q # r => Apart(procs[q], procs[r])
  <2>1. procs[q].name \in Names
    BY <1>1 DEF Processes
  <2>2. procs[q].pc \in Writing => procs[q].name # n
    BY <1>0, <1>2 DEF Apart, Writing
  <2>6. procs[q].pc \in Writing => tried'[procs[q].name] = tried[procs[q].name]
    BY <2>1, <2>2, <1>5
  <2>7. \A y \in {disk} : y \in hist
    BY <1>1
  <2>3. Fits(procs[q], disk, {disk}, ring, tried')
    BY <2>6, <2>7, <1>2, StillFits
  <2>4. n \in {"identity", "note"}
    BY <1>1 DEF Names
  <2>5. Apart(u, procs[q]) /\ Apart(procs[q], u)
    BY <2>2, <2>4, <1>0, <1>2, <1>3 DEF Apart, FirstRun, Writing, Swapping
  <2> QED
    BY <2>3, <2>5 DEF Consistent
<1>11. Sound(disk.state, ring, base', tried')
  BY <1>2, <1>5, <1>6 DEF Sound
<1>12. \A d \in hist' : SoundDisk(d, ring', base', tried')
  BY <1>0, <1>2, <1>11 DEF SoundDisk, Used
<1>13. IdentitySettled'
  <2>1. \A q \in Procs : procs'[q].pc \in Writing => q # p /\ procs'[q] = procs[q]
    BY <1>0, <1>1, <1>3 DEF Writing
  <2>2. CASE n = "identity"
    <3>1. \A q \in Procs : q # p => ~(procs[q].pc \in Writing /\ procs[q].name = "identity")
      BY <2>2, <1>0, <1>2 DEF Apart, Writing
    <3> QED
      BY <2>1, <2>2, <3>1, <1>5 DEF IdentitySettled
  <2>3. CASE n # "identity"
    BY <2>1, <2>3, <1>1, <1>5 DEF Consistent, IdentitySettled
  <2> QED
    BY <2>2, <2>3
<1> QED
  BY <1>0, <1>9, <1>10, <1>12, <1>13, Compose

\* The record of a daemon, or the identity, is replaced or removed.
LEMMA RecordStep ==
    ASSUME Typed, Consistent, NEW p \in Procs, Rename(p) \/ Delete(p)
    PROVE  Consistent'
<1> USE DEF At, Go, Change, ghosts
<1>1. /\ procs \in [Procs -> Processes] /\ procs[p] \in Processes /\ disk \in Disks /\ disk \in hist
      /\ tried \in [Names -> SUBSET Int] /\ "identity" \in Names /\ "note" \in Names
      /\ disk.state \in Trees
  BY ConstantTypes DEF Typed, Names
<1>2. procs[p].pc \in {"identity", "bind", "run"} \cup Writing
  BY DEF Rename, Delete, Writing
<1>3. /\ Fits(procs[p], disk, hist, ring, tried) /\ procs[p].target = "none" /\ procs[p].name \in Names
      /\ SoundDisk(disk, ring, base, tried) /\ Sound(disk.state, ring, base, tried)
      /\ disk.state.there /\ Opens(disk.state, ring, procs[p].key)
      /\ \A q \in Procs : q # p => /\ procs[q].pc \notin Swapping
                                   /\ Fits(procs[q], disk, hist, ring, tried)
                                   /\ Apart(procs[p], procs[q]) /\ Apart(procs[q], procs[p])
  BY <1>2, UserFacts
<1>4. ASSUME NEW n \in Names, NEW r, NEW u, UNCHANGED <<ring, base>>,
             disk' = [disk EXCEPT !.state.recs[n] = r], hist' = hist \cup {disk'},
             procs' = [procs EXCEPT ![p] = u], u.pc = "renamed", u.name = n, u.val = r.val,
             u.target = "none", u.kind = procs[p].kind, u.key = procs[p].key, u.id = procs[p].id,
             r = Absent \/ (r.key = procs[p].key /\ r.val # Nothing),
             r.val \in tried'[n], \A m \in Names : tried[m] \subseteq tried'[m],
             tried'["identity"] = tried["identity"],
             IF n = "identity"
             THEN /\ r # Absent /\ u.id = u.val /\ disk.state.recs["identity"] = Absent
                  /\ procs[p].pc = "temp" /\ procs[p].name = "identity"
             ELSE Daemon(procs[p]),
             \A q \in Procs \ {p} : /\ ~(procs[q].pc \in Writing /\ procs[q].name = n)
                                    /\ (n = "note" => procs[q].pc # "run")
      PROVE  Consistent'
  <2>1. /\ disk'.state.there /\ disk'.state.marker = disk.state.marker
        /\ disk'.state.key = disk.state.key /\ disk'.bak = disk.bak /\ disk'.state.recs[n] = r
        /\ \A m \in Names : m # n => disk'.state.recs[m] = disk.state.recs[m]
        /\ disk'.repl = disk.repl
    BY <1>1, <1>3, <1>4 DEF Disks, Trees
  <2>2. \A k : Opens(disk'.state, ring, k) <=> Opens(disk.state, ring, k)
    BY <2>1 DEF Opens
  <2>3. OpenFits(u, disk', ring)
    BY <2>1, <2>2, <1>2, <1>3, <1>4 DEF Fits, OpenFits, Opened, Writing
  <2>4. DaemonFits(u, disk', tried')
    <3>1. CASE n = "identity"
      BY <3>1, <2>1, <1>4 DEF DaemonFits, Daemon, Writing
    <3>2. CASE n # "identity"
      <4>1. /\ disk'.state.recs["identity"] # Absent
            /\ disk'.state.recs["identity"].val = procs[p].id
        BY <3>2, <2>1, <1>1, <1>3, <1>4 DEF Fits, DaemonFits
      <4> QED
        BY <3>2, <4>1, <2>1, <1>4 DEF DaemonFits, Daemon, Writing
    <3> QED
      BY <3>1, <3>2
  <2>5. Fits(u, disk', hist', ring', tried')
    BY <2>3, <2>4, <1>4 DEF Fits, FirstRunFits, MoveFits, FirstRun, Moving, Writing, Copying, Swapping
  <2>6. ASSUME NEW q \in Procs \ {p}
        PROVE  /\ Fits(procs[q], disk', hist', ring', tried')
               /\ Apart(u, procs[q]) /\ Apart(procs[q], u)
               /\ \A s \in Procs : q # s => Apart(procs[q], procs[s])
    <3>1. procs[q].name \in Names
      BY <1>1 DEF Processes
    <3>2. procs[q].pc \in {"bind", "run"} \cup Writing =>
              disk'.state.recs["identity"] = disk.state.recs["identity"]
      <4>1. CASE n # "identity"
        BY <4>1, <2>1, <1>1
      <4>2. CASE n = "identity"
        <5>1. procs[q].pc \in {"bind", "run"} \cup Writing => Daemon(procs[q])
          BY <4>2, <3>1, <1>4 DEF Daemon, Names
        <5>2. ~Daemon(procs[q])
          BY <4>2, <1>3, <1>4 DEF Fits, DaemonFits
        <5> QED
          BY <5>1, <5>2
      <4> QED
        BY <4>1, <4>2
    <3>3. Fits(procs[q], disk', hist', ring, tried')
      <4>1. procs[q].pc = "renamed" =>
                disk'.state.recs[procs[q].name].val = disk.state.recs[procs[q].name].val
        BY <3>1, <2>1, <1>4 DEF Writing
      <4>2. procs[q].pc \notin Swapping /\ Fits(procs[q], disk, hist, ring, tried)
        BY <1>3
      <4>3. procs[q].pc \in Writing /\ procs[q].val \in tried[procs[q].name] =>
                procs[q].val \in tried'[procs[q].name]
        BY <3>1, <1>4
      <4>4. /\ disk'.state.there = disk.state.there /\ disk'.state.marker = disk.state.marker
            /\ disk'.state.key = disk.state.key
        BY <2>1, <1>3
      <4>5. disk'.repl = disk.repl /\ \A y \in hist' : y \in hist \/ Used(y).marker = disk.state.marker
        BY <2>1, <1>4 DEF Used
      <4> QED
        BY <4>1, <4>2, <4>3, <4>4, <4>5, <3>2, StillFits
    <3>4. Apart(u, procs[q]) /\ Apart(procs[q], u)
      BY <1>3, <1>4 DEF Apart, FirstRun, Writing, Swapping
    <3> QED
      BY <3>3, <3>4, <1>4 DEF Consistent
  <2>7. Sound(disk'.state, ring, base, tried')
    <3>1. \A m \in Names : Readable(disk'.state, ring, m)
      BY <2>1, <2>2, <1>3, <1>4, ZenonT(30) DEF Sound, Readable
    <3>2. \A m \in Names : disk'.state.recs[m].val \in {base[m]} \cup tried'[m]
      BY <2>1, <1>3, <1>4 DEF Sound
    <3>3. \E k \in ring \cup {disk'.state.key} : Opens(disk'.state, ring, k)
      BY <2>2, <1>3 DEF Opens
    <3> QED
      BY <3>1, <3>2, <3>3 DEF Sound
  <2>8. SoundDisk(disk', ring, base, tried')
    BY <2>1, <2>7, <1>3 DEF SoundDisk, Used
  <2>9. \A d \in hist : SoundDisk(d, ring, base, tried')
    BY <1>4, SoundGrows DEF Consistent, SoundDisk
  <2>10. \A d \in hist' : SoundDisk(d, ring', base', tried')
    BY <2>8, <2>9, <1>4
  <2>11. IdentitySettled'
    <3>1. \A q \in Procs : q # p => procs'[q] = procs[q]
      BY <1>1, <1>4
    <3>2. procs'[p].name = n
      BY <1>1, <1>4
    <3>3. n = "identity" => procs[p].pc \in Writing /\ procs[p].name = "identity"
      BY <1>4 DEF Writing
    <3> QED
      BY <3>1, <3>2, <3>3, <1>4 DEF Consistent, IdentitySettled
  <2> QED
    BY <2>5, <2>6, <2>10, <2>11, <1>4, Compose
<1>5. CASE Rename(p)
  <2> DEFINE n == procs[p].name
             r == [key |-> procs[p].key, val |-> procs[p].val]
             u == [procs[p] EXCEPT !.pc = "renamed", !.temp = FALSE]
  <2>1. /\ disk' = [disk EXCEPT !.state.recs[n] = r] /\ hist' = hist \cup {disk'}
        /\ UNCHANGED <<ring, base, tried>> /\ procs[p].pc = "temp"
        /\ procs' = [procs EXCEPT ![p] = u]
    BY <1>5 DEF Rename
  <2>2. /\ u.pc = "renamed" /\ u.name = n /\ u.val = procs[p].val /\ u.target = "none"
        /\ u.kind = procs[p].kind /\ u.key = procs[p].key /\ u.id = procs[p].id
    BY <1>1, <1>3 DEF Processes
  <2>3. r.key = procs[p].key /\ r.val = procs[p].val /\ procs[p].key # 0 /\ r # Absent
    BY <1>3 DEF Opens, Absent
  <2> HIDE DEF r, u
  <2>4. DaemonFits(procs[p], disk, tried)
    BY <1>3 DEF Fits
  <2>5. r.val \in tried[n] /\ r.val # Nothing
    BY <2>1, <2>3, <2>4 DEF DaemonFits, Writing
  <2>6. IF n = "identity"
        THEN /\ r # Absent /\ u.id = u.val /\ disk.state.recs["identity"] = Absent
             /\ procs[p].pc = "temp" /\ procs[p].name = "identity"
        ELSE Daemon(procs[p])
    BY <2>1, <2>2, <2>3, <2>4, <1>3 DEF DaemonFits, Daemon, Writing, Names
  <2>7. \A q \in Procs \ {p} : /\ ~(procs[q].pc \in Writing /\ procs[q].name = n)
                               /\ (n = "note" => procs[q].pc # "run")
    BY <2>1, <1>3 DEF Apart, Writing
  <2> HIDE DEF n
  <2>8. n \in Names
    BY <1>3 DEF n
  <2> QED
    BY <2>1, <2>2, <2>3, <2>5, <2>6, <2>7, <2>8, <1>4
<1>6. CASE Delete(p)
  <2> DEFINE u == [procs[p] EXCEPT !.pc = "renamed", !.name = "note", !.val = Nothing]
  <2>1. /\ disk' = [disk EXCEPT !.state.recs["note"] = Absent] /\ hist' = hist \cup {disk'}
        /\ UNCHANGED <<ring, base>> /\ procs[p].pc = "run"
        /\ procs' = [procs EXCEPT ![p] = u]
    BY <1>6 DEF Delete
  <2>2. /\ u.pc = "renamed" /\ u.name = "note" /\ u.val = Nothing /\ u.target = "none"
        /\ u.kind = procs[p].kind /\ u.key = procs[p].key /\ u.id = procs[p].id
    BY <1>1, <1>3 DEF Processes
  <2>3. /\ Nothing \in tried'["note"] /\ tried'["identity"] = tried["identity"]
        /\ \A m \in Names : tried[m] \subseteq tried'[m]
    BY <1>1, <1>6 DEF Delete
  <2>4. Absent.val = Nothing /\ Daemon(procs[p]) /\ "note" # "identity"
    BY <2>1 DEF Absent, Daemon
  <2>5. \A q \in Procs \ {p} : /\ ~(procs[q].pc \in Writing /\ procs[q].name = "note")
                               /\ procs[q].pc # "run"
    BY <2>1, <1>3 DEF Apart
  <2> HIDE DEF u
  <2>6. IF "note" = "identity"
        THEN /\ Absent # Absent /\ u.id = u.val /\ disk.state.recs["identity"] = Absent
             /\ procs[p].pc = "temp" /\ procs[p].name = "identity"
        ELSE Daemon(procs[p])
    BY <2>4
  <2>7. \A q \in Procs \ {p} : /\ ~(procs[q].pc \in Writing /\ procs[q].name = "note")
                               /\ ("note" = "note" => procs[q].pc # "run")
    BY <2>5
  <2>8. u.val = Absent.val /\ Absent.val \in tried'["note"]
    BY <2>2, <2>3, <2>4
  <2> QED
    BY <2>1, <2>2, <2>3, <2>6, <2>7, <2>8, <1>1, <1>4
<1> QED
  BY <1>5, <1>6

(***************************************************************************)
(* Processes and machines that stop.                                       *)
(***************************************************************************)
LEMMA StopStep ==
    ASSUME Typed, Consistent, PowerLoss \/ \E p \in Procs : Crash(p), Followed'
    PROVE  Consistent'
<1>0. Off.pc = "off" /\ Off.target = "none"
  BY DEF Off
<1>1. CASE PowerLoss
  <2>1. /\ \A p \in Procs : procs'[p] = Off
        /\ hist' \subseteq hist /\ UNCHANGED <<ring, base, tried>>
    BY <1>1 DEF PowerLoss, Met, Followed
  <2>2. \A p, q \in Procs : Apart(procs'[p], procs'[q])
    BY <2>1, <1>0 DEF Apart, FirstRun, Writing, Swapping
  <2>3. \A p \in Procs : Fits(procs'[p], disk', hist', ring', tried')
    BY <2>1, <1>0, OffFits
  <2>4. IdentitySettled'
    BY <2>1, <1>0 DEF Consistent, IdentitySettled, Writing
  <2> QED
    BY <2>1, <2>2, <2>3, <2>4 DEF Consistent
<1>2. ASSUME NEW p \in Procs, Crash(p) PROVE Consistent'
  <2>1. /\ procs' = [procs EXCEPT ![p] = Off] /\ UNCHANGED <<disk, hist, ring, base, tried>>
        /\ procs[p].pc # "off"
    BY <1>2 DEF Crash, Go, ghosts
  <2>2. Fits(Off, disk', hist', ring', tried')
    BY <1>0, OffFits
  <2>3. \A q \in Procs \ {p} : /\ Fits(procs[q], disk', hist', ring', tried')
                               /\ Apart(Off, procs[q]) /\ Apart(procs[q], Off)
                               /\ \A r \in Procs : q # r => Apart(procs[q], procs[r])
    BY <2>1, <1>0 DEF Consistent, Apart, FirstRun, Writing, Swapping
  <2>4. IdentitySettled'
    BY <2>1, <1>0 DEF Typed, Consistent, IdentitySettled, Writing
  <2>5. \A d \in hist' : SoundDisk(d, ring', base', tried')
    BY <2>1 DEF Consistent
  <2> QED
    BY <2>1, <2>2, <2>3, <2>4, <2>5, Compose
<1> QED
  BY <1>1, <1>2

(***************************************************************************)
(* migrate_provider.                                                       *)
(***************************************************************************)
LEMMA CopyFacts ==
    ASSUME Typed, Consistent, NEW p \in Procs, procs[p].pc \in Copying
    PROVE  /\ Fits(procs[p], disk, hist, ring, tried) /\ procs[p].target \in {"file", "ss"}
           /\ disk.state.there /\ procs[p].kind = disk.state.marker /\ procs[p].kind # "none"
           /\ Opens(disk.state, ring, procs[p].key) /\ Sound(disk.state, ring, base, tried)
           /\ \A d \in hist : SoundDisk(d, ring, base, tried) /\ Used(d).marker = procs[p].kind
           /\ \A q \in Procs \ {p} : /\ Fits(procs[q], disk, hist, ring, tried)
                                     /\ procs[q].target = "none"
                                     /\ procs[q].pc \notin Swapping
<1>1. /\ Fits(procs[p], disk, hist, ring, tried) /\ procs[p].pc # "off"
      /\ procs[p].target \in Kinds /\ disk \in hist
  BY DEF Consistent, Typed, Processes, Copying
<1>2. procs[p].target # "none" /\ \A d \in hist : Used(d).marker = procs[p].kind
  BY <1>1 DEF Fits, MoveFits, Moving
<1>3. /\ disk.state.there /\ procs[p].kind = disk.state.marker /\ procs[p].kind # "none"
      /\ Opens(disk.state, ring, procs[p].key)
  BY <1>1 DEF Fits, OpenFits, Opened
<1>4. \A d \in hist : SoundDisk(d, ring, base, tried)
  BY DEF Consistent
<1>5. Sound(disk.state, ring, base, tried)
  BY <1>1, <1>3, <1>4 DEF SoundDisk, Used
<1>6. ASSUME NEW q \in Procs \ {p}
      PROVE  /\ Fits(procs[q], disk, hist, ring, tried) /\ procs[q].target = "none"
             /\ procs[q].pc \notin Swapping
  <2>1. Apart(procs[p], procs[q]) /\ Apart(procs[q], procs[p])
    BY DEF Consistent
  <2> QED
    BY <2>1, <1>1, <1>2 DEF Consistent, Apart
<1> QED
  BY <1>1, <1>2, <1>3, <1>4, <1>5, <1>6 DEF Kinds

\* A migration to the keyring may change it: the store of the source and the
\* processes that use it do not depend on it.
LEMMA KeyringMayChange ==
    ASSUME Typed, Consistent, NEW p \in Procs, procs[p].pc \in Copying, NEW keys,
           keys = ring \/ (procs[p].target = "ss" /\ procs[p].kind # "ss")
    PROVE  /\ \A d \in hist : SoundDisk(d, keys, base, tried)
           /\ \A q \in Procs \ {p} : Fits(procs[q], disk, hist, keys, tried)
           /\ Opens(disk.state, keys, procs[p].key)
<1>1. CASE keys = ring
  BY <1>1, CopyFacts
<1>2. CASE procs[p].kind # "ss"
  <2>0. /\ procs[p].kind = disk.state.marker /\ procs[p].kind # "none"
        /\ disk.state.marker \in Kinds /\ Opens(disk.state, ring, procs[p].key)
    BY CopyFacts, ConstantTypes DEF Typed, Trees
  <2>1. disk.state.marker = "file"
    BY <2>0, <1>2 DEF Kinds
  <2>2. \A q \in Procs \ {p} : Fits(procs[q], disk, hist, ring, tried) /\ procs[q].target = "none"
    BY CopyFacts
  <2>3. \A q \in Procs \ {p} : Fits(procs[q], disk, hist, keys, tried)
    BY <2>1, <2>2, RingFits
  <2>4. \A d \in hist : SoundDisk(d, ring, base, tried) /\ Used(d).marker # "ss"
    BY <1>2, CopyFacts
  <2>5. \A d \in hist : Sound(Used(d), keys, base, tried)
    BY <2>4, RingIndependent DEF SoundDisk
  <2>6. \A d \in hist : SoundDisk(d, keys, base, tried)
    BY <2>4, <2>5 DEF SoundDisk
  <2> QED
    BY <2>0, <2>1, <2>3, <2>6 DEF Opens
<1> QED
  BY <1>1, <1>2

\* The records are copied beside whatever else uses the store.
LEMMA CopyStep ==
    ASSUME Typed, Consistent, NEW p \in Procs, MigrateCopy(p)
    PROVE  Consistent'
<1> USE DEF At, Go, ghosts
<1>0. /\ procs[p].pc = "copy" /\ procs[p].kind # procs[p].target /\ procs[p].pc \in Copying
      /\ UNCHANGED <<disk, hist, base, tried>>
  BY DEF MigrateCopy, Copying
<1>1. procs[p] \in Processes /\ IsFiniteSet(ring) /\ 0 \notin ring
  BY DEF Typed
<1> DEFINE copy == [n \in Names |-> disk.state.recs[n].val]
<1>2. PICK k : /\ procs' = [procs EXCEPT ![p] = [procs[p] EXCEPT !.pc = "build", !.val = k, !.copy = copy]]
               /\ k = IF procs[p].target = "ss" /\ ring # {} THEN CHOOSE j \in ring : TRUE ELSE fresh'
  BY DEF MigrateCopy
<1> HIDE DEF copy
<1>3. /\ k # 0 /\ (procs[p].target = "ss" => ring' = {k})
      /\ (ring' = ring \/ procs[p].target = "ss")
  <2>1. CASE procs[p].target = "ss" /\ ring # {}
    <3>1. ring' = ring /\ Cardinality(ring) = 1
      BY <2>1 DEF MigrateCopy
    <3>2. PICK j : ring = {j}
      BY <3>1, <1>1, FS_Singleton
    <3> QED
      BY <3>1, <3>2, <2>1, <1>1, <1>2
  <2>2. CASE ~(procs[p].target = "ss" /\ ring # {})
    <3>1. fresh' # 0 /\ ring' = IF procs[p].target = "ss" THEN {fresh'} ELSE ring
      BY <2>2, SMTT(20) DEF MigrateCopy, Typed
    <3> QED
      BY <3>1, <2>2, <1>2
  <2> QED
    BY <2>1, <2>2
<1> DEFINE u == [procs[p] EXCEPT !.pc = "build", !.val = k, !.copy = copy]
<1>4. /\ u.pc = "build" /\ u.val = k /\ u.target = procs[p].target /\ u.kind = procs[p].kind
      /\ u.key = procs[p].key /\ procs' = [procs EXCEPT ![p] = u]
  BY <1>1, <1>2 DEF Processes
<1> HIDE DEF u
<1>5. /\ procs[p].target \in {"file", "ss"} /\ disk.state.there
      /\ procs[p].kind = disk.state.marker /\ procs[p].kind # "none"
      /\ \A d \in hist : Used(d).marker = procs[p].kind
  BY <1>0, CopyFacts
<1>6. ring' = ring \/ (procs[p].target = "ss" /\ procs[p].kind # "ss")
  BY <1>0, <1>3
<1>7. /\ \A d \in hist : SoundDisk(d, ring', base, tried)
      /\ \A q \in Procs \ {p} : Fits(procs[q], disk, hist, ring', tried)
      /\ Opens(disk.state, ring', procs[p].key)
  BY <1>0, <1>6, KeyringMayChange
<1>8. OpenFits(u, disk, ring')
  BY <1>4, <1>5, <1>7 DEF OpenFits
<1>9. MoveFits(u, disk, hist, ring')
  BY <1>0, <1>3, <1>4, <1>5 DEF MoveFits, Writing
<1>10. Fits(u, disk, hist, ring', tried)
  BY <1>4, <1>8, <1>9 DEF Fits, FirstRunFits, DaemonFits, Daemon, Writing, FirstRun
<1>11. /\ \A d \in hist' : SoundDisk(d, ring', base', tried')
       /\ Fits(u, disk', hist', ring', tried')
       /\ \A q \in Procs \ {p} : Fits(procs[q], disk', hist', ring', tried')
  BY <1>0, <1>7, <1>10
<1> QED
  BY <1>0, <1>4, <1>11, ComposeBeside

\* The replacement holds what was copied, whatever the store holds by then.
LEMMA BuildStep ==
    ASSUME Typed, Consistent, NEW p \in Procs, MigrateBuild(p)
    PROVE  Consistent'
<1> USE DEF At, Go, ghosts
<1> DEFINE k == procs[p].val
           sealed(n) == IF procs[p].copy[n] = Nothing THEN Absent
                        ELSE [key |-> k, val |-> procs[p].copy[n]]
           r == [there |-> TRUE, marker |-> procs[p].target,
                 key |-> IF procs[p].target = "file" THEN k ELSE 0,
                 recs |-> [n \in Names |-> sealed(n)]]
           u == [procs[p] EXCEPT !.pc = "swap", !.val = Nothing]
<1>0. /\ disk' = [disk EXCEPT !.repl = r] /\ hist' = {[d EXCEPT !.repl = r] : d \in hist}
      /\ UNCHANGED <<ring, base, tried>> /\ procs' = [procs EXCEPT ![p] = u]
      /\ procs[p].pc = "build" /\ procs[p].pc \in Copying
  BY DEF MigrateBuild, Copying
<1>1. /\ u.pc = "swap" /\ u.target = procs[p].target /\ u.kind = procs[p].kind
      /\ u.key = procs[p].key /\ u.copy = procs[p].copy
  BY DEF Typed, Processes
<1>2. r.there /\ r.marker = procs[p].target /\ (procs[p].target = "file" => r.key = k)
  OBVIOUS
<1>3. ASSUME NEW n \in Names
      PROVE  /\ r.recs[n].val = procs[p].copy[n]
             /\ r.recs[n] = Absent \/ (r.recs[n].key = k /\ r.recs[n].val # Nothing)
  BY DEF Absent
<1> HIDE DEF r, u
<1>4. /\ Fits(procs[p], disk, hist, ring, tried) /\ procs[p].target \in {"file", "ss"}
      /\ disk.state.there /\ procs[p].kind = disk.state.marker /\ procs[p].kind # "none"
      /\ Opens(disk.state, ring, procs[p].key)
      /\ \A d \in hist : SoundDisk(d, ring, base, tried) /\ Used(d).marker = procs[p].kind
      /\ \A q \in Procs \ {p} : /\ Fits(procs[q], disk, hist, ring, tried)
                                /\ procs[q].target = "none" /\ procs[q].pc \notin Swapping
  BY <1>0, CopyFacts
<1>5. k # 0 /\ (procs[p].target = "ss" => ring = {k}) /\ procs[p].kind # procs[p].target
  BY <1>0, <1>4 DEF Fits, MoveFits, Moving
<1> HIDE DEF k
<1>6. Opens(r, ring, k) /\ \E j \in ring \cup {r.key} : Opens(r, ring, j)
  BY <1>2, <1>4, <1>5 DEF Opens
<1>7. \A n \in Names : Readable(r, ring, n) /\ r.recs[n].val = procs[p].copy[n]
  BY <1>3, <1>6 DEF Readable
<1>8. Replaces(r, u.copy, ring, u.target)
  BY <1>1, <1>2, <1>6, <1>7 DEF Replaces
<1>9. disk'.state = disk.state /\ disk'.bak = disk.bak /\ disk'.repl = r
  BY <1>0 DEF Typed, Disks
<1>10. ASSUME NEW d \in hist'
       PROVE  SoundDisk(d, ring, base, tried) /\ Used(d).marker = procs[p].kind
  <2>1. PICK e \in hist : d = [e EXCEPT !.repl = r]
    BY <1>0
  <2>2. d.state = e.state /\ d.bak = e.bak
    BY <2>1 DEF Typed, Disks
  <2> QED
    BY <2>2, <1>4 DEF SoundDisk, Used
<1>11. OpenFits(u, disk', ring)
  BY <1>1, <1>4, <1>9 DEF OpenFits
<1>12. MoveFits(u, disk', hist', ring)
  BY <1>1, <1>4, <1>5, <1>8, <1>9, <1>10 DEF MoveFits, Writing
<1>13. Fits(u, disk', hist', ring', tried')
  BY <1>0, <1>1, <1>11, <1>12 DEF Fits, FirstRunFits, DaemonFits, Daemon, Writing, FirstRun
<1>14. \A q \in Procs \ {p} : Fits(procs[q], disk', hist', ring', tried')
  BY <1>0, <1>4, <1>9, StillFits
<1>15. \A d \in hist' : SoundDisk(d, ring', base', tried')
  BY <1>0, <1>10
<1> QED
  BY <1>0, <1>1, <1>13, <1>14, <1>15, ComposeBeside

\* A migration that gives up leaves the store as it was.
LEMMA GiveUpStep ==
    ASSUME Typed, Consistent, NEW p \in Procs, MigrateBuildFails(p)
    PROVE  Consistent'
<1> USE DEF At, Go, ghosts
<1>0. /\ procs' = [procs EXCEPT ![p] = Off] /\ UNCHANGED <<disk, hist, base, tried>>
      /\ procs[p].pc = "build" /\ procs[p].pc \in Copying
      /\ ring' = ring \/ procs[p].target = "ss"
  BY DEF MigrateBuildFails, MayDropKey, Copying
<1>1. procs[p].kind # procs[p].target
  BY <1>0, CopyFacts DEF Fits, MoveFits, Moving
<1>2. /\ \A d \in hist : SoundDisk(d, ring', base, tried)
      /\ \A q \in Procs \ {p} : Fits(procs[q], disk, hist, ring', tried)
  BY <1>0, <1>1, KeyringMayChange
<1>3. Off.pc = "off" /\ Off.target = "none"
  BY DEF Off
<1>4. Fits(Off, disk', hist', ring', tried')
  BY <1>3, OffFits
<1>5. /\ \A d \in hist' : SoundDisk(d, ring', base', tried')
      /\ \A q \in Procs \ {p} : Fits(procs[q], disk', hist', ring', tried')
  BY <1>0, <1>2
<1> QED
  BY <1>0, <1>3, <1>4, <1>5, ComposeBeside

\* The state directory is moved aside when nobody else uses it and it holds
\* what was copied; any other case is an exception.
LEMMA AsideStep ==
    ASSUME Typed, Consistent, NEW p \in Procs, MigrateAside(p), Followed'
    PROVE  Consistent'
<1> USE DEF At, Go, Change, ghosts
<1> DEFINE u == [procs[p] EXCEPT !.pc = "aside"]
<1>0. /\ disk' = [disk EXCEPT !.bak = disk.state, !.state = NoTree] /\ hist' = hist \cup {disk'}
      /\ UNCHANGED <<ring, base, tried>> /\ procs' = [procs EXCEPT ![p] = u]
      /\ procs[p].pc = "swap" /\ procs[p].pc \in Copying
  BY DEF MigrateAside, Copying
<1>1. /\ \A q \in Procs \ {p} : procs[q].pc = "off"
      /\ \A n \in Names : disk.state.recs[n].val = procs[p].copy[n]
  BY DEF MigrateAside, Met, Followed
<1>2. /\ u.pc = "aside" /\ u.target = procs[p].target /\ u.kind = procs[p].kind
      /\ u.copy = procs[p].copy
  BY DEF Typed, Processes
<1> HIDE DEF u
<1>3. /\ Fits(procs[p], disk, hist, ring, tried) /\ procs[p].target \in {"file", "ss"}
      /\ disk.state.there /\ procs[p].kind = disk.state.marker /\ procs[p].kind # "none"
      /\ Sound(disk.state, ring, base, tried)
      /\ \A d \in hist : SoundDisk(d, ring, base, tried) /\ Used(d).marker = procs[p].kind
      /\ \A q \in Procs \ {p} : procs[q].target = "none"
  BY <1>0, CopyFacts
<1>4. /\ disk'.state = NoTree /\ disk'.bak = disk.state /\ disk'.repl = disk.repl
      /\ ~NoTree.there
  BY <1>0 DEF Typed, Disks, NoTree
<1>5. Replaces(disk.repl, procs[p].copy, ring, procs[p].target) /\ procs[p].kind # procs[p].target
  BY <1>0, <1>3 DEF Fits, MoveFits, Moving
<1>6. Used(disk') = disk.state
  BY <1>4 DEF Used
<1>7. \A d \in hist' : Used(d).marker = procs[p].kind
  BY <1>0, <1>3, <1>6
<1>8. MoveFits(u, disk', hist', ring)
  BY <1>1, <1>2, <1>3, <1>4, <1>5, <1>7 DEF MoveFits, Writing
<1>9. Fits(u, disk', hist', ring', tried') /\ u.pc \notin Writing
  BY <1>0, <1>2, <1>8
     DEF Fits, FirstRunFits, OpenFits, DaemonFits, Daemon, Writing, FirstRun, Opened, Copying
<1>10. SoundDisk(disk', ring, base, tried)
  BY <1>3, <1>4, <1>6 DEF SoundDisk
<1>11. \A d \in hist' : SoundDisk(d, ring', base', tried')
  BY <1>0, <1>3, <1>10
<1> QED
  BY <1>0, <1>1, <1>3, <1>9, <1>11, ComposeAlone

\* The last steps of a migration keep the store consistent.
LEMMA MoveEnd ==
    ASSUME Typed, Consistent, NEW p \in Procs,
           \/ MigrateInto(p) \/ MigrateBack(p) \/ MigrateSync(p)
           \/ MigrateDropKey(p) \/ MigrateEnd(p)
    PROVE  Consistent'
<1> USE DEF At, Go, Change, Kept, Synced, ghosts
<1>1. /\ procs \in [Procs -> Processes] /\ procs[p] \in Processes /\ disk \in Disks /\ disk \in hist
      /\ disk.state \in Trees /\ disk.repl \in Trees /\ disk.bak \in Trees
  BY ConstantTypes DEF Typed
<1>2. procs[p].pc \in {"aside", "swapped", "dropkey", "drop"} /\ UNCHANGED <<base, tried>>
  BY DEF MigrateInto, MigrateBack, MigrateSync, MigrateDropKey, MigrateEnd
<1>3. /\ MoveFits(procs[p], disk, hist, ring) /\ procs[p].target # "none"
      /\ procs[p].kind # procs[p].target /\ procs[p].kind # "none"
  BY <1>2 DEF Consistent, Fits, MoveFits, Moving, Swapping
<1>4. \A q \in Procs \ {p} : procs[q].pc = "off" /\ procs[q].target = "none"
  BY <1>2, Alone DEF Swapping
<1>5. \A d \in hist : SoundDisk(d, ring, base, tried)
  BY DEF Consistent
<1>6. /\ Off.pc = "off" /\ Off.pc \notin Writing
      /\ \A d, h, keys, w : Fits(Off, d, h, keys, w)
  BY OffFits DEF Off, Writing
<1>7. ASSUME NEW u, u.pc \in {"swapped", "dropkey", "drop"}, MoveFits(u, disk', hist', ring')
      PROVE  Fits(u, disk', hist', ring', tried') /\ u.pc \notin Writing
  BY <1>7 DEF Fits, FirstRunFits, OpenFits, DaemonFits, Daemon, Writing, FirstRun, Opened, Copying
<1>8. CASE MigrateInto(p)
  <2> DEFINE u == [procs[p] EXCEPT !.pc = "swapped"]
  <2>1. /\ disk' = [disk EXCEPT !.state = disk.repl, !.repl = NoTree] /\ hist' = hist \cup {disk'}
        /\ procs' = [procs EXCEPT ![p] = u] /\ procs[p].pc = "aside" /\ UNCHANGED ring
    BY <1>8 DEF MigrateInto
  <2>2. disk'.state = disk.repl /\ disk'.bak = disk.bak
    BY <2>1, <1>1 DEF Disks
  <2>3. u.pc = "swapped" /\ u.target = procs[p].target /\ u.kind = procs[p].kind
    BY <1>1 DEF Processes
  <2> HIDE DEF u
  <2>4. /\ Replaces(disk.repl, procs[p].copy, ring, procs[p].target) /\ Used(disk) = disk.bak
        /\ \A n \in Names : disk.bak.recs[n].val = procs[p].copy[n]
    BY <2>1, <1>3 DEF MoveFits, Used
  <2>5. MoveFits(u, disk', hist', ring')
    BY <2>2, <2>3, <2>4, <1>3 DEF MoveFits, Writing, Replaces, Copying
  <2>6. Sound(disk.bak, ring, base, tried)
    BY <2>4, <1>1, <1>5 DEF SoundDisk
  <2>7. Sound(disk.repl, ring, base, tried)
    BY <2>4, <2>6 DEF Sound, Replaces
  <2>8. SoundDisk(disk', ring, base, tried)
    BY <2>2, <2>4, <2>7, <1>1, <1>5 DEF SoundDisk, Used, Replaces
  <2>9. \A d \in hist' : SoundDisk(d, ring', base', tried')
    BY <2>1, <2>8, <1>2, <1>5
  <2>20. Fits(u, disk', hist', ring', tried') /\ u.pc \notin Writing
    BY <2>3, <2>5, <1>7
  <2> QED
    BY <2>1, <2>9, <2>20, <1>2, <1>4, ComposeAlone
<1>9. CASE MigrateBack(p)
  <2> DEFINE back == [disk EXCEPT !.state = disk.bak, !.bak = NoTree]
  <2>1. /\ procs' = [procs EXCEPT ![p] = Off] /\ procs[p].pc = "aside"
        /\ hist' \subseteq hist \cup {back}
        /\ ring' = ring \/ procs[p].target = "ss"
    BY <1>9 DEF MigrateBack, MayDropKey
  <2>2. back.state = disk.bak /\ back.bak = NoTree /\ ~NoTree.there
    BY <1>1 DEF Disks, NoTree
  <2> HIDE DEF back
  <2>3. /\ disk.bak.there /\ ~disk.state.there /\ \A e \in hist : Used(e).marker = procs[p].kind
    BY <2>1, <1>3 DEF MoveFits
  <2>4. Used(back) = disk.bak /\ Used(disk) = disk.bak
    BY <2>2, <2>3 DEF Used
  <2>5. ASSUME NEW d \in hist PROVE SoundDisk(d, ring', base, tried)
    <3>1. CASE ring' = ring
      BY <3>1, <1>5
    <3>2. CASE procs[p].target = "ss"
      BY <3>2, <2>3, <1>3, <1>5, RingIndependent DEF SoundDisk
    <3> QED
      BY <3>1, <3>2, <2>1
  <2>6. SoundDisk(back, ring', base, tried)
    BY <2>2, <2>3, <2>4, <2>5, <1>1 DEF SoundDisk
  <2>7. \A d \in hist' : SoundDisk(d, ring', base', tried')
    BY <2>1, <2>5, <2>6, <1>2
  <2> QED
    BY <2>1, <2>7, <1>2, <1>4, <1>6, ComposeAlone
<1>10. CASE MigrateSync(p)
  <2> DEFINE u == [procs[p] EXCEPT !.pc = IF procs[p].kind = "ss" THEN "dropkey" ELSE "drop"]
  <2>1. /\ UNCHANGED <<disk, ring>> /\ hist' = {disk} /\ procs[p].pc = "swapped"
        /\ procs' = [procs EXCEPT ![p] = u]
    BY <1>10 DEF MigrateSync
  <2>2. /\ u.pc = (IF procs[p].kind = "ss" THEN "dropkey" ELSE "drop")
        /\ u.target = procs[p].target /\ u.kind = procs[p].kind
    BY <1>1 DEF Processes
  <2> HIDE DEF u
  <2>3. MoveFits(u, disk', hist', ring')
    BY <2>1, <2>2, <1>3 DEF MoveFits, Writing, Copying
  <2>4. \A d \in hist' : SoundDisk(d, ring', base', tried')
    BY <2>1, <1>1, <1>2, <1>5
  <2>20. Fits(u, disk', hist', ring', tried') /\ u.pc \notin Writing
    BY <2>2, <2>3, <1>7
  <2> QED
    BY <2>1, <2>4, <2>20, <1>2, <1>4, ComposeAlone
<1>11. CASE MigrateDropKey(p)
  <2> DEFINE u == [procs[p] EXCEPT !.pc = "drop"]
  <2>1. /\ UNCHANGED <<disk, hist>> /\ procs[p].pc = "dropkey"
        /\ procs' = [procs EXCEPT ![p] = u]
    BY <1>11 DEF MigrateDropKey
  <2>2. u.pc = "drop" /\ u.target = procs[p].target /\ u.kind = procs[p].kind
    BY <1>1 DEF Processes
  <2> HIDE DEF u
  <2>3. MoveFits(u, disk', hist', ring')
    BY <2>1, <2>2, <1>3 DEF MoveFits, Writing, Copying
  <2>4. hist = {disk} /\ Used(disk).marker # "ss"
    BY <2>1, <1>3 DEF MoveFits, Used
  <2>5. \A d \in hist' : SoundDisk(d, ring', base', tried')
    BY <2>1, <2>4, <1>2, <1>5, RingIndependent DEF SoundDisk
  <2>20. Fits(u, disk', hist', ring', tried') /\ u.pc \notin Writing
    BY <2>2, <2>3, <1>7
  <2> QED
    BY <2>1, <2>5, <2>20, <1>2, <1>4, ComposeAlone
<1>12. CASE MigrateEnd(p)
  <2>1. /\ disk' = [disk EXCEPT !.bak = NoTree] /\ hist' = {disk'} /\ UNCHANGED ring
        /\ procs' = [procs EXCEPT ![p] = Off] /\ procs[p].pc = "drop"
    BY <1>12 DEF MigrateEnd
  <2>2. disk'.state = disk.state /\ disk'.bak = NoTree /\ disk.state.there
    BY <2>1, <1>1, <1>3 DEF Disks, MoveFits
  <2>3. SoundDisk(disk', ring, base, tried)
    BY <2>2, <1>1, <1>5 DEF SoundDisk, Used
  <2>4. \A d \in hist' : SoundDisk(d, ring', base', tried')
    BY <2>1, <2>3, <1>2
  <2> QED
    BY <2>1, <2>4, <1>2, <1>4, <1>6, ComposeAlone
<1> QED
  BY <1>8, <1>9, <1>10, <1>11, <1>12

(***************************************************************************)
(* Theorems.                                                               *)
(***************************************************************************)
LEMMA ConsistentStep ==
    ASSUME Typed, Followed => Consistent, Next PROVE Followed' => Consistent'
<1>1. Followed /\ Consistent
  <2>1. \A p \in Procs : Open(p) => Followed
    BY DEF Open, Begin, Load, FirstRunRing, CreateRingKey, FirstRunFile, WriteKeyFile, SyncKeyFile,
           WriteMarker, SyncMarker, Recover, At
  <2>2. \A p \in Procs : Use(p) => Followed
    BY DEF Use, LoadOrCreateIdentity, Bind, Write, Rename, Delete, Acknowledge, WriteFails, At
  <2>3. \A p \in Procs : Migrate(p) => Followed
    BY DEF Migrate, Begin, MigrateCopy, MigrateBuild, MigrateBuildFails, MigrateAside, MigrateInto,
           MigrateBack, MigrateSync, MigrateDropKey, MigrateEnd, At
  <2> QED
    BY <2>1, <2>2, <2>3 DEF Next, PowerLoss, Crash
<1>2. CASE PowerLoss
  BY <1>1, <1>2, StopStep
<1>3. ASSUME NEW p \in Procs, Open(p) \/ Use(p) \/ Migrate(p) \/ Crash(p)
      PROVE  Followed' => Consistent'
  <2>1. CASE Open(p)
    BY <2>1, <1>1, BeginStep, OpeningStep, FirstRunStep DEF Open
  <2>2. CASE Use(p)
    BY <2>2, <1>1, IdentityStep, QuietStep, RecordStep, AcknowledgeStep DEF Use
  <2>3. CASE Migrate(p)
    BY <2>3, <1>1, BeginStep, CopyStep, BuildStep, GiveUpStep, AsideStep, MoveEnd DEF Migrate
  <2>4. CASE Crash(p)
    BY <2>4, <1>1, StopStep
  <2> QED
    BY <1>3, <2>1, <2>2, <2>3, <2>4
<1> QED
  BY <1>2, <1>3 DEF Next

\* The inductive invariant holds at the start.
LEMMA InitConsistent == Init => IInv
<1> SUFFICES ASSUME Init PROVE IInv
  OBVIOUS
<1>1. Typed
  <2>1. disk \in Disks /\ hist = {disk}
    BY ConstantTypes DEF Init, Disks
  <2>2. procs \in [Procs -> Processes] /\ IsFiniteSet(ring) /\ ring = {}
    BY ConstantTypes, FS_EmptySet DEF Init
  <2>3. base \in [Names -> Int] /\ tried \in [Names -> SUBSET Int]
    BY DEF Init, Nothing
  <2> QED
    BY <2>1, <2>2, <2>3 DEF Init, Typed
<1>2. \A d \in hist : SoundDisk(d, ring, base, tried)
  <2>1. disk.state = NoTree /\ disk.bak = NoTree /\ hist = {disk}
    BY DEF Init
  <2>2. NoTree.marker = "none" /\ \A n \in Names : NoTree.recs[n] = Absent
    BY DEF NoTree
  <2>3. \A n \in Names : base[n] = Nothing
    BY DEF Init
  <2>4. Absent.val = Nothing
    BY DEF Absent
  <2>5. Sound(NoTree, ring, base, tried)
    BY <2>2, <2>3, <2>4 DEF Sound, Readable
  <2> QED
    BY <2>1, <2>5 DEF SoundDisk, Used
<1>3. \A p \in Procs : procs[p].pc = "off" /\ procs[p].target = "none"
  BY DEF Init, Off
<1>4. \A p \in Procs : Fits(procs[p], disk, hist, ring, tried)
  BY <1>3, OffFits
<1>5. \A p, q \in Procs : Apart(procs[p], procs[q])
  BY <1>3 DEF Apart, FirstRun, Writing, Swapping
<1>6. IdentitySettled
  BY DEF Init, IdentitySettled, Names
<1> QED
  BY <1>1, <1>2, <1>4, <1>5, <1>6 DEF IInv, Consistent

\* Every disk a power loss may leave, every process and every pair of processes
\* stays as the steps of open, of the writes and of a migration rely on, up to
\* the first of the situations that Followed names.
THEOREM Invariance == Spec => []IInv
<1>1. IInv /\ [Next]_vars => IInv'
  <2> SUFFICES ASSUME IInv, [Next]_vars PROVE IInv'
    OBVIOUS
  <2>1. Typed'
    BY TypeStep DEF IInv
  <2>2. CASE UNCHANGED vars
    BY <2>1, <2>2 DEF vars, IInv, Followed, Consistent, IdentitySettled
  <2>3. CASE Next
    BY <2>1, <2>3, ConsistentStep DEF IInv
  <2> QED
    BY <2>2, <2>3
<1> QED
  BY <1>1, InitConsistent, PTL DEF Spec

\* What was acknowledged can be read on every disk that a crash of any process
\* or a power loss may leave, for any number of processes, records' contents,
\* keys and identities, and beside a migration that copies the records.  Three
\* situations are excepted: two first runs at once, a migration that moves the
\* trees beside another process or after a record changed, and a power loss that
\* takes the entry of records/.
THEOREM AckedReadableHolds == Spec => []AckedReadable
<1>1. IInv => AckedReadable
  <2> SUFFICES ASSUME Typed, Followed, Consistent, NEW d \in hist, NEW n \in Names
               PROVE  Read(Used(d), KeyOf(Used(d), ring), n) \in {base[n]} \cup tried[n]
    BY DEF IInv, AckedReadable, Used
  <2>1. Sound(Used(d), ring, base, tried)
    BY DEF Consistent, SoundDisk
  <2> QED
    BY <2>1, SoundRead DEF Sound
<1> QED
  BY <1>1, Invariance, PTL

\* A daemon with an open store holds the provider, the key and the identity that
\* the disk designates, also while a migration copies the records beside it; the
\* exceptions are those of Followed.
THEOREM HeldIsStoredHolds == Spec => []HeldIsStored
<1>1. IInv => HeldIsStored
  <2> SUFFICES ASSUME Typed, Followed, Consistent, NEW p \in Procs, procs[p].pc \in {"bind", "run"}
               PROVE  /\ procs[p].kind = disk.state.marker
                      /\ procs[p].key = KeyOf(disk.state, ring)
                      /\ procs[p].id = Read(disk.state, procs[p].key, "identity")
    BY DEF IInv, HeldIsStored
  <2>1. Fits(procs[p], disk, hist, ring, tried)
    BY DEF Consistent
  <2>2. procs[p].kind = disk.state.marker /\ Opens(disk.state, ring, procs[p].key)
    BY <2>1 DEF Fits, OpenFits, Opened
  <2>3. procs[p].key = KeyOf(disk.state, ring)
    BY <2>2, OpensKey
  <2>4. procs[p].id = disk.state.recs["identity"].val
    BY <2>1 DEF Fits, DaemonFits, Daemon
  <2> QED
    BY <2>2, <2>3, <2>4, IdentityRead
<1> QED
  BY <1>1, Invariance, PTL

\* The provider and the key file that a first run chose stay until a migration
\* swaps the trees.
THEOREM ProviderStickyHolds == Spec => ProviderSticky
<1> DEFINE Before == \A p \in Procs : procs[p].pc \notin {"swap", "aside"}
           Sticky == Followed' /\ disk' \notin hist /\ Before =>
                         /\ disk.state.marker # "none" => disk'.state.marker = disk.state.marker
                         /\ disk.state.key # 0 => disk'.state.key = disk.state.key
<1>1. IInv /\ [Next]_vars => [Sticky]_vars
  <2> SUFFICES ASSUME IInv, Next, Before, Followed', disk' \notin hist PROVE Sticky
    BY DEF vars
  <2>1. disk \in hist /\ disk \in Disks /\ disk.state \in Trees
    BY ConstantTypes DEF IInv, Typed
  <2>2. ~PowerLoss /\ disk' # disk
    BY <2>1 DEF PowerLoss, Met, Followed
  <2>3. PICK p \in Procs : Open(p) \/ Use(p) \/ Migrate(p)
    BY <2>1, <2>2 DEF Next, Crash
  <2>5. ASSUME NEW asked, NEW target, Begin(p, asked, target) PROVE Sticky
    BY <2>5, <2>1 DEF Begin, Change, Disks, Trees
  <2>6. CASE WriteKeyFile(p)
    <3>1. disk.state.key = 0
      BY <2>6 DEF WriteKeyFile, At, IInv, Consistent, Fits, FirstRunFits
    <3> QED
      BY <3>1, <2>6, <2>1 DEF WriteKeyFile, Change, Disks, Trees
  <2>7. CASE WriteMarker(p)
    <3>1. disk.state.marker = "none"
      BY <2>7 DEF WriteMarker, At, IInv, Consistent, Fits, FirstRunFits, FirstRun
    <3> QED
      BY <3>1, <2>7, <2>1 DEF WriteMarker, Change, Disks, Trees
  <2>8. CASE Rename(p) \/ Delete(p)
    BY <2>8, <2>1, SMTT(20) DEF Rename, Delete, Change, Disks, Trees
  <2>9. ~(MigrateAside(p) \/ MigrateInto(p) \/ MigrateBack(p))
    BY DEF MigrateAside, MigrateInto, MigrateBack, At
  <2>4. CASE MigrateBuild(p) \/ MigrateEnd(p)
    BY <2>4, <2>1 DEF MigrateBuild, MigrateEnd, Disks
  <2>10. CASE Open(p)
    BY <2>10, <2>2, <2>5, <2>6, <2>7
       DEF Open, Load, FirstRunRing, CreateRingKey, FirstRunFile, SyncKeyFile, SyncMarker, Recover, Synced
  <2>11. CASE Use(p)
    BY <2>11, <2>2, <2>8 DEF Use, LoadOrCreateIdentity, Bind, Write, Acknowledge, WriteFails, Synced
  <2>12. CASE Migrate(p)
    BY <2>12, <2>2, <2>4, <2>5, <2>9 DEF Migrate, MigrateCopy, MigrateBuildFails, MigrateSync, MigrateDropKey, Synced
  <2> QED
    BY <2>3, <2>10, <2>11, <2>12
<1> QED
  BY <1>1, Invariance, PTL DEF Spec, ProviderSticky

=============================================================================
