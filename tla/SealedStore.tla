----------------------------- MODULE SealedStore -----------------------------
(***************************************************************************)
(* The sealed store on disk (omachat-store/src/sealed.rs, identity.rs):    *)
(* opening with its one-time choice of a key provider, atomic writes,      *)
(* recovery, the identity record, and the migration to the other provider, *)
(* by processes that may be killed at any step, on a machine that may lose *)
(* power at any step.                                                      *)
(*                                                                         *)
(* A record on disk is sealed under a key.  hist is the set of disks a     *)
(* power loss may leave: on a file system that journals its directories in *)
(* order, any prefix of the changes since the last sync.  Such a sync of   *)
(* records/ keeps its own entry as well, which open makes and never syncs; *)
(* a power loss that takes the entry is an exception below.  The keyring   *)
(* is external: a call finds it available or not, and what it stores stays.*)
(***************************************************************************)
EXTENDS Integers, FiniteSets

CONSTANTS
    Procs,      \* processes that use the store
    Values,     \* contents of a record other than the identity, as numbers
    MaxFresh    \* bound: keys and identities that are generated

Nothing == 0
Unreadable == -1
Names == {"identity", "note"}
Absent == [key |-> 0, val |-> Nothing]
NoTree == [there |-> FALSE, marker |-> "none", key |-> 0, recs |-> [n \in Names |-> Absent]]
Off == [pc |-> "off", asked |-> "auto", target |-> "none", kind |-> "none", key |-> 0,
        id |-> Nothing, name |-> "note", val |-> Nothing, temp |-> FALSE,
        copy |-> [n \in Names |-> Nothing]]

ASSUME StoreAssumption == MaxFresh \in Nat /\ \A v \in Values : v \in Nat /\ v > MaxFresh

VARIABLES
    disk,      \* the state directory, the replacement and the backup
    hist,      \* the disks a power loss may leave
    ring,      \* the master keys in the Secret Service collection
    procs,     \* where each process is and what it holds
    fresh,     \* keys and identities generated so far
    base,      \* history: the last content of each record that was acknowledged
    tried,     \* history: contents whose write began since and may be there
    unguarded  \* history: the situation the code does not guard against that was met

vars == <<disk, hist, ring, procs, fresh, base, tried, unguarded>>
ghosts == <<base, tried, unguarded>>

Init ==
    /\ disk = [state |-> NoTree, repl |-> NoTree, bak |-> NoTree]
    /\ hist = {disk}
    /\ ring = {}
    /\ procs = [p \in Procs |-> Off]
    /\ fresh = 0
    /\ base = [n \in Names |-> Nothing] /\ tried = [n \in Names |-> {}]
    /\ unguarded = "none"

\* A behaviour is followed up to the first situation the code does not guard
\* against; nothing is claimed from there on:
\*   "firstRuns"  two processes make the one-time choice, or the identity, at once;
\*   "swap"       a migration moves the trees while another process uses the store
\*                or after a record changed that it had copied, an open meets the
\*                trees on the move, or two migrations run at once: no lock excludes
\*                any of it;
\*   "entry"      a power loss takes the entry of records/ or of the state
\*                directory itself, which no call has synced.
Followed == unguarded = "none"
Met(situation) == unguarded' = situation

At(p, pc) == Followed /\ procs[p].pc = pc
Go(p, next) == procs' = [procs EXCEPT ![p] = next]
Change(d) == disk' = d /\ hist' = hist \cup {d}
Synced == disk' = disk /\ hist' = {disk}
Kept == UNCHANGED <<disk, hist>>

\* The key a tree designates: its own file, or the only one in the keyring.
KeyOf(t, keys) ==
    IF t.marker = "file" THEN t.key
    ELSE IF t.marker = "ss" /\ Cardinality(keys) = 1 THEN CHOOSE k \in keys : TRUE ELSE 0

\* SealedStore::read: absent, its content, or an error.
Read(t, key, n) ==
    LET r == t.recs[n]
    IN IF r = Absent THEN Nothing ELSE IF r.key = key /\ key # 0 THEN r.val ELSE Unreadable

(***************************************************************************)
(* open.                                                                   *)
(***************************************************************************)
Writing == {"temp", "renamed"}
FirstRun == {"first", "ringkey", "keyfile", "keysync", "marker", "marksync"}
Swapping == {"aside", "swapped", "dropkey", "drop"}
Migrating == {p \in Procs : procs[p].target # "none"}

\* The start of open: the directory is made, the marker read and compared with
\* the request.  migrate_provider opens its source in the same way, beside
\* whatever else uses the store.
Begin(p, asked, target) ==
    /\ At(p, "off") /\ (target # "none" => asked = "auto")
    /\ LET t == [disk.state EXCEPT !.there = TRUE]
           o == [Off EXCEPT !.asked = asked, !.target = target, !.kind = t.marker]
       IN /\ asked \in {"auto", t.marker} \/ t.marker = "none"
          /\ Change([disk EXCEPT !.state = t])
          /\ Go(p, [o EXCEPT !.pc = IF t.marker = "none" THEN "first" ELSE "load"])
          /\ Met(IF \/ ~disk.state.there /\ disk.bak.there
                    \/ \E q \in Procs : procs[q].pc \in Swapping
                    \/ target # "none" /\ Migrating # {}
                 THEN "swap"
                 ELSE IF t.marker = "none" /\ \E q \in Procs : procs[q].pc \in FirstRun
                      THEN "firstRuns" ELSE "none")
    /\ UNCHANGED <<ring, fresh, base, tried>>

\* Mutant of Load: a provider that cannot be reached is chosen anew.
LoadOrReplace(p) ==
    /\ At(p, "load")
    /\ LET key == KeyOf(disk.state, ring)
       IN \/ key # 0 /\ Go(p, [procs[p] EXCEPT !.pc = "recover", !.key = key, !.asked = "auto"])
          \/ Go(p, [procs[p] EXCEPT !.pc = "first"])
    /\ UNCHANGED <<disk, hist, ring, fresh, ghosts>>

\* The key of the provider the marker names.  A keyring that is unavailable,
\* locked, empty or ambiguous, and a missing key file, end the open.
Load(p) ==
    /\ At(p, "load")
    /\ LET key == IF procs[p].kind = "file" THEN disk.state.key ELSE KeyOf(disk.state, ring)
       IN /\ key # 0
          /\ Go(p, [procs[p] EXCEPT !.pc = "recover", !.key = key, !.asked = "auto"])
    /\ UNCHANGED <<disk, hist, ring, fresh, ghosts>>

\* select_first_run and load_secret_service_key(true), the search: a key that
\* is there is used, else one will be created.
FirstRunRing(p) ==
    /\ At(p, "first") /\ procs[p].asked \in {"auto", "ss"}
    /\ Cardinality(ring) <= 1
    /\ LET o == [procs[p] EXCEPT !.kind = "ss"]
       IN Go(p, IF ring = {} THEN [o EXCEPT !.pc = "ringkey"]
                ELSE [o EXCEPT !.pc = "marker", !.key = CHOOSE k \in ring : TRUE, !.asked = "auto"])
    /\ UNCHANGED <<disk, hist, ring, fresh, ghosts>>

\* create_item, a call of its own.
CreateRingKey(p) ==
    /\ At(p, "ringkey") /\ fresh < MaxFresh
    /\ fresh' = fresh + 1
    /\ ring' = ring \cup {fresh'}
    /\ Go(p, [procs[p] EXCEPT !.pc = "marker", !.key = fresh', !.asked = "auto"])
    /\ UNCHANGED <<disk, hist, ghosts>>

\* create_file_key, asked for or because the keyring could not be reached, for
\* the search or for create_item: never over a key that exists.
FirstRunFile(p) ==
    /\ At(p, "first") \/ At(p, "ringkey")
    /\ procs[p].asked \in {"auto", "file"}
    /\ disk.state.key = 0
    /\ Go(p, [procs[p] EXCEPT !.pc = "keyfile", !.kind = "file", !.asked = "auto"])
    /\ UNCHANGED <<disk, hist, ring, fresh, ghosts>>

\* atomic_write of the key up to the rename.
WriteKeyFile(p) ==
    /\ At(p, "keyfile") /\ fresh < MaxFresh
    /\ fresh' = fresh + 1
    /\ Change([disk EXCEPT !.state.key = fresh'])
    /\ Go(p, [procs[p] EXCEPT !.pc = "keysync", !.key = fresh'])
    /\ UNCHANGED <<ring, ghosts>>

SyncKeyFile(p) ==
    /\ At(p, "keysync") /\ Synced
    /\ Go(p, [procs[p] EXCEPT !.pc = "marker"])
    /\ UNCHANGED <<ring, fresh, ghosts>>

WriteMarker(p) ==
    /\ At(p, "marker")
    /\ Change([disk EXCEPT !.state.marker = procs[p].kind])
    /\ Go(p, [procs[p] EXCEPT !.pc = "marksync"])
    /\ UNCHANGED <<ring, fresh, ghosts>>

SyncMarker(p) ==
    /\ At(p, "marksync") /\ Synced
    /\ Go(p, [procs[p] EXCEPT !.pc = "recover"])
    /\ UNCHANGED <<ring, fresh, ghosts>>

\* recover_interrupted_writes removes every temporary file of the records,
\* those of a running process included.
Recover(p) ==
    /\ At(p, "recover") /\ Synced
    /\ procs' = [q \in Procs |->
          IF q = p THEN [procs[p] EXCEPT !.pc = IF procs[p].target = "none" THEN "identity" ELSE "copy"]
          ELSE [procs[q] EXCEPT !.temp = FALSE]]
    /\ UNCHANGED <<ring, fresh, ghosts>>

(***************************************************************************)
(* The records.                                                            *)
(***************************************************************************)
\* A write of record n begins: its temporary file is there, and synced.
WriteTemp(p, n, v, id) ==
    /\ Go(p, [procs[p] EXCEPT !.pc = "temp", !.name = n, !.val = v, !.temp = TRUE, !.id = id])
    /\ tried' = [tried EXCEPT ![n] = @ \cup {v}]

\* Mutant of LoadOrCreateIdentity: a new identity is used before it is saved.
IdentityUnsaved(p) ==
    /\ At(p, "identity")
    /\ LET v == Read(disk.state, procs[p].key, "identity")
       IN /\ v # Unreadable
          /\ fresh' = IF v = Nothing THEN fresh + 1 ELSE fresh
          /\ Go(p, [procs[p] EXCEPT !.pc = "bind", !.id = IF v = Nothing THEN fresh' ELSE v])
    /\ UNCHANGED <<disk, hist, ring, ghosts>>

\* IdentityVault::load_or_create: the identity that is there, or a new one only
\* when the record is absent; an unreadable record ends the process.
LoadOrCreateIdentity(p) ==
    /\ At(p, "identity")
    /\ LET v == Read(disk.state, procs[p].key, "identity")
       IN \/ /\ v \notin {Nothing, Unreadable}
             /\ Go(p, [procs[p] EXCEPT !.pc = "bind", !.id = v])
             /\ UNCHANGED <<fresh, tried, unguarded>>
          \/ /\ v = Nothing /\ fresh < MaxFresh
             /\ fresh' = fresh + 1 /\ WriteTemp(p, "identity", fresh', fresh')
             /\ Met(IF \E q \in Procs \ {p} : procs[q].pc \in Writing /\ procs[q].name = "identity"
                    THEN "firstRuns" ELSE "none")
    /\ UNCHANGED <<disk, hist, ring, base>>

\* IpcServer::bind takes the instance lock, beside the socket, after the store
\* is open: the daemons of one state directory share a socket path.
Bind(p) ==
    /\ At(p, "bind")
    /\ \A q \in Procs \ {p} : ~At(q, "run") /\ ~(procs[q].pc \in Writing /\ procs[q].name = "note")
    /\ Go(p, [procs[p] EXCEPT !.pc = "run"])
    /\ UNCHANGED <<disk, hist, ring, fresh, ghosts>>

\* write.
Write(p, v) ==
    /\ At(p, "run") /\ WriteTemp(p, "note", v, procs[p].id)
    /\ UNCHANGED <<disk, hist, ring, fresh, base, unguarded>>

\* atomic_write, the rename; it fails without the temporary file.
Rename(p) ==
    /\ At(p, "temp") /\ procs[p].temp
    /\ Change([disk EXCEPT !.state.recs[procs[p].name] = [key |-> procs[p].key, val |-> procs[p].val]])
    /\ Go(p, [procs[p] EXCEPT !.pc = "renamed", !.temp = FALSE])
    /\ UNCHANGED <<ring, fresh, ghosts>>

\* delete: the file is removed, then the directory synced.  A file that is not
\* there is Ok at once, without a sync: nothing changes and nothing is promised.
Delete(p) ==
    /\ At(p, "run") /\ disk.state.recs["note"] # Absent
    /\ Change([disk EXCEPT !.state.recs["note"] = Absent])
    /\ Go(p, [procs[p] EXCEPT !.pc = "renamed", !.name = "note", !.val = Nothing])
    /\ tried' = [tried EXCEPT !["note"] = @ \cup {Nothing}]
    /\ UNCHANGED <<ring, fresh, base, unguarded>>

\* Where a write returns to: the daemon, or its start.
Written(p) == [procs[p] EXCEPT !.pc = IF procs[p].name = "identity" THEN "bind" ELSE "run",
                               !.name = "note", !.val = Nothing, !.temp = FALSE]

\* The first identity that was acknowledged is the one to keep.
Acked(n, v) == [base EXCEPT ![n] = IF n = "identity" /\ @ # Nothing THEN @ ELSE v]

\* Mutant of Acknowledge: the directory is not synced.
AcknowledgeUnsynced(p) ==
    /\ At(p, "renamed") /\ Kept
    /\ base' = Acked(procs[p].name, procs[p].val)
    /\ tried' = [tried EXCEPT ![procs[p].name] = {}]
    /\ Go(p, Written(p))
    /\ UNCHANGED <<ring, fresh, unguarded>>

\* The directory is synced and the write returns Ok.
Acknowledge(p) ==
    /\ At(p, "renamed") /\ Synced
    /\ base' = Acked(procs[p].name, procs[p].val)
    /\ tried' = [tried EXCEPT ![procs[p].name] = {}]
    /\ Go(p, Written(p))
    /\ UNCHANGED <<ring, fresh, unguarded>>

\* A write returns an error at any of its steps: before the rename the old
\* record stays, after it the new one is there.
WriteFails(p) ==
    /\ Followed /\ procs[p].pc \in Writing /\ procs[p].name = "note"
    /\ Go(p, Written(p))
    /\ UNCHANGED <<disk, hist, ring, fresh, ghosts>>

(***************************************************************************)
(* migrate_provider, by a process whose open has finished.                 *)
(***************************************************************************)
\* Every record is read (a temporary file of a running process is an invalid
\* name, and the end), and the replacement opened, up to its key.
MigrateCopy(p) ==
    /\ At(p, "copy") /\ procs[p].kind # procs[p].target
    /\ \A n \in Names : Read(disk.state, procs[p].key, n) # Unreadable
    /\ \A q \in Procs : ~procs[q].temp
    /\ IF procs[p].target = "ss" /\ ring # {}
       THEN ring' = ring /\ fresh' = fresh /\ Cardinality(ring) = 1
       ELSE /\ fresh < MaxFresh /\ fresh' = fresh + 1
            /\ ring' = IF procs[p].target = "ss" THEN {fresh'} ELSE ring
    /\ Go(p, [procs[p] EXCEPT !.pc = "build",
                              !.val = IF procs[p].target = "ss" /\ ring # {}
                                      THEN CHOOSE k \in ring : TRUE ELSE fresh',
                              !.copy = [n \in Names |-> disk.state.recs[n].val]])
    /\ UNCHANGED <<disk, hist, ghosts>>

\* The replacement is complete and synced: marker, key file and every record
\* that was read, sealed again under the new key.
MigrateBuild(p) ==
    /\ At(p, "build")
    /\ LET key == procs[p].val
           o == procs[p]
           sealed(n) == IF o.copy[n] = Nothing THEN Absent ELSE [key |-> key, val |-> o.copy[n]]
           r == [there |-> TRUE, marker |-> o.target, key |-> IF o.target = "file" THEN key ELSE 0,
                 recs |-> [n \in Names |-> sealed(n)]]
       IN disk' = [disk EXCEPT !.repl = r] /\ hist' = {[d EXCEPT !.repl = r] : d \in hist}
    /\ Go(p, [procs[p] EXCEPT !.pc = "swap", !.val = Nothing])
    /\ UNCHANGED <<ring, fresh, ghosts>>

\* delete_secret_service_key with its error dropped.
MayDropKey(p) == ring' = ring \/ (procs[p].target = "ss" /\ ring' = {})

\* A write to the replacement fails: it is removed.
MigrateBuildFails(p) ==
    /\ At(p, "build")
    /\ MayDropKey(p)
    /\ Go(p, Off)
    /\ UNCHANGED <<disk, hist, fresh, ghosts>>

\* The state directory becomes the backup, whoever uses it and whatever was
\* written to it since the records were read.
MigrateAside(p) ==
    /\ At(p, "swap")
    /\ Change([disk EXCEPT !.bak = disk.state, !.state = NoTree])
    /\ Go(p, [procs[p] EXCEPT !.pc = "aside"])
    /\ Met(IF \/ \E q \in Procs \ {p} : procs[q].pc # "off"
              \/ \E n \in Names : disk.state.recs[n].val # procs[p].copy[n]
           THEN "swap" ELSE "none")
    /\ UNCHANGED <<ring, fresh, base, tried>>

MigrateInto(p) ==
    /\ At(p, "aside")
    /\ Change([disk EXCEPT !.state = disk.repl, !.repl = NoTree])
    /\ Go(p, [procs[p] EXCEPT !.pc = "swapped"])
    /\ UNCHANGED <<ring, fresh, ghosts>>

\* The second rename fails: the first is undone, or that fails too.
MigrateBack(p) ==
    /\ At(p, "aside")
    /\ Kept \/ Change([disk EXCEPT !.state = disk.bak, !.bak = NoTree])
    /\ MayDropKey(p)
    /\ Go(p, Off)
    /\ UNCHANGED <<fresh, ghosts>>

\* The parent directory is synced before the old key is given up.
MigrateSync(p) ==
    /\ At(p, "swapped") /\ Synced
    /\ Go(p, [procs[p] EXCEPT !.pc = IF procs[p].kind = "ss" THEN "dropkey" ELSE "drop"])
    /\ UNCHANGED <<ring, fresh, ghosts>>

\* delete_secret_service_key refuses a collection without exactly one key.
MigrateDropKey(p) ==
    /\ At(p, "dropkey") /\ Cardinality(ring) = 1
    /\ ring' = {}
    /\ Go(p, [procs[p] EXCEPT !.pc = "drop"])
    /\ UNCHANGED <<disk, hist, fresh, ghosts>>

MigrateEnd(p) ==
    /\ At(p, "drop")
    /\ LET d == [disk EXCEPT !.bak = NoTree] IN disk' = d /\ hist' = {d}
    /\ Go(p, Off)
    /\ UNCHANGED <<ring, fresh, ghosts>>

(***************************************************************************)
(* The system.                                                             *)
(***************************************************************************)
\* A process ends: killed, or by an error that open and migrate_provider
\* return to their caller.
Crash(p) ==
    /\ Followed /\ procs[p].pc # "off"
    /\ Go(p, Off)
    /\ UNCHANGED <<disk, hist, ring, fresh, ghosts>>

PowerLoss ==
    /\ Followed
    /\ procs' = [p \in Procs |-> Off]
    /\ \E d \in hist :
          \/ disk' = d /\ UNCHANGED unguarded
          \/ /\ disk' \in {[d EXCEPT !.state = NoTree], [d EXCEPT !.state.recs = NoTree.recs]}
             /\ Met("entry")
    /\ hist' = {disk'}
    /\ UNCHANGED <<ring, fresh, base, tried>>

Open(p) ==
    \/ \E asked \in {"auto", "file", "ss"} : Begin(p, asked, "none")
    \/ Load(p) \/ FirstRunRing(p) \/ CreateRingKey(p) \/ FirstRunFile(p)
    \/ WriteKeyFile(p) \/ SyncKeyFile(p) \/ WriteMarker(p) \/ SyncMarker(p) \/ Recover(p)

Use(p) ==
    \/ LoadOrCreateIdentity(p) \/ Bind(p) \/ \E v \in Values : Write(p, v)
    \/ Rename(p) \/ Delete(p) \/ Acknowledge(p) \/ WriteFails(p)

Migrate(p) ==
    \/ \E target \in {"file", "ss"} : Begin(p, "auto", target)
    \/ MigrateCopy(p) \/ MigrateBuild(p) \/ MigrateBuildFails(p) \/ MigrateAside(p)
    \/ MigrateInto(p) \/ MigrateBack(p) \/ MigrateSync(p) \/ MigrateDropKey(p) \/ MigrateEnd(p)

Next == PowerLoss \/ \E p \in Procs : Open(p) \/ Use(p) \/ Migrate(p) \/ Crash(p)

Spec == Init /\ [][Next]_vars

(***************************************************************************)
(* Properties.                                                             *)
(***************************************************************************)
\* What was acknowledged can be read, whenever the process or the machine
\* stops: on every disk a power loss may leave, the tree that is there (the
\* backup, between the two renames of a migration) designates a key that can
\* be had and opens each record to its last acknowledged content, or to one
\* whose write has begun since; the identity is the first that was saved.  The
\* exceptions are the situations of Followed: two first runs at once, the swap of
\* a migration meeting another process or a record written since it was copied,
\* and a power loss that takes the entry of records/.
AckedReadable ==
    Followed =>
        \A d \in hist, n \in Names :
            LET t == IF d.state.there THEN d.state ELSE d.bak
            IN Read(t, KeyOf(t, ring), n) \in {base[n]} \cup tried[n]

\* A daemon whose store is open holds what the disk designates: the provider of
\* the marker, its key, and the identity that every later start will load.  It
\* goes on doing so while a migration copies the records beside it, up to the
\* swap, which is an exception as long as the daemon is there.
HeldIsStored ==
    Followed =>
        \A p \in Procs : procs[p].pc \in {"bind", "run"} =>
            /\ procs[p].kind = disk.state.marker
            /\ procs[p].key = KeyOf(disk.state, ring)
            /\ procs[p].id = Read(disk.state, procs[p].key, "identity")

\* The provider chosen at the first run and its key file stay as they are until
\* a migration swaps the trees: a keyring that cannot be reached never makes an
\* open choose again.  (A power loss may return to an earlier disk.)
ProviderSticky ==
    [][Followed' /\ disk' \notin hist /\ (\A p \in Procs : procs[p].pc \notin {"swap", "aside"}) =>
          /\ disk.state.marker # "none" => disk'.state.marker = disk.state.marker
          /\ disk.state.key # 0 => disk'.state.key = disk.state.key]_vars

=============================================================================
