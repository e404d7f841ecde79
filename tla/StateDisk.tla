----------------------------- MODULE StateDisk -----------------------------
(***************************************************************************)
(* The state directory on disk: the encrypted envelope                     *)
(* (go/encrypted_state_store.go), its layout inspection                    *)
(* (go/secure_state_layout.go) and the durable reset                       *)
(* (go/state_reset_fs_unix.go), system call by system call, with failing   *)
(* calls, process deaths and power losses.                                 *)
(*                                                                         *)
(* One owner of the state lease runs at a time, so the steps of `pc` are   *)
(* sequential. A directory entry changed since the last fsync of its       *)
(* directory may be found old or new after a power loss, independently of  *)
(* the others; file contents not fsynced may be torn. The state root is    *)
(* never replaced by somebody else (what the root checks guard against).   *)
(***************************************************************************)
EXTENDS Integers, FiniteSets

CONSTANTS MaxKey,     \* bound on keys generated: provisionings
          MaxVersion, \* bound on envelope versions of one key
          MaxCrashes  \* bound on process deaths and power losses

ASSUME BoundAssumption == MaxKey \in Nat /\ MaxVersion \in Nat /\ MaxCrashes \in Nat

Torn == -1
File == [key : 0 .. MaxKey, v : Torn .. MaxVersion, synced : BOOLEAN]
NoFile == [key |-> 0, v |-> 0, synced |-> TRUE]
Plain == [key |-> 0, v |-> 1, synced |-> TRUE] \* a directory, a valid marker

RootEntries == {"marker", "markerTemp", "dir"}
StateEntries == {"env", "temp"}
Entries == RootEntries \cup StateEntries

VARIABLES
  pc,       \* the next system call of the process, or "idle"
  mem,      \* the entries as every running process sees them
  old,      \* per entry, what a power loss may bring back instead
  keybay,   \* the DEK in Keybay, 0 when there is none
  lastKey,  \* keys generated so far
  cache,    \* the version an open store holds in memory, 0 when closed
  restoring,\* the marker is being restored after a failed completion
  crashes,  \* deaths and losses so far
  acked,    \* history: the newest version acknowledged as durable
  forgot,   \* history: the last reset succeeded and nothing was stored since
  faulted   \* history: a system call failed, or the process died

disk == <<mem, old>>
history == <<acked, forgot, faulted>>
vars == <<pc, disk, keybay, lastKey, cache, restoring, crashes, history>>

Init ==
  /\ pc = "idle"
  /\ mem = [e \in Entries |-> NoFile]
  /\ old = [e \in Entries |-> {}]
  /\ keybay = 0 /\ lastKey = 0 /\ cache = 0
  /\ restoring = FALSE /\ crashes = 0
  /\ acked = 0 /\ forgot = FALSE /\ faulted = FALSE

-----------------------------------------------------------------------------
(* The file system.                                                        *)

Exists(e) == mem[e].v # 0

\* A directory operation: several entries change in one call.
Change(new) ==
  /\ mem' = [e \in Entries |-> IF e \in DOMAIN new THEN new[e] ELSE mem[e]]
  /\ old' = [e \in Entries |-> IF e \in DOMAIN new THEN old[e] \cup {mem[e]} ELSE old[e]]

Create(e, f) == Change([x \in {e} |-> f])
Unlink(e) == Change([x \in {e} |-> NoFile])
Rename(from, to) == Change([x \in {from, to} |-> IF x = to THEN mem[from] ELSE NoFile])

\* fsync of a file, and of a directory.
SyncFile(e) == mem' = [mem EXCEPT ![e].synced = TRUE] /\ UNCHANGED old
SyncDir(entries) ==
  /\ old' = [e \in Entries |-> IF e \in entries THEN {} ELSE old[e]]
  /\ UNCHANGED mem

AfterLoss(f) == IF f.synced THEN {f} ELSE {[f EXCEPT !.synced = TRUE],
                                           [f EXCEPT !.v = Torn, !.synced = TRUE]}

MayBecome(e) == UNION {AfterLoss(f) : f \in old[e] \cup {mem[e]}}

\* Every disk that a power loss at this instant may leave behind.
PossibleDisks ==
  {[marker |-> m, markerTemp |-> mt, dir |-> d,
    env |-> IF d.v = 0 THEN NoFile ELSE e,
    temp |-> IF d.v = 0 THEN NoFile ELSE t] :
      m \in MayBecome("marker"), mt \in MayBecome("markerTemp"), d \in MayBecome("dir"),
      e \in MayBecome("env"), t \in MayBecome("temp")}

-----------------------------------------------------------------------------
(* Control. A call succeeds and goes on, or fails and takes its error path *)

Goto(p) == pc' = p

Fails(p) == Goto(p) /\ faulted' = TRUE

Rest == <<lastKey, restoring, crashes, acked, forgot>>

\* A call that succeeds with the given effect on the disk.
Call(at, effect, next) ==
  /\ pc = at /\ effect /\ Goto(next)
  /\ UNCHANGED <<keybay, cache, faulted, Rest>>

\* A call that fails and changes nothing.
Error(at, next) ==
  /\ pc = at /\ Fails(next)
  /\ UNCHANGED <<disk, keybay, cache, Rest>>

-----------------------------------------------------------------------------
(* Start: inspection, then opening or provisioning.                        *)

\* inspectPersistentStateLayout: the one residue it may remove.
InspectTemp ==
  \/ pc = "idle" /\ ~Exists("marker") /\ Exists("dir") /\ Exists("temp")
     /\ Call("idle", Unlink("temp"), "inspectSync")
  \/ Call("inspectSync", SyncDir(StateEntries), "idle")
  \/ Error("inspectSync", "idle")

Intact(f) == f.v > 0

\* The envelope is there and the key in Keybay opens it.
Open ==
  /\ pc = "idle" /\ ~Exists("marker") /\ Exists("dir") /\ ~Exists("temp")
  /\ Intact(mem["env"]) /\ mem["env"].key = keybay
  /\ cache' = mem["env"].v
  /\ Goto("running")
  /\ UNCHANGED <<disk, keybay, lastKey, restoring, crashes, history>>

\* Nothing is stored anywhere: a fresh key is committed first.
Provision ==
  /\ pc = "idle" /\ ~Exists("marker") /\ ~Exists("dir") /\ keybay = 0
  /\ lastKey < MaxKey
  /\ lastKey' = lastKey + 1
  /\ keybay' = lastKey + 1
  /\ forgot' = FALSE
  /\ Goto("mkdir")
  /\ UNCHANGED <<disk, cache, restoring, crashes, acked, faulted>>

\* createEncryptedStateStore: the directory, made durable in its parent.
CreateDirectory ==
  \/ Call("mkdir", Create("dir", Plain), "syncParent")
  \/ Error("mkdir", "unmake")
  \/ Call("syncParent", SyncDir(RootEntries), "write")
  \/ Error("syncParent", "unmake")

\* cleanupFreshEncryptedStateDirectory, then compensation of the key.
RemoveFresh ==
  \/ pc = "unmake" /\ ~Exists("temp") /\ Call("unmake", Unlink("dir"), "unmakeSync")
  \/ Error("unmake", "compensate")
  \/ Call("unmakeSync", SyncDir(RootEntries), "compensate")
  \/ Error("unmakeSync", "compensate")

\* deleteStateStoreDek for an envelope that was never committed; a failed
\* compensation poisons the process.
CompensateKey ==
  \/ /\ pc = "compensate"
     /\ keybay' = 0
     /\ Goto("idle")
     /\ UNCHANGED <<disk, cache, faulted, Rest>>
  \/ Error("compensate", "poisoned")

-----------------------------------------------------------------------------
(* persistEnvelopeLocked, for the first envelope and every WriteState.     *)

\* WriteState: an open store, whose cache it clones.
WriteState ==
  /\ pc = "running" /\ cache < MaxVersion
  /\ Goto("write")
  /\ UNCHANGED <<disk, keybay, cache, faulted, Rest>>

Close ==
  /\ pc = "running"
  /\ cache' = 0
  /\ Goto("idle")
  /\ UNCHANGED <<disk, keybay, lastKey, restoring, crashes, history>>

\* Where a failed write returns to: only the initial one has no store yet.
AfterFailedWrite == IF cache = 0 THEN "unmake" ELSE "running"

\* A variant: a version is skipped.
NewEnvelopeSkips == [key |-> keybay, v |-> cache + 2, synced |-> FALSE]

\* commitCandidateLocked: the clone of the cache with one change, sealed.
NewEnvelope == [key |-> keybay, v |-> cache + 1, synced |-> FALSE]

\* O_EXCL: a temporary file that could not be removed refuses every later write.
WriteTemp ==
  \/ pc = "write" /\ ~Exists("temp") /\ Call("write", Create("temp", NewEnvelope), "syncTemp")
  \/ Error("write", AfterFailedWrite)

SyncTemp ==
  \/ Call("syncTemp", SyncFile("temp"), "rename")
  \/ Error("syncTemp", "dropTemp")

DropTemp ==
  \/ Call("dropTemp", Unlink("temp"), AfterFailedWrite)
  \/ Error("dropTemp", AfterFailedWrite)

\* The rename is the commit point: the cache is published with it.
Commit ==
  \/ /\ pc = "rename"
     /\ Rename("temp", "env")
     /\ cache' = cache + 1
     /\ Goto("syncDir")
     /\ UNCHANGED <<keybay, faulted, Rest>>
  \/ Error("rename", "dropTemp")

\* A variant: the write is acknowledged as durable before the sync.
SyncDirectoryIgnored ==
  /\ pc = "syncDir"
  /\ acked' = cache
  /\ Goto("running")
  /\ UNCHANGED <<disk, keybay, lastKey, cache, restoring, crashes, forgot, faulted>>

\* The sync of the directory; its failure is only a diagnostic.
SyncDirectory ==
  \/ /\ pc = "syncDir"
     /\ SyncDir(StateEntries)
     /\ acked' = cache
     /\ Goto("running")
     /\ UNCHANGED <<keybay, lastKey, cache, restoring, crashes, forgot, faulted>>
  \/ Error("syncDir", "running")

-----------------------------------------------------------------------------
(* Reset.                                                                  *)

\* BeginLocalReset closes the runtime it finds and keeps its lease.
BeginReset ==
  /\ pc \in {"idle", "running"}
  /\ cache' = 0
  /\ forgot' = FALSE
  /\ Goto(IF Intact(mem["marker"]) THEN "syncMarker" ELSE "staleTemp")
  /\ UNCHANGED <<disk, keybay, lastKey, restoring, crashes, acked, faulted>>

EndReset == Goto("idle") /\ restoring' = FALSE

\* A call of the reset that fails: the reset is incomplete.
ResetError(at) ==
  /\ pc = at /\ faulted' = TRUE
  /\ EndReset
  /\ UNCHANGED <<disk, keybay, lastKey, cache, crashes, acked, forgot>>

\* replaceMarker
ReplaceMarker ==
  \/ Exists("markerTemp") /\ Call("staleTemp", Unlink("markerTemp"), "markerTemp")
  \/ ~Exists("markerTemp") /\ Call("staleTemp", UNCHANGED disk, "markerTemp")
  \/ ResetError("staleTemp")
  \/ Call("markerTemp", Create("markerTemp", [Plain EXCEPT !.synced = FALSE]), "syncMarkerTemp")
  \/ ResetError("markerTemp")
  \/ Call("syncMarkerTemp", SyncFile("markerTemp"), "renameMarker")
  \/ Error("syncMarkerTemp", "dropMarkerTemp")
  \/ Call("renameMarker", Rename("markerTemp", "marker"), "syncMarker")
  \/ Error("renameMarker", "dropMarkerTemp")
  \/ pc = "dropMarkerTemp" /\ Unlink("markerTemp") /\ EndReset
     /\ UNCHANGED <<keybay, lastKey, cache, crashes, history>>
  \/ ResetError("dropMarkerTemp")

\* The rest of ensureDurableMarker, and of replaceAndCommitMarker.
CommitMarker ==
  \/ Call("syncMarker", SyncFile("marker"), "syncMarkerRoot")
  \/ ResetError("syncMarker")
  \/ ~restoring /\ Call("syncMarkerRoot", SyncDir(RootEntries), "deleteKey")
  \/ restoring /\ pc = "syncMarkerRoot" /\ SyncDir(RootEntries) /\ EndReset
     /\ UNCHANGED <<keybay, lastKey, cache, crashes, history>>
  \/ ResetError("syncMarkerRoot")

\* Keybay deletes the key; an error leaves open whether it did.
DeleteKey ==
  \/ /\ pc = "deleteKey"
     /\ keybay' = 0 /\ acked' = 0
     /\ Goto("removeState")
     /\ UNCHANGED <<disk, lastKey, cache, restoring, crashes, forgot, faulted>>
  \/ /\ pc = "deleteKey"
     /\ keybay' \in {0, keybay}
     /\ acked' = IF keybay' = 0 THEN 0 ELSE acked
     /\ faulted' = TRUE
     /\ EndReset
     /\ UNCHANGED <<disk, lastKey, cache, crashes, forgot>>

\* A variant: the emptied directory stays.
RemoveSubtreeKeepsDirectory ==
  \/ ~Exists("dir") /\ Call("removeState", UNCHANGED disk, "syncRemoval")
  \/ Exists("dir") /\ \E e \in StateEntries :
       Exists(e) /\ Call("removeState", Unlink(e), "removeState")
  \/ /\ Exists("dir") /\ \A e \in StateEntries : ~Exists(e)
     /\ Call("removeState", SyncDir(StateEntries), "syncRemoval")
  \/ ResetError("removeState")

\* removeOwnedStateSubtree, in any order of the entries.
RemoveSubtree ==
  \/ ~Exists("dir") /\ Call("removeState", UNCHANGED disk, "syncRemoval")
  \/ Exists("dir") /\ \E e \in StateEntries :
       Exists(e) /\ Call("removeState", Unlink(e), "removeState")
  \/ /\ Exists("dir") /\ \A e \in StateEntries : ~Exists(e)
     /\ Call("removeState", SyncDir(StateEntries), "rmdir")
  \/ ResetError("removeState")
  \/ Call("rmdir", Unlink("dir"), "syncRemoval")
  \/ ResetError("rmdir")

\* The sync of the removal in completeAfterCustodyDeletion.
SyncRemoval ==
  \/ Call("syncRemoval", SyncDir(RootEntries), "unmark")
  \/ ResetError("syncRemoval")

\* A variant: success is reported although the sync failed.
RemoveMarkerUnsynced ==
  \/ Call("unmark", Unlink("marker"), "syncUnmark")
  \/ ResetError("unmark")
  \/ /\ pc = "syncUnmark" /\ forgot' = TRUE /\ EndReset
     /\ UNCHANGED <<disk, keybay, lastKey, cache, crashes, acked, faulted>>

\* The marker goes last. When its removal cannot be made durable it is put
\* back, and the reset is reported as incomplete.
RemoveMarker ==
  \/ Call("unmark", Unlink("marker"), "syncUnmark")
  \/ ResetError("unmark")
  \/ /\ pc = "syncUnmark" /\ SyncDir(RootEntries)
     /\ forgot' = TRUE
     /\ EndReset
     /\ UNCHANGED <<keybay, lastKey, cache, crashes, acked, faulted>>
  \/ /\ pc = "syncUnmark" /\ Fails("staleTemp")
     /\ restoring' = TRUE
     /\ UNCHANGED <<disk, keybay, lastKey, cache, crashes, acked, forgot>>

-----------------------------------------------------------------------------
(* Deaths.                                                                 *)

Dies ==
  /\ crashes < MaxCrashes
  /\ crashes' = crashes + 1
  /\ pc' = "idle" /\ cache' = 0 /\ restoring' = FALSE /\ faulted' = TRUE
  /\ UNCHANGED <<keybay, lastKey, acked, forgot>>

\* The process dies; the kernel keeps what it was told.
Crash == Dies /\ UNCHANGED disk

PowerLoss ==
  /\ Dies
  /\ mem' \in PossibleDisks
  /\ old' = [e \in Entries |-> {}]

Start == InspectTemp \/ Open \/ Provision \/ CreateDirectory \/ RemoveFresh \/ CompensateKey
Store == WriteState \/ Close \/ WriteTemp \/ SyncTemp \/ DropTemp \/ Commit \/ SyncDirectory
Reset == BeginReset \/ ReplaceMarker \/ CommitMarker \/ DeleteKey \/ RemoveSubtree
         \/ SyncRemoval \/ RemoveMarker

Next == Start \/ Store \/ Reset \/ Crash \/ PowerLoss

Spec == Init /\ [][Next]_vars

-----------------------------------------------------------------------------
(* Properties.                                                             *)

\* The variables have their types.
TypeOK ==
  /\ mem \in [Entries -> File] /\ old \in [Entries -> SUBSET File]
  /\ keybay \in 0 .. MaxKey /\ lastKey \in 0 .. MaxKey
  /\ cache \in 0 .. MaxVersion /\ acked \in 0 .. MaxVersion
  /\ crashes \in 0 .. MaxCrashes
  /\ pc \in STRING /\ restoring \in BOOLEAN /\ forgot \in BOOLEAN /\ faulted \in BOOLEAN

\* No power loss leaves a torn envelope: only fsynced contents are renamed.
EnvelopeNeverTorn ==
  \A d \in PossibleDisks : d["env"].v # Torn

\* A WriteState that reported no durability diagnostic survives every power
\* loss, until a reset with a durable marker removes it.
AcknowledgedWritesSurvive ==
  acked > 0 =>
    \A d \in PossibleDisks :
      d["marker"].v # 0 \/ (d["env"].key = keybay /\ d["env"].v >= acked)

\* Whatever a power loss leaves, an envelope without its key in Keybay lies
\* under a reset marker: marker before key deletion, files before marker, each
\* made durable before the next.
UnkeyedLiesUnderMarker ==
  \A d \in PossibleDisks :
    d["env"].v # 0 => d["env"].key = keybay \/ d["marker"].v # 0

\* Once forgetLocalIdentity succeeded, no power loss brings the identity or
\* the marker back.
ForgottenForGood ==
  forgot => keybay = 0 /\ \A d \in PossibleDisks : d["dir"].v = 0 /\ d["marker"].v = 0

\* Whatever a power loss leaves can be recovered from: an envelope is whole,
\* has its key or lies under a marker, and what was forgotten stays gone.
PowerLossIsRecoverable ==
  EnvelopeNeverTorn /\ UnkeyedLiesUnderMarker /\ ForgottenForGood

\* An open store's cache is the envelope that every process sees.
CacheIsEnvelope ==
  cache > 0 => mem["env"].v = cache /\ mem["env"].key = keybay

\* What WriteState and ReadState tell tsnet is true of the disk.
StoreIsHonest == AcknowledgedWritesSurvive /\ CacheIsEnvelope

Startable ==
  \/ ~Exists("marker") /\ ~Exists("dir") /\ keybay = 0
  \/ /\ ~Exists("marker") /\ Exists("dir") /\ ~Exists("temp")
     /\ Intact(mem["env"]) /\ mem["env"].key = keybay

\* Without a failed call or a death the next start is never refused.
RefusedOnlyAfterFault ==
  pc = "idle" /\ ~faulted => Startable
=============================================================================
