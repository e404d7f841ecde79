----------------------------- MODULE StateLease -----------------------------
(* The lease of one directory inode (go/state_lease.go,                    *)
(* go/state_lease_unix.go) and, when it is an ephemeral scratch directory, *)
(* its removal by its owner and by sweepers (go/ephemeral_state.go).       *)
(* Calls of several processes run in parallel; every system call is a      *)
(* step. Inside a process the admission table serialises them, between     *)
(* processes only flock on the lock file, which anyone may have to create  *)
(* and which the removal of a scratch directory unlinks.                   *)
EXTENDS Integers, FiniteSets

CONSTANTS
  Procs, Calls,
  ProcOf,      \* the process of a call
  Sweepers,    \* the calls of sweepStaleEphemeralStateScratch
  None

ASSUME LeaseAssumption ==
  /\ ProcOf \in [Calls -> Procs]
  /\ Sweepers \subseteq Calls
  /\ None \notin Calls

VARIABLES
  scratch,    \* an ephemeral scratch directory rather than the state root
  name,       \* the name of the inode: 0 its path, 1, 2.. moved, Gone
  young,      \* its modification time is less than the minimum age ago
  lockfile,   \* the inode of the lock file in it, 0 when there is none
  nextInode,
  pc, seen,   \* per call: its place, and the name it was given or listed
  fd,         \* per call: the lock-file inode it has opened, 0 when none
  locks,      \* the calls whose open file holds the flock of its inode
  admission,  \* per process: the call that reserved the inode, or None
  poisoned    \* the processes whose admission of the inode is poisoned

vars == <<scratch, name, young, lockfile, nextInode, pc, seen, fd, locks,
          admission, poisoned>>
directory == <<name, young, lockfile, nextInode>>
table == <<admission, poisoned>>

Gone == -1
At(c, l) == pc[c] = l
Goto(c, l) == pc' = [pc EXCEPT ![c] = l]
Proc(c) == ProcOf[c]
Admitted(c) == admission[Proc(c)] = c

\* A call that is refused the lease of a scratch that it has just created
\* removes the directory all the same.
Leave(c) == Goto(c, IF scratch /\ c \notin Sweepers THEN "drop" ELSE "done")

\* The state root, with or without a lock file of an earlier use; a scratch
\* that its owner has just created; or one whose owner is dead.
Init ==
  /\ scratch \in BOOLEAN /\ name = 0 /\ young \in BOOLEAN
  /\ lockfile \in {0, 1} /\ nextInode = 2
  /\ \E owner \in (Calls \ Sweepers) \cup {None} :
       /\ pc = [c \in Calls |-> IF c \in Sweepers \/ c = owner \/ ~scratch
                                THEN "idle" ELSE "done"]
       /\ scratch => /\ owner = None <=> lockfile = 1
                     /\ young <=> owner # None
  /\ seen = [c \in Calls |-> 0]
  /\ fd = [c \in Calls |-> 0] /\ locks = {}
  /\ admission = [p \in Procs |-> None] /\ poisoned = {}

-----------------------------------------------------------------------------
(* Acquisition.                                                            *)

\* A sweeper lists an old directory under its present name; any other call
\* is given the path, which for a scratch it has just created.
Locate(c) ==
  /\ At(c, "idle")
  /\ IF c \in Sweepers
     THEN scratch /\ name # Gone /\ ~young /\ seen' = [seen EXCEPT ![c] = name]
     ELSE UNCHANGED seen
  /\ Goto(c, "open")
  /\ UNCHANGED <<scratch, directory, fd, locks, table>>

\* The directory is opened, compared with what was located, and secured.
OpenRoot(c) ==
  /\ At(c, "open")
  /\ \/ name = seen[c] /\ Goto(c, "reserve")
     \/ Leave(c)
  /\ UNCHANGED <<scratch, directory, seen, fd, locks, table>>

\* reserveStateLeaseAdmission
ReserveAdmission(c) ==
  /\ At(c, "reserve")
  /\ \/ /\ admission[Proc(c)] = None /\ Proc(c) \notin poisoned
        /\ admission' = [admission EXCEPT ![Proc(c)] = c]
        /\ Goto(c, "openFile")
     \/ /\ admission[Proc(c)] # None \/ Proc(c) \in poisoned
        /\ Leave(c) /\ UNCHANGED admission
  /\ UNCHANGED <<scratch, directory, seen, fd, locks, poisoned>>

\* A variant: the error of openat is not looked at.
OpenFailsIgnored(c) == Goto(c, "lock")

OpenFails(c) == Goto(c, "abandon")

\* openat with O_CREAT, below the open directory; a removed one refuses.
OpenLockFile(c) ==
  /\ At(c, "openFile")
  /\ \/ /\ lockfile # 0
        /\ fd' = [fd EXCEPT ![c] = lockfile] /\ Goto(c, "lock")
        /\ UNCHANGED directory
     \/ /\ lockfile = 0 /\ name # Gone
        /\ lockfile' = nextInode /\ nextInode' = nextInode + 1
        /\ young' = TRUE
        /\ fd' = [fd EXCEPT ![c] = nextInode] /\ Goto(c, "lock")
        /\ UNCHANGED name
     \/ OpenFails(c) /\ UNCHANGED <<directory, fd>>
  /\ UNCHANGED <<scratch, seen, locks, table>>

LockFree(i) == \A d \in locks : fd[d] # i

\* A variant: the lock is taken shared.
LockShared(c) ==
  /\ At(c, "lock")
  /\ \/ locks' = locks \cup {c} /\ Goto(c, "verify")
     \/ Goto(c, "abandon") /\ UNCHANGED locks
  /\ UNCHANGED <<scratch, directory, seen, fd, table>>

\* flock without waiting. The check before it, that the lock file is still
\* the opened one, shows in the choice to abandon.
Lock(c) ==
  /\ At(c, "lock")
  /\ \/ LockFree(fd[c]) /\ locks' = locks \cup {c} /\ Goto(c, "verify")
     \/ Goto(c, "abandon") /\ UNCHANGED locks
  /\ UNCHANGED <<scratch, directory, seen, fd, table>>

\* Under the lock: the path still leads to this directory, and its lock file
\* is still the locked one.
StillNamed(c) == fd[c] = lockfile /\ name = seen[c]

Verify(c) ==
  /\ At(c, "verify")
  /\ \/ StillNamed(c) /\ Goto(c, "held")
     \/ Goto(c, "abandon")
  /\ UNCHANGED <<scratch, directory, seen, fd, locks, table>>

-----------------------------------------------------------------------------
(* Giving the lease back.                                                  *)

\* A variant: an uncertain cleanup frees the admission all the same.
FinishAdmissionFree(c, uncertain) ==
  /\ admission' = [admission EXCEPT ![Proc(c)] = None]
  /\ UNCHANGED poisoned

\* finishStateLeaseAdmission
FinishAdmission(c, uncertain) ==
  /\ admission' = [admission EXCEPT ![Proc(c)] = None]
  /\ poisoned' = IF uncertain THEN poisoned \cup {Proc(c)} ELSE poisoned

\* Unlock and close: closing drops the lock, and when both fail it may stay.
\* validate is the release-time check of a state root's paths.
GiveBack(c, validate) ==
  /\ \E uncertain \in BOOLEAN :
       /\ validate /\ ~StillNamed(c) => uncertain
       /\ locks' = locks \ {c} \/ (uncertain /\ UNCHANGED locks)
       /\ FinishAdmission(c, uncertain)
  /\ UNCHANGED <<scratch, directory, seen, fd>>

\* abandonStateLeaseAcquisition
Abandon(c) == At(c, "abandon") /\ GiveBack(c, FALSE) /\ Leave(c)

\* stateLease.Release, for a scratch after the attempt to remove it, which
\* the call that was refused the lease makes without one.
Release(c) ==
  /\ \/ At(c, "held") /\ ~scratch /\ GiveBack(c, TRUE)
     \/ At(c, "release") /\ Admitted(c) /\ GiveBack(c, FALSE)
     \/ At(c, "release") /\ ~Admitted(c)
        /\ UNCHANGED <<scratch, directory, seen, fd, locks, table>>
  /\ Goto(c, "done")

-----------------------------------------------------------------------------
(* Removal of a scratch directory.                                         *)

\* The attempt ends, with or without an error, and the lease is released.
GiveUp(c) == Goto(c, "release") /\ UNCHANGED directory

\* The exact inode is moved out of its active name.
Isolate(c) ==
  /\ At(c, "held") \/ At(c, "drop")
  /\ scratch
  /\ \/ /\ name = seen[c]
        /\ name' = seen[c] + 1 /\ seen' = [seen EXCEPT ![c] = seen[c] + 1]
        /\ Goto(c, "touch")
        /\ UNCHANGED <<young, lockfile, nextInode>>
     \/ GiveUp(c) /\ UNCHANGED seen
  /\ UNCHANGED <<scratch, fd, locks, table>>

\* The isolated directory is verified, and given a fresh modification time.
Touch(c) ==
  /\ At(c, "touch")
  /\ \/ /\ name = seen[c] /\ young' = TRUE /\ Goto(c, "unlink")
        /\ UNCHANGED <<name, lockfile, nextInode>>
     \/ GiveUp(c)
  /\ UNCHANGED <<scratch, seen, fd, locks, table>>

\* RemoveAll: the entries, the lock file among them; then the directory.
Unlink(c) ==
  /\ At(c, "unlink")
  /\ \/ /\ name = seen[c] /\ lockfile' = 0 /\ young' = TRUE /\ Goto(c, "rmdir")
        /\ UNCHANGED <<name, nextInode>>
     \/ GiveUp(c)
  /\ UNCHANGED <<scratch, seen, fd, locks, table>>

Rmdir(c) ==
  /\ At(c, "rmdir")
  /\ \/ /\ name = seen[c] /\ lockfile = 0
        /\ name' = Gone /\ Goto(c, "release")
        /\ UNCHANGED <<young, lockfile, nextInode>>
     \/ GiveUp(c)
  /\ UNCHANGED <<scratch, seen, fd, locks, table>>

-----------------------------------------------------------------------------
(* The environment.                                                        *)

Age ==
  /\ young /\ young' = FALSE
  /\ UNCHANGED <<scratch, name, lockfile, nextInode, pc, seen, fd, locks, table>>

\* Somebody moves the state root away under its lease.
ReplaceRoot ==
  /\ ~scratch /\ name = 0 /\ name' = 1
  /\ UNCHANGED <<scratch, young, lockfile, nextInode, pc, seen, fd, locks,
                 table>>

\* A process dies: the kernel closes its descriptors, its tables are gone.
Crash(p) ==
  /\ \E c \in Calls : Proc(c) = p /\ pc[c] # "done"
  /\ pc' = [c \in Calls |-> IF Proc(c) = p THEN "done" ELSE pc[c]]
  /\ locks' = {c \in locks : Proc(c) # p}
  /\ admission' = [admission EXCEPT ![p] = None]
  /\ poisoned' = poisoned \ {p}
  /\ UNCHANGED <<scratch, directory, seen, fd>>

Step(c) ==
  \/ Locate(c) \/ OpenRoot(c) \/ ReserveAdmission(c) \/ OpenLockFile(c)
  \/ Lock(c) \/ Verify(c) \/ Abandon(c) \/ Release(c)
  \/ Isolate(c) \/ Touch(c) \/ Unlink(c) \/ Rmdir(c)

Next ==
  \/ \E c \in Calls : Step(c)
  \/ \E p \in Procs : Crash(p)
  \/ Age \/ ReplaceRoot

Spec == Init /\ [][Next]_vars

-----------------------------------------------------------------------------
(* Properties.                                                             *)

Labels == {"idle", "open", "reserve", "openFile", "lock", "verify", "held",
           "drop", "touch", "unlink", "rmdir", "release", "abandon", "done"}

\* Where a call believes that it has the lease.
HoldingLabels == {"held", "touch", "unlink", "rmdir", "release"}

\* The variables have their types, and a lock is held through an open file.
TypeOK ==
  /\ scratch \in BOOLEAN /\ young \in BOOLEAN
  /\ name \in Int /\ lockfile \in Nat /\ nextInode \in Nat
  /\ pc \in [Calls -> Labels]
  /\ seen \in [Calls -> Int] /\ fd \in [Calls -> Nat]
  /\ locks \subseteq Calls /\ \A c \in locks : fd[c] \in 1 .. (nextInode - 1)
  /\ admission \in [Procs -> Calls \cup {None}] /\ poisoned \subseteq Procs

\* The calls that have the lease: they hold the lock of the directory's lock
\* file. The removal of a scratch gives the lease up where it unlinks it.
Holders ==
  {c \in Calls : pc[c] \in HoldingLabels /\ Admitted(c) /\ fd[c] = lockfile}

\* The lease passes from one call to the next like an abstract lock, whatever
\* processes create, lock, unlink and abandon in between.
Lease == INSTANCE RootLease WITH holders <- Holders
LeaseIsExclusive == Lease!Spec

\* A lock that a call still has is under its process's admission, or that
\* admission is poisoned: no uncertain cleanup lets a later call in.
LockIsAdmitted ==
  \A c \in locks : admission[Proc(c)] = c \/ Proc(c) \in poisoned

\* The state root keeps its lock file, so whoever believes to have its lease
\* has it; and the scratch of a live runtime is neither moved nor unlocked by
\* any sweeper, however old it is.
LiveRootIsKept ==
  \A c \in Calls :
    pc[c] = "held" /\ (scratch => c \notin Sweepers)
      => fd[c] = lockfile /\ (scratch => name = seen[c])

\* What a lease is worth to its owner.
LeaseIsSound == LockIsAdmitted /\ LiveRootIsKept
=============================================================================
