-------------------------- MODULE StateLease_proofs --------------------------
(* The lease of StateLease is the abstract lock RootLease, and is sound for *)
(* its owner, for any processes, calls and sweepers.                       *)
EXTENDS StateLease, TLAPS

-----------------------------------------------------------------------------
(* The inductive invariant.                                                *)

\* The labels under which a call has reserved the admission.
ReservedLabels == {"openFile", "lock", "verify", "held", "abandon"}

\* The labels at which a call may have taken the lock.
LockedLabels == {"verify", "abandon", "drop", "done"} \cup HoldingLabels

\* A reservation is kept until the lease is given back.
AdmissionIsKept ==
  \A c \in Calls : pc[c] \in ReservedLabels => Admitted(c)

\* Who got past flock and was not refused holds it, with the lock file open.
LockIsKept ==
  /\ \A c \in Calls : pc[c] = "verify" => c \in locks
  /\ \A c \in Calls : pc[c] \in HoldingLabels /\ Admitted(c) => c \in locks
  /\ \A c \in locks : pc[c] \in LockedLabels
  /\ \A c \in Calls : pc[c] = "lock" => fd[c] # 0
  /\ \A c \in Calls :
       pc[c] \in {"idle", "open", "reserve", "drop", "done"} => ~Admitted(c)

\* flock gives an inode to one open file at a time, and inodes are not
\* reused while a descriptor refers to them.
LockIsExclusive ==
  /\ lockfile < nextInode
  /\ \A c \in Calls : fd[c] < nextInode
  /\ \A c, d \in locks : fd[c] = fd[d] => c = d

\* A call still on the way to the lease of its own directory, or with it.
Owning(c) ==
  /\ c \notin Sweepers
  /\ pc[c] \in {"idle", "open", "reserve", "openFile", "lock", "verify",
                "held", "abandon"}

\* While the directory is a state root, or a scratch whose owner has not
\* given it up, the lock file is the one that any holder has locked.
LockFileIsKept ==
  \A d \in Calls :
    /\ pc[d] \in {"held", "touch", "unlink"}
    /\ ~scratch \/ \E c \in Calls : Owning(c)
    => Admitted(d) /\ fd[d] = lockfile

\* A scratch has one owner, and only its owner removes it without a lease.
ScratchHasOneOwner ==
  /\ \A c \in Calls : pc[c] = "drop" => scratch /\ c \notin Sweepers
  /\ scratch => \A c, d \in Calls \ Sweepers :
                  pc[c] # "done" /\ pc[d] # "done" => c = d

LeaseInv ==
  /\ TypeOK /\ AdmissionIsKept /\ LockIsKept /\ LockIsExclusive
  /\ LockFileIsKept /\ ScratchHasOneOwner /\ LeaseIsSound

USE LeaseAssumption DEF Labels, HoldingLabels, ReservedLabels, LockedLabels

-----------------------------------------------------------------------------
(* Induction.                                                              *)

\* The initial states satisfy the invariant.
LEMMA InitInv == Init => LeaseInv
PROOF
  BY DEF Init, LeaseInv, TypeOK, AdmissionIsKept, LockIsKept, LockIsExclusive,
         LockFileIsKept, Owning, ScratchHasOneOwner, LeaseIsSound, LockIsAdmitted,
         LiveRootIsKept, Admitted, Proc

(* Locate only moves the call on.                                          *)
LEMMA LocateInv == ASSUME LeaseInv, NEW c \in Calls, Locate(c) PROVE LeaseInv'
<1> USE DEF LeaseInv, TypeOK, Locate, At, Goto, directory, table,
            Admitted, Proc
<1>1. TypeOK'
  BY DEF LockIsExclusive
<1>2. AdmissionIsKept'
  BY DEF AdmissionIsKept
<1>3. LockIsKept'
  BY DEF LockIsKept, AdmissionIsKept, LockIsExclusive
<1>4. LockIsExclusive'
  BY DEF LockIsExclusive, LockIsKept
<1>5. LockFileIsKept'
  BY DEF LockFileIsKept, Owning, LockIsKept, LockIsExclusive, AdmissionIsKept,
         ScratchHasOneOwner
<1>6. ScratchHasOneOwner'
  BY DEF ScratchHasOneOwner
<1>7. LeaseIsSound'
  BY DEF LeaseIsSound, LockIsAdmitted, LiveRootIsKept, LockFileIsKept, Owning,
         LockIsKept, LockIsExclusive, AdmissionIsKept, ScratchHasOneOwner
<1> QED BY <1>1, <1>2, <1>3, <1>4, <1>5, <1>6, <1>7 DEF LeaseInv

(* OpenRoot moves the call on, or to the removal of its own scratch.       *)
LEMMA OpenRootInv == ASSUME LeaseInv, NEW c \in Calls, OpenRoot(c) PROVE LeaseInv'
<1> USE DEF LeaseInv, TypeOK, OpenRoot, Leave, At, Goto, directory, table,
            Admitted, Proc
<1>1. TypeOK'
  BY DEF LockIsExclusive
<1>2. AdmissionIsKept'
  BY DEF AdmissionIsKept
<1>3. LockIsKept'
  BY DEF LockIsKept, AdmissionIsKept, LockIsExclusive
<1>4. LockIsExclusive'
  BY DEF LockIsExclusive, LockIsKept
<1>5. LockFileIsKept'
  BY DEF LockFileIsKept, Owning, LockIsKept, LockIsExclusive, AdmissionIsKept,
         ScratchHasOneOwner
<1>6. ScratchHasOneOwner'
  BY DEF ScratchHasOneOwner
<1>7. LeaseIsSound'
  BY DEF LeaseIsSound, LockIsAdmitted, LiveRootIsKept, LockFileIsKept, Owning,
         LockIsKept, LockIsExclusive, AdmissionIsKept, ScratchHasOneOwner
<1> QED BY <1>1, <1>2, <1>3, <1>4, <1>5, <1>6, <1>7 DEF LeaseInv

(* A reservation is made when nobody of the process has one.               *)
LEMMA ReserveAdmissionInv == ASSUME LeaseInv, NEW c \in Calls, ReserveAdmission(c) PROVE LeaseInv'
<1> USE DEF LeaseInv, TypeOK, ReserveAdmission, Leave, At, Goto, directory, table,
            Admitted, Proc
<1>1. TypeOK'
  BY DEF LockIsExclusive
<1>2. AdmissionIsKept'
  BY DEF AdmissionIsKept
<1>3. LockIsKept'
  BY DEF LockIsKept, AdmissionIsKept, LockIsExclusive
<1>4. LockIsExclusive'
  BY DEF LockIsExclusive, LockIsKept
<1>5. LockFileIsKept'
  BY DEF LockFileIsKept, Owning, LockIsKept, LockIsExclusive, AdmissionIsKept,
         ScratchHasOneOwner
<1>6. ScratchHasOneOwner'
  BY DEF ScratchHasOneOwner
<1>7. LeaseIsSound'
  BY DEF LeaseIsSound, LockIsAdmitted, LiveRootIsKept, LockFileIsKept, Owning,
         LockIsKept, LockIsExclusive, AdmissionIsKept, ScratchHasOneOwner
<1> QED BY <1>1, <1>2, <1>3, <1>4, <1>5, <1>6, <1>7 DEF LeaseInv

(* A lock file is created only where there was none: nobody held the lease.*)
LEMMA OpenLockFileInv == ASSUME LeaseInv, NEW c \in Calls, OpenLockFile(c) PROVE LeaseInv'
<1> USE DEF LeaseInv, TypeOK, OpenLockFile, OpenFails, At, Goto, directory, table,
            Admitted, Proc
<1>1. TypeOK'
  <2>1. young' \in BOOLEAN
    BY Zenon
  <2> QED BY <2>1 DEF LockIsExclusive
<1>2. AdmissionIsKept'
  BY DEF AdmissionIsKept
<1>3. LockIsKept'
  BY DEF LockIsKept, AdmissionIsKept, LockIsExclusive
<1>4. LockIsExclusive'
  BY DEF LockIsExclusive, LockIsKept
<1>5. LockFileIsKept'
  BY DEF LockFileIsKept, Owning, LockIsKept, LockIsExclusive, AdmissionIsKept,
         ScratchHasOneOwner
<1>6. ScratchHasOneOwner'
  BY DEF ScratchHasOneOwner
<1>7. LeaseIsSound'
  BY DEF LeaseIsSound, LockIsAdmitted, LiveRootIsKept, LockFileIsKept, Owning,
         LockIsKept, LockIsExclusive, AdmissionIsKept, ScratchHasOneOwner
<1> QED BY <1>1, <1>2, <1>3, <1>4, <1>5, <1>6, <1>7 DEF LeaseInv

(* The lock is taken only when no open file has it.                        *)
LEMMA LockInv == ASSUME LeaseInv, NEW c \in Calls, Lock(c) PROVE LeaseInv'
<1> USE DEF LeaseInv, TypeOK, Lock, LockFree, At, Goto, directory, table,
            Admitted, Proc
<1>1. TypeOK'
  BY DEF LockIsExclusive, LockIsKept
<1>2. AdmissionIsKept'
  BY DEF AdmissionIsKept
<1>3. LockIsKept'
  BY DEF LockIsKept, AdmissionIsKept, LockIsExclusive
<1>4. LockIsExclusive'
  BY DEF LockIsExclusive, LockIsKept
<1>5. LockFileIsKept'
  BY DEF LockFileIsKept, Owning, LockIsKept, LockIsExclusive, AdmissionIsKept,
         ScratchHasOneOwner
<1>6. ScratchHasOneOwner'
  BY DEF ScratchHasOneOwner
<1>7. LeaseIsSound'
  BY DEF LeaseIsSound, LockIsAdmitted, LiveRootIsKept, LockFileIsKept, Owning,
         LockIsKept, LockIsExclusive, AdmissionIsKept, ScratchHasOneOwner
<1> QED BY <1>1, <1>2, <1>3, <1>4, <1>5, <1>6, <1>7 DEF LeaseInv

(* Who finds its lock file in place is the one holder.                     *)
LEMMA VerifyInv == ASSUME LeaseInv, NEW c \in Calls, Verify(c) PROVE LeaseInv'
<1> USE DEF LeaseInv, TypeOK, Verify, StillNamed, At, Goto, directory, table,
            Admitted, Proc
<1>1. TypeOK'
  BY DEF LockIsExclusive
<1>2. AdmissionIsKept'
  BY DEF AdmissionIsKept
<1>3. LockIsKept'
  BY DEF LockIsKept, AdmissionIsKept, LockIsExclusive
<1>4. LockIsExclusive'
  BY DEF LockIsExclusive, LockIsKept
<1>5. LockFileIsKept'
  BY DEF LockFileIsKept, Owning, LockIsKept, LockIsExclusive, AdmissionIsKept,
         ScratchHasOneOwner
<1>6. ScratchHasOneOwner'
  BY DEF ScratchHasOneOwner
<1>7. LeaseIsSound'
  BY DEF LeaseIsSound, LockIsAdmitted, LiveRootIsKept, LockFileIsKept, Owning,
         LockIsKept, LockIsExclusive, AdmissionIsKept, ScratchHasOneOwner
<1> QED BY <1>1, <1>2, <1>3, <1>4, <1>5, <1>6, <1>7 DEF LeaseInv

(* A lock that survives its release poisons the admission.                 *)
LEMMA AbandonInv == ASSUME LeaseInv, NEW c \in Calls, Abandon(c) PROVE LeaseInv'
<1> USE DEF LeaseInv, TypeOK, Abandon, GiveBack, FinishAdmission, Leave, At, Goto, directory, table,
            Admitted, Proc
<1>1. TypeOK'
  BY DEF LockIsExclusive
<1>2. AdmissionIsKept'
  BY DEF AdmissionIsKept
<1>3. LockIsKept'
  BY DEF LockIsKept, AdmissionIsKept, LockIsExclusive
<1>4. LockIsExclusive'
  BY DEF LockIsExclusive, LockIsKept
<1>5. LockFileIsKept'
  BY DEF LockFileIsKept, Owning, LockIsKept, LockIsExclusive, AdmissionIsKept,
         ScratchHasOneOwner
<1>6. ScratchHasOneOwner'
  BY DEF ScratchHasOneOwner
<1>7. LeaseIsSound'
  BY DEF LeaseIsSound, LockIsAdmitted, LiveRootIsKept, LockFileIsKept, Owning,
         LockIsKept, LockIsExclusive, AdmissionIsKept, ScratchHasOneOwner
<1> QED BY <1>1, <1>2, <1>3, <1>4, <1>5, <1>6, <1>7 DEF LeaseInv

(* So does one that survives a regular release.                            *)
LEMMA ReleaseInv == ASSUME LeaseInv, NEW c \in Calls, Release(c) PROVE LeaseInv'
<1> USE DEF LeaseInv, TypeOK, Release, GiveBack, FinishAdmission, At, Goto, directory, table,
            Admitted, Proc
<1>1. TypeOK'
  BY DEF LockIsExclusive
<1>2. AdmissionIsKept'
  BY DEF AdmissionIsKept
<1>3. LockIsKept'
  BY DEF LockIsKept, AdmissionIsKept, LockIsExclusive
<1>4. LockIsExclusive'
  BY DEF LockIsExclusive, LockIsKept
<1>5. LockFileIsKept'
  BY DEF LockFileIsKept, Owning, LockIsKept, LockIsExclusive, AdmissionIsKept,
         ScratchHasOneOwner
<1>6. ScratchHasOneOwner'
  BY DEF ScratchHasOneOwner
<1>7. LeaseIsSound'
  BY DEF LeaseIsSound, LockIsAdmitted, LiveRootIsKept, LockFileIsKept, Owning,
         LockIsKept, LockIsExclusive, AdmissionIsKept, ScratchHasOneOwner
<1> QED BY <1>1, <1>2, <1>3, <1>4, <1>5, <1>6, <1>7 DEF LeaseInv

(* Only the holder, or an owner without a lease, moves the directory.      *)
LEMMA IsolateInv == ASSUME LeaseInv, NEW c \in Calls, Isolate(c) PROVE LeaseInv'
<1> USE DEF LeaseInv, TypeOK, Isolate, GiveUp, At, Goto, directory, table,
            Admitted, Proc
<1>1. TypeOK'
  BY DEF LockIsExclusive
<1>2. AdmissionIsKept'
  BY DEF AdmissionIsKept
<1>3. LockIsKept'
  BY DEF LockIsKept, AdmissionIsKept, LockIsExclusive
<1>4. LockIsExclusive'
  BY DEF LockIsExclusive, LockIsKept
<1>5. LockFileIsKept'
  BY DEF LockFileIsKept, Owning, LockIsKept, LockIsExclusive, AdmissionIsKept,
         ScratchHasOneOwner
<1>6. ScratchHasOneOwner'
  BY DEF ScratchHasOneOwner
<1>7. LeaseIsSound'
  BY DEF LeaseIsSound, LockIsAdmitted, LiveRootIsKept, LockFileIsKept, Owning,
         LockIsKept, LockIsExclusive, AdmissionIsKept, ScratchHasOneOwner
<1> QED BY <1>1, <1>2, <1>3, <1>4, <1>5, <1>6, <1>7 DEF LeaseInv

(* Touch changes the age alone.                                            *)
LEMMA TouchInv == ASSUME LeaseInv, NEW c \in Calls, Touch(c) PROVE LeaseInv'
<1> USE DEF LeaseInv, TypeOK, Touch, GiveUp, At, Goto, directory, table,
            Admitted, Proc
<1>1. TypeOK'
  BY Zenon DEF LockIsExclusive
<1>2. AdmissionIsKept'
  BY DEF AdmissionIsKept
<1>3. LockIsKept'
  BY DEF LockIsKept, AdmissionIsKept, LockIsExclusive
<1>4. LockIsExclusive'
  BY DEF LockIsExclusive, LockIsKept
<1>5. LockFileIsKept'
  BY DEF LockFileIsKept, Owning, LockIsKept, LockIsExclusive, AdmissionIsKept,
         ScratchHasOneOwner
<1>6. ScratchHasOneOwner'
  BY DEF ScratchHasOneOwner
<1>7. LeaseIsSound'
  BY DEF LeaseIsSound, LockIsAdmitted, LiveRootIsKept, LockFileIsKept, Owning,
         LockIsKept, LockIsExclusive, AdmissionIsKept, ScratchHasOneOwner
<1> QED BY <1>1, <1>2, <1>3, <1>4, <1>5, <1>6, <1>7 DEF LeaseInv

(* Who unlinks the lock file was the one holder, or the scratch has no owner.*)
LEMMA UnlinkInv == ASSUME LeaseInv, NEW c \in Calls, Unlink(c) PROVE LeaseInv'
<1> USE DEF LeaseInv, TypeOK, Unlink, GiveUp, At, Goto, directory, table,
            Admitted, Proc
<1>1. TypeOK'
  <2>1. young' \in BOOLEAN
    BY Zenon
  <2> QED BY <2>1 DEF LockIsExclusive
<1>2. AdmissionIsKept'
  BY DEF AdmissionIsKept
<1>3. LockIsKept'
  BY DEF LockIsKept, AdmissionIsKept, LockIsExclusive
<1>4. LockIsExclusive'
  BY DEF LockIsExclusive, LockIsKept
<1>5. LockFileIsKept'
  BY DEF LockFileIsKept, Owning, LockIsKept, LockIsExclusive, AdmissionIsKept,
         ScratchHasOneOwner
<1>6. ScratchHasOneOwner'
  BY DEF ScratchHasOneOwner
<1>7. LeaseIsSound'
  BY DEF LeaseIsSound, LockIsAdmitted, LiveRootIsKept, LockFileIsKept, Owning,
         LockIsKept, LockIsExclusive, AdmissionIsKept, ScratchHasOneOwner
<1> QED BY <1>1, <1>2, <1>3, <1>4, <1>5, <1>6, <1>7 DEF LeaseInv

(* A directory is removed only when nobody's lock file is in it.           *)
LEMMA RmdirInv == ASSUME LeaseInv, NEW c \in Calls, Rmdir(c) PROVE LeaseInv'
<1> USE DEF LeaseInv, TypeOK, Rmdir, GiveUp, Gone, At, Goto, directory, table,
            Admitted, Proc
<1>1. TypeOK'
  BY DEF LockIsExclusive
<1>2. AdmissionIsKept'
  BY DEF AdmissionIsKept
<1>3. LockIsKept'
  BY DEF LockIsKept, AdmissionIsKept, LockIsExclusive
<1>4. LockIsExclusive'
  BY DEF LockIsExclusive, LockIsKept
<1>5. LockFileIsKept'
  BY DEF LockFileIsKept, Owning, LockIsKept, LockIsExclusive, AdmissionIsKept,
         ScratchHasOneOwner
<1>6. ScratchHasOneOwner'
  BY DEF ScratchHasOneOwner
<1>7. LeaseIsSound'
  BY DEF LeaseIsSound, LockIsAdmitted, LiveRootIsKept, LockFileIsKept, Owning,
         LockIsKept, LockIsExclusive, AdmissionIsKept, ScratchHasOneOwner
<1> QED BY <1>1, <1>2, <1>3, <1>4, <1>5, <1>6, <1>7 DEF LeaseInv

(* The death of a process takes its locks and its admissions together.      *)
LEMMA CrashInv == ASSUME LeaseInv, NEW p \in Procs, Crash(p) PROVE LeaseInv'
<1> USE DEF LeaseInv, Crash, directory, Admitted, Proc
<1>1. TypeOK'
  BY DEF TypeOK
<1>2. AdmissionIsKept' /\ LockIsKept' /\ LockIsExclusive'
  BY DEF AdmissionIsKept, LockIsKept, LockIsExclusive, TypeOK
<1>3. LockFileIsKept' /\ ScratchHasOneOwner'
  BY DEF LockFileIsKept, Owning, ScratchHasOneOwner, TypeOK
<1>4. LeaseIsSound'
  BY DEF LeaseIsSound, LockIsAdmitted, LiveRootIsKept, TypeOK
<1> QED BY <1>1, <1>2, <1>3, <1>4

(* Age, a move of the state root, and stuttering leave the calls alone.     *)
LEMMA EnvironmentInv ==
  ASSUME LeaseInv, Age \/ ReplaceRoot \/ UNCHANGED vars PROVE LeaseInv'
<1> USE DEF LeaseInv, Age, ReplaceRoot, vars, table, Admitted, Proc
<1>1. TypeOK'
  <2>1. young' \in BOOLEAN
    BY Zenon DEF TypeOK
  <2> QED BY <2>1 DEF TypeOK
<1>2. AdmissionIsKept' /\ LockIsKept' /\ LockIsExclusive'
  BY DEF AdmissionIsKept, LockIsKept, LockIsExclusive, TypeOK
<1>3. LockFileIsKept' /\ ScratchHasOneOwner'
  BY DEF LockFileIsKept, Owning, ScratchHasOneOwner, TypeOK
<1>4. LeaseIsSound'
  BY DEF LeaseIsSound, LockIsAdmitted, LiveRootIsKept, TypeOK
<1> QED BY <1>1, <1>2, <1>3, <1>4

(* Every step preserves the invariant.                                     *)
LEMMA NextInv == LeaseInv /\ [Next]_vars => LeaseInv'
<1> SUFFICES ASSUME LeaseInv, [Next]_vars PROVE LeaseInv'
  OBVIOUS
<1>1. ASSUME NEW c \in Calls, Step(c) PROVE LeaseInv'
  BY <1>1, LocateInv, OpenRootInv, ReserveAdmissionInv, OpenLockFileInv, LockInv,
     VerifyInv, AbandonInv, ReleaseInv, IsolateInv, TouchInv, UnlinkInv, RmdirInv
     DEF Step
<1>2. ASSUME NEW p \in Procs, Crash(p) PROVE LeaseInv'
  BY <1>2, CrashInv
<1>3. CASE Age \/ ReplaceRoot \/ UNCHANGED vars
  BY <1>3, EnvironmentInv
<1> QED BY <1>1, <1>2, <1>3 DEF Next

(* The invariant holds throughout.                                         *)
LEMMA Invariance == Spec => []LeaseInv
PROOF BY InitInv, NextInv, PTL DEF Spec

-----------------------------------------------------------------------------
(* What the lease promises.                                                *)

(* The variables of the lease and of the removal of a scratch have their    *)
(* types, and a lock is held through an open lock file.                    *)
THEOREM LeaseTypeCorrect == Spec => []TypeOK
<1>1. LeaseInv => TypeOK
  BY DEF LeaseInv
<1> QED BY <1>1, Invariance, PTL

(* Whatever cleanup fails, whoever sweeps and whichever process dies: a     *)
(* surviving lock keeps later calls of its process out, and the directory   *)
(* of a live owner is neither moved nor unlocked.                          *)
THEOREM LeaseSound == Spec => []LeaseIsSound
<1>1. LeaseInv => LeaseIsSound
  BY DEF LeaseInv
<1> QED BY <1>1, Invariance, PTL

(* A holder has the flock of the one lock file: there is at most one.      *)
LEMMA OneHolder == LeaseInv => \A c, d \in Holders : c = d
PROOF BY SMTT(30) DEF LeaseInv, Holders, LockIsKept, LockIsExclusive

(* A step of a call gives the lease to it when nobody has it, or takes it   *)
(* from whoever has it, or does neither.                                   *)
LEMMA StepRefines ==
  ASSUME LeaseInv, NEW c \in Calls, Step(c)
  PROVE  \/ Holders' \subseteq Holders
         \/ Holders = {} /\ Holders' = {c}
<1> USE DEF LeaseInv, Holders, At, Goto, directory, table, Admitted, Proc
<1>1. CASE Locate(c) \/ OpenRoot(c) \/ Lock(c)
  BY <1>1 DEF Locate, OpenRoot, Lock, Leave, TypeOK
<1>2. CASE ReserveAdmission(c)
  BY SMTT(30), <1>2 DEF ReserveAdmission, Leave, TypeOK
<1>3. CASE OpenLockFile(c)
  BY SMTT(30), <1>3 DEF OpenLockFile, OpenFails, TypeOK, LockIsExclusive
<1>4. CASE Verify(c)
  <2>1. CASE pc'[c] = "held"
    <3>1. Holders = {}
      BY <1>4, <2>1 DEF Verify, StillNamed, TypeOK, LockIsKept, LockIsExclusive
    <3>2. Holders' = {c}
      BY <1>4, <2>1, <3>1 DEF Verify, StillNamed, TypeOK, AdmissionIsKept
    <3> QED BY <3>1, <3>2
  <2>2. CASE pc'[c] # "held"
    BY SMTT(30), <1>4, <2>2 DEF Verify, TypeOK
  <2> QED BY SMTT(30), <2>1, <2>2
<1>5. CASE Abandon(c) \/ Release(c)
  BY SMTT(30), <1>5 DEF Abandon, Release, GiveBack, FinishAdmission, Leave, TypeOK
<1>6. CASE Isolate(c)
  BY SMTT(30), <1>6 DEF Isolate, GiveUp, TypeOK, LockIsKept
<1>7. CASE Touch(c) \/ Rmdir(c)
  BY SMTT(30), <1>7 DEF Touch, Rmdir, GiveUp, TypeOK
<1>8. CASE Unlink(c)
  BY <1>8 DEF Unlink, GiveUp, TypeOK, LockIsKept
<1> QED BY Zenon, <1>1, <1>2, <1>3, <1>4, <1>5, <1>6, <1>7, <1>8 DEF Step

(* The lease that flock, the admission table and the checks around them     *)
(* implement is the abstract lock: one call of one process at a time, for   *)
(* any number of processes, calls and sweepers.                            *)
THEOREM LeaseRefines == Spec => LeaseIsExclusive
<1>1. Init => Lease!Init
  BY DEF Init, Lease!Init, Holders
<1>2. LeaseInv /\ [Next]_vars => [Lease!Next]_Holders
  <2> SUFFICES ASSUME LeaseInv, [Next]_vars PROVE [Lease!Next]_Holders
    OBVIOUS
  <2>1. Holders' \subseteq Holders \/ \E c \in Calls : Holders = {} /\ Holders' = {c}
    <3>1. ASSUME NEW p \in Procs, Crash(p) PROVE Holders' \subseteq Holders
      BY SMTT(30), <3>1 DEF Crash, directory, Holders, Admitted, Proc, LeaseInv, TypeOK
    <3>2. CASE Age \/ ReplaceRoot \/ UNCHANGED vars
      BY <3>2 DEF Age, ReplaceRoot, vars, table, Holders, Admitted, Proc
    <3> QED BY <3>1, <3>2, StepRefines DEF Next
  <2>2. Holders' \subseteq Holders => Holders' \in {{}, Holders}
    BY OneHolder
  <2> QED BY <2>1, <2>2 DEF Lease!Next, Lease!Release, Lease!Acquire
<1> QED BY <1>1, <1>2, Invariance, PTL DEF Spec, LeaseIsExclusive, Lease!Spec
=============================================================================
