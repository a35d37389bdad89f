------------------------------- MODULE DocumentJob -------------------------------
(***************************************************************************)
(* One document job (security/document_browser.py, document_process.py):   *)
(* the parent downloads documents over existing files, and a custodian     *)
(* process, sharing the job's deadline, undoes them when the parent is     *)
(* lost or the time is up.  They share the job's directory, a lock file in *)
(* it, and a pipe on which the parent acknowledges commit or abort.        *)
(*                                                                         *)
(* The guardian that runs Chromium is reduced to whether it still runs.    *)
(***************************************************************************)
EXTENDS Integers, FiniteSets

CONSTANTS
  Targets,   \* files the job downloads
  Existing   \* those that had a content before

ASSUME JobAssumption == Existing \subseteq Targets

VARIABLES
  parent,    \* pc, the file being saved, the outcome, whether it acknowledged
  cust,      \* the custodian: pc, acknowledgement it read, final state, entries rmtree listed
  pipe,      \* acknowledgement not yet read
  dir,       \* entries of the job directory, with "root" for the directory itself
  lock,      \* holder of outputs.lock
  target,    \* content of each file: old, torn (a copy is under way) or new
  partial,   \* targets with a partial file
  written,   \* outputs.json: targets saved, or about to be
  todo,      \* targets a rollback still has to restore
  guardian,  \* running, or gone
  expired,   \* the deadline less five seconds has passed
  slot,      \* the document slot of the parent
  killed     \* history: the processes that were killed

jobVars ==
  <<parent, cust, pipe, dir, lock, target, partial, written, todo, guardian, expired, slot, killed>>

NONE == "none"
JobInit ==
  /\ parent = [pc |-> "idle", at |-> NONE, out |-> NONE, acked |-> FALSE]
  /\ cust = [pc |-> "off", ack |-> NONE, state |-> NONE, left |-> {}]
  /\ pipe = NONE /\ dir = {} /\ lock = NONE
  /\ target = [t \in Targets |-> "old"] /\ partial = {} /\ written = {} /\ todo = {}
  /\ guardian = "gone" /\ expired = FALSE /\ slot = "free" /\ killed = {}

Exists == "root" \in dir

\* Mutant of ParentAlive: another process of that number is taken for it.
AnyProcess == TRUE

ParentAlive == parent.pc # "dead"
CustodianExited == cust.pc = "exited"

\* flock on the file that was opened: when rmtree has unlinked it, a new
\* outputs.lock is another lock.
Lockable(p) == lock = NONE \/ (Exists /\ "lock" \notin dir)
Opened == IF Exists THEN dir \cup {"lock"} ELSE dir

Freed(p) == IF lock = p THEN NONE ELSE lock

check == Exists /\ "aborted" \notin dir

(***************************************************************************)
(* The parent: document_page and DocumentRenderer.save_download.           *)
(***************************************************************************)
To(pc) == parent' = [parent EXCEPT !.pc = pc]
Raises == parent' = [parent EXCEPT !.pc = "rollback", !.out = "failed"]

StartJob ==
  /\ parent.pc = "idle" /\ slot = "free" /\ slot' = "held"
  /\ dir' = {"root", "owner", "rest"} /\ guardian' = "running"
  /\ cust' = [cust EXCEPT !.pc = "poll"] /\ To("body")
  /\ UNCHANGED <<pipe, lock, target, partial, written, todo, expired, killed>>

OpenForSave(t) ==
  /\ parent.pc = "body" /\ t \notin written /\ Exists
  /\ dir' = Opened /\ parent' = [parent EXCEPT !.pc = "save", !.at = t]
  /\ UNCHANGED <<cust, pipe, lock, target, partial, written, todo, guardian, expired, slot,
                 killed>>

\* Backup, journal, partial file: in this order.
LockForSave ==
  /\ parent.pc = "save" /\ Lockable("parent") /\ check
  /\ lock' = "parent" /\ To("copying")
  /\ dir' = dir \cup {"lock", "journal"} \cup (IF parent.at \in Existing THEN {"backups"} ELSE {})
  /\ written' = written \cup {parent.at} /\ partial' = partial \cup {parent.at}
  /\ UNCHANGED <<cust, pipe, target, todo, guardian, expired, slot, killed>>

Replace ==
  /\ parent.pc = "copying" /\ check
  /\ target' = [target EXCEPT ![parent.at] = "new"] /\ partial' = partial \ {parent.at}
  /\ lock' = Freed("parent") /\ To("body")
  /\ UNCHANGED <<cust, pipe, dir, written, todo, guardian, expired, slot, killed>>

\* Any exception, and what the with statements do on their way out.
BodyFails ==
  /\ parent.pc \in {"body", "save", "copying"} /\ Raises
  /\ partial' = partial \ {parent.at} /\ lock' = Freed("parent") /\ guardian' = "gone"
  /\ UNCHANGED <<cust, pipe, dir, target, written, todo, expired, slot, killed>>

LeaveBody ==
  /\ parent.pc = "body" /\ check /\ guardian = "running"
  /\ guardian' = "gone" /\ To("commit")
  /\ UNCHANGED <<cust, pipe, dir, lock, target, partial, written, todo, expired, slot, killed>>

\* finish_files(True): the directory and the custodian must still be there.
OpenForCommit ==
  /\ parent.pc = "commit"
  /\ IF Exists /\ ~CustodianExited THEN dir' = Opened /\ To("committing")
                               ELSE Raises /\ UNCHANGED dir
  /\ UNCHANGED <<cust, pipe, lock, target, partial, written, todo, guardian, expired, slot,
                 killed>>

\* The outputs are ready when there is no marker and no partial file; without
\* a directory there is neither.
LockForCommit ==
  /\ parent.pc = "committing" /\ Lockable("parent")
  /\ IF "aborted" \in dir \/ ("journal" \in dir /\ partial # {}) THEN Raises ELSE To("acking")
  /\ UNCHANGED <<cust, pipe, dir, lock, target, partial, written, todo, guardian, expired,
                 slot, killed>>

AckCommit ==
  /\ parent.pc = "acking"
  /\ IF CustodianExited THEN Raises /\ UNCHANGED pipe
     ELSE /\ pipe' = "commit"
          /\ parent' = [parent EXCEPT !.pc = "cleaning", !.out = "ok", !.acked = TRUE]
  /\ UNCHANGED <<cust, dir, lock, target, partial, written, todo, guardian, expired, slot,
                 killed>>

OpenForRollback ==
  /\ parent.pc = "rollback" /\ dir' = Opened
  /\ To(IF Exists THEN "rolling" ELSE "receipt")
  /\ UNCHANGED <<cust, pipe, lock, target, partial, written, todo, guardian, expired, slot,
                 killed>>

LockForRollback ==
  /\ parent.pc = "rolling" /\ Lockable("parent")
  /\ IF Exists
     THEN /\ lock' = "parent" /\ partial' = partial \ written /\ To("restoring")
          /\ todo' = written
     ELSE To("receipt") /\ UNCHANGED <<lock, partial, todo>>
  /\ UNCHANGED <<cust, pipe, dir, target, written, guardian, expired, slot, killed>>

RollbackTimesOut ==
  /\ parent.pc = "rolling" /\ ~Lockable("parent") /\ To("cleaning")
  /\ UNCHANGED <<cust, pipe, dir, lock, target, partial, written, todo, guardian, expired,
                 slot, killed>>

\* Mutant of Restores: a file that was not there is left.
RestoresBackups(t) ==
  \/ t \notin Existing /\ todo' = todo \ {t} /\ UNCHANGED target
  \/ /\ t \in Existing /\ target[t] # "torn" /\ "backups" \in dir
     /\ target' = [target EXCEPT ![t] = "torn"] /\ UNCHANGED todo
  \/ /\ t \in Existing /\ target[t] = "torn"
     /\ target' = [target EXCEPT ![t] = "old"] /\ todo' = todo \ {t}

\* copyfile truncates, then writes; a file that was not there is unlinked.
Restores(t) ==
  \/ /\ t \notin Existing /\ target' = [target EXCEPT ![t] = "old"] /\ todo' = todo \ {t}
  \/ /\ t \in Existing /\ target[t] # "torn" /\ "backups" \in dir
     /\ target' = [target EXCEPT ![t] = "torn"] /\ UNCHANGED todo
  \/ /\ t \in Existing /\ target[t] = "torn"
     /\ target' = [target EXCEPT ![t] = "old"] /\ todo' = todo \ {t}

Restore(t) ==
  /\ parent.pc = "restoring" /\ t \in todo /\ Restores(t)
  /\ UNCHANGED <<parent, cust, pipe, dir, lock, partial, written, guardian, expired, slot,
                 killed>>

\* The backup is gone: FileNotFoundError, as for the directory.
BackupGone ==
  /\ parent.pc = "restoring" /\ "backups" \notin dir
  /\ \E t \in todo \cap Existing : target[t] # "torn"
  /\ lock' = Freed("parent") /\ To("receipt") /\ todo' = {}
  /\ UNCHANGED <<cust, pipe, dir, target, partial, written, guardian, expired, slot, killed>>

Restored ==
  /\ parent.pc = "restoring" /\ todo = {} /\ lock' = Freed("parent") /\ To("aborting")
  /\ UNCHANGED <<cust, pipe, dir, target, partial, written, todo, guardian, expired, slot,
                 killed>>

\* wait_custodian in the handler: only a rollback of the custodian will do.
AskReceipt ==
  /\ parent.pc = "receipt" /\ CustodianExited
  /\ To(IF cust.state = "rolled_back" THEN "aborting" ELSE "cleaning")
  /\ UNCHANGED <<cust, pipe, dir, lock, target, partial, written, todo, guardian, expired,
                 slot, killed>>

\* finish_files(False); with the custodian gone it raises.
AckAbort ==
  /\ parent.pc = "aborting" /\ To("cleaning")
  /\ pipe' = IF CustodianExited THEN pipe ELSE "abort"
  /\ UNCHANGED <<cust, dir, lock, target, partial, written, todo, guardian, expired, slot,
                 killed>>

\* TemporaryDirectory: in two steps, the entries in any order, without the lock.
CleanSome(S) ==
  /\ parent.pc = "cleaning" /\ dir' = dir \ S /\ To("cleaned")
  /\ UNCHANGED <<cust, pipe, lock, target, partial, written, todo, guardian, expired, slot,
                 killed>>

CleanAll ==
  /\ parent.pc = "cleaned" /\ dir' = {} /\ To("waiting")
  /\ UNCHANGED <<cust, pipe, lock, target, partial, written, todo, guardian, expired, slot,
                 killed>>

verify_cleanup == CustodianExited /\ ~Exists /\ partial = {} /\ guardian = "gone"

wait_custodian ==
  /\ parent.pc = "waiting" /\ CustodianExited
  /\ slot' = IF verify_cleanup THEN "free" ELSE "quarantined"
  /\ parent' = [parent EXCEPT !.pc = "done",
                  !.out = IF cust.state = NONE \/ slot' # "free" THEN "failed" ELSE @]
  /\ UNCHANGED <<cust, pipe, dir, lock, target, partial, written, todo, guardian, expired,
                 killed>>

(***************************************************************************)
(* The custodian: file_custodian and remove_owned_job.                     *)
(***************************************************************************)
Exit(state) == cust' = [cust EXCEPT !.pc = "exited", !.state = state]
Dies == Exit(NONE)

ReadPipe ==
  /\ cust.pc = "poll" /\ pipe' = NONE
  /\ cust' = [cust EXCEPT !.pc = "check", !.ack = IF pipe # NONE THEN pipe ELSE @]
  /\ UNCHANGED <<parent, dir, lock, target, partial, written, todo, guardian, expired, slot,
                 killed>>

\* Without a directory the job is over; an acknowledgement that was not read is
\* "unacknowledged", which fails.
CheckParent ==
  /\ cust.pc = "check"
  /\ CASE ~Exists -> Exit(cust.ack) /\ UNCHANGED <<dir, guardian>>
       [] Exists /\ ParentAlive /\ ~expired ->
            cust' = [cust EXCEPT !.pc = "poll"] /\ UNCHANGED <<dir, guardian>>
       [] OTHER -> /\ dir' = dir \cup {"aborted"} /\ guardian' = "gone"
                   /\ cust' = [cust EXCEPT !.pc = "lock"]
  /\ UNCHANGED <<parent, pipe, lock, target, partial, written, todo, expired, slot, killed>>

\* The ownership marker is gone: the parent's cleanup is under way.
OwnerChanged ==
  /\ cust.pc = "lock" /\ "owner" \notin dir /\ Dies
  /\ UNCHANGED <<parent, pipe, dir, lock, target, partial, written, todo, guardian, expired,
                 slot, killed>>

Undone == IF cust.ack # "commit" /\ "journal" \in dir THEN written ELSE {}

Unlinked == IF "journal" \in dir THEN partial \ written ELSE partial

LockForRemoval ==
  /\ cust.pc = "lock" /\ "owner" \in dir /\ Lockable("custodian")
  /\ lock' = "custodian" /\ dir' = Opened
  /\ partial' = Unlinked
  /\ todo' = Undone /\ cust' = [cust EXCEPT !.pc = "restoring"]
  /\ UNCHANGED <<parent, pipe, target, written, guardian, expired, slot, killed>>

RemovalTimesOut ==
  /\ cust.pc = "lock" /\ ~Lockable("custodian") /\ Dies
  /\ UNCHANGED <<parent, pipe, dir, lock, target, partial, written, todo, guardian, expired,
                 slot, killed>>

CustodianRestores(t) ==
  /\ cust.pc = "restoring" /\ t \in todo /\ Restores(t)
  /\ UNCHANGED <<parent, cust, pipe, dir, lock, partial, written, guardian, expired, slot,
                 killed>>

CustodianBackupGone ==
  /\ cust.pc = "restoring" /\ "backups" \notin dir
  /\ \E t \in todo \cap Existing : target[t] # "torn"
  /\ Dies /\ lock' = Freed("custodian") /\ todo' = {}
  /\ UNCHANGED <<parent, pipe, dir, target, partial, written, guardian, expired, slot, killed>>

RemoveSome(S) ==
  /\ cust.pc = "restoring" /\ todo = {}
  /\ dir' = dir \ S /\ cust' = [cust EXCEPT !.pc = "removing", !.left = dir \ S]
  /\ UNCHANGED <<parent, pipe, lock, target, partial, written, todo, guardian, expired, slot,
                 killed>>

\* An entry that came or went meanwhile makes rmtree fail.
RemoveAll ==
  /\ cust.pc = "removing" /\ lock' = Freed("custodian")
  /\ \/ /\ dir \subseteq cust.left /\ dir' = {}
        /\ Exit(IF cust.ack = "commit" THEN "commit" ELSE "rolled_back")
     \/ dir # cust.left /\ Dies /\ UNCHANGED dir
  /\ UNCHANGED <<parent, pipe, target, partial, written, todo, guardian, expired, slot, killed>>

(***************************************************************************)
(* Time and faults.                                                        *)
(***************************************************************************)
Expire ==
  /\ parent.pc # "idle" /\ ~expired /\ expired' = TRUE
  /\ UNCHANGED <<parent, cust, pipe, dir, lock, target, partial, written, todo, guardian, slot,
                 killed>>

GuardianLost ==
  /\ guardian = "running" /\ guardian' = "gone"
  /\ UNCHANGED <<parent, cust, pipe, dir, lock, target, partial, written, todo, expired, slot,
                 killed>>

ParentDies ==
  /\ parent.pc \notin {"idle", "done", "dead"} /\ killed' = killed \cup {"parent"}
  /\ To("dead") /\ lock' = Freed("parent") /\ guardian' = "gone"
  /\ todo' = IF lock = "parent" THEN {} ELSE todo
  /\ UNCHANGED <<cust, pipe, dir, target, partial, written, expired, slot>>

CustodianDies ==
  /\ cust.pc \notin {"off", "exited"} /\ killed' = killed \cup {"custodian"}
  /\ Dies /\ lock' = Freed("custodian") /\ todo' = IF lock = "custodian" THEN {} ELSE todo
  /\ UNCHANGED <<parent, pipe, dir, target, partial, written, guardian, expired, slot>>

\* collect_custodian kills a custodian that has not finished.
GiveUp ==
  /\ parent.pc = "waiting" /\ ~CustodianExited /\ Dies
  /\ lock' = Freed("custodian") /\ todo' = IF lock = "custodian" THEN {} ELSE todo
  /\ UNCHANGED <<parent, pipe, dir, target, partial, written, guardian, expired, slot, killed>>

ParentStep ==
  \/ StartJob \/ LockForSave \/ Replace \/ LeaveBody
  \/ OpenForCommit \/ LockForCommit \/ AckCommit
  \/ OpenForRollback \/ LockForRollback \/ BackupGone \/ Restored \/ AskReceipt \/ AckAbort
  \/ CleanAll \/ wait_custodian
  \/ \E t \in Targets : OpenForSave(t) \/ Restore(t)
  \/ \E S \in SUBSET (dir \ {"root"}) : CleanSome(S)

CustodianStep ==
  \/ ReadPipe \/ CheckParent \/ OwnerChanged \/ LockForRemoval \/ CustodianBackupGone \/ RemoveAll
  \/ \E t \in Targets : CustodianRestores(t)
  \/ \E S \in SUBSET (dir \ {"root"}) : RemoveSome(S)

JobNext ==
  \/ ParentStep \/ CustodianStep \/ BodyFails \/ RollbackTimesOut \/ RemovalTimesOut
  \/ Expire \/ GuardianLost \/ ParentDies \/ CustodianDies \/ GiveUp

JobSpec == JobInit /\ [][JobNext]_jobVars

\* Both processes are scheduled; a job that can not go on raises.
JobFairSpec == JobSpec /\ WF_jobVars(ParentStep \/ BodyFails) /\ WF_jobVars(CustodianStep)

(***************************************************************************)
(* Properties.                                                             *)
(***************************************************************************)
Entries == {"root", "owner", "rest", "lock", "journal", "backups", "aborted"}
ParentAt == {"idle", "body", "save", "copying", "commit", "committing", "acking", "rollback",
             "rolling", "restoring", "receipt", "aborting", "cleaning", "cleaned", "waiting",
             "done", "dead"}

CustodianAt == {"off", "poll", "check", "lock", "restoring", "removing", "exited"}
ParentState == [pc : ParentAt, at : Targets \cup {NONE}, out : {NONE, "ok", "failed"},
                acked : BOOLEAN]
CustodianState == [pc : CustodianAt, ack : {NONE, "commit", "abort"},
                   state : {NONE, "commit", "abort", "rolled_back"}, left : SUBSET Entries]

\* Every variable keeps its shape.
JobTypeOK ==
  /\ parent \in ParentState /\ cust \in CustodianState
  /\ pipe \in {NONE, "commit", "abort"} /\ dir \subseteq Entries
  /\ lock \in {NONE, "parent", "custodian"}
  /\ target \in [Targets -> {"old", "torn", "new"}]
  /\ partial \subseteq written /\ todo \subseteq written /\ written \subseteq Targets
  /\ guardian \in {"running", "gone"} /\ expired \in BOOLEAN
  /\ slot \in {"free", "held", "quarantined"} /\ killed \subseteq {"parent", "custodian"}
  /\ parent.pc \in {"save", "copying"} => parent.at \in Targets

Settled == parent.pc \in {"done", "dead"} /\ CustodianExited
AllOld == \A t \in Targets : target[t] = "old"
AllNew == \A t \in written : target[t] = "new"

\* Outputs that were not acknowledged as committed are undone, by whichever
\* process survives ("pending outputs roll back on parent loss").
PendingIsUndone == Settled /\ ~parent.acked => AllOld

\* A commit that the custodian has read is kept, whoever dies after it
\* (remove_owned_job with committed).
ReadCommitPersists == Settled /\ cust.ack = "commit" => AllNew

\* The slot is given back, and a custodian ends well, only when nothing of the
\* job is left (verify_cleanup, "a failed postcondition quarantines capacity").
NothingLeft ==
  \/ parent.pc = "done" /\ slot = "free"
  \/ parent.pc = "dead" /\ CustodianExited /\ cust.state # NONE
  => ~Exists /\ partial = {} /\ CustodianExited

\* Outputs are all or nothing: those that were not acknowledged as committed are
\* undone by whichever process survives, until the deadline; a commit that was
\* read is kept; and nothing is left of a job that ended well (save_download,
\* remove_owned_job, verify_cleanup).
OutputsAreAllOrNothing ==
  /\ ~expired /\ killed # {"parent", "custodian"} => PendingIsUndone
  /\ ReadCommitPersists
  /\ NothingLeft

\* Every job comes to an end, and a lost parent's directory is removed
\* (file_custodian), whatever the guardian does.
JobsEnd == parent.pc # "idle" ~> Settled

\* "Acknowledged outputs must persist".
AcknowledgedPersists == Settled /\ parent.acked => AllNew

\* A job that reports failure has no outputs ("distinguishes committed output
\* from pending output").
FailedMeansOld == parent.pc = "done" /\ parent.out = "failed" => AllOld

(***************************************************************************)
(* Why outputs are all or nothing.                                         *)
(***************************************************************************)
\* Before the first download.
StartHolds ==
  /\ parent.pc = "idle" =>
       /\ cust.pc = "off" /\ cust.ack = NONE /\ pipe = NONE /\ lock = NONE
       /\ written = {} /\ ~parent.acked
  /\ cust.pc = "off" => parent.pc = "idle"
  /\ \A t \in Targets \ written : target[t] = "old"

\* Where the parent no longer opens the lock file.
Past == {"cleaned", "waiting", "done", "dead"}
\* Where it has opened it, and where it has not given up on its outputs.
Locking == {"save", "copying", "committing", "rolling", "restoring"}
Saving == {"body", "save", "copying", "commit", "committing", "acking"}
\* Where the custodian has not begun to remove anything.
Polling == {"poll", "check", "lock"}

\* Whose the lock is.  The file that a process has opened is there until a
\* removal unlinks it, after which the lock may be taken a second time.
LockHolds ==
  /\ lock = "parent" <=> parent.pc \in {"copying", "restoring"}
  /\ lock = "custodian" => cust.pc \in {"restoring", "removing"}
  /\ cust.pc = "restoring" => lock = "custodian"
  /\ cust.pc = "removing" /\ "lock" \in cust.left /\ parent.pc \notin Past => lock = "custodian"
  /\ cust.pc = "restoring" \/ (cust.pc = "removing" /\ "lock" \in cust.left)
       => "lock" \in dir \/ parent.pc \in Past
  /\ dir # {} => Exists
  /\ parent.pc \in Locking /\ Exists /\ cust.pc \in Polling => "lock" \in dir
  /\ todo # {} => "restoring" \in {parent.pc, cust.pc}

\* A partial file is of the copy under way or of the one its parent died in; the
\* custodian has yet to come to it, or fails over it.
PartialHolds ==
  /\ partial \subseteq {parent.at} /\ (parent.pc = "copying" => parent.at \in partial)
  /\ partial # {} =>
       /\ parent.pc \in {"copying", "dead"} /\ {"root", "journal", "lock"} \subseteq dir
       /\ cust.pc # "restoring" /\ (cust.pc = "removing" => "lock" \notin cust.left)
  /\ cust.pc = "exited" /\ cust.state # NONE => ~Exists

\* What is saved stays new while the custodian has not begun to undo it, and for
\* good once it reads the commit.
CommitHolds ==
  /\ parent.acked => parent.pc \in {"cleaning", "cleaned", "waiting", "done", "dead"}
  /\ parent.pc \in Saving /\ cust.pc \in Polling
       => \A t \in written \ partial : target[t] = "new"
  /\ cust.ack = "commit" \/ (pipe = "commit" /\ cust.pc \in {"poll", "check"})
       => parent.acked /\ AllNew
  /\ cust.ack = "commit" /\ cust.pc = "restoring" => todo = {}

\* The directory has what a rollback needs.
Full ==
  /\ {"root", "owner"} \subseteq dir
  /\ written # {} => "journal" \in dir
  /\ written \cap Existing # {} => "backups" \in dir

\* Up to the deadline the custodian acts only for a parent that is dead: what
\* the living parent has saved it can restore, and what a dead one has left the
\* custodian can.
UndoHolds ==
  ~expired /\ killed # {"parent", "custodian"} =>
    /\ cust.pc \in {"lock", "restoring", "removing"} => parent.pc = "dead"
    /\ parent.pc = "dead" => "parent" \in killed
    /\ parent.pc # "receipt"
    /\ parent.pc \notin {"idle", "cleaning"} \cup Past =>
         Full /\ (cust.pc = "exited" => "custodian" \in killed)
    /\ parent.pc = "restoring" => \A t \in Targets \ todo : target[t] = "old"
    /\ parent.pc \in {"aborting", "cleaning", "cleaned", "waiting", "done"} /\ ~parent.acked
         => AllOld
    /\ parent.pc = "dead" /\ ~parent.acked =>
         /\ cust.pc \in Polling => AllOld \/ Full
         /\ cust.pc = "restoring" =>
              /\ \A t \in Targets \ todo : target[t] = "old"
              /\ "backups" \in dir \/ todo \cap Existing = {} \/ AllOld
         /\ cust.pc \in {"removing", "exited"} => AllOld

JobInv == /\ JobTypeOK /\ StartHolds /\ LockHolds /\ PartialHolds /\ CommitHolds /\ UndoHolds
          /\ NothingLeft
=============================================================================
