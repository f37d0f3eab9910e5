------------------------------ MODULE VaultFiles ------------------------------
(***************************************************************************)
(* The files of a vault directory under the commands that replace them:    *)
(* init, recovery adopt, backup and restore apply, each cut where it goes  *)
(* from one file to the next.  A command may be killed between two steps,  *)
(* or end with an error at any of them.  The user runs one of these        *)
(* commands at a time; meanwhile another process (the daemon, or add,      *)
(* delete, ...) may open the database, have it open, and save.             *)
(*                                                                         *)
(* write_private_atomic makes each file either old or new, so replacing a  *)
(* file is one step.  A temporary file left by a killed command is         *)
(* truncated by the next that needs it and never read.                     *)
(***************************************************************************)
EXTENDS Integers, FiniteSets

CONSTANTS
    Ids,        \* secrets
    Own,        \* the outer key that init generates
    Foreign,    \* the outer key of another vault, well-formed as a recovery key
    None,       \* no file, no command, no process
    Retention,  \* backup_retention
    MaxTime     \* bound: seconds on the clock

ASSUME FilesAssumption ==
    /\ Own # Foreign
    /\ Retention \in 0..365
    /\ MaxTime \in Nat \ {0}

VARIABLES
    vault,      \* vault.db and its write-ahead log
    seal,       \* tpm_sealed.pub and tpm_sealed.priv
    archives,   \* backups, by the second in their name
    now,        \* the clock, in seconds
    cmd,        \* the command that runs
    writer,     \* the other process that has the database open
    whole,      \* history: init has reported success with its log folded into
                \* the file, and no restore has mixed two databases since
    trusted     \* history: no adopt has sealed anything but the vault's key

vars == <<vault, seal, archives, now, cmd, writer, whole, trusted>>
historyVars == <<whole, trusted>>

(***************************************************************************)
(* Types                                                                   *)
(***************************************************************************)
\* kdf_salt, hmac_salt, enrollments, verify_blob, verify_id, in this order.
Entries == 5

Image == [meta : 0..Entries, rows : SUBSET Ids]

OuterKeys == {Own, Foreign}

Stamps == 1..MaxTime

\* Both halves of one sealed object carry its run.  A new object needs a run
\* that neither of the two files has.
Sealed == [key : OuterKeys, run : 1..3]

Archive == [key : OuterKeys, image : Image]

Archives == UNION {[S -> Archive] : S \in SUBSET Stamps}

Ops == {"init", "adopt", "backup", "restore"}
Pcs == {"seal_pub", "seal_priv", "register", "meta", "end", "prove",
        "checkpoint", "read", "write", "prune", "close", "unlink", "replace"}

\* `image` was read from the database, `target` from an archive.  The rest is
\* history: what the database held until it was read, whether the command's
\* checkpoint failed, and whether the database has changed after it.
Command ==
    [op : Ops, pc : Pcs, sealing : Sealed \cup {None}, key : OuterKeys \cup {None},
     image : Image \cup {None}, target : Image \cup {None},
     stamp : Stamps \cup {None}, during : SUBSET Image, refused : BOOLEAN,
     later : BOOLEAN]

\* `apart` is what a process sees once its log was taken from under it;
\* `replaced` says that the database was.
Writer == [key : OuterKeys, apart : Image \cup {None}, replaced : BOOLEAN]

ASSUME NoneAssumption ==
    /\ None \notin OuterKeys /\ None \notin Stamps
    /\ None \notin Image /\ None \notin Sealed
    /\ None \notin Command /\ None \notin Writer

TypeOK ==
    /\ vault \in [main : Image \cup {None}, wal : Image \cup {None}]
    /\ seal \in [pub : Sealed \cup {None}, priv : Sealed \cup {None}]
    /\ archives \in Archives
    /\ now \in Stamps
    /\ cmd \in Command \cup {None}
    /\ writer \in Writer \cup {None}
    /\ whole \in BOOLEAN
    /\ trusted \in BOOLEAN

(***************************************************************************)
(* The database: what SQLite reads is the log if there is one.  A log that *)
(* was folded and could not be truncated is as good as none.               *)
(***************************************************************************)
Live == IF vault.wal # None THEN vault.wal ELSE vault.main

Folded == [main |-> Live, wal |-> None]

Logged(image) == [vault EXCEPT !.wal = image]

Attached == writer # None /\ writer.apart = None

HoldsDb == cmd # None /\ cmd.op # "adopt" /\ cmd.pc \notin {"unlink", "replace"}

\* The connection of the command is closed; the last one folds the log into the
\* file, if it can.
CloseConnection == vault' = vault \/ (~Attached /\ vault' = Folded)

\* The database has changed under a command that copies it.
Noted(image) ==
    IF cmd = None \/ cmd.key = None THEN cmd
    ELSE [cmd EXCEPT !.during = IF cmd.pc \in {"checkpoint", "read"} THEN @ \cup {image} ELSE @,
                     !.later = TRUE]

(***************************************************************************)
(* TpmOuterProvider                                                        *)
(***************************************************************************)
IsProvisioned == seal.pub # None /\ seal.priv # None

\* The TPM loads a private area only with the public area it came with.
Unsealed == IF IsProvisioned /\ seal.pub = seal.priv THEN seal.pub.key ELSE None

FreshSeal(k) ==
    [key |-> k,
     run |-> CHOOSE r \in 1..3 :
                \A f \in {seal.pub, seal.priv} \ {None} : f.run # r]

(***************************************************************************)
(* What a command or the daemon finds: open_locked needs the first entry   *)
(* and the outer key, unlock all of them and the key of this vault.        *)
(***************************************************************************)
IsInitialized == vault.main # None

Opens == IsInitialized /\ Live.meta >= 1 /\ Unsealed # None

Unlocks == Opens /\ Live.meta = Entries /\ Unsealed = Own

(***************************************************************************)
(* Commands                                                                *)
(***************************************************************************)
Start(op, pc) ==
    [op |-> op, pc |-> pc, sealing |-> None, key |-> None, image |-> None,
     target |-> None, stamp |-> None, during |-> {}, refused |-> FALSE,
     later |-> FALSE]

At(op, pc) == cmd # None /\ cmd.op = op /\ cmd.pc = pc

Goto(pc) == cmd' = [cmd EXCEPT !.pc = pc]

Init ==
    /\ vault = [main |-> None, wal |-> None]
    /\ seal = [pub |-> None, priv |-> None]
    /\ archives = [s \in {} |-> None]
    /\ now = 1
    /\ cmd = None
    /\ writer = None
    /\ whole = FALSE
    /\ trusted = TRUE

\* Most steps may return an error, a touch that does not come among them: the
\* command ends and its connection is closed.
Fail ==
    /\ cmd # None
    /\ cmd.pc \notin {"checkpoint", "close", "unlink"}
    /\ IF HoldsDb THEN CloseConnection ELSE UNCHANGED vault
    /\ cmd' = None
    /\ UNCHANGED <<seal, archives, now, writer, historyVars>>

Crash ==
    /\ cmd # None
    /\ cmd' = None
    /\ UNCHANGED <<vault, seal, archives, now, writer, historyVars>>

(***************************************************************************)
(* init: Vault::open creates the database, then Session::initialize seals  *)
(* the outer key, registers the authenticator and writes the entries.      *)
(***************************************************************************)
StartInit ==
    /\ cmd = None
    /\ ~IsInitialized
    /\ vault' = [vault EXCEPT !.main = [meta |-> 0, rows |-> {}]]
    /\ cmd' = [Start("init", "seal_pub") EXCEPT !.sealing = FreshSeal(Own)]
    /\ UNCHANGED <<seal, archives, now, writer, historyVars>>

Register ==
    /\ At("init", "register")
    /\ Goto("meta")
    /\ UNCHANGED <<vault, seal, archives, now, writer, historyVars>>

\* Variant: one entry too many.
WriteMetaAgain ==
    /\ At("init", "meta")
    /\ vault' = Logged([Live EXCEPT !.meta = @ + 1])
    /\ Goto(IF Live.meta = Entries THEN "end" ELSE "meta")
    /\ UNCHANGED <<seal, archives, now, writer, historyVars>>

WriteMeta ==
    /\ At("init", "meta")
    /\ vault' = Logged([Live EXCEPT !.meta = @ + 1])
    /\ Goto(IF Live.meta + 1 = Entries THEN "end" ELSE "meta")
    /\ UNCHANGED <<seal, archives, now, writer, historyVars>>

\* The session is dropped and the configuration written: "Vault created".
EndInit ==
    /\ At("init", "end")
    /\ CloseConnection
    /\ cmd' = None
    /\ whole' = (vault'.wal = None)
    /\ UNCHANGED <<seal, archives, now, writer, trusted>>

(***************************************************************************)
(* recovery adopt, and the two files that it and init seal the key in.     *)
(***************************************************************************)
StartAdopt(k) ==
    /\ cmd = None
    /\ IsInitialized
    /\ cmd' = [Start("adopt", "seal_pub") EXCEPT !.sealing = FreshSeal(k)]
    /\ UNCHANGED <<vault, seal, archives, now, writer, historyVars>>

\* provision refuses a sealed vault, provision_with does not.
SealPub ==
    /\ cmd # None /\ cmd.pc = "seal_pub"
    /\ cmd.op = "init" => ~IsProvisioned
    /\ seal' = [seal EXCEPT !.pub = cmd.sealing]
    /\ trusted' = (trusted /\ cmd.op = "init")
    /\ Goto("seal_priv")
    /\ UNCHANGED <<vault, archives, now, writer, whole>>

SealPriv ==
    /\ cmd # None /\ cmd.pc = "seal_priv"
    /\ seal' = [seal EXCEPT !.priv = cmd.sealing]
    /\ Goto(IF cmd.op = "init" THEN "register" ELSE "prove")
    /\ UNCHANGED <<vault, archives, now, writer, historyVars>>

\* open_locked_only, and its session dropped: "Vault adopted on this machine".
Prove ==
    /\ At("adopt", "prove")
    /\ Opens
    /\ CloseConnection
    /\ cmd' = None
    /\ trusted' = (cmd.sealing.key = Own)
    /\ UNCHANGED <<seal, archives, now, writer, whole>>

(***************************************************************************)
(* backup, and the snapshot that a restore takes first (backup::create).   *)
(* Both keep their session, and so a connection, while they go on.         *)
(***************************************************************************)
StartBackup ==
    /\ cmd = None
    /\ Opens
    /\ cmd' = [Start("backup", "checkpoint") EXCEPT !.key = Unsealed, !.during = {Live}]
    /\ UNCHANGED <<vault, seal, archives, now, writer, historyVars>>

\* Variant: the log is removed before the snapshot is taken.
StartRestoreUnlinking(s) ==
    /\ cmd = None
    /\ Opens
    /\ archives[s].key = Unsealed
    /\ vault' = [vault EXCEPT !.wal = None]
    /\ cmd' = [Start("restore", "checkpoint") EXCEPT
                 !.key = Unsealed, !.target = archives[s].image, !.during = {Live}]
    /\ UNCHANGED <<seal, archives, now, writer, historyVars>>

\* The archive is decrypted before anything is touched, and the user asked.
StartRestore(s) ==
    /\ cmd = None
    /\ Opens
    /\ archives[s].key = Unsealed
    /\ cmd' = [Start("restore", "checkpoint") EXCEPT
                 !.key = Unsealed, !.target = archives[s].image, !.during = {Live}]
    /\ UNCHANGED <<vault, seal, archives, now, writer, historyVars>>

\* Variant: the file is read with whatever the log still holds left out.
CheckpointSkipped ==
    /\ cmd # None /\ cmd.pc = "checkpoint"
    /\ Goto("read")
    /\ UNCHANGED <<vault, seal, archives, now, writer, historyVars>>

\* Its error, or its answer that the database is busy, is not looked at: the log
\* may be as it was.
Checkpoint ==
    /\ cmd # None /\ cmd.pc = "checkpoint"
    /\ \E folded \in BOOLEAN :
         /\ vault' = IF folded THEN Folded ELSE vault
         /\ cmd' = [cmd EXCEPT !.pc = "read", !.refused = ~folded, !.later = FALSE]
    /\ UNCHANGED <<seal, archives, now, writer, historyVars>>

\* The file alone: what was saved since the checkpoint is in the log.
ReadDb ==
    /\ cmd # None /\ cmd.pc = "read"
    /\ cmd' = [cmd EXCEPT !.image = vault.main, !.pc = "write"]
    /\ UNCHANGED <<vault, seal, archives, now, writer, historyVars>>

\* Variant: an archive that has the name is taken for this one.
WriteArchiveOnce ==
    /\ cmd # None /\ cmd.pc = "write"
    /\ archives' = [s \in DOMAIN archives \cup {now} |->
                      IF s \in DOMAIN archives THEN archives[s]
                      ELSE [key |-> cmd.key, image |-> cmd.image]]
    /\ cmd' = [cmd EXCEPT !.stamp = now, !.image = None, !.during = {},
                          !.pc = IF cmd.op = "backup" THEN "prune" ELSE "close"]
    /\ UNCHANGED <<vault, seal, now, writer, historyVars>>

\* The name is the second of the clock; an archive of that name is replaced.
WriteArchive ==
    /\ cmd # None /\ cmd.pc = "write"
    /\ archives' = [s \in DOMAIN archives \cup {now} |->
                      IF s = now THEN [key |-> cmd.key, image |-> cmd.image] ELSE archives[s]]
    /\ cmd' = [cmd EXCEPT !.stamp = now, !.image = None, !.during = {},
                          !.pc = IF cmd.op = "backup" THEN "prune" ELSE "close"]
    /\ UNCHANGED <<vault, seal, now, writer, historyVars>>

\* Variant: the list is not reversed, so that the newest are dropped.
OldestKept == {s \in DOMAIN archives : Cardinality({r \in DOMAIN archives : r < s}) >= Retention}

\* What prune skips over `keep` archives to, the newest first.
Excess == {s \in DOMAIN archives : Cardinality({r \in DOMAIN archives : r > s}) >= Retention}

\* A removal that fails is skipped.
PruneOne ==
    /\ At("backup", "prune")
    /\ \E s \in Excess : archives' = [r \in DOMAIN archives \ {s} |-> archives[r]]
    /\ UNCHANGED <<vault, seal, now, cmd, writer, historyVars>>

\* "Backup written to".
EndBackup ==
    /\ At("backup", "prune")
    /\ CloseConnection
    /\ cmd' = None
    /\ UNCHANGED <<seal, archives, now, writer, historyVars>>

(***************************************************************************)
(* restore apply: the session is dropped, the log removed, the file        *)
(* replaced.  A process that has them open keeps what it had.              *)
(***************************************************************************)
Close ==
    /\ At("restore", "close")
    /\ CloseConnection
    /\ Goto("unlink")
    /\ UNCHANGED <<seal, archives, now, writer, historyVars>>

\* Variant: the old database is removed along with its log.
UnlinkAll ==
    /\ At("restore", "unlink")
    /\ vault' = [main |-> None, wal |-> None]
    /\ Goto("replace")
    /\ UNCHANGED <<seal, archives, now, writer, historyVars>>

Unlink ==
    /\ At("restore", "unlink")
    /\ vault' = [vault EXCEPT !.wal = None]
    /\ writer' = IF Attached THEN [writer EXCEPT !.apart = Live] ELSE writer
    /\ Goto("replace")
    /\ UNCHANGED <<seal, archives, now, historyVars>>

\* "Restored from".  The log of a process that came between, and wrote to it, is
\* now beside another database than its own: SQLite reads the old pages, the new,
\* or a mixture that it cannot use.  One that has not written yet will do so.
Replace ==
    /\ At("restore", "replace")
    /\ \/ vault.wal = None /\ vault' = [vault EXCEPT !.main = cmd.target]
       \/ /\ vault.wal # None
          /\ \E read \in {vault.wal, cmd.target, [meta |-> 0, rows |-> {}]} :
                vault' = [main |-> cmd.target, wal |-> read]
    /\ whole' = (whole /\ vault.wal = None /\ ~Attached)
    /\ writer' = IF writer = None THEN None ELSE [writer EXCEPT !.replaced = TRUE]
    /\ cmd' = None
    /\ UNCHANGED <<seal, archives, now, trusted>>

(***************************************************************************)
(* The other process: it opens the vault, saves and deletes once it could  *)
(* unlock, and closes the vault or is killed.                              *)
(***************************************************************************)
OpenWriter ==
    /\ writer = None
    /\ Opens
    /\ writer' = [key |-> Unsealed, apart |-> None, replaced |-> FALSE]
    /\ UNCHANGED <<vault, seal, archives, now, cmd, historyVars>>

Seen == IF Attached THEN Live ELSE writer.apart

SaveOrDelete(id) ==
    /\ writer # None
    /\ writer.key = Own
    /\ Seen.meta = Entries
    /\ LET saved == [Seen EXCEPT !.rows = IF id \in @ THEN @ \ {id} ELSE @ \cup {id}]
       IN  IF Attached
           THEN /\ vault' = Logged(saved)
                /\ cmd' = Noted(saved)
                /\ UNCHANGED writer
           ELSE /\ writer' = [writer EXCEPT !.apart = saved]
                /\ UNCHANGED <<vault, cmd>>
    /\ UNCHANGED <<seal, archives, now, historyVars>>

\* SQLite folds a log that has grown (wal_autocheckpoint).
AutoCheckpoint ==
    /\ Attached /\ ~writer.replaced
    /\ vault.wal # None
    /\ vault' = Folded
    /\ UNCHANGED <<seal, archives, now, cmd, writer, historyVars>>

\* The last to close folds its log into the database it has open, unless that is
\* no longer the one at its path; the log of a restore's victim is folded too.
CloseWriter ==
    /\ writer # None
    /\ writer' = None
    /\ \/ (HoldsDb \/ writer.replaced) /\ UNCHANGED <<vault, cmd>>
       \/ /\ ~HoldsDb /\ ~writer.replaced /\ Attached
          /\ vault' = Folded
          /\ UNCHANGED cmd
       \/ /\ ~HoldsDb /\ ~writer.replaced /\ ~Attached
          /\ vault' = [vault EXCEPT !.main = writer.apart]
          /\ cmd' = Noted(writer.apart)
    /\ UNCHANGED <<seal, archives, now, historyVars>>

\* Killed, or its last fold failed.
KillWriter ==
    /\ writer # None
    /\ writer' = None
    /\ UNCHANGED <<vault, seal, archives, now, cmd, historyVars>>

Advance ==
    /\ now < MaxTime
    /\ now' = now + 1
    /\ UNCHANGED <<vault, seal, archives, cmd, writer, historyVars>>

Next ==
    \/ Fail \/ Crash
    \/ StartInit \/ Register \/ WriteMeta \/ EndInit
    \/ \E k \in OuterKeys : StartAdopt(k)
    \/ SealPub \/ SealPriv \/ Prove
    \/ StartBackup \/ \E s \in DOMAIN archives : StartRestore(s)
    \/ Checkpoint \/ ReadDb \/ WriteArchive \/ PruneOne \/ EndBackup
    \/ Close \/ Unlink \/ Replace
    \/ OpenWriter \/ (\E id \in Ids : SaveOrDelete(id)) \/ AutoCheckpoint
    \/ CloseWriter \/ KillWriter
    \/ Advance

Spec == Init /\ [][Next]_vars

(***************************************************************************)
(* Safety                                                                  *)
(***************************************************************************)
\* A vault that init reported opens and unlocks with the enrolled key from then
\* on, whatever command is killed or fails at whatever step (paths.rs:112-114).
\* Only adopt may take that away, until it has been run to its end with the
\* vault's own recovery key, and a process that opens the vault between a
\* restore's removal of the log and its replacement of the database.
WholeVaultOpens == whole /\ trusted => Unlocks

\* What goes into an archive is what the database held at some moment of the
\* command, log included, although others save meanwhile (backup.rs:192-195),
\* unless the checkpoint could not fold the log, which nobody looks at
\* (backup.rs:197-198).
BackupIsASnapshot ==
    cmd # None /\ cmd.pc = "write" /\ ~cmd.refused => cmd.image \in cmd.during

\* The database that a restore replaces is in an archive that opens, with all
\* that was saved in it: "restoring the wrong archive should not be the end of
\* the story" (commands.rs:413-414).  That is so at the replacement, whoever has
\* the database open, unless the checkpoint could not fold the log or somebody
\* saved after it.
PreviousIsKept ==
    [][Replace /\ ~cmd.refused /\ ~cmd.later
       => \E s \in DOMAIN archives : archives[s] = [key |-> cmd.key, image |-> Live]]_vars

\* No failure, kill or fold changes what the database holds, and a restore that
\* removes a log loses with it only what its checkpoint could not fold or what
\* somebody saved after it.  Otherwise only saves, init and the last step of a
\* restore do, and a process that closes what a restore has taken from it.
Loses == Unlink /\ (cmd.refused \/ cmd.later)

OnlySavesChange ==
    [][\/ Live' = Live
       \/ StartInit \/ WriteMeta \/ Replace \/ Loses \/ (CloseWriter /\ ~Attached)
       \/ \E id \in Ids : SaveOrDelete(id)]_vars

\* The archive that backup reports is still there when it has pruned, unless the
\* configuration asks for none to be kept (config.rs:129 allows it).
BackupSurvives == [][EndBackup /\ Retention > 0 => cmd.stamp \in DOMAIN archives]_vars

(***************************************************************************)
(* The inductive invariant.  CommandGood is what a command under way may   *)
(* rely on, whatever runs beside it.                                       *)
(***************************************************************************)
Copying == cmd.op \in {"backup", "restore"}

CommandGood ==
    /\ cmd.op = "init" =>
        /\ cmd.pc \in {"seal_pub", "seal_priv", "register", "meta", "end"}
        /\ cmd.sealing # None
        /\ cmd.pc # "end" => Live.meta < Entries
        /\ DOMAIN archives = {}
        /\ writer # None => writer.apart = None
    /\ cmd.op = "adopt" =>
        /\ cmd.pc \in {"seal_pub", "seal_priv", "prove"}
        /\ cmd.sealing # None
    /\ Copying =>
        /\ cmd.pc \in {"checkpoint", "read", "write"} \cup
                     IF cmd.op = "backup" THEN {"prune"} ELSE {"close", "unlink", "replace"}
        /\ cmd.key # None
        /\ cmd.pc = "write" => cmd.image # None
    /\ cmd.op = "restore" => cmd.target # None

TypeInv ==
    /\ TypeOK
    /\ vault.main = None =>
        vault.wal = None /\ cmd = None /\ writer = None /\ DOMAIN archives = {} /\ ~whole
    /\ cmd # None => CommandGood

SealedAs(sealed) == sealed # None /\ seal.pub = sealed /\ seal.priv = sealed

\* Where a command has come to with the sealed files.
SealGood ==
    /\ whole /\ trusted => SealedAs(seal.pub) /\ seal.pub.key = Own
    /\ cmd # None /\ cmd.op = "init" =>
        /\ ~whole /\ cmd.sealing.key = Own
        /\ cmd.pc = "seal_priv" => seal.pub = cmd.sealing
        /\ cmd.pc \in {"register", "meta", "end"} => SealedAs(cmd.sealing)
    /\ cmd # None /\ cmd.op = "adopt" =>
        /\ cmd.pc = "seal_priv" => seal.pub = cmd.sealing /\ ~trusted
        /\ cmd.pc = "prove" => SealedAs(cmd.sealing) /\ ~trusted

Complete(image) == image # None => image.meta = Entries

\* All that the vault may be made of again is complete.
ImagesWhole ==
    /\ whole =>
        /\ Complete(vault.main) /\ Complete(vault.wal)
        /\ \A s \in DOMAIN archives : Complete(archives[s].image)
        /\ cmd # None => Complete(cmd.image) /\ Complete(cmd.target)
        /\ writer # None => Complete(writer.apart)
    /\ At("init", "end") => Live.meta = Entries

\* What a restore replaces, as far as it has come.
Kept ==
    /\ vault.wal = None
    /\ cmd.pc = "write" => cmd.image = vault.main
    /\ cmd.pc \in {"close", "unlink", "replace"} =>
        \E s \in DOMAIN archives : archives[s] = [key |-> cmd.key, image |-> vault.main]

\* How far a snapshot, and the restore that took it, has come.
CopyGood ==
    cmd # None /\ Copying =>
        /\ cmd.pc \in {"checkpoint", "read"} => Live \in cmd.during
        /\ cmd.pc = "read" /\ ~cmd.refused => vault.main \in cmd.during
        /\ cmd.pc = "write" /\ ~cmd.refused => cmd.image \in cmd.during
        /\ cmd.pc # "checkpoint" /\ cmd.op = "restore" /\ ~cmd.refused /\ ~cmd.later => Kept
        /\ cmd.pc = "prune" =>
            /\ Retention > 0 => cmd.stamp \in DOMAIN archives
            /\ \A s \in DOMAIN archives : s <= cmd.stamp

FilesInv ==
    /\ TypeInv
    /\ \A s \in DOMAIN archives : s <= now
    /\ SealGood
    /\ ImagesWhole
    /\ CopyGood
===============================================================================
