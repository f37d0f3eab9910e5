------------------------------ MODULE FilesProofs ------------------------------
(***************************************************************************)
(* Theorems about VaultFiles for any secrets, retention and clock.         *)
(***************************************************************************)
EXTENDS VaultFiles, FiniteSetTheorems, TLAPS

USE NoneAssumption

(***************************************************************************)
(* The database and the sealed files.                                      *)
(***************************************************************************)
\* What SQLite reads is an image, and so is what folding the log leaves
\* (backup.rs:196-201).
LEMMA LiveImage ==
    ASSUME TypeOK, vault.main # None
    PROVE  /\ Live \in Image
           /\ Folded \in [main : Image \cup {None}, wal : Image \cup {None}]
           /\ Folded.main = Live /\ Folded.wal = None /\ Live # None
  BY DEF TypeOK, Live, Folded

\* The vault a command leaves when it closes its connection reads the same.
LEMMA ClosedReadsTheSame ==
    ASSUME TypeOK, vault.main # None, CloseConnection
    PROVE  /\ vault' \in [main : Image \cup {None}, wal : Image \cup {None}]
           /\ vault' \in {vault, Folded}
           /\ vault'.main # None
           /\ Live' = Live
  BY LiveImage DEF CloseConnection, TypeOK, Live, Folded

\* A database image with one more entry, or other rows, is an image
\* (session.rs:155-159, db.rs:223-266).
LEMMA ImageUpdates ==
    ASSUME NEW i \in Image
    PROVE  /\ i.meta < Entries => [i EXCEPT !.meta = @ + 1] \in Image
           /\ \A id \in Ids :
                [i EXCEPT !.rows = IF id \in @ THEN @ \ {id} ELSE @ \cup {id}] \in Image
  BY DEF Image, Entries

\* There is always a run for a new sealed object: two files leave one of
\* three (tpm.rs:200-221).
LEMMA FreshSealType ==
    ASSUME TypeOK, NEW k \in OuterKeys
    PROVE  FreshSeal(k) \in Sealed /\ FreshSeal(k).key = k
  <1> DEFINE Unused(r) == \A f \in {seal.pub, seal.priv} \ {None} : f.run # r
  <1>1. \E r \in 1..3 : Unused(r)
    <2>1. \A f \in {seal.pub, seal.priv} \ {None} : f.run \in 1..3
      BY DEF TypeOK, Sealed
    <2>2. CASE seal.pub = None
      BY <2>1, <2>2
    <2>3. CASE seal.priv = None
      BY <2>1, <2>3
    <2>4. CASE seal.pub # None /\ seal.priv # None
      <3>1. PICK r \in 1..3 : r # seal.pub.run /\ r # seal.priv.run
        BY <2>1, <2>4
      <3> QED
        BY <3>1
    <2> QED
      BY <2>2, <2>3, <2>4
  <1>2. (CHOOSE r \in 1..3 : Unused(r)) \in 1..3
    BY <1>1
  <1> HIDE DEF Unused
  <1>3. FreshSeal(k) = [key |-> k, run |-> CHOOSE r \in 1..3 : Unused(r)]
    BY DEF FreshSeal, Unused
  <1> QED
    BY <1>2, <1>3 DEF Sealed

\* What the machine unseals is a key, or nothing (tpm.rs:256-313).
LEMMA UnsealedType ==
    ASSUME TypeOK
    PROVE  Unsealed \in OuterKeys \cup {None}
  BY DEF TypeOK, Unsealed, IsProvisioned, Sealed

(***************************************************************************)
(* Type correctness.                                                       *)
(***************************************************************************)
\* A command is one again with another program counter, and when it ends.
LEMMA Goes ==
    ASSUME TypeOK, cmd # None
    PROVE  cmd \in Command /\ \A pc \in Pcs : [cmd EXCEPT !.pc = pc] \in Command
  BY DEF TypeOK, Command

\* A command is one again with what it has read (commands.rs:350-411,
\* backup.rs:94-123).
LEMMA CommandUpdates ==
    ASSUME NEW c \in Command
    PROVE  /\ \A k \in OuterKeys, d \in SUBSET Image :
                /\ [c EXCEPT !.key = k, !.during = d] \in Command
                /\ \A i \in Image : [c EXCEPT !.key = k, !.target = i, !.during = d] \in Command
           /\ \A pc \in Pcs :
                /\ \A i \in Image : [c EXCEPT !.image = i, !.pc = pc] \in Command
                /\ \A s \in Stamps : [c EXCEPT !.stamp = s, !.image = None, !.during = {},
                                               !.pc = pc] \in Command
                /\ \A b, l \in BOOLEAN :
                     [c EXCEPT !.pc = pc, !.refused = b, !.later = l] \in Command
           /\ \A x \in Sealed : /\ [c EXCEPT !.sealing = x] \in Command
                                /\ [c EXCEPT !.sealing = x].op = c.op
                                /\ [c EXCEPT !.sealing = x].pc = c.pc
                                /\ [c EXCEPT !.sealing = x].sealing = x
  <1>1. ASSUME NEW k \in OuterKeys, NEW d \in SUBSET Image
        PROVE  /\ [c EXCEPT !.key = k, !.during = d] \in Command
               /\ \A i \in Image : [c EXCEPT !.key = k, !.target = i, !.during = d] \in Command
    BY DEF Command
  <1>2. ASSUME NEW pc \in Pcs, NEW i \in Image
        PROVE  [c EXCEPT !.image = i, !.pc = pc] \in Command
    BY DEF Command
  <1>3. ASSUME NEW pc \in Pcs, NEW s \in Stamps
        PROVE  [c EXCEPT !.stamp = s, !.image = None, !.during = {}, !.pc = pc] \in Command
    <2> DEFINE d == {}
    <2>1. d \in SUBSET Image
      OBVIOUS
    <2> HIDE DEF d
    <2>2. [c EXCEPT !.stamp = s, !.image = None, !.during = d, !.pc = pc] \in Command
      BY <2>1 DEF Command
    <2> QED
      BY <2>2 DEF d
  <1>4. ASSUME NEW pc \in Pcs, NEW b \in BOOLEAN, NEW l \in BOOLEAN
        PROVE  [c EXCEPT !.pc = pc, !.refused = b, !.later = l] \in Command
    BY DEF Command
  <1>5. ASSUME NEW x \in Sealed
        PROVE  /\ [c EXCEPT !.sealing = x] \in Command
               /\ [c EXCEPT !.sealing = x].op = c.op
               /\ [c EXCEPT !.sealing = x].pc = c.pc
               /\ [c EXCEPT !.sealing = x].sealing = x
    BY DEF Command
  <1> QED
    BY <1>1, <1>2, <1>3, <1>4, <1>5

\* A command that is told of a change of the database is the same command.
LEMMA NotedIs ==
    ASSUME TypeOK, NEW i \in Image, cmd # None
    PROVE  /\ Noted(i) \in Command
           /\ Noted(i).op = cmd.op /\ Noted(i).pc = cmd.pc /\ Noted(i).sealing = cmd.sealing
           /\ Noted(i).key = cmd.key /\ Noted(i).image = cmd.image
           /\ Noted(i).target = cmd.target /\ Noted(i).stamp = cmd.stamp
           /\ Noted(i).refused = cmd.refused
           /\ cmd.key # None => Noted(i).later
           /\ cmd.key # None /\ cmd.pc \in {"checkpoint", "read"}
              => Noted(i).during = cmd.during \cup {i}
           /\ cmd.pc = "write" => Noted(i).during = cmd.during
  <1>1. cmd \in Command
    BY DEF TypeOK
  <1>2. CASE cmd.key = None
    BY <1>1, <1>2 DEF Noted
  <1>3. CASE cmd.key # None
    <2> DEFINE d == IF cmd.pc \in {"checkpoint", "read"} THEN cmd.during \cup {i} ELSE cmd.during
    <2>1. Noted(i) = [cmd EXCEPT !.during = d, !.later = TRUE]
      BY <1>3 DEF Noted
    <2>2. d \in SUBSET Image
      BY <1>1 DEF Command
    <2>3. /\ cmd.pc \in {"checkpoint", "read"} => d = cmd.during \cup {i}
          /\ cmd.pc = "write" => d = cmd.during
      OBVIOUS
    <2> HIDE DEF d
    <2> QED
      BY <1>1, <2>1, <2>2, <2>3 DEF Command
  <1> QED
    BY <1>2, <1>3

\* Every command begins as one (commands.rs:62-352).
LEMMA Starts ==
    ASSUME NEW op \in Ops, NEW pc \in Pcs
    PROVE  Start(op, pc) \in Command
  BY DEF Start, Command

\* The number of archives to keep is a number (config.rs:129).
LEMMA RetentionIsInt == Retention \in Int
  BY FilesAssumption

\* Adding an archive, replacing one or removing one leaves archives
\* (backup.rs:121-123, 180-190).
LEMMA ArchivesAre ==
    /\ \A S \in SUBSET Stamps : \A f \in [S -> Archive] : f \in Archives
    /\ \A f \in Archives : /\ DOMAIN f \in SUBSET Stamps
                           /\ f \in [DOMAIN f -> Archive]
  BY DEF Archives

\* Init makes the directories and no file (paths.rs:79-85).
LEMMA TypeInvInit == Init => TypeInv
  <1> SUFFICES ASSUME Init PROVE TypeInv
    OBVIOUS
  <1>1. archives \in [{} -> Archive]
    BY DEF Init
  <1>2. archives \in Archives /\ DOMAIN archives = {}
    BY <1>1, ArchivesAre
  <1>3. now \in Stamps
    BY FilesAssumption DEF Init, Stamps
  <1> QED
    BY <1>2, <1>3 DEF Init, TypeInv, TypeOK

\* No step, of a command, of the other process or of the clock, leaves the
\* types or what a command relies on.
LEMMA TypeInvStep == TypeInv /\ [Next]_vars => TypeInv'
  <1> SUFFICES ASSUME TypeInv, [Next]_vars PROVE TypeInv'
    OBVIOUS
  <1> USE DEF TypeInv
  <1>1. CASE Fail
    <2>1. vault' = vault \/ CloseConnection
      BY <1>1 DEF Fail
    <2>2. vault.main # None /\ TypeOK
      BY <1>1 DEF Fail
    <2>3. vault' \in [main : Image \cup {None}, wal : Image \cup {None}] /\ vault'.main # None
      BY <2>1, <2>2, ClosedReadsTheSame DEF TypeOK
    <2> QED
      BY <1>1, <2>3 DEF Fail, TypeOK, historyVars
  <1>2. CASE Crash
    BY <1>2 DEF Crash, TypeOK, historyVars
  <1>3. CASE StartInit
    <2>1. cmd' \in Command /\ cmd'.op = "init" /\ cmd'.pc = "seal_pub" /\ cmd'.sealing # None
      <3>1. FreshSeal(Own) \in Sealed /\ FreshSeal(Own) # None
        BY FreshSealType DEF OuterKeys
      <3>2. Start("init", "seal_pub") \in Command
        BY Starts DEF Ops, Pcs
      <3>3. Start("init", "seal_pub").op = "init" /\ Start("init", "seal_pub").pc = "seal_pub"
        BY DEF Start
      <3> QED
        BY <1>3, <3>1, <3>2, <3>3, CommandUpdates DEF StartInit
    <2>2. vault'.main \in Image /\ vault'.main.meta < Entries /\ vault'.wal = None
      BY <1>3 DEF StartInit, IsInitialized, TypeOK, Image, Entries
    <2> QED
      BY <1>3, <2>1, <2>2 DEF StartInit, TypeOK, historyVars, IsInitialized, CommandGood,
                              Copying, Live
  <1>4. CASE Register
    BY <1>4, Goes DEF Register, Goto, At, TypeOK, historyVars, CommandGood, Copying, Pcs, Live
  <1>5. CASE WriteMeta
    <2>1. Live \in Image /\ Live.meta < Entries
      BY <1>5, LiveImage DEF WriteMeta, At, CommandGood
    <2>2. PICK i \in Image : i = [Live EXCEPT !.meta = @ + 1] /\ i.meta = Live.meta + 1
      BY <2>1, ImageUpdates DEF Image
    <2>3. vault' = [vault EXCEPT !.wal = i] /\ vault'.main # None /\ Live' = i
      BY <1>5, <2>2 DEF WriteMeta, At, Logged, Live, TypeOK
    <2>4. cmd' \in Command /\ cmd'.op = "init" /\ cmd'.sealing # None
          /\ cmd'.pc = IF i.meta = Entries THEN "end" ELSE "meta"
      <3>1. cmd \in Command /\ cmd.op = "init" /\ cmd.sealing # None
        BY <1>5, Goes DEF WriteMeta, At, CommandGood
      <3>2. cmd' = [cmd EXCEPT !.pc = IF i.meta = Entries THEN "end" ELSE "meta"]
        BY <1>5, <2>2 DEF WriteMeta, Goto
      <3>3. cmd' \in Command
        BY <3>2, <1>5, Goes DEF WriteMeta, At, Pcs
      <3> QED
        BY <3>1, <3>2, <3>3 DEF Command
    <2>5. cmd'.pc # "end" => i.meta < Entries
      BY <2>4 DEF Image, Entries
    <2>6. CommandGood'
      BY <1>5, <2>3, <2>4, <2>5 DEF WriteMeta, At, CommandGood, Copying, historyVars
    <2> QED
      BY <1>5, <2>3, <2>4, <2>6 DEF WriteMeta, TypeOK, historyVars
  <1>6. CASE EndInit
    BY <1>6, ClosedReadsTheSame DEF EndInit, At, TypeOK, historyVars
  <1>7. ASSUME NEW k \in OuterKeys, StartAdopt(k) PROVE TypeInv'
    <2>1. cmd' \in Command /\ cmd'.op = "adopt" /\ cmd'.pc = "seal_pub" /\ cmd'.sealing # None
      <3>1. FreshSeal(k) \in Sealed /\ FreshSeal(k) # None
        BY FreshSealType
      <3>2. Start("adopt", "seal_pub") \in Command
        BY Starts DEF Ops, Pcs
      <3>3. Start("adopt", "seal_pub").op = "adopt" /\ Start("adopt", "seal_pub").pc = "seal_pub"
        BY DEF Start
      <3> QED
        BY <1>7, <3>1, <3>2, <3>3, CommandUpdates DEF StartAdopt
    <2> QED
      BY <1>7, <2>1 DEF StartAdopt, TypeOK, historyVars, IsInitialized, CommandGood, Copying
  <1>8. CASE SealPub
    <2>1. cmd.sealing \in Sealed /\ cmd.op \in {"init", "adopt"}
      BY <1>8, Goes DEF SealPub, CommandGood, Copying, Command, Ops, TypeOK
    <2> QED
      BY <1>8, <2>1, Goes
         DEF SealPub, Goto, TypeOK, historyVars, CommandGood, Copying, Pcs, Live
  <1>9. CASE SealPriv
    <2>1. cmd.sealing \in Sealed /\ cmd.op \in {"init", "adopt"}
      BY <1>9, Goes DEF SealPriv, CommandGood, Copying, Command, Ops, TypeOK
    <2> QED
      BY <1>9, <2>1, Goes
         DEF SealPriv, Goto, TypeOK, historyVars, CommandGood, Copying, Pcs, Live
  <1>10. CASE Prove
    BY <1>10, ClosedReadsTheSame DEF Prove, At, TypeOK, historyVars
  <1>11. CASE StartBackup
    <2>1. Unsealed \in OuterKeys /\ Live \in Image
      BY <1>11, UnsealedType, LiveImage DEF StartBackup, Opens, IsInitialized
    <2>2. cmd' \in Command /\ cmd'.op = "backup" /\ cmd'.pc = "checkpoint" /\ cmd'.key # None
      <3>1. Start("backup", "checkpoint") \in Command
        BY Starts DEF Ops, Pcs
      <3>2. cmd' \in Command
        BY <1>11, <2>1, <3>1, CommandUpdates DEF StartBackup
      <3> QED
        BY <1>11, <2>1, <3>2 DEF StartBackup, Start
    <2> QED
      BY <1>11, <2>2 DEF StartBackup, Opens, TypeOK, historyVars, IsInitialized, CommandGood,
                         Copying
  <1>12. ASSUME NEW s \in DOMAIN archives, StartRestore(s) PROVE TypeInv'
    <2>1. Unsealed \in OuterKeys /\ Live \in Image
      BY <1>12, UnsealedType, LiveImage DEF StartRestore, Opens, IsInitialized
    <2>2. archives[s].image \in Image
      BY ArchivesAre DEF TypeOK, Archive
    <2>3. /\ cmd' \in Command /\ cmd'.op = "restore" /\ cmd'.pc = "checkpoint"
          /\ cmd'.key # None /\ cmd'.target # None
      <3>1. Start("restore", "checkpoint") \in Command
        BY Starts DEF Ops, Pcs
      <3>2. cmd' \in Command
        <4> DEFINE d == {Live}
        <4>1. cmd' = [Start("restore", "checkpoint") EXCEPT
                        !.key = Unsealed, !.target = archives[s].image, !.during = d]
          BY <1>12 DEF StartRestore
        <4>2. d \in SUBSET Image
          BY <2>1
        <4> HIDE DEF d
        <4> QED
          BY <2>1, <2>2, <3>1, <4>1, <4>2, CommandUpdates
      <3> QED
        BY <1>12, <2>1, <2>2, <3>2 DEF StartRestore, Start
    <2> QED
      BY <1>12, <2>3 DEF StartRestore, Opens, TypeOK, historyVars, IsInitialized, CommandGood,
                         Copying
  <1>13. CASE Checkpoint
    <2>1. vault' \in {vault, Folded} /\ vault'.main # None
      BY <1>13, LiveImage DEF Checkpoint
    <2>2. cmd.op \in {"backup", "restore"} /\ cmd \in Command
      BY <1>13, Goes DEF Checkpoint, CommandGood, Copying, Command, Ops
    <2>3. PICK b \in BOOLEAN : cmd' = [cmd EXCEPT !.pc = "read", !.refused = b, !.later = FALSE]
      BY <1>13 DEF Checkpoint
    <2>4. cmd' \in Command
      BY <2>2, <2>3, CommandUpdates DEF Pcs
    <2>5. cmd'.op = cmd.op /\ cmd'.pc = "read" /\ cmd'.key = cmd.key /\ cmd'.target = cmd.target
      BY <2>2, <2>3 DEF Command
    <2> QED
      BY <1>13, <2>1, <2>2, <2>4, <2>5, LiveImage
         DEF Checkpoint, TypeOK, historyVars, CommandGood, Copying
  <1>14. CASE ReadDb
    <2>1. cmd.op \in {"backup", "restore"}
      BY <1>14, Goes DEF ReadDb, CommandGood, Copying, Command, Ops
    <2>2. cmd' \in Command
      <3>1. cmd \in Command /\ vault.main \in Image /\ "write" \in Pcs
        BY <1>14, Goes DEF ReadDb, TypeOK, Pcs
      <3>2. cmd' = [cmd EXCEPT !.image = vault.main, !.pc = "write"]
        BY <1>14 DEF ReadDb
      <3> QED
        BY <3>1, <3>2, CommandUpdates
    <2> QED
      BY <1>14, <2>1, <2>2, Goes DEF ReadDb, TypeOK, historyVars, CommandGood, Copying, Command
  <1>15. CASE WriteArchive
    <2>1. cmd.op \in {"backup", "restore"} /\ cmd.key \in OuterKeys /\ cmd.image \in Image
      BY <1>15, Goes DEF WriteArchive, CommandGood, Copying, Command, Ops
    <2>2. archives' \in [DOMAIN archives \cup {now} -> Archive]
      BY <1>15, <2>1, ArchivesAre DEF WriteArchive, TypeOK, Archive
    <2>3. archives' \in Archives
      BY <2>2, ArchivesAre DEF TypeOK
    <2>4. cmd' \in Command
      <3>1. cmd \in Command /\ now \in Stamps
        BY <1>15, Goes DEF WriteArchive, TypeOK
      <3>2. PICK pc \in {"prune", "close"} :
              cmd' = [cmd EXCEPT !.stamp = now, !.image = None, !.during = {}, !.pc = pc]
        BY <1>15 DEF WriteArchive
      <3> QED
        BY <3>1, <3>2, CommandUpdates DEF Pcs
    <2> QED
      BY <1>15, <2>1, <2>3, <2>4, Goes
         DEF WriteArchive, TypeOK, historyVars, CommandGood, Copying, Command
  <1>16. CASE PruneOne
    <2>1. archives' \in [DOMAIN archives' -> Archive] /\ DOMAIN archives' \subseteq DOMAIN archives
      BY <1>16, ArchivesAre DEF PruneOne, TypeOK
    <2>2. archives' \in Archives
      BY <2>1, ArchivesAre DEF TypeOK
    <2> QED
      BY <1>16, <2>2 DEF PruneOne, At, TypeOK, historyVars, CommandGood, Copying
  <1>17. CASE EndBackup
    BY <1>17, ClosedReadsTheSame DEF EndBackup, At, TypeOK, historyVars
  <1>18. CASE Close
    BY <1>18, ClosedReadsTheSame, Goes
       DEF Close, Goto, At, TypeOK, historyVars, CommandGood, Copying, Pcs
  <1>19. CASE Unlink
    <2>1. writer' \in Writer \cup {None} /\ (writer' = None <=> writer = None)
      BY <1>19, LiveImage DEF Unlink, At, Attached, TypeOK, Writer
    <2> QED
      BY <1>19, <2>1, Goes DEF Unlink, Goto, At, TypeOK, historyVars, CommandGood, Copying, Pcs
  <1>20. CASE Replace
    <2>1. writer' \in Writer \cup {None} /\ (writer' = None <=> writer = None)
      BY <1>20 DEF Replace, TypeOK, Writer
    <2>2. cmd.target \in Image
      BY <1>20, Goes DEF Replace, At, CommandGood, Command
    <2>3. vault' \in [main : Image \cup {None}, wal : Image \cup {None}] /\ vault'.main # None
      <3>1. vault.wal = None => vault' = [vault EXCEPT !.main = cmd.target]
        BY <1>20 DEF Replace
      <3>2. vault.wal # None => \E i \in Image : vault' = [main |-> cmd.target, wal |-> i]
        <4>1. [meta |-> 0, rows |-> {}] \in Image
          BY DEF Image, Entries
        <4>2. vault.wal # None => vault.wal \in Image
          BY DEF TypeOK
        <4> QED
          BY <1>20, <2>2, <4>1, <4>2 DEF Replace
      <3> QED
        BY <2>2, <3>1, <3>2 DEF TypeOK
    <2>4. whole' \in BOOLEAN
      BY <1>20 DEF Replace, TypeOK
    <2> QED
      BY <1>20, <2>1, <2>3, <2>4 DEF Replace, At, TypeOK
  <1>21. CASE OpenWriter
    <2>1. writer' \in Writer /\ writer'.apart = None
      BY <1>21, UnsealedType DEF OpenWriter, Opens, Writer
    <2> QED
      BY <1>21, <2>1 DEF OpenWriter, Opens, IsInitialized, TypeOK, historyVars, CommandGood,
                         Copying, Live
  <1>22. ASSUME NEW id \in Ids, SaveOrDelete(id) PROVE TypeInv'
    <2>1. PICK saved \in Image :
            /\ saved = [Seen EXCEPT !.rows = IF id \in @ THEN @ \ {id} ELSE @ \cup {id}]
            /\ saved.meta = Entries
      <3>1. Seen \in Image
        BY <1>22, LiveImage DEF SaveOrDelete, Seen, Attached, TypeOK, Writer
      <3> QED
        BY <1>22, <3>1, ImageUpdates DEF SaveOrDelete, Image
    <2>2. CASE Attached
      <3>1. vault' = Logged(saved) /\ writer' = writer /\ cmd' = Noted(saved)
        BY <1>22, <2>1, <2>2 DEF SaveOrDelete
      <3>2. /\ cmd = None => cmd' = None
            /\ cmd # None => /\ cmd' \in Command /\ cmd'.op = cmd.op /\ cmd'.pc = cmd.pc
                              /\ cmd'.sealing = cmd.sealing /\ cmd'.key = cmd.key
                              /\ cmd'.image = cmd.image /\ cmd'.target = cmd.target
        BY <2>1, <3>1, NotedIs DEF Noted
      <3>3. vault'.main = vault.main /\ vault' \in [main : Image \cup {None}, wal : Image \cup {None}]
        BY <3>1 DEF Logged, TypeOK
      <3>4. cmd # None => CommandGood'
        <4>1. cmd # None /\ cmd.op = "init" => cmd.pc = "end"
          BY <1>22, <2>2, Goes DEF SaveOrDelete, Seen, CommandGood, Command, Image, Entries
        <4> QED
          BY <1>22, <4>1, <3>1, <3>2 DEF SaveOrDelete, CommandGood, Copying
      <3> QED
        BY <1>22, <3>1, <3>2, <3>3, <3>4 DEF SaveOrDelete, TypeOK, historyVars
    <2>3. CASE ~Attached
      <3>1. writer' = [writer EXCEPT !.apart = saved] /\ UNCHANGED <<vault, cmd>>
        BY <1>22, <2>1, <2>3 DEF SaveOrDelete
      <3>2. writer' \in Writer /\ writer.apart # None
        BY <1>22, <2>3, <3>1 DEF SaveOrDelete, Attached, TypeOK, Writer
      <3> QED
        BY <1>22, <3>1, <3>2 DEF SaveOrDelete, TypeOK, historyVars, CommandGood, Copying, Live
    <2> QED
      BY <2>2, <2>3
  <1>23. CASE CloseWriter
    <2>1. vault' \in [main : Image \cup {None}, wal : Image \cup {None}] /\ vault'.main # None
      BY <1>23, LiveImage DEF CloseWriter, Attached, TypeOK, Writer
    <2>2. CASE cmd' = cmd
      <3>1. cmd # None /\ cmd.op = "init" => vault' = vault
        BY <1>23, Goes DEF CloseWriter, CommandGood, HoldsDb, Attached, Command
      <3> QED
        BY <1>23, <2>1, <2>2, <3>1 DEF CloseWriter, TypeOK, historyVars, CommandGood, Copying, Live
    <2>3. CASE ~HoldsDb /\ ~Attached /\ cmd' = Noted(writer.apart) /\ cmd # None
      <3>1. writer.apart \in Image
        BY <1>23, <2>3 DEF CloseWriter, Attached, TypeOK, Writer
      <3>2. /\ cmd' \in Command /\ cmd'.op = cmd.op /\ cmd'.pc = cmd.pc
            /\ cmd'.sealing = cmd.sealing /\ cmd'.key = cmd.key /\ cmd'.image = cmd.image
            /\ cmd'.target = cmd.target
        BY <2>3, <3>1, NotedIs
      <3>3. cmd.op # "init"
        BY <2>3, Goes DEF HoldsDb, CommandGood, Command
      <3> QED
        BY <1>23, <2>1, <2>3, <3>2, <3>3 DEF CloseWriter, TypeOK, historyVars, CommandGood, Copying
    <2> QED
      BY <1>23, <2>2, <2>3 DEF CloseWriter, Noted
  <1>27. CASE AutoCheckpoint
    <2>1. vault.main # None
      BY <1>27 DEF AutoCheckpoint
    <2>2. vault' = Folded /\ Live' = Live /\ vault'.main # None
      BY <1>27, <2>1, LiveImage DEF AutoCheckpoint, Live
    <2> QED
      BY <1>27, <2>1, <2>2, LiveImage DEF AutoCheckpoint, TypeOK, historyVars, CommandGood, Copying
  <1>24. CASE KillWriter
    BY <1>24 DEF KillWriter, TypeOK, historyVars, CommandGood, Copying, Live
  <1>25. CASE Advance
    <2>1. now' \in Stamps
      BY <1>25, FilesAssumption DEF Advance, TypeOK, Stamps
    <2> QED
      BY <1>25, <2>1 DEF Advance, TypeOK, historyVars, CommandGood, Copying, Live
  <1>26. CASE UNCHANGED vars
    <2>1. UNCHANGED <<vault, seal, archives, now, cmd, writer, whole, trusted>>
      BY <1>26 DEF vars
    <2> QED
      BY <2>1 DEF TypeOK, CommandGood, Copying, Live
  <1> QED
    BY <1>1, <1>2, <1>3, <1>4, <1>5, <1>6, <1>7, <1>8, <1>9, <1>10, <1>11, <1>12, <1>13,
       <1>14, <1>15, <1>16, <1>17, <1>18, <1>19, <1>20, <1>21, <1>22, <1>23, <1>24, <1>25,
       <1>26, <1>27 DEF Next

(***************************************************************************)
(* The other process.                                                      *)
(***************************************************************************)
\* A save puts a complete image where SQLite reads, and tells a command that
\* copies the database; or it puts it into the log that a restore has removed
\* (db.rs:223-266).
LEMMA SaveEffect ==
    ASSUME TypeInv, NEW id \in Ids, SaveOrDelete(id)
    PROVE  /\ UNCHANGED <<seal, archives, now, whole, trusted>>
           /\ writer # None /\ vault.main # None
           /\ \/ /\ Attached /\ Live' \in Image /\ Live'.meta = Entries
                 /\ vault'.main = vault.main /\ vault'.wal = Live'
                 /\ writer' = writer /\ cmd' = Noted(Live')
              \/ /\ ~Attached /\ UNCHANGED <<vault, cmd>>
                 /\ writer' # None /\ writer'.apart \in Image /\ writer'.apart.meta = Entries
  <1> USE DEF TypeInv
  <1>1. vault.main # None /\ writer # None
    BY DEF SaveOrDelete
  <1>2. PICK saved \in Image :
          /\ saved = [Seen EXCEPT !.rows = IF id \in @ THEN @ \ {id} ELSE @ \cup {id}]
          /\ saved.meta = Entries
    <2>1. Seen \in Image
      BY <1>1, LiveImage DEF SaveOrDelete, Seen, Attached, TypeOK, Writer
    <2> QED
      BY <2>1, ImageUpdates DEF SaveOrDelete, Image
  <1>3. CASE Attached
    <2>1. vault' = Logged(saved) /\ writer' = writer /\ cmd' = Noted(saved)
      BY <1>2, <1>3 DEF SaveOrDelete
    <2>2. Live' = saved /\ vault'.main = vault.main /\ vault'.wal = saved
      BY <1>2, <2>1 DEF Logged, Live, TypeOK
    <2> QED
      BY <1>1, <1>2, <1>3, <2>1, <2>2 DEF SaveOrDelete, historyVars
  <1>4. CASE ~Attached
    <2>1. writer' = [writer EXCEPT !.apart = saved] /\ UNCHANGED <<vault, cmd>>
      BY <1>2, <1>4 DEF SaveOrDelete
    <2>2. writer \in Writer
      BY <1>1 DEF TypeOK
    <2>3. writer' \in Writer /\ writer'.apart = saved
      BY <2>1, <2>2 DEF Writer
    <2> QED
      BY <1>1, <1>2, <1>4, <2>1, <2>3 DEF SaveOrDelete, historyVars
  <1> QED
    BY <1>3, <1>4

\* Whatever the other process does, a command goes on where it is.
LEMMA OthersKeep ==
    ASSUME TypeInv, CloseWriter \/ \E id \in Ids : SaveOrDelete(id)
    PROVE  /\ cmd = None => cmd' = None
           /\ cmd # None => /\ cmd' \in Command /\ cmd'.op = cmd.op /\ cmd'.pc = cmd.pc
                             /\ cmd'.sealing = cmd.sealing /\ cmd'.key = cmd.key
                             /\ cmd'.image = cmd.image /\ cmd'.target = cmd.target
                             /\ cmd'.stamp = cmd.stamp /\ cmd'.refused = cmd.refused
  <1>0. cmd # None => cmd \in Command
    BY DEF TypeInv, TypeOK
  <1>1. cmd' = cmd \/ \E i \in Image : cmd' = Noted(i)
    <2>1. CASE CloseWriter
      <3>1. ~Attached => writer.apart \in Image
        BY <2>1 DEF CloseWriter, Attached, TypeInv, TypeOK, Writer
      <3> QED
        BY <2>1, <3>1 DEF CloseWriter
    <2>2. ASSUME NEW id \in Ids, SaveOrDelete(id)
          PROVE  cmd' = cmd \/ \E i \in Image : cmd' = Noted(i)
      BY <2>2, SaveEffect
    <2> QED
      BY <2>1, <2>2
  <1>2. cmd = None => cmd' = None
    BY <1>1 DEF Noted
  <1>3. ASSUME NEW i \in Image, cmd' = Noted(i), cmd # None
        PROVE  /\ cmd' \in Command /\ cmd'.op = cmd.op /\ cmd'.pc = cmd.pc
               /\ cmd'.sealing = cmd.sealing /\ cmd'.key = cmd.key
               /\ cmd'.image = cmd.image /\ cmd'.target = cmd.target
               /\ cmd'.stamp = cmd.stamp /\ cmd'.refused = cmd.refused
    BY <1>3, NotedIs DEF TypeInv
  <1> QED
    BY <1>0, <1>1, <1>2, <1>3

(***************************************************************************)
(* The sealed files.                                                       *)
(***************************************************************************)
\* Whatever seals the machine's key, init or adopt, killed or not, what is
\* claimed of the two files stays true (tpm.rs:222-254).
LEMMA SealStep == TypeInv /\ SealGood /\ [Next]_vars => SealGood'
  <1> SUFFICES ASSUME TypeInv, SealGood, [Next]_vars PROVE SealGood'
    OBVIOUS
  <1> USE DEF SealGood, SealedAs
  <1>1. CASE Fail \/ Crash
    BY <1>1 DEF Fail, Crash, historyVars
  <1>2. CASE StartInit
    <2>1. cmd' # None => /\ cmd'.op = "init" /\ cmd'.pc = "seal_pub"
                         /\ cmd'.sealing.key = Own
      BY <1>2, FreshSealType DEF StartInit, Start, TypeInv, OuterKeys
    <2> QED
      BY <1>2, <2>1 DEF StartInit, historyVars, IsInitialized, TypeInv
  <1>3. CASE Register
    BY <1>3 DEF Register, Goto, At, historyVars, TypeInv, TypeOK, Command
  <1>4. CASE WriteMeta
    <2>1. /\ cmd'.op = "init" /\ cmd'.sealing = cmd.sealing /\ cmd'.pc \in {"meta", "end"}
          /\ cmd.op = "init" /\ cmd.pc = "meta" /\ cmd # None
      BY <1>4 DEF WriteMeta, Goto, At, TypeInv, TypeOK, Command
    <2> QED
      BY <1>4, <2>1 DEF WriteMeta, historyVars
  <1>5. CASE EndInit
    BY <1>5 DEF EndInit, At
  <1>6. ASSUME NEW k \in OuterKeys, StartAdopt(k) PROVE SealGood'
    <2>1. cmd' # None => cmd'.op = "adopt" /\ cmd'.pc = "seal_pub"
      BY <1>6 DEF StartAdopt, Start
    <2> QED
      BY <1>6, <2>1 DEF StartAdopt, historyVars
  <1>7. CASE SealPub
    <2>1. /\ cmd \in Command /\ cmd.op \in {"init", "adopt"} /\ cmd.sealing # None
          /\ cmd'.op = cmd.op /\ cmd'.sealing = cmd.sealing /\ cmd'.pc = "seal_priv"
          /\ seal'.pub = cmd.sealing /\ whole' = whole
      BY <1>7, Goes DEF SealPub, Goto, TypeInv, TypeOK, CommandGood, Copying, Command, Ops
    <2>2. trusted' => cmd.op = "init"
      BY <1>7 DEF SealPub
    <2>3. cmd.op = "init" => ~whole /\ cmd.sealing.key = Own
      BY <1>7 DEF SealPub
    <2> QED
      BY <2>1, <2>2, <2>3
  <1>8. CASE SealPriv
    <2>1. /\ cmd \in Command /\ cmd.op \in {"init", "adopt"} /\ cmd.sealing # None
          /\ cmd'.op = cmd.op /\ cmd'.sealing = cmd.sealing
          /\ cmd'.pc = IF cmd.op = "init" THEN "register" ELSE "prove"
          /\ seal'.pub = seal.pub /\ seal'.priv = cmd.sealing
          /\ whole' = whole /\ trusted' = trusted
      BY <1>8, Goes DEF SealPriv, Goto, TypeInv, TypeOK, CommandGood, Copying, Command, Ops,
                        historyVars
    <2>2. /\ seal.pub = cmd.sealing
          /\ cmd.op = "init" => ~whole /\ cmd.sealing.key = Own
          /\ cmd.op = "adopt" => ~trusted
      BY <1>8, <2>1 DEF SealPriv
    <2> QED
      BY <2>1, <2>2
  <1>9. CASE Prove
    BY <1>9 DEF Prove, At
  <1>10. ASSUME UNCHANGED <<seal, trusted>>, whole' => whole, cmd # None /\ Copying,
                cmd' # None => cmd'.op = cmd.op
         PROVE  SealGood'
    BY <1>10 DEF Copying
  <1>11. ASSUME UNCHANGED <<seal, whole, trusted>>,
                cmd' # None => cmd # None /\ cmd'.op = cmd.op /\ cmd'.pc = cmd.pc
                                          /\ cmd'.sealing = cmd.sealing
         PROVE  SealGood'
    BY <1>11
  <1>12. CASE StartBackup \/ \E s \in DOMAIN archives : StartRestore(s)
    <2>1. /\ cmd' # None => cmd'.op \in {"backup", "restore"}
          /\ UNCHANGED <<seal, whole, trusted>>
      BY <1>12 DEF StartBackup, StartRestore, Start, historyVars
    <2> QED
      BY <2>1
  <1>13. CASE Checkpoint \/ ReadDb \/ WriteArchive
    <2>1. cmd # None /\ cmd \in Command /\ cmd.pc \in {"checkpoint", "read", "write"}
      BY <1>13, Goes DEF Checkpoint, ReadDb, WriteArchive, TypeInv
    <2>2. Copying
      BY <2>1 DEF TypeInv, CommandGood, Copying, Command, Ops
    <2>3. cmd'.op = cmd.op /\ UNCHANGED <<seal, whole, trusted>>
      BY <1>13, <2>1 DEF Checkpoint, ReadDb, WriteArchive, Goto, Command, historyVars
    <2> QED
      BY <2>1, <2>2, <2>3, <1>10
  <1>14. CASE PruneOne \/ EndBackup \/ Close \/ Unlink \/ Replace
    <2>1. cmd # None /\ Copying
      BY <1>14 DEF PruneOne, EndBackup, Close, Unlink, Replace, At, Copying
    <2>2. UNCHANGED <<seal, trusted>> /\ (whole' => whole)
      <3>1. CASE Replace
        BY <3>1 DEF Replace
      <3>2. CASE PruneOne \/ EndBackup \/ Close \/ Unlink
        BY <3>2 DEF PruneOne, EndBackup, Close, Unlink, historyVars
      <3> QED
        BY <1>14, <3>1, <3>2
    <2>3. cmd' # None => cmd'.op = cmd.op
      <3>1. cmd \in Command
        BY <2>1, Goes DEF TypeInv
      <3>2. CASE PruneOne \/ EndBackup \/ Replace
        BY <3>2 DEF PruneOne, EndBackup, Replace
      <3>3. CASE Close \/ Unlink
        BY <3>1, <3>3 DEF Close, Unlink, Goto, Command
      <3> QED
        BY <1>14, <3>2, <3>3
    <2> QED
      BY <2>1, <2>2, <2>3, <1>10
  <1>15. CASE OpenWriter \/ AutoCheckpoint \/ KillWriter \/ Advance
    BY <1>15, <1>11 DEF OpenWriter, AutoCheckpoint, KillWriter, Advance, historyVars
  <1>16. CASE CloseWriter \/ \E id \in Ids : SaveOrDelete(id)
    <2>1. UNCHANGED <<seal, whole, trusted>>
      BY <1>16 DEF CloseWriter, SaveOrDelete, historyVars
    <2> QED
      BY <1>16, <2>1, <1>11, OthersKeep
  <1>17. CASE UNCHANGED vars
    <2>1. UNCHANGED <<seal, cmd, whole, trusted>>
      BY <1>17 DEF vars
    <2> QED
      BY <2>1
  <1> QED
    BY <1>1, <1>2, <1>3, <1>4, <1>5, <1>6, <1>7, <1>8, <1>9, <1>12, <1>13, <1>14, <1>15,
       <1>16, <1>17 DEF Next

(***************************************************************************)
(* The database.                                                           *)
(***************************************************************************)
\* The only steps that touch the database, and what they do to it.
LEMMA VaultStep ==
    ASSUME TypeInv, [Next]_vars
    PROVE  \/ vault' = vault
           \/ vault.main # None /\ vault' = Folded
           \/ StartInit \/ WriteMeta \/ Unlink \/ Replace
           \/ (CloseWriter /\ ~Attached) \/ \E id \in Ids : SaveOrDelete(id)
  <1> USE DEF TypeInv
  <1>1. CASE Fail \/ EndInit \/ Prove \/ EndBackup \/ Close
    BY <1>1 DEF Fail, EndInit, Prove, EndBackup, Close, At, CloseConnection
  <1>2. CASE Checkpoint \/ AutoCheckpoint
    BY <1>2 DEF Checkpoint, AutoCheckpoint
  <1>3. CASE CloseWriter
    BY <1>3 DEF CloseWriter
  <1>4. CASE UNCHANGED vars
    BY <1>4 DEF vars
  <1> QED
    BY <1>1, <1>2, <1>3, <1>4
       DEF Next, Crash, Register, StartAdopt, SealPub, SealPriv, StartBackup, StartRestore,
           ReadDb, WriteArchive, PruneOne, OpenWriter, KillWriter, Advance

\* No failure, kill or fold changes what the database holds: folding moves it,
\* and what a restore removes is an empty log unless its checkpoint was refused
\* or something came after it.
LEMMA LiveStep ==
    ASSUME FilesInv, [Next]_vars
    PROVE  \/ Live' = Live
           \/ StartInit \/ WriteMeta \/ Replace \/ Loses \/ (CloseWriter /\ ~Attached)
           \/ \E id \in Ids : SaveOrDelete(id)
  <1> USE DEF FilesInv, TypeInv
  <1>1. CASE vault' = vault
    BY <1>1 DEF Live
  <1>2. CASE vault.main # None /\ vault' = Folded
    BY <1>2, LiveImage DEF Live
  <1>3. CASE Unlink /\ ~Loses
    <2>1. vault.wal = None
      BY <1>3 DEF Unlink, Loses, At, CopyGood, Copying, Kept
    <2>2. vault'.wal = None /\ vault'.main = vault.main
      BY <1>3 DEF Unlink, TypeOK
    <2> QED
      BY <2>1, <2>2 DEF Live
  <1> QED
    BY <1>1, <1>2, <1>3, VaultStep DEF Loses

\* The steps of a command that leave a database to copy and its history alone.
LEMMA CommandStays ==
    ASSUME TypeInv, Register \/ WriteMeta \/ SealPub \/ SealPriv \/ Close \/ Unlink
    PROVE  /\ cmd # None /\ cmd \in Command /\ cmd' \in Command
           /\ cmd'.op = cmd.op /\ cmd'.key = cmd.key /\ cmd'.image = cmd.image
           /\ cmd'.target = cmd.target /\ cmd'.refused = cmd.refused /\ cmd'.later = cmd.later
  <1>1. cmd # None /\ cmd \in Command
    BY Goes DEF Register, WriteMeta, SealPub, SealPriv, Close, Unlink, At, TypeInv
  <1>2. \E pc \in Pcs : cmd' = [cmd EXCEPT !.pc = pc]
    BY DEF Register, WriteMeta, SealPub, SealPriv, Close, Unlink, Goto, Pcs
  <1> QED
    BY <1>1, <1>2 DEF Command

\* What the vault may be made of again stays complete, and init ends with a
\* complete one (session.rs:154-159, backup.rs:83-160, commands.rs:390-426).
LEMMA WholeStep ==
    ASSUME FilesInv, [Next]_vars
    PROVE  ImagesWhole'
  <1> USE DEF FilesInv, TypeInv
  <1>0. TypeOK' /\ (vault'.main # None => vault'.main \in Image)
    BY TypeInvStep DEF TypeOK
  <1>1. whole' => whole \/ EndInit
    BY SaveEffect
       DEF Next, vars, historyVars, Fail, Crash, StartInit, Register, WriteMeta, StartAdopt,
           SealPub, SealPriv, Prove, StartBackup, StartRestore, Checkpoint, ReadDb,
           WriteArchive, PruneOne, EndBackup, Close, Unlink, Replace, OpenWriter,
           AutoCheckpoint, CloseWriter, KillWriter, Advance
  <1>2. ASSUME EndInit, whole'
        PROVE  /\ Complete(vault'.main) /\ Complete(vault'.wal)
               /\ \A s \in DOMAIN archives' : Complete(archives'[s].image)
               /\ cmd' = None
               /\ writer' # None => Complete(writer'.apart)
    <2>1. vault'.wal = None /\ cmd # None /\ At("init", "end") /\ Live.meta = Entries
      BY <1>2 DEF EndInit, At, ImagesWhole
    <2>2. Live' = Live
      BY <1>2, <2>1, ClosedReadsTheSame DEF EndInit
    <2>3. Complete(vault'.main) /\ Complete(vault'.wal)
      BY <2>1, <2>2 DEF Live, Complete
    <2>4. DOMAIN archives = {} /\ (writer # None => writer.apart = None)
      BY <2>1 DEF At, CommandGood
    <2> QED
      BY <1>2, <2>3, <2>4 DEF EndInit, Complete
  <1>3. ASSUME whole
        PROVE  /\ vault.main # None /\ Live # None /\ Complete(Live)
               /\ ~StartInit /\ ~WriteMeta
               /\ Complete(vault.main) /\ Complete(vault.wal)
               /\ \A s \in DOMAIN archives : Complete(archives[s].image)
               /\ cmd # None => Complete(cmd.image) /\ Complete(cmd.target)
               /\ writer # None => Complete(writer.apart)
    <2>1. vault.main # None /\ ~StartInit /\ ~WriteMeta
      BY <1>3 DEF StartInit, IsInitialized, WriteMeta, At, SealGood
    <2>2. Complete(vault.main) /\ Complete(vault.wal)
      BY <1>3 DEF ImagesWhole
    <2> QED
      BY <1>3, <2>1, <2>2 DEF ImagesWhole, Live
  <1>4. ASSUME whole, whole' PROVE Complete(vault'.main) /\ Complete(vault'.wal)
    <2>1. CASE vault' = vault
      BY <1>3, <1>4, <2>1
    <2>2. CASE vault' = Folded
      BY <1>3, <1>4, <2>2 DEF Folded, Complete
    <2>3. CASE Unlink
      <3>1. vault'.main = vault.main /\ vault'.wal = None
        BY <2>3 DEF Unlink, TypeOK
      <3> QED
        BY <1>3, <1>4, <3>1 DEF Complete
    <2>4. CASE Replace
      <3>1. vault.wal = None /\ vault' = [vault EXCEPT !.main = cmd.target] /\ cmd # None
        BY <1>4, <2>4 DEF Replace, At
      <3>2. vault'.main = cmd.target /\ vault'.wal = None
        BY <3>1 DEF TypeOK
      <3> QED
        BY <1>3, <1>4, <3>1, <3>2 DEF Complete
    <2>5. CASE CloseWriter /\ ~Attached
      <3>1. \/ vault' = vault
            \/ writer # None /\ vault' = [vault EXCEPT !.main = writer.apart]
        BY <2>5 DEF CloseWriter
      <3>2. \/ vault' = vault
            \/ writer # None /\ vault'.main = writer.apart /\ vault'.wal = vault.wal
        BY <3>1 DEF TypeOK
      <3> QED
        BY <1>3, <1>4, <3>2
    <2>6. ASSUME NEW id \in Ids, SaveOrDelete(id)
          PROVE  Complete(vault'.main) /\ Complete(vault'.wal)
      BY <1>3, <1>4, <2>6, SaveEffect DEF Complete
    <2> QED
      BY <1>3, <1>4, <2>1, <2>2, <2>3, <2>4, <2>5, <2>6, VaultStep
  <1>5. ASSUME whole, NEW s \in DOMAIN archives' PROVE Complete(archives'[s].image)
    <2>1. CASE archives' = archives
      BY <1>3, <1>5, <2>1
    <2>2. CASE WriteArchive
      BY <1>3, <1>5, <2>2 DEF WriteArchive
    <2>3. CASE PruneOne
      BY <1>3, <1>5, <2>3 DEF PruneOne
    <2> QED
      BY <2>1, <2>2, <2>3, SaveEffect
         DEF Next, vars, historyVars, Fail, Crash, StartInit, Register, WriteMeta, EndInit,
             StartAdopt, SealPub, SealPriv, Prove, StartBackup, StartRestore, Checkpoint,
             ReadDb, EndBackup, Close, Unlink, Replace, OpenWriter, AutoCheckpoint, CloseWriter,
             KillWriter, Advance
  <1>6. ASSUME whole, cmd' # None PROVE Complete(cmd'.image) /\ Complete(cmd'.target)
    <2>1. CASE cmd # None /\ cmd'.image = cmd.image /\ cmd'.target = cmd.target
      BY <1>3, <1>6, <2>1
    <2>2. CASE Register \/ SealPub \/ SealPriv \/ Close \/ Unlink
      BY <2>1, <2>2, CommandStays
    <2>3. CASE Fail \/ Crash \/ EndInit \/ Prove \/ EndBackup \/ Replace
      BY <1>6, <2>3 DEF Fail, Crash, EndInit, Prove, EndBackup, Replace
    <2>4. CASE StartBackup \/ \E k \in OuterKeys : StartAdopt(k)
      BY <1>6, <2>4 DEF StartBackup, StartAdopt, Start, Complete
    <2>5. ASSUME NEW s \in DOMAIN archives, StartRestore(s)
          PROVE  Complete(cmd'.image) /\ Complete(cmd'.target)
      BY <1>3, <1>6, <2>5 DEF StartRestore, Start, Complete
    <2>6. CASE Checkpoint
      <3>1. cmd # None /\ cmd \in Command
        BY <2>6, Goes DEF Checkpoint
      <3> QED
        BY <2>1, <2>6, <3>1 DEF Checkpoint, Command
    <2>7. CASE ReadDb
      <3>1. cmd # None /\ cmd \in Command
        BY <2>7, Goes DEF ReadDb
      <3>2. cmd'.image = vault.main /\ cmd'.target = cmd.target
        BY <2>7, <3>1 DEF ReadDb, Command
      <3> QED
        BY <1>3, <1>6, <3>1, <3>2
    <2>8. CASE WriteArchive
      <3>1. cmd # None /\ cmd \in Command
        BY <2>8, Goes DEF WriteArchive
      <3>2. cmd'.image = None /\ cmd'.target = cmd.target
        BY <2>8, <3>1 DEF WriteArchive, Command
      <3> QED
        BY <1>3, <1>6, <3>1, <3>2 DEF Complete
    <2>9. CASE CloseWriter \/ \E id \in Ids : SaveOrDelete(id)
      BY <1>6, <2>1, <2>9, OthersKeep
    <2>10. CASE UNCHANGED cmd
      BY <1>6, <2>1, <2>10
    <2> QED
      BY <1>3, <1>6, <2>2, <2>3, <2>4, <2>5, <2>6, <2>7, <2>8, <2>9, <2>10
         DEF Next, vars, PruneOne, OpenWriter, AutoCheckpoint, KillWriter, Advance
  <1>7. ASSUME whole, writer' # None PROVE Complete(writer'.apart)
    <2>1. CASE writer' = writer
      BY <1>3, <1>7, <2>1
    <2>2. CASE OpenWriter
      BY <2>2 DEF OpenWriter, Complete
    <2>3. CASE Unlink \/ Replace
      <3>1. writer # None /\ writer \in Writer
        BY <1>7, <2>3 DEF Unlink, Replace, Attached, TypeOK
      <3>2. writer'.apart = writer.apart \/ writer'.apart = Live
        BY <2>3, <3>1 DEF Unlink, Replace, Attached, Writer
      <3> QED
        BY <1>3, <1>7, <3>1, <3>2
    <2>4. ASSUME NEW id \in Ids, SaveOrDelete(id) PROVE Complete(writer'.apart)
      BY <1>3, <1>7, <2>4, SaveEffect DEF Complete
    <2>5. CASE CloseWriter \/ KillWriter
      BY <1>7, <2>5 DEF CloseWriter, KillWriter
    <2> QED
      BY <2>1, <2>2, <2>3, <2>4, <2>5
         DEF Next, vars, Fail, Crash, StartInit, Register, WriteMeta, EndInit, StartAdopt,
             SealPub, SealPriv, Prove, StartBackup, StartRestore, Checkpoint, ReadDb,
             WriteArchive, PruneOne, EndBackup, Close, AutoCheckpoint, Advance
  <1>8. ASSUME At("init", "end")' PROVE Live'.meta = Entries
    <2>1. CASE WriteMeta
      <3>1. Live \in Image /\ Live.meta + 1 = Entries /\ cmd \in Command
        BY <1>8, <2>1, LiveImage, Goes DEF WriteMeta, Goto, At, Command
      <3> QED
        BY <2>1, <3>1 DEF WriteMeta, Logged, Live, TypeOK, Image
    <2>2. CASE At("init", "end") /\ Live' = Live
      BY <2>2 DEF ImagesWhole
    <2>3. CASE CloseWriter \/ \E id \in Ids : SaveOrDelete(id)
      <3>1. At("init", "end")
        BY <1>8, <2>3, OthersKeep DEF At
      <3>2. writer # None => writer.apart = None
        BY <3>1 DEF At, CommandGood
      <3>3. CASE CloseWriter
        BY <2>2, <3>1, <3>2, <3>3, LiveStep
           DEF CloseWriter, Attached, StartInit, WriteMeta, Replace, Loses, Unlink, At,
               HoldsDb, Live
      <3>4. ASSUME NEW id \in Ids, SaveOrDelete(id) PROVE Live'.meta = Entries
        BY <3>2, <3>4, SaveEffect DEF Attached
      <3> QED
        BY <2>3, <3>3, <3>4
    <2>4. CASE UNCHANGED <<cmd, vault>>
      BY <1>8, <2>2, <2>4 DEF At, Live
    <2>5. CASE AutoCheckpoint
      <3>1. At("init", "end") /\ vault.main # None /\ vault' = Folded
        BY <1>8, <2>5 DEF AutoCheckpoint, At
      <3> QED
        BY <2>2, <3>1, LiveImage DEF Live
    <2>6. CASE Fail \/ Crash \/ EndInit \/ Prove \/ EndBackup \/ Replace
      BY <1>8, <2>6 DEF Fail, Crash, EndInit, Prove, EndBackup, Replace, At
    <2>7. CASE StartInit \/ StartBackup \/ (\E k \in OuterKeys : StartAdopt(k))
               \/ \E s \in DOMAIN archives : StartRestore(s)
      BY <1>8, <2>7 DEF StartInit, StartAdopt, StartBackup, StartRestore, Start, At
    <2>8. CASE Register \/ SealPub \/ SealPriv \/ Close \/ Unlink
      <3>1. cmd # None /\ cmd \in Command
        BY <2>8, Goes DEF Register, SealPub, SealPriv, Close, Unlink, At
      <3> QED
        BY <1>8, <2>8, <3>1
           DEF Register, SealPub, SealPriv, Close, Unlink, Goto, Command, At
    <2>9. CASE Checkpoint \/ ReadDb \/ WriteArchive
      <3>1. cmd # None /\ cmd \in Command
        BY <2>9, Goes DEF Checkpoint, ReadDb, WriteArchive
      <3>2. cmd'.pc # "end"
        BY <2>9, <3>1 DEF Checkpoint, ReadDb, WriteArchive, Command
      <3> QED
        BY <1>8, <3>2 DEF At
    <2> QED
      BY <2>1, <2>3, <2>4, <2>5, <2>6, <2>7, <2>8, <2>9
         DEF Next, vars, PruneOne, OpenWriter, KillWriter, Advance
  <1> QED
    BY <1>1, <1>2, <1>4, <1>5, <1>6, <1>7, <1>8 DEF ImagesWhole

\* A copy stays what the database held while others save, and a restore's own
\* copy what it will replace, unless the checkpoint was refused or something
\* came after it (backup.rs:83-131, commands.rs:413-426).
LEMMA CopyStep ==
    ASSUME FilesInv, [Next]_vars
    PROVE  CopyGood'
  <1> USE DEF FilesInv, TypeInv
  <1> SUFFICES ASSUME cmd' # None, Copying' PROVE CopyGood'
    BY DEF CopyGood
  <1>1. CASE Fail \/ Crash \/ EndInit \/ Prove \/ EndBackup \/ Replace
    BY <1>1 DEF Fail, Crash, EndInit, Prove, EndBackup, Replace
  <1>2. CASE StartInit \/ \E k \in OuterKeys : StartAdopt(k)
    BY <1>2 DEF StartInit, StartAdopt, Start, Copying
  <1>3. CASE Register \/ WriteMeta \/ SealPub \/ SealPriv
    <2>1. cmd # None /\ cmd.op \in {"init", "adopt"} /\ cmd'.op = cmd.op
      BY <1>3, CommandStays
         DEF Register, WriteMeta, SealPub, SealPriv, At, Command, CommandGood, Copying, Ops
    <2> QED
      BY <2>1 DEF Copying
  <1>4. CASE StartBackup \/ \E s \in DOMAIN archives : StartRestore(s)
    <2>1. Live' = Live
      BY <1>4 DEF StartBackup, StartRestore, Live
    <2>2. CASE StartBackup
      <3>1. cmd' = [Start("backup", "checkpoint") EXCEPT !.key = Unsealed, !.during = {Live}]
        BY <2>2 DEF StartBackup
      <3>2. cmd'.pc = "checkpoint" /\ Live \in cmd'.during
        BY <3>1 DEF Start
      <3> QED
        BY <2>1, <3>2 DEF CopyGood
    <2>3. ASSUME NEW s \in DOMAIN archives, StartRestore(s) PROVE CopyGood'
      <3>1. cmd' = [Start("restore", "checkpoint") EXCEPT
                      !.key = Unsealed, !.target = archives[s].image, !.during = {Live}]
        BY <2>3 DEF StartRestore
      <3>2. cmd'.pc = "checkpoint" /\ Live \in cmd'.during
        BY <3>1 DEF Start
      <3> QED
        BY <2>1, <3>2 DEF CopyGood
    <2> QED
      BY <1>4, <2>2, <2>3
  <1>5. CASE Checkpoint
    <2>1. /\ cmd # None /\ cmd \in Command /\ Copying /\ cmd.pc = "checkpoint"
          /\ Live \in cmd.during /\ vault.main # None
      BY <1>5, Goes DEF Checkpoint, CommandGood, Copying, CopyGood, Command, Ops
    <2>2. PICK folded \in BOOLEAN :
            /\ vault' = IF folded THEN Folded ELSE vault
            /\ cmd' = [cmd EXCEPT !.pc = "read", !.refused = ~folded, !.later = FALSE]
      BY <1>5 DEF Checkpoint
    <2>3. cmd'.pc = "read" /\ cmd'.during = cmd.during /\ cmd'.refused = ~folded
      BY <2>1, <2>2 DEF Command
    <2>4. Live' = Live /\ (folded => vault'.main = Live /\ vault'.wal = None)
      BY <2>1, <2>2, LiveImage DEF Live
    <2> QED
      BY <2>1, <2>3, <2>4 DEF CopyGood, Copying, Kept
  <1>6. CASE ReadDb
    <2>1. cmd # None /\ cmd \in Command /\ Copying /\ cmd.pc = "read"
      BY <1>6, Goes DEF ReadDb, CommandGood, Copying, Command, Ops
    <2>2. /\ cmd'.op = cmd.op /\ cmd'.pc = "write" /\ cmd'.during = cmd.during
          /\ cmd'.refused = cmd.refused /\ cmd'.later = cmd.later
          /\ cmd'.image = vault.main /\ vault' = vault
      BY <1>6, <2>1 DEF ReadDb, Command
    <2> QED
      BY <2>1, <2>2 DEF CopyGood, Copying, Kept
  <1>7. CASE WriteArchive
    <2>1. cmd # None /\ cmd \in Command /\ Copying /\ cmd.pc = "write" /\ now \in Stamps
      BY <1>7, Goes DEF WriteArchive, CommandGood, Copying, Command, Ops, TypeOK
    <2>2. /\ cmd'.op = cmd.op /\ cmd'.key = cmd.key /\ cmd'.stamp = now
          /\ cmd'.refused = cmd.refused /\ cmd'.later = cmd.later
          /\ cmd'.pc = IF cmd.op = "backup" THEN "prune" ELSE "close"
          /\ vault' = vault
          /\ DOMAIN archives' = DOMAIN archives \cup {now}
          /\ archives'[now] = [key |-> cmd.key, image |-> cmd.image]
      BY <1>7, <2>1 DEF WriteArchive, Command
    <2>3. \A s \in DOMAIN archives' : s <= now
      BY <2>1, <2>2 DEF Stamps
    <2>4. cmd.op = "restore" /\ ~cmd.refused /\ ~cmd.later =>
            vault.wal = None /\ cmd.image = vault.main
      BY <2>1 DEF CopyGood, Copying, Kept
    <2> QED
      BY <2>1, <2>2, <2>3, <2>4 DEF CopyGood, Copying, Kept
  <1>8. CASE PruneOne
    <2>1. /\ cmd # None /\ cmd \in Command /\ cmd.op = "backup" /\ cmd.pc = "prune"
          /\ UNCHANGED <<vault, cmd, writer>>
      BY <1>8, Goes DEF PruneOne, At
    <2>2. PICK s \in Excess : DOMAIN archives' = DOMAIN archives \ {s}
      BY <1>8 DEF PruneOne
    <2>3. ASSUME Retention > 0, s = cmd.stamp PROVE FALSE
      <3>1. DOMAIN archives \subseteq Nat
        BY ArchivesAre, FilesAssumption DEF TypeOK, Stamps
      <3>2. {r \in DOMAIN archives : r > cmd.stamp} = {}
        <4>1. s \in Nat
          BY <2>2, <3>1 DEF Excess
        <4> QED
          BY <2>1, <2>3, <3>1, <4>1 DEF CopyGood, Copying
      <3>3. Cardinality({r \in DOMAIN archives : r > s}) = 0
        BY <2>3, <3>2, FS_EmptySet
      <3>4. Cardinality({r \in DOMAIN archives : r > s}) >= Retention
        BY <2>2 DEF Excess
      <3>5. Retention \in Int
        BY RetentionIsInt
      <3> QED
        BY <2>3, <3>3, <3>4, <3>5
    <2> QED
      BY <2>1, <2>2, <2>3 DEF CopyGood, Copying
  <1>9. CASE Close \/ Unlink
    <2>1. cmd # None /\ cmd \in Command /\ cmd.op = "restore" /\ cmd.pc \in {"close", "unlink"}
      BY <1>9, Goes DEF Close, Unlink, At
    <2>2. /\ cmd'.op = cmd.op /\ cmd'.key = cmd.key /\ cmd'.pc \in {"unlink", "replace"}
          /\ cmd'.refused = cmd.refused /\ cmd'.later = cmd.later /\ archives' = archives
      BY <1>9, <2>1 DEF Close, Unlink, Goto, Command
    <2>3. ASSUME vault.wal = None PROVE vault'.main = vault.main /\ vault'.wal = None
      BY <1>9, <2>3 DEF Close, Unlink, CloseConnection, Folded, Live, TypeOK
    <2> QED
      BY <2>1, <2>2, <2>3 DEF CopyGood, Copying, Kept
  <1>10. ASSUME cmd' = cmd, archives' = archives, vault' = vault PROVE CopyGood'
    <2>1. Live' = Live
      BY <1>10 DEF Live
    <2> QED
      BY <1>10, <2>1 DEF CopyGood, Copying, Kept
  <1>11. CASE OpenWriter \/ KillWriter \/ Advance \/ UNCHANGED vars
    BY <1>10, <1>11 DEF OpenWriter, KillWriter, Advance, vars
  <1>12. ASSUME cmd' = cmd, archives' = archives, vault.main # None, vault' = Folded
         PROVE  CopyGood'
    <2>1. Live' = Live /\ vault'.main = Live /\ vault'.wal = None
      BY <1>12, LiveImage DEF Live
    <2>2. vault.wal = None => vault'.main = vault.main
      BY <2>1 DEF Live
    <2> QED
      BY <1>12, <2>1, <2>2 DEF CopyGood, Copying, Kept
  <1>13. ASSUME NEW id \in Ids, SaveOrDelete(id) PROVE CopyGood'
    <2>1. CASE ~Attached
      BY <1>10, <1>13, <2>1, SaveEffect
    <2>2. CASE Attached
      <3>1. /\ archives' = archives /\ Live' \in Image /\ vault'.main = vault.main
            /\ cmd' = Noted(Live')
        BY <1>13, <2>2, SaveEffect
      <3>2. cmd # None /\ Copying /\ cmd.key # None
        BY <1>13, OthersKeep DEF Copying, CommandGood
      <3>3. PICK i \in Image : i = Live' /\ cmd' = Noted(i)
        BY <3>1
      <3>4. /\ cmd'.op = cmd.op /\ cmd'.pc = cmd.pc /\ cmd'.image = cmd.image
            /\ cmd'.stamp = cmd.stamp /\ cmd'.refused = cmd.refused /\ cmd'.later
            /\ cmd.pc \in {"checkpoint", "read"} => cmd'.during = cmd.during \cup {Live'}
            /\ cmd.pc = "write" => cmd'.during = cmd.during
        BY <3>2, <3>3, NotedIs
      <3> QED
        BY <3>1, <3>2, <3>4 DEF CopyGood, Copying
    <2> QED
      BY <2>1, <2>2
  <1>14. CASE CloseWriter
    <2>1. CASE UNCHANGED <<vault, cmd>>
      BY <1>10, <1>14, <2>1 DEF CloseWriter
    <2>2. CASE vault' = Folded /\ UNCHANGED cmd
      BY <1>12, <1>14, <2>2 DEF CloseWriter
    <2>3. CASE ~HoldsDb /\ ~Attached /\ cmd' = Noted(writer.apart)
      <3>1. writer.apart \in Image /\ archives' = archives
        BY <1>14, <2>3 DEF CloseWriter, Attached, TypeOK, Writer
      <3>2. cmd # None /\ cmd \in Command /\ Copying /\ cmd.key # None
        BY <1>14, OthersKeep, Goes DEF Copying, CommandGood
      <3>3. /\ cmd'.op = cmd.op /\ cmd'.pc = cmd.pc /\ cmd'.later
        BY <2>3, <3>1, <3>2, NotedIs
      <3>4. cmd.pc \in {"unlink", "replace"}
        BY <2>3, <3>2 DEF HoldsDb, Copying
      <3> QED
        BY <3>1, <3>2, <3>3, <3>4 DEF CopyGood, Copying
    <2> QED
      BY <1>14, <2>1, <2>2, <2>3 DEF CloseWriter
  <1>15. CASE AutoCheckpoint
    BY <1>12, <1>15 DEF AutoCheckpoint
  <1> QED
    BY <1>1, <1>2, <1>3, <1>4, <1>5, <1>6, <1>7, <1>8, <1>9, <1>11, <1>13, <1>14, <1>15 DEF Next

(***************************************************************************)
(* The invariant and what follows from it.                                 *)
(***************************************************************************)
\* Archives bear seconds that have passed.
LEMMA StampStep ==
    TypeInv /\ (\A s \in DOMAIN archives : s <= now) /\ [Next]_vars
        => (\A s \in DOMAIN archives : s <= now)'
  <1> SUFFICES ASSUME TypeInv, \A s \in DOMAIN archives : s <= now, [Next]_vars
               PROVE  (\A s \in DOMAIN archives : s <= now)'
    OBVIOUS
  <1>1. now \in Nat /\ DOMAIN archives \subseteq Nat
    BY ArchivesAre, FilesAssumption DEF TypeInv, TypeOK, Stamps
  <1>2. CASE WriteArchive
    BY <1>1, <1>2 DEF WriteArchive, historyVars
  <1>3. CASE PruneOne
    BY <1>3 DEF PruneOne, historyVars
  <1>4. CASE Advance
    BY <1>1, <1>4 DEF Advance, historyVars
  <1>5. CASE UNCHANGED <<archives, now>>
    BY <1>5
  <1> QED
    BY <1>2, <1>3, <1>4, <1>5
       DEF Next, vars, Fail, Crash, StartInit, Register, WriteMeta, EndInit, StartAdopt, SealPub,
           SealPriv, Prove, StartBackup, StartRestore, Checkpoint, ReadDb, EndBackup, Close,
           Unlink, Replace, OpenWriter, SaveOrDelete, AutoCheckpoint, CloseWriter, KillWriter

\* An empty directory satisfies the invariant.
LEMMA FilesInvInit == Init => FilesInv
  <1> SUFFICES ASSUME Init PROVE FilesInv
    OBVIOUS
  <1>1. TypeInv /\ DOMAIN archives = {}
    BY TypeInvInit DEF Init
  <1> QED
    BY <1>1 DEF FilesInv, Init, SealGood, ImagesWhole, CopyGood, At

\* Every step of a command, of the other process and of the clock keeps it.
LEMMA FilesInvStep == FilesInv /\ [Next]_vars => FilesInv'
  <1> SUFFICES ASSUME FilesInv, [Next]_vars PROVE FilesInv'
    OBVIOUS
  <1>1. TypeInv' /\ SealGood' /\ (\A s \in DOMAIN archives : s <= now)'
    BY TypeInvStep, SealStep, StampStep DEF FilesInv
  <1> QED
    BY <1>1, WholeStep, CopyStep DEF FilesInv

\* The inductive invariant of the files, whatever command is killed or fails
\* at whatever step, and whatever another process does meanwhile.
THEOREM FilesInductive == Spec => []FilesInv
  <1> QED
    BY FilesInvInit, FilesInvStep, PTL DEF Spec

\* Type correctness, for any secrets, retention and clock.
THEOREM FilesTypeCorrect == Spec => []TypeOK
  <1>1. FilesInv => TypeOK
    BY DEF FilesInv, TypeInv
  <1> QED
    BY <1>1, FilesInductive, PTL

\* A vault that init reported goes on opening and unlocking, unless adopt was
\* not run to its end with the vault's own key (paths.rs:112-114), or a process
\* opened it between the two last steps of a restore.
THEOREM VaultGoesOnOpening == Spec => []WholeVaultOpens
  <1>1. ASSUME FilesInv, whole, trusted PROVE Unlocks
    <2>1. seal.pub # None /\ seal.priv = seal.pub /\ seal.pub.key = Own
      BY <1>1 DEF FilesInv, SealGood, SealedAs
    <2>2. Unsealed = Own /\ Own # None
      BY <2>1 DEF Unsealed, IsProvisioned, OuterKeys
    <2>3. vault.main # None /\ Live.meta = Entries
      BY <1>1 DEF FilesInv, TypeInv, ImagesWhole, Complete, Live
    <2> QED
      BY <2>2, <2>3 DEF Unlocks, Opens, IsInitialized, Entries
  <1>2. FilesInv => WholeVaultOpens
    BY <1>1 DEF WholeVaultOpens
  <1> QED
    BY <1>2, FilesInductive, PTL

\* What backup archives is what the database held at some moment of the command
\* (backup.rs:192-195), unless the checkpoint could not fold the log.
THEOREM ArchivesAreSnapshots == Spec => []BackupIsASnapshot
  <1>1. FilesInv => BackupIsASnapshot
    <2>1. ASSUME FilesInv, cmd # None, cmd.pc = "write" PROVE Copying
      BY <2>1, Goes DEF FilesInv, TypeInv, CommandGood, Copying, Command, Ops
    <2> QED
      BY <2>1 DEF FilesInv, CopyGood, BackupIsASnapshot
  <1> QED
    BY <1>1, FilesInductive, PTL

\* A restore replaces only what is in an archive that opens, with all that was
\* saved in it (commands.rs:413-414), whoever has the database open, unless the
\* checkpoint could not fold the log or somebody saved after it.
THEOREM RestoreCanBeUndone == Spec => PreviousIsKept
  <1>1. ASSUME FilesInv, Replace, ~cmd.refused, ~cmd.later
        PROVE  \E s \in DOMAIN archives : archives[s] = [key |-> cmd.key, image |-> Live]
    <2>1. /\ vault.wal = None
          /\ \E s \in DOMAIN archives : archives[s] = [key |-> cmd.key, image |-> vault.main]
      BY <1>1 DEF Replace, At, FilesInv, CopyGood, Copying, Kept
    <2> QED
      BY <2>1 DEF Live
  <1>2. FilesInv /\ [Next]_vars =>
          [Replace /\ ~cmd.refused /\ ~cmd.later
           => \E s \in DOMAIN archives : archives[s] = [key |-> cmd.key, image |-> Live]]_vars
    BY <1>1
  <1> QED
    BY <1>2, FilesInductive, PTL DEF Spec, PreviousIsKept

\* No failure, kill or fold changes what the database holds; a restore loses
\* with the log it removes only what its checkpoint could not fold or what
\* somebody saved after it.
THEOREM FailuresLoseNothing == Spec => OnlySavesChange
  <1>1. FilesInv /\ [Next]_vars =>
          [\/ Live' = Live
           \/ StartInit \/ WriteMeta \/ Replace \/ Loses \/ (CloseWriter /\ ~Attached)
           \/ \E id \in Ids : SaveOrDelete(id)]_vars
    BY LiveStep
  <1> QED
    BY <1>1, FilesInductive, PTL DEF Spec, OnlySavesChange

\* The archive that backup reports has survived its prune (backup.rs:180-190).
THEOREM ReportedBackupExists == Spec => BackupSurvives
  <1>1. FilesInv /\ [Next]_vars =>
          [EndBackup /\ Retention > 0 => cmd.stamp \in DOMAIN archives]_vars
    BY DEF EndBackup, At, FilesInv, CopyGood, Copying
  <1> QED
    BY <1>1, FilesInductive, PTL DEF Spec, BackupSurvives
===============================================================================
