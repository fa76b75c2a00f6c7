------------------------- MODULE WorldRestoreProofs -------------------------
(***************************************************************************)
(* Proofs about WorldRestore, for any worlds, ports and number of faults:  *)
(* the branch's world survives, and a session runs on it.  Both follow from*)
(* IInv, which adds to the types what the two directories hold in each     *)
(* phase of the journal, what the process may rely on at each of its       *)
(* steps, for whom a recovery can be running, and on which port.           *)
(***************************************************************************)
EXTENDS WorldRestore, TLAPS

\* What the directories hold in each phase of the journal.
Places ==
  /\ host.journal = "none" => host.work = owed /\ host.backup = Absent
  /\ host.journal = "committed" => host.work = owed
  /\ host.journal \in Undoable =>
       \/ host.backup = owed /\ host.work # owed
       \/ host.work = owed /\ host.backup = Absent
  /\ {owed, copy} \subseteq used

Holds(journal, work, backup) ==
  host.journal = journal /\ host.work = work /\ host.backup = backup

\* What the process may rely on where it is.
Control ==
  /\ host.server \in {"stopped", "work"}
  /\ at \in {"rename", "publish", "copy", "copying", "verify", "start", "undo", "revive"} =>
       host.server = "stopped"
  /\ at \in {"idle", "bridge", "capture", "read", "commit", "drop", "settle"} =>
       host.server = "work"
  /\ at \in {"idle", "bridge", "capture", "read", "composed"} => host.journal = "none"
  /\ at \in {"stop", "rename", "publish", "copy", "copying", "verify", "start"} => copy # owed
  /\ at \in {"stop", "rename"} => Holds("prepared", owed, Absent)
  /\ at = "publish" => Holds("prepared", Absent, owed)
  /\ at = "copy" => Holds("backup_published", Absent, owed)
  /\ at = "copying" => Holds("backup_published", Partial, owed)
  /\ at = "verify" => host.work \in {Partial, copy} /\ Holds("backup_published", host.work, owed)
  /\ at = "start" => Holds("backup_published", copy, owed)
  /\ at = "commit" => host.work \in used \cap World /\ Holds("backup_published", host.work, owed)
  /\ at \in {"halt", "undo", "revive", "settle"} => host.journal \in Undoable
  /\ at = "revive" /\ ~failed => host.work = owed /\ host.backup = Absent
  /\ at = "settle" => host.work = owed /\ host.backup = Absent
  /\ at \in {"discard", "drop"} => host.journal = "committed"
  /\ at = "drop" => ~kept

\* What it may rely on by who called the recovery, and what has been reported.
Callers ==
  /\ at = "load" /\ by \in {"capture", "restore"} => host.journal = "none" /\ host.server = "work"
  /\ at \in {"load", "discard"} /\ by = "rollback" /\ host.journal = "committed" =>
       host.server = "work" /\ ~kept
  /\ at \in {"halt", "undo", "revive", "settle", "discard"} => by \in {"open", "rollback"}
  /\ said = "restored" => ~kept
  /\ at = "read" \/ (at = "load" /\ by = "restore") => said = "none"

\* The server that holds the directory of a pending restore is the one it was begun
\* with; the recovery and the restore work on the server of the opening's port only.
Ports ==
  /\ host.journal # "none" /\ host.server # "stopped" => host.listens = host.bound
  /\ host.server = "stopped" \/ host.listens = port \/ at \in {"down", "composed", "faulted"}
     \/ (at = "load" /\ by = "open")
  /\ at \in (Restoring \ {"read", "bridge"}) \cup (Recovering \ {"load"}) => host.bound = port
  /\ at = "load" /\ by = "rollback" /\ host.journal # "none" => host.bound = port

IInv == TypeOK /\ Places /\ Control /\ Callers /\ Ports

LEMMA StartedIs ==
  port \in Port => \A h \in Host :
       /\ Started(h) \in Host
       /\ Started(h).work = h.work
       /\ Started(h).backup = h.backup
       /\ Started(h).journal = h.journal
       /\ Started(h).server = IF h.server = "stopped" THEN "work" ELSE h.server
       /\ Started(h).bound = h.bound
       /\ Started(h).listens = IF h.server = "stopped" THEN port ELSE h.listens
BY DEF Started, Host, Content, Running

LEMMA StoppedIs ==
  \A h \in Host :
       /\ Stopped(h) \in Host
       /\ Stopped(h).work = h.work
       /\ Stopped(h).backup = h.backup
       /\ Stopped(h).journal = h.journal
       /\ Stopped(h).server = IF h.listens = port THEN "stopped" ELSE h.server
       /\ Stopped(h).bound = h.bound
       /\ Stopped(h).listens = h.listens
BY DEF Stopped, Host, Content, Running

LEMMA SetAsideIs ==
  \A h \in Host :
       /\ SetAside(h) \in Host
       /\ SetAside(h).work = Absent
       /\ SetAside(h).backup = h.work
       /\ SetAside(h).journal = h.journal
       /\ SetAside(h).server = IF h.server = "work" THEN "backup" ELSE h.server
       /\ SetAside(h).bound = h.bound
       /\ SetAside(h).listens = h.listens
BY DEF SetAside, Host, Content, Running

LEMMA PutBackIs ==
  \A h \in Host :
       /\ PutBack(h) \in Host
       /\ PutBack(h).work = h.backup
       /\ PutBack(h).backup = Absent
       /\ PutBack(h).journal = h.journal
       /\ PutBack(h).server = IF h.server = "backup" THEN "work" ELSE h.server
       /\ PutBack(h).bound = h.bound
       /\ PutBack(h).listens = h.listens
BY DEF PutBack, Host, Content, Running

LEMMA JournaledIs ==
  port \in Port => \A h \in Host, p \in Phase :
       /\ Journaled(h, p) \in Host
       /\ Journaled(h, p).work = h.work
       /\ Journaled(h, p).backup = h.backup
       /\ Journaled(h, p).journal = p
       /\ Journaled(h, p).server = h.server
       /\ Journaled(h, p).bound = port
       /\ Journaled(h, p).listens = h.listens
BY DEF Journaled, Host

LEMMA HoldingIs ==
  \A h \in Host, c \in Content :
       /\ Holding(h, c) \in Host
       /\ Holding(h, c).work = c
       /\ Holding(h, c).backup = h.backup
       /\ Holding(h, c).journal = h.journal
       /\ Holding(h, c).server = h.server
       /\ Holding(h, c).bound = h.bound
       /\ Holding(h, c).listens = h.listens
BY DEF Holding, Host

LEMMA RemovedWorkIs ==
  \A h \in Host :
       /\ Removed(h, "work") \in Host
       /\ Removed(h, "work").work = Removing(h.work)
       /\ Removed(h, "work").backup = h.backup
       /\ Removed(h, "work").journal = h.journal
       /\ Removed(h, "work").server =
            IF h.work = Partial /\ h.server = "work" THEN "lost" ELSE h.server
       /\ Removed(h, "work").bound = h.bound
       /\ Removed(h, "work").listens = h.listens
BY DEF Removed, Removing, Host, Content, Running

LEMMA RemovedBackupIs ==
  \A h \in Host :
       /\ Removed(h, "backup") \in Host
       /\ Removed(h, "backup").work = h.work
       /\ Removed(h, "backup").backup = Removing(h.backup)
       /\ Removed(h, "backup").journal = h.journal
       /\ Removed(h, "backup").server =
            IF h.backup = Partial /\ h.server = "backup" THEN "lost" ELSE h.server
       /\ Removed(h, "backup").bound = h.bound
       /\ Removed(h, "backup").listens = h.listens
BY DEF Removed, Removing, Host, Content, Running

LEMMA LoadSafe == IInv /\ Load => IInv'
<1> SUFFICES ASSUME IInv, Load PROVE IInv'
  OBVIOUS
<1> USE ContentAssumption, FaultAssumption DEF Call, Fault, Goto, Report, Recover, Rollback,
   record, Recovered, RecoveryRaises, Collected, Step, Release, Leave
<1>1. TypeOK'
  <2>1. host' \in Host
    BY SMTT(30) DEF IInv, Load, TypeOK, Content, Phase
  <2>2. at' \in Quiet \cup Restoring \cup Recovering \cup {"capture"}
    BY SMT DEF IInv, Load, TypeOK, Quiet, Restoring, Recovering
  <2>3. /\ by' \in {"open", "capture", "restore", "rollback"}
       /\ said' \in {"none", "restored", "previous", "failed"}
    BY SMT DEF IInv, Load, TypeOK
  <2>4. failed' \in BOOLEAN /\ kept' \in BOOLEAN
    BY Zenon DEF IInv, Load, TypeOK
  <2>5. copy' \in World /\ owed' \in World /\ used' \subseteq World
    BY SMT DEF IInv, Load, TypeOK, Control, Holds
  <2>6. faults' \in 0 .. MaxFaults
    BY SMT DEF IInv, Load, TypeOK
  <2>7. saved' \subseteq Port /\ leased' \subseteq Port /\ port' \in Port
    BY SMT DEF IInv, Load, TypeOK
  <2> QED
    BY <2>1, <2>2, <2>3, <2>4, <2>5, <2>6, <2>7 DEF TypeOK
<1>2. Places'
  BY SMTT(30) DEF IInv, Load, TypeOK, Places, Control, Callers, Ports, Restoring,
     Recovering, Content, Phase, Undoable, Holds, Removing
<1>3. Control'
  BY SMTT(30) DEF IInv, Load, TypeOK, Places, Control, Callers, Ports, Restoring,
     Recovering, Content, Phase, Undoable, Holds, Removing
<1>4. Callers'
  BY SMTT(30) DEF IInv, Load, TypeOK, Places, Control, Callers, Ports, Restoring,
     Recovering, Content, Phase, Undoable, Holds, Removing
<1>5. Ports'
  BY SMTT(30) DEF IInv, Load, TypeOK, Places, Control, Callers, Ports, Restoring,
     Recovering, Content, Phase, Undoable, Holds, Removing
<1> QED
  BY <1>1, <1>2, <1>3, <1>4, <1>5 DEF IInv

LEMMA HaltSafe == IInv /\ Halt => IInv'
<1> SUFFICES ASSUME IInv, Halt PROVE IInv'
  OBVIOUS
<1> USE ContentAssumption, FaultAssumption DEF Call, Fault, Goto, Report, Recover, Rollback,
   record, Recovered, RecoveryRaises, Collected, Step, Release, Leave
<1>1. TypeOK'
  <2>1. host' \in Host
    BY StoppedIs, SMTT(30) DEF IInv, Halt, TypeOK, Content, Phase
  <2>2. at' \in Quiet \cup Restoring \cup Recovering \cup {"capture"}
    BY SMT DEF IInv, Halt, TypeOK, Quiet, Restoring, Recovering
  <2>3. /\ by' \in {"open", "capture", "restore", "rollback"}
       /\ said' \in {"none", "restored", "previous", "failed"}
    BY SMT DEF IInv, Halt, TypeOK
  <2>4. failed' \in BOOLEAN /\ kept' \in BOOLEAN
    BY Zenon DEF IInv, Halt, TypeOK
  <2>5. copy' \in World /\ owed' \in World /\ used' \subseteq World
    BY SMT DEF IInv, Halt, TypeOK, Control, Holds
  <2>6. faults' \in 0 .. MaxFaults
    BY SMT DEF IInv, Halt, TypeOK
  <2>7. saved' \subseteq Port /\ leased' \subseteq Port /\ port' \in Port
    BY SMT DEF IInv, Halt, TypeOK
  <2> QED
    BY <2>1, <2>2, <2>3, <2>4, <2>5, <2>6, <2>7 DEF TypeOK
<1>2. Places'
  BY StoppedIs, SMTT(30) DEF IInv, Halt, TypeOK, Places, Control, Callers, Ports,
     Restoring, Recovering, Content, Phase, Undoable, Holds, Removing
<1>3. Control'
  BY StoppedIs, SMTT(30) DEF IInv, Halt, TypeOK, Places, Control, Callers, Ports,
     Restoring, Recovering, Content, Phase, Undoable, Holds, Removing
<1>4. Callers'
  BY StoppedIs, SMTT(30) DEF IInv, Halt, TypeOK, Places, Control, Callers, Ports,
     Restoring, Recovering, Content, Phase, Undoable, Holds, Removing
<1>5. Ports'
  BY StoppedIs, SMTT(30) DEF IInv, Halt, TypeOK, Places, Control, Callers, Ports,
     Restoring, Recovering, Content, Phase, Undoable, Holds, Removing
<1> QED
  BY <1>1, <1>2, <1>3, <1>4, <1>5 DEF IInv

LEMMA UndoSafe == IInv /\ Undo => IInv'
<1> SUFFICES ASSUME IInv, Undo PROVE IInv'
  OBVIOUS
<1> USE ContentAssumption, FaultAssumption DEF Call, Fault, Goto, Report, Recover, Rollback,
   record, Recovered, RecoveryRaises, Collected, Step, Release, Leave
<1>1. TypeOK'
  <2>1. host' \in Host
    BY RemovedWorkIs, PutBackIs, SMTT(30) DEF IInv, Undo, TypeOK, Content, Phase
  <2>2. at' \in Quiet \cup Restoring \cup Recovering \cup {"capture"}
    BY SMT DEF IInv, Undo, TypeOK, Quiet, Restoring, Recovering
  <2>3. /\ by' \in {"open", "capture", "restore", "rollback"}
       /\ said' \in {"none", "restored", "previous", "failed"}
    BY SMT DEF IInv, Undo, TypeOK
  <2>4. failed' \in BOOLEAN /\ kept' \in BOOLEAN
    BY Zenon DEF IInv, Undo, TypeOK
  <2>5. copy' \in World /\ owed' \in World /\ used' \subseteq World
    BY SMT DEF IInv, Undo, TypeOK, Control, Holds
  <2>6. faults' \in 0 .. MaxFaults
    BY SMT DEF IInv, Undo, TypeOK
  <2>7. saved' \subseteq Port /\ leased' \subseteq Port /\ port' \in Port
    BY SMT DEF IInv, Undo, TypeOK
  <2> QED
    BY <2>1, <2>2, <2>3, <2>4, <2>5, <2>6, <2>7 DEF TypeOK
<1>2. Places'
  BY RemovedWorkIs, PutBackIs, SMTT(30) DEF IInv, Undo, TypeOK, Places, Control,
     Callers, Ports, Restoring, Recovering, Content, Phase, Undoable, Holds, Removing
<1>3. Control'
  BY RemovedWorkIs, PutBackIs, SMTT(30) DEF IInv, Undo, TypeOK, Places, Control,
     Callers, Ports, Restoring, Recovering, Content, Phase, Undoable, Holds, Removing
<1>4. Callers'
  BY RemovedWorkIs, PutBackIs, SMTT(30) DEF IInv, Undo, TypeOK, Places, Control,
     Callers, Ports, Restoring, Recovering, Content, Phase, Undoable, Holds, Removing
<1>5. Ports'
  BY RemovedWorkIs, PutBackIs, SMTT(30) DEF IInv, Undo, TypeOK, Places, Control,
     Callers, Ports, Restoring, Recovering, Content, Phase, Undoable, Holds, Removing
<1> QED
  BY <1>1, <1>2, <1>3, <1>4, <1>5 DEF IInv

LEMMA ReviveSafe == IInv /\ Revive => IInv'
<1> SUFFICES ASSUME IInv, Revive PROVE IInv'
  OBVIOUS
<1> USE ContentAssumption, FaultAssumption DEF Call, Fault, Goto, Report, Recover, Rollback,
   record, Recovered, RecoveryRaises, Collected, Step, Release, Leave
<1>1. TypeOK'
  <2>1. host' \in Host
    BY StartedIs, SMTT(30) DEF IInv, Revive, TypeOK, Content, Phase
  <2>2. at' \in Quiet \cup Restoring \cup Recovering \cup {"capture"}
    BY SMT DEF IInv, Revive, TypeOK, Quiet, Restoring, Recovering
  <2>3. /\ by' \in {"open", "capture", "restore", "rollback"}
       /\ said' \in {"none", "restored", "previous", "failed"}
    BY SMT DEF IInv, Revive, TypeOK
  <2>4. failed' \in BOOLEAN /\ kept' \in BOOLEAN
    BY Zenon DEF IInv, Revive, TypeOK
  <2>5. copy' \in World /\ owed' \in World /\ used' \subseteq World
    BY SMT DEF IInv, Revive, TypeOK, Control, Holds
  <2>6. faults' \in 0 .. MaxFaults
    BY SMT DEF IInv, Revive, TypeOK
  <2>7. saved' \subseteq Port /\ leased' \subseteq Port /\ port' \in Port
    BY SMT DEF IInv, Revive, TypeOK
  <2> QED
    BY <2>1, <2>2, <2>3, <2>4, <2>5, <2>6, <2>7 DEF TypeOK
<1>2. Places'
  BY StartedIs, SMTT(30) DEF IInv, Revive, TypeOK, Places, Control, Callers, Ports,
     Restoring, Recovering, Content, Phase, Undoable, Holds, Removing
<1>3. Control'
  BY StartedIs, SMTT(30) DEF IInv, Revive, TypeOK, Places, Control, Callers, Ports,
     Restoring, Recovering, Content, Phase, Undoable, Holds, Removing
<1>4. Callers'
  BY StartedIs, SMTT(30) DEF IInv, Revive, TypeOK, Places, Control, Callers, Ports,
     Restoring, Recovering, Content, Phase, Undoable, Holds, Removing
<1>5. Ports'
  BY StartedIs, SMTT(30) DEF IInv, Revive, TypeOK, Places, Control, Callers, Ports,
     Restoring, Recovering, Content, Phase, Undoable, Holds, Removing
<1> QED
  BY <1>1, <1>2, <1>3, <1>4, <1>5 DEF IInv

LEMMA SettleSafe == IInv /\ Settle => IInv'
<1> SUFFICES ASSUME IInv, Settle PROVE IInv'
  OBVIOUS
<1> USE ContentAssumption, FaultAssumption DEF Call, Fault, Goto, Report, Recover, Rollback,
   record, Recovered, RecoveryRaises, Collected, Step, Release, Leave
<1>1. TypeOK'
  <2>1. host' \in Host
    BY JournaledIs, SMTT(30) DEF IInv, Settle, TypeOK, Content, Phase
  <2>2. at' \in Quiet \cup Restoring \cup Recovering \cup {"capture"}
    BY SMT DEF IInv, Settle, TypeOK, Quiet, Restoring, Recovering
  <2>3. /\ by' \in {"open", "capture", "restore", "rollback"}
       /\ said' \in {"none", "restored", "previous", "failed"}
    BY SMT DEF IInv, Settle, TypeOK
  <2>4. failed' \in BOOLEAN /\ kept' \in BOOLEAN
    BY Zenon DEF IInv, Settle, TypeOK
  <2>5. copy' \in World /\ owed' \in World /\ used' \subseteq World
    BY SMT DEF IInv, Settle, TypeOK, Control, Holds
  <2>6. faults' \in 0 .. MaxFaults
    BY SMT DEF IInv, Settle, TypeOK
  <2>7. saved' \subseteq Port /\ leased' \subseteq Port /\ port' \in Port
    BY SMT DEF IInv, Settle, TypeOK
  <2> QED
    BY <2>1, <2>2, <2>3, <2>4, <2>5, <2>6, <2>7 DEF TypeOK
<1>2. Places'
  BY JournaledIs, SMTT(30) DEF IInv, Settle, TypeOK, Places, Control, Callers, Ports,
     Restoring, Recovering, Content, Phase, Undoable, Holds, Removing
<1>3. Control'
  BY JournaledIs, SMTT(30) DEF IInv, Settle, TypeOK, Places, Control, Callers, Ports,
     Restoring, Recovering, Content, Phase, Undoable, Holds, Removing
<1>4. Callers'
  BY JournaledIs, SMTT(30) DEF IInv, Settle, TypeOK, Places, Control, Callers, Ports,
     Restoring, Recovering, Content, Phase, Undoable, Holds, Removing
<1>5. Ports'
  BY JournaledIs, SMTT(30) DEF IInv, Settle, TypeOK, Places, Control, Callers, Ports,
     Restoring, Recovering, Content, Phase, Undoable, Holds, Removing
<1> QED
  BY <1>1, <1>2, <1>3, <1>4, <1>5 DEF IInv

LEMMA DiscardSafe == IInv /\ Discard => IInv'
<1> SUFFICES ASSUME IInv, Discard PROVE IInv'
  OBVIOUS
<1> USE ContentAssumption, FaultAssumption DEF Call, Fault, Goto, Report, Recover, Rollback,
   record, Recovered, RecoveryRaises, Collected, Step, Release, Leave
<1>1. TypeOK'
  <2>1. host' \in Host
    BY RemovedBackupIs, JournaledIs, SMTT(30) DEF IInv, Discard, TypeOK, Content, Phase
  <2>2. at' \in Quiet \cup Restoring \cup Recovering \cup {"capture"}
    BY SMT DEF IInv, Discard, TypeOK, Quiet, Restoring, Recovering
  <2>3. /\ by' \in {"open", "capture", "restore", "rollback"}
       /\ said' \in {"none", "restored", "previous", "failed"}
    BY SMT DEF IInv, Discard, TypeOK
  <2>4. failed' \in BOOLEAN /\ kept' \in BOOLEAN
    BY Zenon DEF IInv, Discard, TypeOK
  <2>5. copy' \in World /\ owed' \in World /\ used' \subseteq World
    BY SMT DEF IInv, Discard, TypeOK, Control, Holds
  <2>6. faults' \in 0 .. MaxFaults
    BY SMT DEF IInv, Discard, TypeOK
  <2>7. saved' \subseteq Port /\ leased' \subseteq Port /\ port' \in Port
    BY SMT DEF IInv, Discard, TypeOK
  <2> QED
    BY <2>1, <2>2, <2>3, <2>4, <2>5, <2>6, <2>7 DEF TypeOK
<1>2. Places'
  BY RemovedBackupIs, JournaledIs, SMTT(30) DEF IInv, Discard, TypeOK, Places, Control,
     Callers, Ports, Restoring, Recovering, Content, Phase, Undoable, Holds, Removing
<1>3. Control'
  BY RemovedBackupIs, JournaledIs, SMTT(30) DEF IInv, Discard, TypeOK, Places, Control,
     Callers, Ports, Restoring, Recovering, Content, Phase, Undoable, Holds, Removing
<1>4. Callers'
  BY RemovedBackupIs, JournaledIs, SMTT(30) DEF IInv, Discard, TypeOK, Places, Control,
     Callers, Ports, Restoring, Recovering, Content, Phase, Undoable, Holds, Removing
<1>5. Ports'
  BY RemovedBackupIs, JournaledIs, SMTT(30) DEF IInv, Discard, TypeOK, Places, Control,
     Callers, Ports, Restoring, Recovering, Content, Phase, Undoable, Holds, Removing
<1> QED
  BY <1>1, <1>2, <1>3, <1>4, <1>5 DEF IInv

LEMMA ReadSafe == IInv /\ Read => IInv'
<1> SUFFICES ASSUME IInv, Read PROVE IInv'
  OBVIOUS
<1> USE ContentAssumption, FaultAssumption DEF Call, Fault, Goto, Report, Recover, Rollback,
   record, Recovered, RecoveryRaises, Collected, Step, Release, Leave
<1>1. TypeOK'
  <2>1. host' \in Host
    BY JournaledIs, SMTT(30) DEF IInv, Read, TypeOK, Content, Phase
  <2>2. at' \in Quiet \cup Restoring \cup Recovering \cup {"capture"}
    BY SMT DEF IInv, Read, TypeOK, Quiet, Restoring, Recovering
  <2>3. /\ by' \in {"open", "capture", "restore", "rollback"}
       /\ said' \in {"none", "restored", "previous", "failed"}
    BY SMT DEF IInv, Read, TypeOK
  <2>4. failed' \in BOOLEAN /\ kept' \in BOOLEAN
    BY Zenon DEF IInv, Read, TypeOK
  <2>5. copy' \in World /\ owed' \in World /\ used' \subseteq World
    BY SMT DEF IInv, Read, TypeOK, Control, Holds
  <2>6. faults' \in 0 .. MaxFaults
    BY SMT DEF IInv, Read, TypeOK
  <2>7. saved' \subseteq Port /\ leased' \subseteq Port /\ port' \in Port
    BY SMT DEF IInv, Read, TypeOK
  <2> QED
    BY <2>1, <2>2, <2>3, <2>4, <2>5, <2>6, <2>7 DEF TypeOK
<1>2. Places'
  BY JournaledIs, SMTT(30) DEF IInv, Read, TypeOK, Places, Control, Callers, Ports,
     Restoring, Recovering, Content, Phase, Undoable, Holds, Removing
<1>3. Control'
  BY JournaledIs, SMTT(30) DEF IInv, Read, TypeOK, Places, Control, Callers, Ports,
     Restoring, Recovering, Content, Phase, Undoable, Holds, Removing
<1>4. Callers'
  BY JournaledIs, SMTT(30) DEF IInv, Read, TypeOK, Places, Control, Callers, Ports,
     Restoring, Recovering, Content, Phase, Undoable, Holds, Removing
<1>5. Ports'
  BY JournaledIs, SMTT(30) DEF IInv, Read, TypeOK, Places, Control, Callers, Ports,
     Restoring, Recovering, Content, Phase, Undoable, Holds, Removing
<1> QED
  BY <1>1, <1>2, <1>3, <1>4, <1>5 DEF IInv

LEMMA StopServerSafe == IInv /\ StopServer => IInv'
<1> SUFFICES ASSUME IInv, StopServer PROVE IInv'
  OBVIOUS
<1> USE ContentAssumption, FaultAssumption DEF Call, Fault, Goto, Report, Recover, Rollback,
   record, Recovered, RecoveryRaises, Collected, Step, Release, Leave
<1>1. TypeOK'
  <2>1. host' \in Host
    BY StoppedIs, SMTT(30) DEF IInv, StopServer, TypeOK, Content, Phase
  <2>2. at' \in Quiet \cup Restoring \cup Recovering \cup {"capture"}
    BY SMT DEF IInv, StopServer, TypeOK, Quiet, Restoring, Recovering
  <2>3. /\ by' \in {"open", "capture", "restore", "rollback"}
       /\ said' \in {"none", "restored", "previous", "failed"}
    BY SMT DEF IInv, StopServer, TypeOK
  <2>4. failed' \in BOOLEAN /\ kept' \in BOOLEAN
    BY Zenon DEF IInv, StopServer, TypeOK
  <2>5. copy' \in World /\ owed' \in World /\ used' \subseteq World
    BY SMT DEF IInv, StopServer, TypeOK, Control, Holds
  <2>6. faults' \in 0 .. MaxFaults
    BY SMT DEF IInv, StopServer, TypeOK
  <2>7. saved' \subseteq Port /\ leased' \subseteq Port /\ port' \in Port
    BY SMT DEF IInv, StopServer, TypeOK
  <2> QED
    BY <2>1, <2>2, <2>3, <2>4, <2>5, <2>6, <2>7 DEF TypeOK
<1>2. Places'
  BY StoppedIs, SMTT(30) DEF IInv, StopServer, TypeOK, Places, Control, Callers, Ports,
     Restoring, Recovering, Content, Phase, Undoable, Holds, Removing
<1>3. Control'
  BY StoppedIs, SMTT(30) DEF IInv, StopServer, TypeOK, Places, Control, Callers, Ports,
     Restoring, Recovering, Content, Phase, Undoable, Holds, Removing
<1>4. Callers'
  BY StoppedIs, SMTT(30) DEF IInv, StopServer, TypeOK, Places, Control, Callers, Ports,
     Restoring, Recovering, Content, Phase, Undoable, Holds, Removing
<1>5. Ports'
  BY StoppedIs, SMTT(30) DEF IInv, StopServer, TypeOK, Places, Control, Callers, Ports,
     Restoring, Recovering, Content, Phase, Undoable, Holds, Removing
<1> QED
  BY <1>1, <1>2, <1>3, <1>4, <1>5 DEF IInv

LEMMA MoveAsideSafe == IInv /\ MoveAside => IInv'
<1> SUFFICES ASSUME IInv, MoveAside PROVE IInv'
  OBVIOUS
<1> USE ContentAssumption, FaultAssumption DEF Call, Fault, Goto, Report, Recover, Rollback,
   record, Recovered, RecoveryRaises, Collected, Step, Release, Leave
<1>1. TypeOK'
  <2>1. host' \in Host
    BY SetAsideIs, SMTT(30) DEF IInv, MoveAside, TypeOK, Content, Phase
  <2>2. at' \in Quiet \cup Restoring \cup Recovering \cup {"capture"}
    BY SMT DEF IInv, MoveAside, TypeOK, Quiet, Restoring, Recovering
  <2>3. /\ by' \in {"open", "capture", "restore", "rollback"}
       /\ said' \in {"none", "restored", "previous", "failed"}
    BY SMT DEF IInv, MoveAside, TypeOK
  <2>4. failed' \in BOOLEAN /\ kept' \in BOOLEAN
    BY Zenon DEF IInv, MoveAside, TypeOK
  <2>5. copy' \in World /\ owed' \in World /\ used' \subseteq World
    BY SMT DEF IInv, MoveAside, TypeOK, Control, Holds
  <2>6. faults' \in 0 .. MaxFaults
    BY SMT DEF IInv, MoveAside, TypeOK
  <2>7. saved' \subseteq Port /\ leased' \subseteq Port /\ port' \in Port
    BY SMT DEF IInv, MoveAside, TypeOK
  <2> QED
    BY <2>1, <2>2, <2>3, <2>4, <2>5, <2>6, <2>7 DEF TypeOK
<1>2. Places'
  BY SetAsideIs, SMTT(30) DEF IInv, MoveAside, TypeOK, Places, Control, Callers, Ports,
     Restoring, Recovering, Content, Phase, Undoable, Holds, Removing
<1>3. Control'
  BY SetAsideIs, SMTT(30) DEF IInv, MoveAside, TypeOK, Places, Control, Callers, Ports,
     Restoring, Recovering, Content, Phase, Undoable, Holds, Removing
<1>4. Callers'
  BY SetAsideIs, SMTT(30) DEF IInv, MoveAside, TypeOK, Places, Control, Callers, Ports,
     Restoring, Recovering, Content, Phase, Undoable, Holds, Removing
<1>5. Ports'
  BY SetAsideIs, SMTT(30) DEF IInv, MoveAside, TypeOK, Places, Control, Callers, Ports,
     Restoring, Recovering, Content, Phase, Undoable, Holds, Removing
<1> QED
  BY <1>1, <1>2, <1>3, <1>4, <1>5 DEF IInv

LEMMA PublishSafe == IInv /\ Publish => IInv'
<1> SUFFICES ASSUME IInv, Publish PROVE IInv'
  OBVIOUS
<1> USE ContentAssumption, FaultAssumption DEF Call, Fault, Goto, Report, Recover, Rollback,
   record, Recovered, RecoveryRaises, Collected, Step, Release, Leave
<1>1. TypeOK'
  <2>1. host' \in Host
    BY JournaledIs, SMTT(30) DEF IInv, Publish, TypeOK, Content, Phase
  <2>2. at' \in Quiet \cup Restoring \cup Recovering \cup {"capture"}
    BY SMT DEF IInv, Publish, TypeOK, Quiet, Restoring, Recovering
  <2>3. /\ by' \in {"open", "capture", "restore", "rollback"}
       /\ said' \in {"none", "restored", "previous", "failed"}
    BY SMT DEF IInv, Publish, TypeOK
  <2>4. failed' \in BOOLEAN /\ kept' \in BOOLEAN
    BY Zenon DEF IInv, Publish, TypeOK
  <2>5. copy' \in World /\ owed' \in World /\ used' \subseteq World
    BY SMT DEF IInv, Publish, TypeOK, Control, Holds
  <2>6. faults' \in 0 .. MaxFaults
    BY SMT DEF IInv, Publish, TypeOK
  <2>7. saved' \subseteq Port /\ leased' \subseteq Port /\ port' \in Port
    BY SMT DEF IInv, Publish, TypeOK
  <2> QED
    BY <2>1, <2>2, <2>3, <2>4, <2>5, <2>6, <2>7 DEF TypeOK
<1>2. Places'
  BY JournaledIs, SMTT(30) DEF IInv, Publish, TypeOK, Places, Control, Callers, Ports,
     Restoring, Recovering, Content, Phase, Undoable, Holds, Removing
<1>3. Control'
  BY JournaledIs, SMTT(30) DEF IInv, Publish, TypeOK, Places, Control, Callers, Ports,
     Restoring, Recovering, Content, Phase, Undoable, Holds, Removing
<1>4. Callers'
  BY JournaledIs, SMTT(30) DEF IInv, Publish, TypeOK, Places, Control, Callers, Ports,
     Restoring, Recovering, Content, Phase, Undoable, Holds, Removing
<1>5. Ports'
  BY JournaledIs, SMTT(30) DEF IInv, Publish, TypeOK, Places, Control, Callers, Ports,
     Restoring, Recovering, Content, Phase, Undoable, Holds, Removing
<1> QED
  BY <1>1, <1>2, <1>3, <1>4, <1>5 DEF IInv

LEMMA BeginCopySafe == IInv /\ BeginCopy => IInv'
<1> SUFFICES ASSUME IInv, BeginCopy PROVE IInv'
  OBVIOUS
<1> USE ContentAssumption, FaultAssumption DEF Call, Fault, Goto, Report, Recover, Rollback,
   record, Recovered, RecoveryRaises, Collected, Step, Release, Leave
<1>1. TypeOK'
  <2>1. host' \in Host
    BY HoldingIs, SMTT(30) DEF IInv, BeginCopy, TypeOK, Content, Phase
  <2>2. at' \in Quiet \cup Restoring \cup Recovering \cup {"capture"}
    BY SMT DEF IInv, BeginCopy, TypeOK, Quiet, Restoring, Recovering
  <2>3. /\ by' \in {"open", "capture", "restore", "rollback"}
       /\ said' \in {"none", "restored", "previous", "failed"}
    BY SMT DEF IInv, BeginCopy, TypeOK
  <2>4. failed' \in BOOLEAN /\ kept' \in BOOLEAN
    BY Zenon DEF IInv, BeginCopy, TypeOK
  <2>5. copy' \in World /\ owed' \in World /\ used' \subseteq World
    BY SMT DEF IInv, BeginCopy, TypeOK, Control, Holds
  <2>6. faults' \in 0 .. MaxFaults
    BY SMT DEF IInv, BeginCopy, TypeOK
  <2>7. saved' \subseteq Port /\ leased' \subseteq Port /\ port' \in Port
    BY SMT DEF IInv, BeginCopy, TypeOK
  <2> QED
    BY <2>1, <2>2, <2>3, <2>4, <2>5, <2>6, <2>7 DEF TypeOK
<1>2. Places'
  BY HoldingIs, SMTT(30) DEF IInv, BeginCopy, TypeOK, Places, Control, Callers, Ports,
     Restoring, Recovering, Content, Phase, Undoable, Holds, Removing
<1>3. Control'
  BY HoldingIs, SMTT(30) DEF IInv, BeginCopy, TypeOK, Places, Control, Callers, Ports,
     Restoring, Recovering, Content, Phase, Undoable, Holds, Removing
<1>4. Callers'
  BY HoldingIs, SMTT(30) DEF IInv, BeginCopy, TypeOK, Places, Control, Callers, Ports,
     Restoring, Recovering, Content, Phase, Undoable, Holds, Removing
<1>5. Ports'
  BY HoldingIs, SMTT(30) DEF IInv, BeginCopy, TypeOK, Places, Control, Callers, Ports,
     Restoring, Recovering, Content, Phase, Undoable, Holds, Removing
<1> QED
  BY <1>1, <1>2, <1>3, <1>4, <1>5 DEF IInv

LEMMA EndCopySafe == IInv /\ EndCopy => IInv'
<1> SUFFICES ASSUME IInv, EndCopy PROVE IInv'
  OBVIOUS
<1> USE ContentAssumption, FaultAssumption DEF Call, Fault, Goto, Report, Recover, Rollback,
   record, Recovered, RecoveryRaises, Collected, Step, Release, Leave
<1>1. TypeOK'
  <2>1. host' \in Host
    BY HoldingIs, SMTT(30) DEF IInv, EndCopy, TypeOK, Content, Phase
  <2>2. at' \in Quiet \cup Restoring \cup Recovering \cup {"capture"}
    BY SMT DEF IInv, EndCopy, TypeOK, Quiet, Restoring, Recovering
  <2>3. /\ by' \in {"open", "capture", "restore", "rollback"}
       /\ said' \in {"none", "restored", "previous", "failed"}
    BY SMT DEF IInv, EndCopy, TypeOK
  <2>4. failed' \in BOOLEAN /\ kept' \in BOOLEAN
    BY Zenon DEF IInv, EndCopy, TypeOK
  <2>5. copy' \in World /\ owed' \in World /\ used' \subseteq World
    BY SMT DEF IInv, EndCopy, TypeOK, Control, Holds
  <2>6. faults' \in 0 .. MaxFaults
    BY SMT DEF IInv, EndCopy, TypeOK
  <2>7. saved' \subseteq Port /\ leased' \subseteq Port /\ port' \in Port
    BY SMT DEF IInv, EndCopy, TypeOK
  <2> QED
    BY <2>1, <2>2, <2>3, <2>4, <2>5, <2>6, <2>7 DEF TypeOK
<1>2. Places'
  BY HoldingIs, SMTT(30) DEF IInv, EndCopy, TypeOK, Places, Control, Callers, Ports,
     Restoring, Recovering, Content, Phase, Undoable, Holds, Removing
<1>3. Control'
  BY HoldingIs, SMTT(30) DEF IInv, EndCopy, TypeOK, Places, Control, Callers, Ports,
     Restoring, Recovering, Content, Phase, Undoable, Holds, Removing
<1>4. Callers'
  BY HoldingIs, SMTT(30) DEF IInv, EndCopy, TypeOK, Places, Control, Callers, Ports,
     Restoring, Recovering, Content, Phase, Undoable, Holds, Removing
<1>5. Ports'
  BY HoldingIs, SMTT(30) DEF IInv, EndCopy, TypeOK, Places, Control, Callers, Ports,
     Restoring, Recovering, Content, Phase, Undoable, Holds, Removing
<1> QED
  BY <1>1, <1>2, <1>3, <1>4, <1>5 DEF IInv

LEMMA ShortCopySafe == IInv /\ ShortCopy => IInv'
<1> SUFFICES ASSUME IInv, ShortCopy PROVE IInv'
  OBVIOUS
<1> USE ContentAssumption, FaultAssumption DEF Call, Fault, Goto, Report, Recover, Rollback,
   record, Recovered, RecoveryRaises, Collected, Step, Release, Leave
<1>1. TypeOK'
  <2>1. host' \in Host
    BY SMTT(30) DEF IInv, ShortCopy, TypeOK, Content, Phase
  <2>2. at' \in Quiet \cup Restoring \cup Recovering \cup {"capture"}
    BY SMT DEF IInv, ShortCopy, TypeOK, Quiet, Restoring, Recovering
  <2>3. /\ by' \in {"open", "capture", "restore", "rollback"}
       /\ said' \in {"none", "restored", "previous", "failed"}
    BY SMT DEF IInv, ShortCopy, TypeOK
  <2>4. failed' \in BOOLEAN /\ kept' \in BOOLEAN
    BY Zenon DEF IInv, ShortCopy, TypeOK
  <2>5. copy' \in World /\ owed' \in World /\ used' \subseteq World
    BY SMT DEF IInv, ShortCopy, TypeOK, Control, Holds
  <2>6. faults' \in 0 .. MaxFaults
    BY SMT DEF IInv, ShortCopy, TypeOK
  <2>7. saved' \subseteq Port /\ leased' \subseteq Port /\ port' \in Port
    BY SMT DEF IInv, ShortCopy, TypeOK
  <2> QED
    BY <2>1, <2>2, <2>3, <2>4, <2>5, <2>6, <2>7 DEF TypeOK
<1>2. Places'
  BY SMTT(30) DEF IInv, ShortCopy, TypeOK, Places, Control, Callers, Ports, Restoring,
     Recovering, Content, Phase, Undoable, Holds, Removing
<1>3. Control'
  BY SMTT(30) DEF IInv, ShortCopy, TypeOK, Places, Control, Callers, Ports, Restoring,
     Recovering, Content, Phase, Undoable, Holds, Removing
<1>4. Callers'
  BY SMTT(30) DEF IInv, ShortCopy, TypeOK, Places, Control, Callers, Ports, Restoring,
     Recovering, Content, Phase, Undoable, Holds, Removing
<1>5. Ports'
  BY SMTT(30) DEF IInv, ShortCopy, TypeOK, Places, Control, Callers, Ports, Restoring,
     Recovering, Content, Phase, Undoable, Holds, Removing
<1> QED
  BY <1>1, <1>2, <1>3, <1>4, <1>5 DEF IInv

LEMMA VerifySafe == IInv /\ Verify => IInv'
<1> SUFFICES ASSUME IInv, Verify PROVE IInv'
  OBVIOUS
<1> USE ContentAssumption, FaultAssumption DEF Call, Fault, Goto, Report, Recover, Rollback,
   record, Recovered, RecoveryRaises, Collected, Step, Release, Leave
<1>1. TypeOK'
  <2>1. host' \in Host
    BY SMTT(30) DEF IInv, Verify, TypeOK, Content, Phase
  <2>2. at' \in Quiet \cup Restoring \cup Recovering \cup {"capture"}
    BY SMT DEF IInv, Verify, TypeOK, Quiet, Restoring, Recovering
  <2>3. /\ by' \in {"open", "capture", "restore", "rollback"}
       /\ said' \in {"none", "restored", "previous", "failed"}
    BY SMT DEF IInv, Verify, TypeOK
  <2>4. failed' \in BOOLEAN /\ kept' \in BOOLEAN
    BY Zenon DEF IInv, Verify, TypeOK
  <2>5. copy' \in World /\ owed' \in World /\ used' \subseteq World
    BY SMT DEF IInv, Verify, TypeOK, Control, Holds
  <2>6. faults' \in 0 .. MaxFaults
    BY SMT DEF IInv, Verify, TypeOK
  <2>7. saved' \subseteq Port /\ leased' \subseteq Port /\ port' \in Port
    BY SMT DEF IInv, Verify, TypeOK
  <2> QED
    BY <2>1, <2>2, <2>3, <2>4, <2>5, <2>6, <2>7 DEF TypeOK
<1>2. Places'
  BY SMTT(30) DEF IInv, Verify, TypeOK, Places, Control, Callers, Ports, Restoring,
     Recovering, Content, Phase, Undoable, Holds, Removing
<1>3. Control'
  BY SMTT(30) DEF IInv, Verify, TypeOK, Places, Control, Callers, Ports, Restoring,
     Recovering, Content, Phase, Undoable, Holds, Removing
<1>4. Callers'
  BY SMTT(30) DEF IInv, Verify, TypeOK, Places, Control, Callers, Ports, Restoring,
     Recovering, Content, Phase, Undoable, Holds, Removing
<1>5. Ports'
  BY SMTT(30) DEF IInv, Verify, TypeOK, Places, Control, Callers, Ports, Restoring,
     Recovering, Content, Phase, Undoable, Holds, Removing
<1> QED
  BY <1>1, <1>2, <1>3, <1>4, <1>5 DEF IInv

LEMMA StartServerSafe == IInv /\ StartServer => IInv'
<1> SUFFICES ASSUME IInv, StartServer PROVE IInv'
  OBVIOUS
<1> USE ContentAssumption, FaultAssumption DEF Call, Fault, Goto, Report, Recover, Rollback,
   record, Recovered, RecoveryRaises, Collected, Step, Release, Leave
<1>1. TypeOK'
  <2>1. host' \in Host
    BY StartedIs, SMTT(30) DEF IInv, StartServer, TypeOK, Content, Phase
  <2>2. at' \in Quiet \cup Restoring \cup Recovering \cup {"capture"}
    BY SMT DEF IInv, StartServer, TypeOK, Quiet, Restoring, Recovering
  <2>3. /\ by' \in {"open", "capture", "restore", "rollback"}
       /\ said' \in {"none", "restored", "previous", "failed"}
    BY SMT DEF IInv, StartServer, TypeOK
  <2>4. failed' \in BOOLEAN /\ kept' \in BOOLEAN
    BY Zenon DEF IInv, StartServer, TypeOK
  <2>5. copy' \in World /\ owed' \in World /\ used' \subseteq World
    BY SMT DEF IInv, StartServer, TypeOK, Control, Holds
  <2>6. faults' \in 0 .. MaxFaults
    BY SMT DEF IInv, StartServer, TypeOK
  <2>7. saved' \subseteq Port /\ leased' \subseteq Port /\ port' \in Port
    BY SMT DEF IInv, StartServer, TypeOK
  <2> QED
    BY <2>1, <2>2, <2>3, <2>4, <2>5, <2>6, <2>7 DEF TypeOK
<1>2. Places'
  BY StartedIs, SMTT(30) DEF IInv, StartServer, TypeOK, Places, Control, Callers, Ports,
     Restoring, Recovering, Content, Phase, Undoable, Holds, Removing
<1>3. Control'
  BY StartedIs, SMTT(30) DEF IInv, StartServer, TypeOK, Places, Control, Callers, Ports,
     Restoring, Recovering, Content, Phase, Undoable, Holds, Removing
<1>4. Callers'
  BY StartedIs, SMTT(30) DEF IInv, StartServer, TypeOK, Places, Control, Callers, Ports,
     Restoring, Recovering, Content, Phase, Undoable, Holds, Removing
<1>5. Ports'
  BY StartedIs, SMTT(30) DEF IInv, StartServer, TypeOK, Places, Control, Callers, Ports,
     Restoring, Recovering, Content, Phase, Undoable, Holds, Removing
<1> QED
  BY <1>1, <1>2, <1>3, <1>4, <1>5 DEF IInv

LEMMA CommitSafe == IInv /\ Commit => IInv'
<1> SUFFICES ASSUME IInv, Commit PROVE IInv'
  OBVIOUS
<1> USE ContentAssumption, FaultAssumption DEF Call, Fault, Goto, Report, Recover, Rollback,
   record, Recovered, RecoveryRaises, Collected, Step, Release, Leave
<1>1. TypeOK'
  <2>1. host' \in Host
    BY JournaledIs, SMTT(30) DEF IInv, Commit, TypeOK, Content, Phase
  <2>2. at' \in Quiet \cup Restoring \cup Recovering \cup {"capture"}
    BY SMT DEF IInv, Commit, TypeOK, Quiet, Restoring, Recovering
  <2>3. /\ by' \in {"open", "capture", "restore", "rollback"}
       /\ said' \in {"none", "restored", "previous", "failed"}
    BY SMT DEF IInv, Commit, TypeOK
  <2>4. failed' \in BOOLEAN /\ kept' \in BOOLEAN
    BY Zenon DEF IInv, Commit, TypeOK
  <2>5. copy' \in World /\ owed' \in World /\ used' \subseteq World
    BY SMT DEF IInv, Commit, TypeOK, Control, Holds
  <2>6. faults' \in 0 .. MaxFaults
    BY SMT DEF IInv, Commit, TypeOK
  <2>7. saved' \subseteq Port /\ leased' \subseteq Port /\ port' \in Port
    BY SMT DEF IInv, Commit, TypeOK
  <2> QED
    BY <2>1, <2>2, <2>3, <2>4, <2>5, <2>6, <2>7 DEF TypeOK
<1>2. Places'
  <2>1. at = "commit" /\ host.work \in used \cap World /\ Holds("backup_published", host.work, owed)
    BY SMT DEF IInv, Commit, Control
  <2>2. copy' = copy /\ used' = used
    BY SMT DEF Commit
  <2>3. CASE host' = host
    <3>1. owed' = owed
      BY <2>1, <2>3, SMT DEF Commit, Holds
    <3> QED
      BY <2>1, <2>2, <2>3, <3>1, SMT DEF IInv, Places, Holds
  <2>4. CASE host' = Journaled(host, "committed")
    <3>1. host'.journal = "committed" /\ host'.work = host.work /\ owed' = host.work
      BY <2>4, JournaledIs, SMT DEF IInv, Commit, TypeOK, Phase
    <3> QED
      BY <2>1, <2>2, <3>1, SMT DEF IInv, Places, Holds, Undoable
  <2> QED
    BY <2>3, <2>4 DEF Commit
<1>3. Control'
  BY JournaledIs, SMTT(30) DEF IInv, Commit, TypeOK, Places, Control, Callers, Ports,
     Restoring, Recovering, Content, Phase, Undoable, Holds, Removing
<1>4. Callers'
  BY JournaledIs, SMTT(30) DEF IInv, Commit, TypeOK, Places, Control, Callers, Ports,
     Restoring, Recovering, Content, Phase, Undoable, Holds, Removing
<1>5. Ports'
  BY JournaledIs, SMTT(30) DEF IInv, Commit, TypeOK, Places, Control, Callers, Ports,
     Restoring, Recovering, Content, Phase, Undoable, Holds, Removing
<1> QED
  BY <1>1, <1>2, <1>3, <1>4, <1>5 DEF IInv

LEMMA DropSafe == IInv /\ Drop => IInv'
<1> SUFFICES ASSUME IInv, Drop PROVE IInv'
  OBVIOUS
<1> USE ContentAssumption, FaultAssumption DEF Call, Fault, Goto, Report, Recover, Rollback,
   record, Recovered, RecoveryRaises, Collected, Step, Release, Leave
<1>1. TypeOK'
  <2>1. host' \in Host
    BY RemovedBackupIs, JournaledIs, SMTT(30) DEF IInv, Drop, TypeOK, Content, Phase
  <2>2. at' \in Quiet \cup Restoring \cup Recovering \cup {"capture"}
    BY SMT DEF IInv, Drop, TypeOK, Quiet, Restoring, Recovering
  <2>3. /\ by' \in {"open", "capture", "restore", "rollback"}
       /\ said' \in {"none", "restored", "previous", "failed"}
    BY SMT DEF IInv, Drop, TypeOK
  <2>4. failed' \in BOOLEAN /\ kept' \in BOOLEAN
    BY Zenon DEF IInv, Drop, TypeOK
  <2>5. copy' \in World /\ owed' \in World /\ used' \subseteq World
    BY SMT DEF IInv, Drop, TypeOK, Control, Holds
  <2>6. faults' \in 0 .. MaxFaults
    BY SMT DEF IInv, Drop, TypeOK
  <2>7. saved' \subseteq Port /\ leased' \subseteq Port /\ port' \in Port
    BY SMT DEF IInv, Drop, TypeOK
  <2> QED
    BY <2>1, <2>2, <2>3, <2>4, <2>5, <2>6, <2>7 DEF TypeOK
<1>2. Places'
  BY RemovedBackupIs, JournaledIs, SMTT(30) DEF IInv, Drop, TypeOK, Places, Control,
     Callers, Ports, Restoring, Recovering, Content, Phase, Undoable, Holds, Removing
<1>3. Control'
  BY RemovedBackupIs, JournaledIs, SMTT(30) DEF IInv, Drop, TypeOK, Places, Control,
     Callers, Ports, Restoring, Recovering, Content, Phase, Undoable, Holds, Removing
<1>4. Callers'
  BY RemovedBackupIs, JournaledIs, SMTT(30) DEF IInv, Drop, TypeOK, Places, Control,
     Callers, Ports, Restoring, Recovering, Content, Phase, Undoable, Holds, Removing
<1>5. Ports'
  BY RemovedBackupIs, JournaledIs, SMTT(30) DEF IInv, Drop, TypeOK, Places, Control,
     Callers, Ports, Restoring, Recovering, Content, Phase, Undoable, Holds, Removing
<1> QED
  BY <1>1, <1>2, <1>3, <1>4, <1>5 DEF IInv

LEMMA StartBridgeSafe == IInv /\ StartBridge => IInv'
<1> SUFFICES ASSUME IInv, StartBridge PROVE IInv'
  OBVIOUS
<1> USE ContentAssumption, FaultAssumption DEF Call, Fault, Goto, Report, Recover, Rollback,
   record, Recovered, RecoveryRaises, Collected, Step, Release, Leave
<1>1. TypeOK'
  <2>1. host' \in Host
    BY SMTT(30) DEF IInv, StartBridge, TypeOK, Content, Phase
  <2>2. at' \in Quiet \cup Restoring \cup Recovering \cup {"capture"}
    BY SMT DEF IInv, StartBridge, TypeOK, Quiet, Restoring, Recovering
  <2>3. /\ by' \in {"open", "capture", "restore", "rollback"}
       /\ said' \in {"none", "restored", "previous", "failed"}
    BY SMT DEF IInv, StartBridge, TypeOK
  <2>4. failed' \in BOOLEAN /\ kept' \in BOOLEAN
    BY Zenon DEF IInv, StartBridge, TypeOK
  <2>5. copy' \in World /\ owed' \in World /\ used' \subseteq World
    BY SMT DEF IInv, StartBridge, TypeOK, Control, Holds
  <2>6. faults' \in 0 .. MaxFaults
    BY SMT DEF IInv, StartBridge, TypeOK
  <2>7. saved' \subseteq Port /\ leased' \subseteq Port /\ port' \in Port
    BY SMT DEF IInv, StartBridge, TypeOK
  <2> QED
    BY <2>1, <2>2, <2>3, <2>4, <2>5, <2>6, <2>7 DEF TypeOK
<1>2. Places'
  BY SMTT(30) DEF IInv, StartBridge, TypeOK, Places, Control, Callers, Ports, Restoring,
     Recovering, Content, Phase, Undoable, Holds, Removing
<1>3. Control'
  BY SMTT(30) DEF IInv, StartBridge, TypeOK, Places, Control, Callers, Ports, Restoring,
     Recovering, Content, Phase, Undoable, Holds, Removing
<1>4. Callers'
  BY SMTT(30) DEF IInv, StartBridge, TypeOK, Places, Control, Callers, Ports, Restoring,
     Recovering, Content, Phase, Undoable, Holds, Removing
<1>5. Ports'
  BY SMTT(30) DEF IInv, StartBridge, TypeOK, Places, Control, Callers, Ports, Restoring,
     Recovering, Content, Phase, Undoable, Holds, Removing
<1> QED
  BY <1>1, <1>2, <1>3, <1>4, <1>5 DEF IInv

LEMMA OpenSafe == \A p \in Port : IInv /\ Open(p) => IInv'
<1> SUFFICES ASSUME NEW p \in Port, IInv, Open(p) PROVE IInv'
  OBVIOUS
<1> USE ContentAssumption, FaultAssumption DEF Call, Fault, Goto, Report, Recover, Rollback,
   record, Recovered, RecoveryRaises, Collected, Step, Release, Leave
<1>1. TypeOK'
  <2>1. host' \in Host
    BY HoldingIs, SMTT(30) DEF IInv, Open, TypeOK, Content, Phase
  <2>2. at' \in Quiet \cup Restoring \cup Recovering \cup {"capture"}
    BY SMT DEF IInv, Open, TypeOK, Quiet, Restoring, Recovering
  <2>3. /\ by' \in {"open", "capture", "restore", "rollback"}
       /\ said' \in {"none", "restored", "previous", "failed"}
    BY SMT DEF IInv, Open, TypeOK
  <2>4. failed' \in BOOLEAN /\ kept' \in BOOLEAN
    BY Zenon DEF IInv, Open, TypeOK
  <2>5. copy' \in World /\ owed' \in World /\ used' \subseteq World
    BY SMT DEF IInv, Open, TypeOK, Control, Holds
  <2>6. faults' \in 0 .. MaxFaults
    BY SMT DEF IInv, Open, TypeOK
  <2>7. saved' \subseteq Port /\ leased' \subseteq Port /\ port' \in Port
    BY SMT DEF IInv, Open, TypeOK
  <2> QED
    BY <2>1, <2>2, <2>3, <2>4, <2>5, <2>6, <2>7 DEF TypeOK
<1>2. Places'
  BY HoldingIs, SMTT(30) DEF IInv, Open, TypeOK, Places, Control, Callers, Content, Phase,
     Undoable, Holds, Removing
<1>3. Control'
  <2>1. at' = "load" /\ host'.server = host.server
    BY HoldingIs, SMTT(30) DEF IInv, Open, TypeOK, Content
  <2> QED
    BY <2>1, SMT DEF IInv, Control
<1>4. Callers'
  BY HoldingIs, SMTT(30) DEF IInv, Open, TypeOK, Places, Control, Callers, Content, Phase,
     Undoable, Holds, Removing
<1>5. Ports'
  BY HoldingIs, SMTT(30) DEF IInv, Open, TypeOK, Places, Control, Callers, Ports,
     Restoring, Recovering, Content, Phase, Undoable, Holds, Removing
<1> QED
  BY <1>1, <1>2, <1>3, <1>4, <1>5 DEF IInv

LEMMA OpenFailsSafe == IInv /\ OpenFails => IInv'
<1> SUFFICES ASSUME IInv, OpenFails PROVE IInv'
  OBVIOUS
<1> USE ContentAssumption, FaultAssumption DEF Call, Fault, Goto, Report, Recover, Rollback,
   record, Recovered, RecoveryRaises, Collected, Step, Release, Leave
<1>1. TypeOK'
  <2>1. host' \in Host
    BY SMTT(30) DEF IInv, OpenFails, TypeOK, Content, Phase
  <2>2. at' \in Quiet \cup Restoring \cup Recovering \cup {"capture"}
    BY SMT DEF IInv, OpenFails, TypeOK, Quiet, Restoring, Recovering
  <2>3. /\ by' \in {"open", "capture", "restore", "rollback"}
       /\ said' \in {"none", "restored", "previous", "failed"}
    BY SMT DEF IInv, OpenFails, TypeOK
  <2>4. failed' \in BOOLEAN /\ kept' \in BOOLEAN
    BY Zenon DEF IInv, OpenFails, TypeOK
  <2>5. copy' \in World /\ owed' \in World /\ used' \subseteq World
    BY SMT DEF IInv, OpenFails, TypeOK, Control, Holds
  <2>6. faults' \in 0 .. MaxFaults
    BY SMT DEF IInv, OpenFails, TypeOK
  <2>7. saved' \subseteq Port /\ leased' \subseteq Port /\ port' \in Port
    BY SMT DEF IInv, OpenFails, TypeOK
  <2> QED
    BY <2>1, <2>2, <2>3, <2>4, <2>5, <2>6, <2>7 DEF TypeOK
<1>2. Places'
  BY SMTT(30) DEF IInv, OpenFails, TypeOK, Places, Control, Callers, Ports, Restoring,
     Recovering, Content, Phase, Undoable, Holds, Removing
<1>3. Control'
  BY SMTT(30) DEF IInv, OpenFails, TypeOK, Places, Control, Callers, Ports, Restoring,
     Recovering, Content, Phase, Undoable, Holds, Removing
<1>4. Callers'
  BY SMTT(30) DEF IInv, OpenFails, TypeOK, Places, Control, Callers, Ports, Restoring,
     Recovering, Content, Phase, Undoable, Holds, Removing
<1>5. Ports'
  BY SMTT(30) DEF IInv, OpenFails, TypeOK, Places, Control, Callers, Ports, Restoring,
     Recovering, Content, Phase, Undoable, Holds, Removing
<1> QED
  BY <1>1, <1>2, <1>3, <1>4, <1>5 DEF IInv

LEMMA OpenSessionSafe == IInv /\ OpenSession => IInv'
<1> SUFFICES ASSUME IInv, OpenSession PROVE IInv'
  OBVIOUS
<1> USE ContentAssumption, FaultAssumption DEF Call, Fault, Goto, Report, Recover, Rollback,
   record, Recovered, RecoveryRaises, Collected, Step, Release, Leave
<1>1. TypeOK'
  <2>1. host' \in Host
    BY StartedIs, StoppedIs, SMTT(30) DEF IInv, OpenSession, TypeOK, Content, Phase
  <2>2. at' \in Quiet \cup Restoring \cup Recovering \cup {"capture"}
    BY SMT DEF IInv, OpenSession, TypeOK, Quiet, Restoring, Recovering
  <2>3. /\ by' \in {"open", "capture", "restore", "rollback"}
       /\ said' \in {"none", "restored", "previous", "failed"}
    BY SMT DEF IInv, OpenSession, TypeOK
  <2>4. failed' \in BOOLEAN /\ kept' \in BOOLEAN
    BY Zenon DEF IInv, OpenSession, TypeOK
  <2>5. copy' \in World /\ owed' \in World /\ used' \subseteq World
    BY SMT DEF IInv, OpenSession, TypeOK, Control, Holds
  <2>6. faults' \in 0 .. MaxFaults
    BY SMT DEF IInv, OpenSession, TypeOK
  <2>7. saved' \subseteq Port /\ leased' \subseteq Port /\ port' \in Port
    BY SMT DEF IInv, OpenSession, TypeOK
  <2> QED
    BY <2>1, <2>2, <2>3, <2>4, <2>5, <2>6, <2>7 DEF TypeOK
<1>2. Places'
  BY StartedIs, StoppedIs, SMTT(30) DEF IInv, OpenSession, TypeOK, Places, Control,
     Callers, Ports, Restoring, Recovering, Content, Phase, Undoable, Holds, Removing
<1>3. Control'
  BY StartedIs, StoppedIs, SMTT(30) DEF IInv, OpenSession, TypeOK, Places, Control,
     Callers, Ports, Restoring, Recovering, Content, Phase, Undoable, Holds, Removing
<1>4. Callers'
  BY StartedIs, StoppedIs, SMTT(30) DEF IInv, OpenSession, TypeOK, Places, Control,
     Callers, Ports, Restoring, Recovering, Content, Phase, Undoable, Holds, Removing
<1>5. Ports'
  BY StartedIs, StoppedIs, SMTT(30) DEF IInv, OpenSession, Held, TypeOK, Places,
     Control, Callers, Ports, Restoring, Recovering, Content, Phase, Undoable, Holds, Removing
<1> QED
  BY <1>1, <1>2, <1>3, <1>4, <1>5 DEF IInv

LEMMA AskCaptureSafe == IInv /\ AskCapture => IInv'
<1> SUFFICES ASSUME IInv, AskCapture PROVE IInv'
  OBVIOUS
<1> USE ContentAssumption, FaultAssumption DEF Call, Fault, Goto, Report, Recover, Rollback,
   record, Recovered, RecoveryRaises, Collected, Step, Release, Leave
<1>1. TypeOK'
  <2>1. host' \in Host
    BY SMTT(30) DEF IInv, AskCapture, TypeOK, Content, Phase
  <2>2. at' \in Quiet \cup Restoring \cup Recovering \cup {"capture"}
    BY SMT DEF IInv, AskCapture, TypeOK, Quiet, Restoring, Recovering
  <2>3. /\ by' \in {"open", "capture", "restore", "rollback"}
       /\ said' \in {"none", "restored", "previous", "failed"}
    BY SMT DEF IInv, AskCapture, TypeOK
  <2>4. failed' \in BOOLEAN /\ kept' \in BOOLEAN
    BY Zenon DEF IInv, AskCapture, TypeOK
  <2>5. copy' \in World /\ owed' \in World /\ used' \subseteq World
    BY SMT DEF IInv, AskCapture, TypeOK, Control, Holds
  <2>6. faults' \in 0 .. MaxFaults
    BY SMT DEF IInv, AskCapture, TypeOK
  <2>7. saved' \subseteq Port /\ leased' \subseteq Port /\ port' \in Port
    BY SMT DEF IInv, AskCapture, TypeOK
  <2> QED
    BY <2>1, <2>2, <2>3, <2>4, <2>5, <2>6, <2>7 DEF TypeOK
<1>2. Places'
  BY SMTT(30) DEF IInv, AskCapture, TypeOK, Places, Control, Callers, Ports, Restoring,
     Recovering, Content, Phase, Undoable, Holds, Removing
<1>3. Control'
  BY SMTT(30) DEF IInv, AskCapture, TypeOK, Places, Control, Callers, Ports, Restoring,
     Recovering, Content, Phase, Undoable, Holds, Removing
<1>4. Callers'
  BY SMTT(30) DEF IInv, AskCapture, TypeOK, Places, Control, Callers, Ports, Restoring,
     Recovering, Content, Phase, Undoable, Holds, Removing
<1>5. Ports'
  BY SMTT(30) DEF IInv, AskCapture, TypeOK, Places, Control, Callers, Ports, Restoring,
     Recovering, Content, Phase, Undoable, Holds, Removing
<1> QED
  BY <1>1, <1>2, <1>3, <1>4, <1>5 DEF IInv

LEMMA CaptureSafe == IInv /\ Capture => IInv'
<1> SUFFICES ASSUME IInv, Capture PROVE IInv'
  OBVIOUS
<1> USE ContentAssumption, FaultAssumption DEF Call, Fault, Goto, Report, Recover, Rollback,
   record, Recovered, RecoveryRaises, Collected, Step, Release, Leave
<1>1. TypeOK'
  <2>1. host' \in Host
    BY SMTT(30) DEF IInv, Capture, TypeOK, Content, Phase
  <2>2. at' \in Quiet \cup Restoring \cup Recovering \cup {"capture"}
    BY SMT DEF IInv, Capture, TypeOK, Quiet, Restoring, Recovering
  <2>3. /\ by' \in {"open", "capture", "restore", "rollback"}
       /\ said' \in {"none", "restored", "previous", "failed"}
    BY SMT DEF IInv, Capture, TypeOK
  <2>4. failed' \in BOOLEAN /\ kept' \in BOOLEAN
    BY Zenon DEF IInv, Capture, TypeOK
  <2>5. copy' \in World /\ owed' \in World /\ used' \subseteq World
    BY SMT DEF IInv, Capture, TypeOK, Control, Holds
  <2>6. faults' \in 0 .. MaxFaults
    BY SMT DEF IInv, Capture, TypeOK
  <2>7. saved' \subseteq Port /\ leased' \subseteq Port /\ port' \in Port
    BY SMT DEF IInv, Capture, TypeOK
  <2> QED
    BY <2>1, <2>2, <2>3, <2>4, <2>5, <2>6, <2>7 DEF TypeOK
<1>2. Places'
  BY SMTT(30) DEF IInv, Capture, TypeOK, Places, Control, Callers, Ports, Restoring,
     Recovering, Content, Phase, Undoable, Holds, Removing
<1>3. Control'
  BY SMTT(30) DEF IInv, Capture, TypeOK, Places, Control, Callers, Ports, Restoring,
     Recovering, Content, Phase, Undoable, Holds, Removing
<1>4. Callers'
  BY SMTT(30) DEF IInv, Capture, TypeOK, Places, Control, Callers, Ports, Restoring,
     Recovering, Content, Phase, Undoable, Holds, Removing
<1>5. Ports'
  BY SMTT(30) DEF IInv, Capture, TypeOK, Places, Control, Callers, Ports, Restoring,
     Recovering, Content, Phase, Undoable, Holds, Removing
<1> QED
  BY <1>1, <1>2, <1>3, <1>4, <1>5 DEF IInv

LEMMA AskRestoreSafe == IInv /\ AskRestore => IInv'
<1> SUFFICES ASSUME IInv, AskRestore PROVE IInv'
  OBVIOUS
<1> USE ContentAssumption, FaultAssumption DEF Call, Fault, Goto, Report, Recover, Rollback,
   record, Recovered, RecoveryRaises, Collected, Step, Release, Leave
<1>1. TypeOK'
  <2>1. host' \in Host
    BY SMTT(30) DEF IInv, AskRestore, TypeOK, Content, Phase
  <2>2. at' \in Quiet \cup Restoring \cup Recovering \cup {"capture"}
    BY SMT DEF IInv, AskRestore, TypeOK, Quiet, Restoring, Recovering
  <2>3. /\ by' \in {"open", "capture", "restore", "rollback"}
       /\ said' \in {"none", "restored", "previous", "failed"}
    BY SMT DEF IInv, AskRestore, TypeOK
  <2>4. failed' \in BOOLEAN /\ kept' \in BOOLEAN
    BY Zenon DEF IInv, AskRestore, TypeOK
  <2>5. copy' \in World /\ owed' \in World /\ used' \subseteq World
    BY SMT DEF IInv, AskRestore, TypeOK, Control, Holds
  <2>6. faults' \in 0 .. MaxFaults
    BY SMT DEF IInv, AskRestore, TypeOK
  <2>7. saved' \subseteq Port /\ leased' \subseteq Port /\ port' \in Port
    BY SMT DEF IInv, AskRestore, TypeOK
  <2> QED
    BY <2>1, <2>2, <2>3, <2>4, <2>5, <2>6, <2>7 DEF TypeOK
<1>2. Places'
  BY SMTT(30) DEF IInv, AskRestore, TypeOK, Places, Control, Callers, Ports, Restoring,
     Recovering, Content, Phase, Undoable, Holds, Removing
<1>3. Control'
  BY SMTT(30) DEF IInv, AskRestore, TypeOK, Places, Control, Callers, Ports, Restoring,
     Recovering, Content, Phase, Undoable, Holds, Removing
<1>4. Callers'
  BY SMTT(30) DEF IInv, AskRestore, TypeOK, Places, Control, Callers, Ports, Restoring,
     Recovering, Content, Phase, Undoable, Holds, Removing
<1>5. Ports'
  BY SMTT(30) DEF IInv, AskRestore, TypeOK, Places, Control, Callers, Ports, Restoring,
     Recovering, Content, Phase, Undoable, Holds, Removing
<1> QED
  BY <1>1, <1>2, <1>3, <1>4, <1>5 DEF IInv

LEMMA CloseSafe == IInv /\ Close => IInv'
<1> SUFFICES ASSUME IInv, Close PROVE IInv'
  OBVIOUS
<1> USE ContentAssumption, FaultAssumption DEF Call, Fault, Goto, Report, Recover, Rollback,
   record, Recovered, RecoveryRaises, Collected, Step, Release, Leave
<1>1. TypeOK'
  <2>1. host' \in Host
    BY StoppedIs, SMTT(30) DEF IInv, Close, TypeOK, Content, Phase
  <2>2. at' \in Quiet \cup Restoring \cup Recovering \cup {"capture"}
    BY SMT DEF IInv, Close, TypeOK, Quiet, Restoring, Recovering
  <2>3. /\ by' \in {"open", "capture", "restore", "rollback"}
       /\ said' \in {"none", "restored", "previous", "failed"}
    BY SMT DEF IInv, Close, TypeOK
  <2>4. failed' \in BOOLEAN /\ kept' \in BOOLEAN
    BY Zenon DEF IInv, Close, TypeOK
  <2>5. copy' \in World /\ owed' \in World /\ used' \subseteq World
    BY SMT DEF IInv, Close, TypeOK, Control, Holds
  <2>6. faults' \in 0 .. MaxFaults
    BY SMT DEF IInv, Close, TypeOK
  <2>7. saved' \subseteq Port /\ leased' \subseteq Port /\ port' \in Port
    BY SMT DEF IInv, Close, TypeOK
  <2> QED
    BY <2>1, <2>2, <2>3, <2>4, <2>5, <2>6, <2>7 DEF TypeOK
<1>2. Places'
  BY StoppedIs, SMTT(30) DEF IInv, Close, TypeOK, Places, Control, Callers, Ports,
     Restoring, Recovering, Content, Phase, Undoable, Holds, Removing
<1>3. Control'
  BY StoppedIs, SMTT(30) DEF IInv, Close, TypeOK, Places, Control, Callers, Ports,
     Restoring, Recovering, Content, Phase, Undoable, Holds, Removing
<1>4. Callers'
  BY StoppedIs, SMTT(30) DEF IInv, Close, TypeOK, Places, Control, Callers, Ports,
     Restoring, Recovering, Content, Phase, Undoable, Holds, Removing
<1>5. Ports'
  BY StoppedIs, SMTT(30) DEF IInv, Close, TypeOK, Places, Control, Callers, Ports,
     Restoring, Recovering, Content, Phase, Undoable, Holds, Removing
<1> QED
  BY <1>1, <1>2, <1>3, <1>4, <1>5 DEF IInv

LEMMA PlaySafe == IInv /\ Play => IInv'
<1> SUFFICES ASSUME IInv, Play PROVE IInv'
  OBVIOUS
<1> USE ContentAssumption
<1>1. host.server = "work" /\ host \in Host
  BY SMT DEF IInv, Play, Control, TypeOK
<1>2. host.work \in World
  <2>1. host[host.server] \in World
    BY DEF Play
  <2>2. host[host.server] = host.work
    BY <1>1
  <2> QED
    BY <2>1, <2>2
<1>3. PICK w \in World \ used :
        /\ used' = used \cup {w}
        /\ host' = [host EXCEPT ![host.server] = w]
        /\ owed' = IF host[host.server] = owed THEN w ELSE owed
  BY DEF Play
<1>4. /\ host' \in Host /\ host'.work = w /\ host'.backup = host.backup
      /\ host'.journal = host.journal /\ host'.server = "work"
      /\ host'.bound = host.bound /\ host'.listens = host.listens
  BY <1>1, <1>3 DEF Host, Content
<1>5. owed' = IF host.work = owed THEN w ELSE owed
  BY <1>1, <1>3
<1>6. UNCHANGED <<leased, port, at, by, failed, saved, copy, said, kept, faults>>
  BY DEF Play
<1>7. TypeOK'
  BY <1>3, <1>4, <1>5, <1>6 DEF IInv, TypeOK
<1>8. Places'
  BY <1>1, <1>2, <1>3, <1>4, <1>6, <1>5, SMT DEF IInv, TypeOK, Places, Undoable, Host, Content
<1>9. Control'
  BY <1>1, <1>2, <1>3, <1>4, <1>5, <1>6, SMT DEF IInv, TypeOK, Places, Control, Holds, Undoable
<1>10. Callers'
  BY <1>1, <1>4, <1>6, SMT DEF IInv, Callers
<1>11. Ports'
  BY <1>1, <1>4, <1>6, SMT DEF IInv, Ports, Restoring, Recovering
<1> QED
  BY <1>7, <1>8, <1>9, <1>10, <1>11 DEF IInv

LEMMA ExpireSafe == \A p \in Port : IInv /\ Expire(p) => IInv'
<1> SUFFICES ASSUME NEW p \in Port, IInv, Expire(p) PROVE IInv'
  OBVIOUS
<1> USE ContentAssumption, FaultAssumption DEF Call, Fault, Goto, Report, Recover, Rollback,
   record, Recovered, RecoveryRaises, Collected, Step, Release, Leave
<1>1. TypeOK'
  <2>1. host' \in Host
    BY SMTT(30) DEF IInv, Expire, TypeOK, Content, Phase
  <2>2. at' \in Quiet \cup Restoring \cup Recovering \cup {"capture"}
    BY SMT DEF IInv, Expire, TypeOK, Quiet, Restoring, Recovering
  <2>3. /\ by' \in {"open", "capture", "restore", "rollback"}
       /\ said' \in {"none", "restored", "previous", "failed"}
    BY SMT DEF IInv, Expire, TypeOK
  <2>4. failed' \in BOOLEAN /\ kept' \in BOOLEAN
    BY Zenon DEF IInv, Expire, TypeOK
  <2>5. copy' \in World /\ owed' \in World /\ used' \subseteq World
    BY SMT DEF IInv, Expire, TypeOK, Control, Holds
  <2>6. faults' \in 0 .. MaxFaults
    BY SMT DEF IInv, Expire, TypeOK
  <2>7. saved' \subseteq Port /\ leased' \subseteq Port /\ port' \in Port
    BY SMT DEF IInv, Expire, TypeOK
  <2> QED
    BY <2>1, <2>2, <2>3, <2>4, <2>5, <2>6, <2>7 DEF TypeOK
<1>2. Places'
  BY SMTT(30) DEF IInv, Expire, TypeOK, Places, Control, Callers, Ports, Restoring,
     Recovering, Content, Phase, Undoable, Holds, Removing
<1>3. Control'
  BY SMTT(30) DEF IInv, Expire, TypeOK, Places, Control, Callers, Ports, Restoring,
     Recovering, Content, Phase, Undoable, Holds, Removing
<1>4. Callers'
  BY SMTT(30) DEF IInv, Expire, TypeOK, Places, Control, Callers, Ports, Restoring,
     Recovering, Content, Phase, Undoable, Holds, Removing
<1>5. Ports'
  BY SMTT(30) DEF IInv, Expire, TypeOK, Places, Control, Callers, Ports, Restoring,
     Recovering, Content, Phase, Undoable, Holds, Removing
<1> QED
  BY <1>1, <1>2, <1>3, <1>4, <1>5 DEF IInv

LEMMA EndServerSafe == IInv /\ EndServer => IInv'
<1> SUFFICES ASSUME IInv, EndServer PROVE IInv'
  OBVIOUS
<1> USE ContentAssumption, FaultAssumption DEF Call, Fault, Goto, Report, Recover, Rollback,
   record, Recovered, RecoveryRaises, Collected, Step, Release, Leave
<1>1. TypeOK'
  <2>1. host' \in Host
    BY SMT DEF IInv, EndServer, TypeOK, Host
  <2>2. at' \in Quiet \cup Restoring \cup Recovering \cup {"capture"}
    BY SMT DEF IInv, EndServer, TypeOK, Quiet, Restoring, Recovering
  <2>3. /\ by' \in {"open", "capture", "restore", "rollback"}
       /\ said' \in {"none", "restored", "previous", "failed"}
    BY SMT DEF IInv, EndServer, TypeOK
  <2>4. failed' \in BOOLEAN /\ kept' \in BOOLEAN
    BY Zenon DEF IInv, EndServer, TypeOK
  <2>5. copy' \in World /\ owed' \in World /\ used' \subseteq World
    BY SMT DEF IInv, EndServer, TypeOK, Control, Holds
  <2>6. faults' \in 0 .. MaxFaults
    BY SMT DEF IInv, EndServer, TypeOK
  <2>7. saved' \subseteq Port /\ leased' \subseteq Port /\ port' \in Port
    BY SMT DEF IInv, EndServer, TypeOK
  <2> QED
    BY <2>1, <2>2, <2>3, <2>4, <2>5, <2>6, <2>7 DEF TypeOK
<1>2. Places'
  BY SMTT(30) DEF IInv, EndServer, TypeOK, Places, Control, Callers, Ports, Restoring,
     Recovering, Content, Phase, Undoable, Holds, Removing
<1>3. Control'
  BY SMTT(30) DEF IInv, EndServer, TypeOK, Places, Control, Callers, Ports, Restoring,
     Recovering, Content, Phase, Undoable, Holds, Removing
<1>4. Callers'
  BY SMTT(30) DEF IInv, EndServer, TypeOK, Places, Control, Callers, Ports, Restoring,
     Recovering, Content, Phase, Undoable, Holds, Removing
<1>5. Ports'
  BY SMTT(30) DEF IInv, EndServer, TypeOK, Places, Control, Callers, Ports, Restoring,
     Recovering, Content, Phase, Undoable, Holds, Removing
<1> QED
  BY <1>1, <1>2, <1>3, <1>4, <1>5 DEF IInv

LEMMA CrashSafe == IInv /\ Crash => IInv'
<1> SUFFICES ASSUME IInv, Crash PROVE IInv'
  OBVIOUS
<1> USE ContentAssumption, FaultAssumption DEF Call, Fault, Goto, Report, Recover, Rollback,
   record, Recovered, RecoveryRaises, Collected, Step, Release, Leave
<1>1. TypeOK'
  <2>1. host' \in Host
    BY SMTT(30) DEF IInv, Crash, TypeOK, Content, Phase
  <2>2. at' \in Quiet \cup Restoring \cup Recovering \cup {"capture"}
    BY SMT DEF IInv, Crash, TypeOK, Quiet, Restoring, Recovering
  <2>3. /\ by' \in {"open", "capture", "restore", "rollback"}
       /\ said' \in {"none", "restored", "previous", "failed"}
    BY SMT DEF IInv, Crash, TypeOK
  <2>4. failed' \in BOOLEAN /\ kept' \in BOOLEAN
    BY Zenon DEF IInv, Crash, TypeOK
  <2>5. copy' \in World /\ owed' \in World /\ used' \subseteq World
    BY SMT DEF IInv, Crash, TypeOK, Control, Holds
  <2>6. faults' \in 0 .. MaxFaults
    BY SMT DEF IInv, Crash, TypeOK
  <2>7. saved' \subseteq Port /\ leased' \subseteq Port /\ port' \in Port
    BY SMT DEF IInv, Crash, TypeOK
  <2> QED
    BY <2>1, <2>2, <2>3, <2>4, <2>5, <2>6, <2>7 DEF TypeOK
<1>2. Places'
  BY SMTT(30) DEF IInv, Crash, TypeOK, Places, Control, Callers, Ports, Restoring,
     Recovering, Content, Phase, Undoable, Holds, Removing
<1>3. Control'
  BY SMTT(30) DEF IInv, Crash, TypeOK, Places, Control, Callers, Ports, Restoring,
     Recovering, Content, Phase, Undoable, Holds, Removing
<1>4. Callers'
  BY SMTT(30) DEF IInv, Crash, TypeOK, Places, Control, Callers, Ports, Restoring,
     Recovering, Content, Phase, Undoable, Holds, Removing
<1>5. Ports'
  BY SMTT(30) DEF IInv, Crash, TypeOK, Places, Control, Callers, Ports, Restoring,
     Recovering, Content, Phase, Undoable, Holds, Removing
<1> QED
  BY <1>1, <1>2, <1>3, <1>4, <1>5 DEF IInv

LEMMA InitSafe == Init => IInv
<1> SUFFICES ASSUME Init PROVE IInv
  OBVIOUS
<1>1. PICK w \in World, p \in Port :
        /\ host = [work |-> w, backup |-> Absent, journal |-> "none", bound |-> p,
                   server |-> "stopped", listens |-> p]
        /\ leased = {} /\ port = p
        /\ at = "down" /\ by = "open" /\ said = "none"
        /\ failed = FALSE /\ saved = {} /\ kept = TRUE
        /\ copy = w /\ owed = w /\ used = {w}
        /\ faults = 0
  BY DEF Init
<1>2. host \in Host
  BY <1>1 DEF Host, Content, Phase
<1>3. TypeOK
  <2>1. faults \in 0 .. MaxFaults
    BY <1>1, FaultAssumption
  <2>2. failed \in BOOLEAN /\ saved \subseteq Port /\ kept \in BOOLEAN
    BY <1>1
  <2> QED
    BY <1>1, <1>2, <2>1, <2>2 DEF TypeOK, Quiet
<1>4. Places
  BY <1>1 DEF Places, Undoable
<1>5. Control /\ Callers
  BY <1>1 DEF Control, Callers
<1>6. Ports
  BY <1>1 DEF Ports, Restoring, Recovering
<1> QED
  BY <1>3, <1>4, <1>5, <1>6 DEF IInv

LEMMA NextSafe == IInv /\ [Next]_vars => IInv'
<1> SUFFICES ASSUME IInv, [Next]_vars PROVE IInv'
  OBVIOUS
<1>1. CASE RecoveryStep
  BY <1>1, LoadSafe, HaltSafe, UndoSafe, ReviveSafe, SettleSafe, DiscardSafe DEF RecoveryStep
<1>2. CASE RestoreStep
  BY <1>2, ReadSafe, StopServerSafe, MoveAsideSafe, PublishSafe, BeginCopySafe, EndCopySafe,
     ShortCopySafe,
     VerifySafe, StartServerSafe, CommitSafe, DropSafe, StartBridgeSafe DEF RestoreStep
<1>3. CASE UNCHANGED vars
  <2>1. TypeOK'
    BY <1>3 DEF IInv, TypeOK, vars
  <2>2. Places' /\ Control'
    BY <1>3 DEF IInv, Places, Control, Holds, vars
  <2>3. Callers' /\ Ports'
    BY <1>3 DEF IInv, Callers, Ports, vars
  <2> QED
    BY <2>1, <2>2, <2>3 DEF IInv
<1> QED
  BY <1>1, <1>2, <1>3, OpenSafe, OpenFailsSafe, OpenSessionSafe, AskCaptureSafe, CaptureSafe,
     AskRestoreSafe, CloseSafe, ExpireSafe, PlaySafe, EndServerSafe, CrashSafe DEF Next

LEMMA AlwaysIInv == Spec => []IInv
BY InitSafe, NextSafe, PTL DEF Spec

\* Every variable keeps its type, for any worlds and any number of faults.
THEOREM TypeCorrect == Spec => []TypeOK
<1>1. IInv => TypeOK
  BY DEF IInv
<1> QED
  BY AlwaysIInv, <1>1, PTL

\* However often restores, rollbacks and cleanups fail or are cut short
\* (FilesystemMinecraftBranchCheckpointProvider.restore and _recover_pending_restore), the
\* world the branch owns stays complete in one of the two directories.
THEOREM BranchWorldSurvives == Spec => []WorldSurvives
<1>1. IInv => WorldSurvives
  <2>1. SUFFICES ASSUME IInv PROVE WorldSurvives
    OBVIOUS
  <2>2. host.journal \in {"none", "committed"} \cup Undoable
    BY <2>1 DEF IInv, TypeOK, Host, Phase, Undoable
  <2> QED
    BY <2>1, <2>2 DEF IInv, Places, WorldSurvives
<1> QED
  BY AlwaysIInv, <1>1, PTL

\* A session that open_session or a restore hands out runs on that world, in the working
\* directory, on a server of its own port, with nothing left to recover.
THEOREM SessionsRunOnIt == Spec => []SessionOnOwedWorld
<1>1. IInv => SessionOnOwedWorld
  BY SMT DEF IInv, Places, Control, Callers, Ports, SessionOnOwedWorld
<1> QED
  BY AlwaysIInv, <1>1, PTL
=============================================================================
