---------------------------- MODULE WorldRestore ----------------------------
(***************************************************************************)
(* The checkpoint restore of a Minecraft branch                            *)
(* (providers/branch_checkpoint.py): the world directory is set aside, the *)
(* captured world is copied in its place and the server is started on it,  *)
(* under a journal from which an interrupted restore is undone or          *)
(* finished.  The process that runs it, and every call it makes, may fail  *)
(* at any point; the server is a process of its own and lives on.          *)
(*                                                                         *)
(* A branch is opened on the port of an endpoint allocation, which may be  *)
(* another one each time.  The server's contract covers its port: service, *)
(* journal and captured worlds of one port are refused on another.         *)
(*                                                                         *)
(* A world is named by what it holds: playing on it makes another world,   *)
(* and so does a copy.  The history variable owed is the world the branch  *)
(* must not lose: the one played on or, from the commit on, the copy.      *)
(***************************************************************************)
EXTENDS Naturals

CONSTANTS World,      \* the contents a complete world directory may have
          Absent,     \* what a path holds when nothing is there
          Partial,    \* a directory half copied, half deleted or just made
          Port,       \* ports that the branch may be given
          MaxFaults   \* bound on failed calls and crashes

ASSUME ContentAssumption == Absent \notin World /\ Partial \notin World /\ Absent # Partial
ASSUME PortAssumption == Port # {}
ASSUME FaultAssumption == MaxFaults \in Nat

VARIABLES
  host,     \* what outlives the process: the two directories, the journal's phase, the
            \* port it is bound to, the server and the port it listens on
  leased,   \* ports with a live allocation of the branch
  port,     \* the port that the branch was last opened on
  at,       \* where the process is; "down" when the branch has no runtime
  by,       \* which call runs the recovery
  failed,   \* recovery_errors is not empty
  saved,    \* ports under which a world cut has been captured
  copy,     \* the content the running restore copies
  used,     \* worlds that exist or have existed
  owed,     \* history: the world that must survive
  said,     \* what the last restore reported
  kept,     \* history: the last restore has not been committed
  faults

vars == <<host, leased, port, at, by, failed, saved, copy, used, owed, said, kept, faults>>

Content == World \cup {Absent, Partial}
Phase == {"none", "prepared", "backup_published", "committed"}
Running == {"work", "backup", "lost"}   \* the directory the server runs in
Undoable == {"prepared", "backup_published"}
Quiet == {"down", "composed", "idle", "faulted"}
Restoring == {"read", "stop", "rename", "publish", "copy", "copying", "verify", "start",
              "commit", "drop", "bridge"}
Recovering == {"load", "halt", "undo", "revive", "settle", "discard"}

Host == [work: Content, backup: Content, journal: Phase, bound: Port,
         server: Running \cup {"stopped"}, listens: Port]

TypeOK ==
  /\ host \in Host
  /\ leased \subseteq Port /\ port \in Port
  /\ at \in Quiet \cup Restoring \cup Recovering \cup {"capture"}
  /\ by \in {"open", "capture", "restore", "rollback"}
  /\ failed \in BOOLEAN /\ saved \subseteq Port /\ kept \in BOOLEAN
  /\ copy \in World /\ owed \in World /\ used \subseteq World
  /\ said \in {"none", "restored", "previous", "failed"}
  /\ faults \in 0 .. MaxFaults

Init ==
  \E w \in World, p \in Port :
    /\ host = [work |-> w, backup |-> Absent, journal |-> "none", bound |-> p,
               server |-> "stopped", listens |-> p]
    /\ leased = {} /\ port = p
    /\ at = "down" /\ by = "open" /\ said = "none"
    /\ failed = FALSE /\ saved = {} /\ kept = TRUE
    /\ copy = w /\ owed = w /\ used = {w}
    /\ faults = 0

-----------------------------------------------------------------------------
(* A call takes effect and the process goes on, or it raises, before or    *)
(* after its effect, and the handler of the place it was made from runs.   *)

Fault == faults < MaxFaults /\ faults' = faults + 1

Call(effect, Next_, Handler) ==
  \/ host' = effect /\ UNCHANGED faults /\ Next_
  \/ Fault /\ host' \in {host, effect} /\ Handler

Goto(place) == at' = place /\ UNCHANGED <<by, said, failed, leased>>
Report(outcome, place) == at' = place /\ said' = outcome /\ UNCHANGED <<by, failed, leased>>
Recover(caller) == at' = "load" /\ by' = caller /\ failed' = FALSE /\ UNCHANGED said
Rollback == Recover("rollback") /\ UNCHANGED leased

\* Releasing the allocation may itself raise; then its lease runs out.
Release == leased' \in {leased, leased \ {port}}

\* An opening that fails releases what it was given.
Leave == at' = "down" /\ Release /\ UNCHANGED <<by, said, failed>>

\* The histories, the captured cuts and the port, which most steps leave alone
record == <<saved, copy, used, owed, kept, port>>

\* A server that runs already is adopted, wherever its directory has gone.
Started(h) == IF h.server = "stopped" THEN [h EXCEPT !.server = "work", !.listens = port] ELSE h
\* The service of this port stops no server of another one.
Stopped(h) == IF h.listens = port THEN [h EXCEPT !.server = "stopped"] ELSE h
Journaled(h, phase) == [h EXCEPT !.journal = phase, !.bound = port]
Holding(h, c) == [h EXCEPT !.work = c]
\* A rename takes a running server along.
SetAside(h) ==
  [h EXCEPT !.work = Absent, !.backup = h.work,
            !.server = IF h.server = "work" THEN "backup" ELSE h.server]
PutBack(h) ==
  [h EXCEPT !.work = h.backup, !.backup = Absent,
            !.server = IF h.server = "backup" THEN "work" ELSE h.server]
\* Rmtree is not atomic: a whole tree first becomes a partial one.
Removing(c) == IF c = Partial THEN Absent ELSE Partial
Removed(h, path) ==
  [h EXCEPT ![path] = Removing(h[path]),
            !.server = IF h[path] = Partial /\ h.server = path THEN "lost" ELSE h.server]

-----------------------------------------------------------------------------
(* The recovery of a pending restore: at construction, before a capture or *)
(* a restore, and after a restore that failed.                             *)

\* The recovery returns "none", "rolled_back" or "committed".
Recovered(disposition) ==
  \/ by = "open" /\ Goto("composed")
  \/ by = "capture" /\ Goto("capture")
  \/ by = "restore" /\ Goto("read")
  \/ by = "rollback" /\ disposition = "committed" /\ Report("restored", "bridge")
  \/ by = "rollback" /\ disposition # "committed" /\ Report("previous", "faulted")

RecoveryRaises ==
  \/ by = "open" /\ Leave
  \/ by = "capture" /\ Goto("idle")
  \/ by \in {"restore", "rollback"} /\ Report("failed", "faulted")

\* A journal that was begun under another server contract is refused.
Load ==
  /\ at = "load"
  /\ \/ host.journal = "none" /\ Recovered("none")
     \/ host.journal # "none" /\ host.bound # port /\ RecoveryRaises
     \/ /\ host.journal = "committed" /\ host.bound = port
        /\ IF host.work = Absent THEN RecoveryRaises ELSE Goto("discard")
     \/ host.journal \in Undoable /\ host.bound = port /\ Goto("halt")
  /\ UNCHANGED <<host, faults, record>>

\* Faulty variant of Halt: the recovery does not stop the server.
HaltUnstopped ==
  /\ at = "halt"
  /\ Call(host, Goto("undo"), RecoveryRaises)
  /\ UNCHANGED record

\* When the stop raises, the recovery raises and nothing has been touched.
Halt ==
  /\ at = "halt"
  /\ Call(Stopped(host), Goto("undo"), RecoveryRaises)
  /\ UNCHANGED record

\* Whatever the filesystem part raises, the server is then started on what is there.
Collected == at' = "revive" /\ failed' = TRUE /\ UNCHANGED <<by, said, leased>>

Undo ==
  /\ at = "undo"
  /\ \/ /\ host.backup # Absent /\ host.work # Absent
        /\ Call(Removed(host, "work"), Goto("undo"), Collected)
     \/ /\ host.backup # Absent /\ host.work = Absent
        /\ Call(PutBack(host), Goto("revive"), Collected)
     \/ /\ host.backup = Absent
        /\ IF host.work = Absent THEN Collected ELSE Goto("revive")
        /\ UNCHANGED <<host, faults>>
  /\ UNCHANGED record

Revive ==
  /\ at = "revive"
  /\ \/ host.work = Absent /\ RecoveryRaises /\ UNCHANGED <<host, faults>>
     \/ /\ host.work # Absent
        /\ Call(Started(host), IF failed THEN RecoveryRaises ELSE Goto("settle"), RecoveryRaises)
  /\ UNCHANGED record

\* Faulty variant of Settle: the journal is left behind.
SettleUncleared ==
  /\ at = "settle"
  /\ Call(host, Recovered("rolled_back"), RecoveryRaises)
  /\ UNCHANGED record

Settle ==
  /\ at = "settle"
  /\ Call(Journaled(host, "none"), Recovered("rolled_back"), RecoveryRaises)
  /\ UNCHANGED record

Discard ==
  /\ at = "discard"
  /\ \/ host.backup # Absent /\ Call(Removed(host, "backup"), Goto("discard"), RecoveryRaises)
     \/ /\ host.backup = Absent
        /\ Call(Journaled(host, "none"), Recovered("committed"), RecoveryRaises)
  /\ UNCHANGED record

-----------------------------------------------------------------------------
(* The restore.                                                            *)

\* The cut is decoded and its content verified before anything is touched; one that
\* was captured under another server contract is refused.
Read ==
  /\ at = "read"
  /\ \/ /\ port \notin saved /\ Report("failed", "faulted")
        /\ UNCHANGED <<host, copy, used, kept, faults>>
     \/ /\ port \in saved /\ kept' = TRUE
        /\ \E w \in World \ used :
             /\ copy' = w /\ used' = used \cup {w}
             /\ Call(Journaled(host, "prepared"), Goto("stop"), Report("failed", "faulted"))
  /\ UNCHANGED <<saved, owed, port>>

\* One call of the restore's try block.
Step(here, effect, there) ==
  at = here /\ Call(effect, Goto(there), Rollback) /\ UNCHANGED record

StopServer == Step("stop", Stopped(host), "rename")
MoveAside  == Step("rename", SetAside(host), "publish")
Publish    == Step("publish", Journaled(host, "backup_published"), "copy")
BeginCopy  == Step("copy", Holding(host, Partial), "copying")
EndCopy    == Step("copying", Holding(host, copy), "verify")

\* The copier left files out or stopped without raising.
ShortCopy ==
  /\ at = "copying" /\ Fault /\ Goto("verify")
  /\ UNCHANGED <<host, record>>

\* Faulty variant of Verify: the copy is taken as it is.
VerifyNothing ==
  /\ at = "verify" /\ Goto("start")
  /\ UNCHANGED <<host, faults, record>>

\* The manifest of the copy is compared with the cut's.
Verify ==
  /\ at = "verify"
  /\ IF host.work = copy THEN Goto("start") ELSE Rollback
  /\ UNCHANGED <<host, faults, record>>

\* Faulty variant of StartServer: the backup goes before the commit.
StartServerDropping == Step("start", Started(Removed(host, "backup")), "commit")

\* start, verify_ready and bind_ready: whichever raises, the server may be running.
StartServer == Step("start", Started(host), "commit")

\* From the published phase on the copy is the world that must survive.
Commit ==
  /\ at = "commit"
  /\ Call(Journaled(host, "committed"), Goto("drop"), Rollback)
  /\ IF host'.journal = "committed" THEN owed' = host.work /\ kept' = FALSE ELSE UNCHANGED <<owed, kept>>
  /\ UNCHANGED <<saved, copy, used, port>>

Drop ==
  \/ host.backup # Absent /\ Step("drop", Removed(host, "backup"), "drop")
  \/ /\ host.backup = Absent /\ at = "drop"
     /\ Call(Journaled(host, "none"), Report("restored", "bridge"), Rollback)
     /\ UNCHANGED record

\* The session restarts its bridge to the server; if that raises, the restore has failed.
StartBridge ==
  /\ at = "bridge"
  /\ \/ Goto("idle") /\ UNCHANGED faults
     \/ Fault /\ Goto("faulted")
  /\ UNCHANGED <<host, record>>

RestoreStep ==
  \/ Read \/ StopServer \/ MoveAside \/ Publish \/ BeginCopy \/ EndCopy \/ ShortCopy
  \/ Verify \/ StartServer \/ Commit \/ Drop \/ StartBridge

RecoveryStep == Load \/ Halt \/ Undo \/ Revive \/ Settle \/ Discard

-----------------------------------------------------------------------------
(* The branch runtime around it.                                           *)

\* The allocation of an opening: a request whose allocation is live gets its port
\* again, one whose allocation was released is refused for ever, and a fresh one gets
\* a port that has no live allocation and that no server listens on.
Available(p) == p \in leased \/ host.server = "stopped" \/ host.listens # p

\* The opening then writes eula.txt and server.properties, before it looks for a
\* pending restore.
Open(p) ==
  /\ at = "down" /\ Available(p)
  /\ port' = p /\ leased' = leased \cup {p}
  /\ host' = IF host.work = Absent THEN Holding(host, Partial) ELSE host
  /\ Recover("open")
  /\ UNCHANGED <<faults, saved, copy, used, owed, kept>>

\* The composition goes on after the recovery and may still fail.
OpenFails ==
  /\ at = "composed" /\ Fault /\ Leave
  /\ UNCHANGED <<host, record>>

\* A server that listens on another port holds the world.
Held == host.server # "stopped" /\ host.listens # port

\* A session that cannot be opened stops the server, or tries to.
OpenSession ==
  /\ at = "composed"
  /\ \/ ~Held /\ host' = Started(host) /\ Goto("idle") /\ UNCHANGED faults
     \/ ~Held /\ Fault /\ host' \in {Started(host), Stopped(host)} /\ Leave
     \/ Held /\ Leave /\ UNCHANGED <<host, faults>>
  /\ UNCHANGED record

AskCapture ==
  /\ at = "idle" /\ port \notin saved
  /\ Recover("capture")
  /\ UNCHANGED <<host, leased, faults, record>>

Capture ==
  /\ at = "capture"
  /\ \/ saved' = saved \cup {port} /\ UNCHANGED faults
     \/ Fault /\ UNCHANGED saved
  /\ Goto("idle")
  /\ UNCHANGED <<host, copy, used, owed, kept, port>>

\* The session closes its bridge first, which may raise.
AskRestore ==
  /\ at = "idle" /\ saved # {} /\ used # World
  /\ \/ /\ at' = "load" /\ by' = "restore" /\ failed' = FALSE /\ said' = "none"
        /\ UNCHANGED <<faults, leased>>
     \/ Fault /\ Report("failed", "faulted")
  /\ UNCHANGED <<host, record>>

\* A session whose restore raised accepts nothing more and is closed.  The allocation
\* is released whatever the stop raised; a service that was never started under this
\* contract cannot be stopped.
Close ==
  /\ at \in {"composed", "idle", "faulted"} /\ Release
  /\ \/ host' = Stopped(host) /\ at' = "down" /\ UNCHANGED faults
     \/ Fault /\ host' \in {host, Stopped(host)} /\ at' = "faulted"
     \/ host = Stopped(host) /\ at' = "faulted" /\ UNCHANGED <<host, faults>>
  /\ UNCHANGED <<by, said, failed, record>>

\* A lease that no running branch renews runs out.
Expire(p) ==
  /\ p \in leased /\ (at = "down" \/ p # port)
  /\ leased' = leased \ {p}
  /\ UNCHANGED <<host, at, by, said, failed, faults, record>>

\* Somebody ends a server that nobody runs.
EndServer ==
  /\ at = "down" /\ host.server # "stopped"
  /\ host' = [host EXCEPT !.server = "stopped"]
  /\ UNCHANGED <<leased, at, by, said, failed, faults, record>>

\* The server saves what is played; the restore keeps one world for its copy.
Play ==
  /\ host.server \in {"work", "backup"} /\ host[host.server] \in World
  /\ \E w \in World \ used :
       /\ used' = used \cup {w} /\ used' # World
       /\ host' = [host EXCEPT ![host.server] = w]
       /\ owed' = IF host[host.server] = owed THEN w ELSE owed
  /\ UNCHANGED <<leased, port, at, by, failed, saved, copy, said, kept, faults>>

Crash ==
  /\ at # "down" /\ Fault /\ Goto("down")
  /\ UNCHANGED <<host, record>>

Next ==
  \/ RecoveryStep \/ RestoreStep
  \/ \E p \in Port : Open(p) \/ Expire(p)
  \/ OpenFails \/ OpenSession \/ AskCapture \/ Capture \/ AskRestore \/ Close
  \/ Play \/ EndServer \/ Crash

\* A recovery, once it is asked for, goes on.
Spec == Init /\ [][Next]_vars /\ WF_vars(RecoveryStep)

-----------------------------------------------------------------------------

\* The branch's world is never lost: whatever call of a restore, of a rollback or of a
\* cleanup raises or is cut short by a crash, it is complete in the working directory,
\* or in the backup that an uncommitted journal points to.
WorldSurvives ==
  \/ host.work = owed
  \/ host.journal \in Undoable /\ host.backup = owed

\* A session that accepts work runs on that world: no restore is pending, no backup is
\* left, the server is the session's own and runs in the working directory, and what was
\* reported restored has been committed.
SessionOnOwedWorld ==
  at = "idle" =>
    /\ host.journal = "none" /\ host.backup = Absent
    /\ host.server = "work" /\ host.listens = port /\ host.work = owed
    /\ said = "restored" => ~kept

\* The branch is opened again and again on the port that the pending restore was begun
\* on, as long as it is pending: nothing in the code sees to that.
OpenedWhereBegun ==
  []<>(host.journal = "none" \/ (at = "load" /\ by = "open" /\ port = host.bound))

\* A pending restore is in the end undone or finished, whatever calls of the recovery
\* failed before, if the branch is opened where the restore was begun.  Opened anywhere
\* else, or never, it stays pending.
PendingIsRecovered == OpenedWhereBegun => (host.journal # "none" ~> host.journal = "none")
=============================================================================
