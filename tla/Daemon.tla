------------------------------- MODULE Daemon -------------------------------
(***************************************************************************)
(* The watch daemon of one home and the commands that start and stop it:   *)
(* daemon_runtime.rs, watch_cmd of watch_runtime.rs, the daemon's use of   *)
(* process_runtime.rs.  Nothing but files ties them together: daemon.pid,  *)
(* the identity beside it, locks/daemon.lock and the socket.  Processes    *)
(* are numbered by pid.  A watcher installs no signal handler, so a signal *)
(* ends it where it stands; only an error of its loop makes it leave       *)
(* through the destructors, which remove the files whoever they belong to. *)
(***************************************************************************)
EXTENDS Naturals, FiniteSets

CONSTANTS Pids,     \* pids of watchers, numbers from 1, in the order they are handed out
          Cmds,     \* invocations of mj that may be active together
          Scenes    \* what a behaviour may do: see MCDaemon

VARIABLES scene,    \* the chosen scene
          pidf,     \* daemon.pid: 0 or a pid
          ident,    \* the identity file: 0, or the pid it describes; Void: of a process that was dead
          lockf,    \* locks/daemon.lock: [ino, text], ino 0 when there is none
          sock,     \* daemon.sock: 0 or the pid whose listener it was bound by
          w,        \* the watchers: [st, home, ino]
          c,        \* the commands: [op, doing, pc, pid, kid], and in lost whether the process
                    \* with that pid ended after the command had looked at it
          used,     \* what the behaviour has spent
          last,     \* what the last command reported, until something else happens
          broken,   \* the lock file of a living holder was unlinked or truncated by another process
          overlap   \* two commands, or a command and an independent start or exit, ran together

dvars == <<scene, pidf, ident, lockf, sock, w, c, used, last, broken, overlap>>

Void == 0 - 1
NoLock == [ino |-> 0, text |-> 0]
NoReport == [op |-> "none", out |-> "none", pid |-> 0, lost |-> FALSE]
Idle == [op |-> "none", doing |-> "none", pc |-> "idle", pid |-> 0, kid |-> 0, lost |-> FALSE]

\* States of a watcher between its start and its end.
Starting == {"look", "clear", "open", "held", "take", "make", "write", "reg", "ident", "unbind", "bind"}
Leaving == {"leave", "leave2", "unlock"}
Alive(p) == w[p].st \notin {"none", "dead"}
\* watch_command_matches: the command line has the program, --home, watch, and somewhere the path
\* of this home: a watcher of a home whose path begins with it (near) passes too
IsWatch(p) == Alive(p) /\ w[p].st # "alien" /\ w[p].home
\* discover_running_watch_daemon: one of these, by the order of ps
Discovered == {p \in Pids : IsWatch(p)}
\* process_identity_matches: no identity was written, or it is of this process
Identified(p) == ident \in {0, p}
MatchesAlive(p) == p \in Pids /\ Alive(p) /\ Identified(p)
\* daemon_process_matches: alive, as identified, and a watch by its command line.  An identity
\* of another pid, or one without facts, never matches.
Matches(p) == p \in Pids /\ IsWatch(p) /\ Identified(p)
\* Those that were given the lock and have not removed it yet.
Holders == {p \in Pids : w[p].st \in {"reg", "ident", "unbind", "bind", "run", "rebind", "rebind2",
                                      "leave", "leave2"}}
Active == {d \in Cmds : c[d].pc # "idle"}
InFlux == {p \in Pids : w[p].st \in Starting \cup Leaving}

-----------------------------------------------------------------------------
(* Watchers: watch_cmd --foreground true *)

Go(p, st) == w' = [w EXCEPT ![p].st = st]
\* The lock file is that of a living watcher other than p, who opened it and has written its pid
\* or is about to.
Hurts(p) ==
    \E q \in Pids \ {p} :
        lockf.ino # 0 /\ w[q].ino = lockf.ino /\ (q \in Holders \/ w[q].st = "write")
BrokenBy(p) == broken' = (broken \/ Hurts(p))

\* acquire_daemon_lock: read the owner and decide whether the file is stale
Look(p) ==
    /\ w[p].st = "look"
    /\ Go(p, IF lockf.ino = 0 \/ Matches(lockf.text) THEN "open" ELSE "clear")
    /\ UNCHANGED <<scene, pidf, ident, lockf, sock, c, used, last, broken, overlap>>

Clear(p) ==
    /\ w[p].st = "clear"
    /\ lockf' = NoLock /\ Go(p, "open") /\ BrokenBy(p)
    /\ UNCHANGED <<scene, pidf, ident, sock, c, used, last, overlap>>

\* acquire_process_lock: create_new
Open(p) ==
    /\ w[p].st = "open"
    /\ IF lockf.ino = 0
         THEN /\ lockf' = [ino |-> p, text |-> 0]
              /\ w' = [w EXCEPT ![p].st = "write", ![p].ino = p]
         ELSE lockf' = lockf /\ Go(p, "held")
    /\ UNCHANGED <<scene, pidf, ident, sock, c, used, last, broken, overlap>>

\* ... the file exists: its owner is alive and the watcher ends, or it is removed
Held(p) ==
    /\ w[p].st = "held"
    /\ Go(p, IF lockf.text \in Pids /\ Alive(lockf.text) THEN "dead" ELSE "take")
    /\ UNCHANGED <<scene, pidf, ident, lockf, sock, c, used, last, broken, overlap>>

Take(p) ==
    /\ w[p].st = "take"
    /\ lockf' = NoLock /\ Go(p, "make") /\ BrokenBy(p)
    /\ UNCHANGED <<scene, pidf, ident, sock, c, used, last, overlap>>

\* File::create truncates a file that has come into being meanwhile
Make(p) ==
    /\ w[p].st = "make"
    /\ LET ino == IF lockf.ino = 0 THEN p ELSE lockf.ino IN
         /\ lockf' = [ino |-> ino, text |-> 0]
         /\ w' = [w EXCEPT ![p].st = "write", ![p].ino = ino]
    /\ BrokenBy(p)
    /\ UNCHANGED <<scene, pidf, ident, sock, c, used, last, overlap>>

\* The pid goes into the file that was opened, be it still linked or not.
Write(p) ==
    /\ w[p].st = "write"
    /\ lockf' = IF lockf.ino = w[p].ino THEN [lockf EXCEPT !.text = p] ELSE lockf
    /\ Go(p, "reg") /\ BrokenBy(p)
    /\ UNCHANGED <<scene, pidf, ident, sock, c, used, last, overlap>>

\* ForegroundDaemonRuntime::register
Register(p) ==
    \/ /\ w[p].st = "reg"
       /\ pidf' = p /\ Go(p, "ident")
       /\ UNCHANGED <<scene, ident, lockf, sock, c, used, last, broken, overlap>>
    \/ /\ w[p].st = "ident"
       /\ ident' = p /\ Go(p, "unbind")
       /\ UNCHANGED <<scene, pidf, lockf, sock, c, used, last, broken, overlap>>

\* start_daemon_ipc; an error of bind ends the watcher, in the loop it is only logged
Bind(p) ==
    \/ /\ w[p].st \in {"unbind", "rebind"}
       /\ sock' = 0 /\ Go(p, IF w[p].st = "unbind" THEN "bind" ELSE "rebind2")
       /\ UNCHANGED <<scene, pidf, ident, lockf, c, used, last, broken, overlap>>
    \/ /\ w[p].st \in {"bind", "rebind2"}
       /\ sock' = IF sock = 0 THEN p ELSE sock
       /\ Go(p, IF sock # 0 /\ w[p].st = "bind" THEN "leave" ELSE "run")
       /\ UNCHANGED <<scene, pidf, ident, lockf, c, used, last, broken, overlap>>

\* daemon_ipc_request: somebody listens where the socket file leads
Answered == sock # 0 /\ Alive(sock) /\ w[sock].st # "alien"
\* record_health in the loop: ensure_daemon_ipc binds again when nobody answers
EnsureIpc(p) ==
    /\ w[p].st = "run"
    /\ ~Answered
    /\ Go(p, "rebind")
    /\ UNCHANGED <<scene, pidf, ident, lockf, sock, c, used, last, broken, overlap>>

\* The loop ends with an error: the runtime's destructor is cleanup_daemon_runtime, the lock's
\* removes the lock file a second time.
Leave(p) ==
    /\ w[p].st \in {"run"} \cup Leaving
    /\ CASE w[p].st = "run" ->
              /\ used.exit < scene.exit
              /\ used' = [used EXCEPT !.exit = @ + 1]
              /\ overlap' = (overlap \/ Active # {} \/ InFlux # {})
              /\ last' = NoReport
              /\ Go(p, "leave")
              /\ UNCHANGED <<pidf, ident, lockf, sock, broken>>
         [] w[p].st = "leave" ->
              /\ pidf' = 0 /\ ident' = 0 /\ Go(p, "leave2")
              /\ UNCHANGED <<lockf, sock, used, last, broken, overlap>>
         [] w[p].st = "leave2" ->
              /\ lockf' = NoLock /\ sock' = 0 /\ Go(p, "unlock") /\ BrokenBy(p)
              /\ UNCHANGED <<pidf, ident, used, last, overlap>>
         [] w[p].st = "unlock" ->
              /\ lockf' = NoLock /\ Go(p, "dead") /\ BrokenBy(p)
              /\ UNCHANGED <<pidf, ident, sock, used, last, overlap>>
    /\ UNCHANGED <<scene, c>>

Fresh == {p \in Pids : w[p].st = "none"}
Next1 == CHOOSE p \in Fresh : \A q \in Fresh : p <= q
Spawned(home) == [w EXCEPT ![Next1] = [st |-> "look", home |-> home, ino |-> 0]]

\* A user or a service manager runs mj watch --foreground true; whether its command line has
\* --home depends on who wrote it.
Foreground ==
    /\ used.fg < scene.fg /\ Fresh # {}
    /\ w' = Spawned(scene.home)
    /\ used' = [used EXCEPT !.fg = @ + 1]
    /\ overlap' = (overlap \/ Active # {} \/ InFlux # {})
    /\ last' = NoReport
    /\ UNCHANGED <<scene, pidf, ident, lockf, sock, c, broken>>

\* A watcher of another home, whose path begins with the path of this one, is started there.
Neighbour ==
    /\ used.near < scene.near /\ Fresh # {}
    /\ w' = [w EXCEPT ![Next1] = [st |-> "near", home |-> TRUE, ino |-> 0]]
    /\ used' = [used EXCEPT !.near = @ + 1]
    /\ last' = NoReport
    /\ UNCHANGED <<scene, pidf, ident, lockf, sock, c, broken, overlap>>

\* Any watcher is killed, or its machine thread dies; its pid may later name another program.
Lost(p) ==
    c' = [d \in Cmds |-> IF c[d].pid = p /\ c[d].pc \notin {"idle", "check"}
                         THEN [c[d] EXCEPT !.lost = TRUE] ELSE c[d]]
Killed(p) ==
    /\ used.kill < scene.kill /\ Alive(p) /\ w[p].st # "alien"
    /\ Go(p, "dead")
    /\ used' = [used EXCEPT !.kill = @ + 1]
    /\ last' = NoReport /\ Lost(p)
    /\ UNCHANGED <<scene, pidf, ident, lockf, sock, broken, overlap>>
Reused(p) ==
    /\ used.reuse < scene.reuse /\ w[p].st = "dead"
    /\ Go(p, "alien") /\ Lost(p)
    /\ used' = [used EXCEPT !.reuse = @ + 1]
    /\ UNCHANGED <<scene, pidf, ident, lockf, sock, last, broken, overlap>>

-----------------------------------------------------------------------------
(* Commands *)

At(d, doing, pc) == c' = [c EXCEPT ![d].doing = doing, ![d].pc = pc]
AtPid(d, pc, p) == c' = [c EXCEPT ![d].pc = pc, ![d].pid = p, ![d].lost = FALSE]
Report(d, out, p) ==
    /\ c' = [c EXCEPT ![d] = Idle]
    /\ last' = [op |-> c[d].op, out |-> out, pid |-> p, lost |-> c[d].lost]
Quiet == UNCHANGED last

\* daemon_cmd, ensure_daemon_running: start reads the pid file itself, stop too, the others ask
\* daemon_health first
Begin(d, op) ==
    /\ c[d].pc = "idle" /\ used.cmd < scene.cmd /\ d \in scene.cmds
    /\ op \in {"start", "restart", "ensure"} => Fresh # {}
    /\ c' = [c EXCEPT ![d] = [op |-> op, doing |-> IF op \in {"start", "stop"} THEN op ELSE "health",
                              pc |-> "read", pid |-> 0, kid |-> 0, lost |-> FALSE]]
    /\ used' = [used EXCEPT !.cmd = @ + 1]
    /\ overlap' = (overlap \/ Active # {} \/ \E p \in InFlux : w[p].st \in Leaving \/ pidf # p)
    /\ last' = NoReport
    /\ UNCHANGED <<scene, pidf, ident, lockf, sock, w, broken>>

\* What a command does with the answer of daemon_health.
WithHealth(d, state, p) ==
    CASE c[d].op = "status" -> Report(d, state, p)
      [] c[d].op = "restart" /\ state = "running" -> c' = [c EXCEPT ![d].doing = "restart", ![d].pc = "kill", ![d].pid = p] /\ Quiet
      [] c[d].op = "restart" /\ state = "stale" -> At(d, "restart", "clean") /\ Quiet
      [] c[d].op = "ensure" /\ state = "running" -> Report(d, "running", p)
      [] c[d].op = "ensure" /\ state = "stale" -> At(d, "ensure", "again") /\ Quiet
      [] OTHER -> At(d, "start", "read") /\ Quiet

\* read_pid: no file decides at once
ReadPid(d) ==
    /\ c[d].pc = "read"
    /\ CASE pidf # 0 -> AtPid(d, "check", pidf) /\ Quiet
         [] pidf = 0 /\ c[d].doing = "health" -> WithHealth(d, "stopped", 0)
         [] pidf = 0 /\ c[d].doing = "start" -> AtPid(d, "spawn", 0) /\ Quiet
         [] OTHER -> AtPid(d, "find", 0) /\ Quiet
    /\ UNCHANGED <<scene, pidf, ident, lockf, sock, w, used, broken, overlap>>

CheckPid(d) ==
    /\ c[d].pc = "check"
    /\ CASE ~Matches(c[d].pid) -> At(d, c[d].doing, "find") /\ Quiet
         [] c[d].doing = "health" -> WithHealth(d, "running", c[d].pid)
         [] c[d].doing = "start" -> Report(d, "already", c[d].pid)
         [] OTHER -> At(d, c[d].doing, "kill") /\ Quiet
    /\ UNCHANGED <<scene, pidf, ident, lockf, sock, w, used, broken, overlap>>

\* discover_running_watch_daemon
Find(d) ==
    /\ c[d].pc = "find"
    /\ \/ \E p \in Discovered :
             AtPid(d, IF c[d].doing = "stop" THEN "kill" ELSE "adopt", p) /\ Quiet
       \/ /\ Discovered = {}
          /\ CASE c[d].doing = "health" -> WithHealth(d, "stale", c[d].pid)
               [] c[d].doing = "stop" /\ c[d].pid = 0 -> Report(d, "absent", 0)
               [] OTHER -> At(d, c[d].doing, "clean") /\ Quiet
    /\ UNCHANGED <<scene, pidf, ident, lockf, sock, w, used, broken, overlap>>

\* write_process_identity: of whatever has the pid now
Identify(d) == ident' = IF Alive(c[d].pid) THEN c[d].pid ELSE Void

\* adopt_daemon_pid: the pid file, then the identity of whatever has the pid now
Adopt(d) ==
    \/ /\ c[d].pc = "adopt"
       /\ pidf' = c[d].pid /\ At(d, c[d].doing, "adopt2") /\ Quiet
       /\ UNCHANGED <<scene, ident, lockf, sock, w, used, broken, overlap>>
    \/ /\ c[d].pc = "adopt2"
       /\ Identify(d)
       /\ IF c[d].doing = "health"
            THEN WithHealth(d, "running", c[d].pid)
            ELSE Report(d, IF c[d].kid = 0 THEN "adopted" ELSE "late", c[d].pid)
       /\ UNCHANGED <<scene, pidf, lockf, sock, w, used, broken, overlap>>

\* ensure_daemon_running looks once more before it cleans up
Again(d) ==
    /\ c[d].pc = "again"
    /\ IF Discovered # {} THEN Report(d, "found", 0) ELSE At(d, "ensure", "clean") /\ Quiet
    /\ UNCHANGED <<scene, pidf, ident, lockf, sock, w, used, broken, overlap>>

\* stop_daemon_process; a process of another user cannot be signalled, and the command ends
Kill(d) ==
    /\ c[d].pc \in {"kill", "kill2"}
    /\ \/ /\ w' = IF Alive(c[d].pid) THEN [w EXCEPT ![c[d].pid].st = "dead"] ELSE w
          /\ At(d, c[d].doing, IF c[d].doing = "stop" /\ c[d].pc = "kill" THEN "extra" ELSE "clean")
          /\ Quiet
       \/ /\ scene.foreign /\ Alive(c[d].pid)
          /\ Report(d, "refused", c[d].pid) /\ UNCHANGED w
    /\ UNCHANGED <<scene, pidf, ident, lockf, sock, used, broken, overlap>>

\* stop looks for one more
Extra(d) ==
    /\ c[d].pc = "extra"
    /\ \/ \E p \in Discovered :
             IF p # c[d].pid THEN AtPid(d, "kill2", p) ELSE At(d, "stop", "clean")
       \/ Discovered = {} /\ At(d, "stop", "clean")
    /\ Quiet
    /\ UNCHANGED <<scene, pidf, ident, lockf, sock, w, used, broken, overlap>>

\* cleanup_daemon_runtime of a command
CleanNames(d) ==
    /\ c[d].pc = "clean"
    /\ pidf' = 0 /\ ident' = 0 /\ At(d, c[d].doing, "clean2") /\ Quiet
    /\ UNCHANGED <<scene, lockf, sock, w, used, broken, overlap>>
CleanLock(d) ==
    /\ c[d].pc = "clean2"
    /\ lockf' = NoLock /\ sock' = 0 /\ BrokenBy(0)
    /\ CASE c[d].doing = "stop" -> Report(d, "stopped", c[d].pid)
         [] c[d].doing = "start" -> At(d, "start", "spawn") /\ Quiet
         [] OTHER -> At(d, "start", "read") /\ Quiet
    /\ UNCHANGED <<scene, pidf, ident, w, used, overlap>>

Spawn(d) ==
    /\ c[d].pc = "spawn" /\ Fresh # {}
    /\ w' = Spawned(TRUE) /\ c' = [c EXCEPT ![d].pc = "wait", ![d].kid = Next1] /\ Quiet
    /\ UNCHANGED <<scene, pidf, ident, lockf, sock, used, broken, overlap>>

\* wait_for_daemon_registered_pid: a registered watcher, whose identity is written once more, or
\* after five seconds the child itself
Wait(d) ==
    /\ c[d].pc = "wait"
    /\ \/ pidf # 0 /\ Matches(pidf) /\ AtPid(d, "confirm", pidf)
       \/ AtPid(d, "adopt", c[d].kid)
    /\ Quiet
    /\ UNCHANGED <<scene, pidf, ident, lockf, sock, w, used, broken, overlap>>
Confirm(d) ==
    /\ c[d].pc = "confirm"
    /\ Identify(d) /\ Report(d, "started", c[d].pid)
    /\ UNCHANGED <<scene, pidf, lockf, sock, w, used, broken, overlap>>

-----------------------------------------------------------------------------

DInit ==
    /\ scene \in Scenes
    /\ pidf = 0 /\ ident = 0 /\ lockf = NoLock /\ sock = 0
    /\ w = [p \in Pids |-> [st |-> "none", home |-> FALSE, ino |-> 0]]
    /\ c = [d \in Cmds |-> Idle]
    /\ used = [cmd |-> 0, fg |-> 0, kill |-> 0, reuse |-> 0, exit |-> 0, near |-> 0]
    /\ last = NoReport /\ broken = FALSE /\ overlap = FALSE

DNext ==
    \/ \E p \in Pids :
          \/ Look(p) \/ Clear(p) \/ Open(p) \/ Held(p) \/ Take(p) \/ Make(p) \/ Write(p)
          \/ Register(p) \/ Bind(p) \/ EnsureIpc(p) \/ Leave(p) \/ Killed(p) \/ Reused(p)
    \/ Foreground \/ Neighbour
    \/ \E d \in Cmds :
          \/ \E op \in scene.ops : Begin(d, op)
          \/ ReadPid(d) \/ CheckPid(d) \/ Find(d) \/ Adopt(d) \/ Again(d) \/ Kill(d) \/ Extra(d)
          \/ CleanNames(d) \/ CleanLock(d) \/ Spawn(d) \/ Wait(d) \/ Confirm(d)

DSpec == DInit /\ [][DNext]_dvars

\* A behaviour is followed until the lock was broken, unless its watchers do not name the home,
\* and one with an overlap only in the scenes that are about overlaps.
Followed == (broken => ~scene.home) /\ (overlap => Cardinality(scene.cmds) > 1)

-----------------------------------------------------------------------------

\* The files hold pids, and no watcher is in a state the code does not have.
DaemonTypeOK ==
    /\ pidf \in {0} \cup Pids /\ ident \in {0, Void} \cup Pids /\ sock \in {0} \cup Pids
    /\ lockf.ino \in {0} \cup Pids /\ lockf.text \in {0} \cup Pids
    /\ \A p \in Pids : w[p].st \in {"none", "run", "rebind", "rebind2", "dead", "alien", "near"} \cup Starting \cup Leaving

\* Two watchers are past acquire_daemon_lock at once only after the lock file of a living holder
\* was removed or truncated by another process.
OneWatcher == Cardinality(Holders) > 1 => broken

\* Commands given one after the other, with watchers whose command line names the home, never
\* take the lock of a living watcher away, however watchers are killed and pids used again.
SequentialIsSafe == ~overlap /\ scene.home => ~broken

\* A watcher in its loop is the one the pid file names, so that status, stop and start find it,
\* unless a start could adopt the watcher of a home near this one.
RunningIsKnown ==
    ~overlap /\ scene.home /\ used.near = 0 /\ Active = {} =>
        \A p \in Pids : w[p].st = "run" => pidf = p /\ ident = p

\* After a stop that reported success no watcher of this home that names it is alive.
StopStops ==
    ~overlap /\ last.op = "stop" /\ last.out = "stopped" =>
        \A p \in Discovered : w[p].st = "near"

\* The pid a start, restart or ensure reports is a living watcher, of this home or of a home near
\* it, unless the command waited in vain or the watcher was killed after the command had looked.
ReportIsTrue ==
    /\ ~overlap /\ scene.home /\ ~last.lost
    /\ last.op \in {"start", "restart", "ensure"}
    /\ last.out \in {"already", "adopted", "started", "running"}
    => IsWatch(last.pid)

\* A command signals no process that only has the pid of a watcher that died, unless it died, and
\* its pid was used again, after the command had looked at it.
AlienSpared ==
    \A d \in Cmds : c[d].pc \in {"kill", "kill2"} /\ ~c[d].lost => w[c[d].pid].st # "alien"
=============================================================================
