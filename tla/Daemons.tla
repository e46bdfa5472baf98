------------------------------ MODULE Daemons ------------------------------
(***************************************************************************)
(* The background daemons of an install and the commands that start and    *)
(* stop them: h-mesh start, h-mesh upgrade and the container's stop        *)
(* (services/daemons.py, services/upgrade.py). What is known of a daemon   *)
(* is in two files: its pid, and the identity of the process the pid stood *)
(* for. A pid is used again once its process is gone, by anybody; the      *)
(* start time the kernel keeps tells one use from another. Before a        *)
(* command signals a process or takes it for its daemon, it opens a pidfd, *)
(* which is bound to one process for good, and compares the files with     *)
(* what /proc says.                                                        *)
(*                                                                         *)
(* Each look at a file or at a process is an action. Commands may overlap, *)
(* and be killed at any point. A file being written is Torn in between.    *)
(***************************************************************************)
EXTENDS Naturals, Sequences, SequencesExt, FiniteSets

CONSTANTS
    Installs,     \* [modules, beside, processes]: ALL_DAEMON_MODULES in order, and two
                  \* bounds: commands at a time, and processes there ever are
    Commands,     \* 1 .. n, begun in this order
    Pids,
    MaxFaults     \* bound: commands killed, and steps of theirs that fail

VARIABLES
    install,
    proc,       \* per pid, the process it stands for: what it runs, and since when
    clock,      \* start times given so far
    pidfile,    \* per daemon: a pid, NoPid or Torn
    identity,   \* per daemon: a pid and a start time, NoPid or Torn
    job,        \* per command: where it is
    begun,
    faults,
    \* history:
    astray,     \* whether a process was signalled that is not the daemon it was taken for
    disturbed,  \* whether a start ran beside another command, or a command was killed
    residue     \* processes a start had started and left when it failed

files == <<pidfile, identity>>
dvars == <<install, proc, clock, files, job, begun, faults, astray, disturbed, residue>>

Names == UNION {ToSet(i.modules) : i \in Installs}
NoPid == 0
Torn == 0 - 1
NoProcess == [runs |-> "nothing", since |-> 0]
NoIdentity == [pid |-> NoPid, since |-> 0]
TornIdentity == [pid |-> Torn, since |-> 0]
Idle == [does |-> "rest", at |-> "rest", left |-> <<>>, then |-> <<>>,
         pid |-> NoPid, fd |-> 0, told |-> 0, started |-> <<>>]

Alive(p) == proc[p] # NoProcess
Process(p, runs, since) == [proc EXCEPT ![p] = [runs |-> runs, since |-> since]]
This(c) == Head(job[c].left)

\* An install as it may be found: a daemon runs with both files, or with the pid alone,
\* written by a version without identities; or it is gone and its files are left, and
\* its pid may be another's. One pid is like another.
Init ==
    /\ install \in Installs
    /\ \E n \in ToSet(install.modules), p \in {CHOOSE q \in Pids : TRUE} :
          \/ /\ proc = [q \in Pids |-> IF q = p THEN [runs |-> n, since |-> 1] ELSE NoProcess]
             /\ pidfile = [m \in Names |-> IF m = n THEN p ELSE NoPid]
             /\ identity \in {[m \in Names |-> IF m = n THEN [pid |-> p, since |-> 1] ELSE NoIdentity],
                              [m \in Names |-> NoIdentity]}
          \/ /\ proc \in {[q \in Pids |-> NoProcess],
                          [q \in Pids |-> IF q = p THEN [runs |-> "else", since |-> 2] ELSE NoProcess]}
             /\ pidfile = [m \in Names |-> IF m = n THEN p ELSE NoPid]
             /\ identity \in {[m \in Names |-> IF m = n THEN [pid |-> p, since |-> 1] ELSE NoIdentity],
                              [m \in Names |-> NoIdentity]}
    /\ clock = IF \E q \in Pids : proc[q].since = 2 THEN 2 ELSE 1
    /\ job = [c \in Commands |-> Idle] /\ begun = 0 /\ faults = 0
    /\ astray = FALSE /\ disturbed = FALSE /\ residue = {}

Fault == faults < MaxFaults /\ faults' = faults + 1
history == <<astray, disturbed, residue>>

-----------------------------------------------------------------------------
(* Processes                                                               *)

\* Any process ends when it will, a daemon on SIGTERM sooner or later.
Exit(p) ==
    /\ Alive(p)
    /\ proc' = [proc EXCEPT ![p] = NoProcess]
    /\ UNCHANGED <<clock, files, job, begun, faults, history>>

\* An unrelated process gets a pid that is free.
Arrives(p) ==
    /\ ~Alive(p) /\ clock < install.processes
    /\ proc' = Process(p, "else", clock + 1) /\ clock' = clock + 1
    /\ UNCHANGED <<files, job, begun, faults, history>>

-----------------------------------------------------------------------------
(* A command                                                               *)

Goes(c, change) == job' = [job EXCEPT ![c] = change]
To(c, at) == Goes(c, [job[c] EXCEPT !.at = at])
\* The step for one daemon is over.
Passed(j) == [j EXCEPT !.at = "next", !.left = Tail(@), !.pid = NoPid, !.fd = 0, !.told = 0]
Skip(c) == Goes(c, Passed(job[c]))
\* A start that fails stops what it has started.
Undoing(c) == [Idle EXCEPT !.does = "undo", !.at = "next", !.started = job[c].started,
                           !.left = [i \in DOMAIN job[c].started |-> job[c].started[i].name]]
Undo(c) == Goes(c, Undoing(c))
Starts(does, then) == does = "start" \/ then # <<>>

\* Those of the daemons the configuration asks for (enabled_daemon_modules).
Wanted == {SubSeq(install.modules, 1, i) : i \in DOMAIN install.modules}

\* stop, start, or upgrade: stop all and then start.
Begin(c) ==
    /\ begun = c - 1 /\ begun' = c
    /\ Cardinality({d \in Commands : job[d] # Idle}) < install.beside
    /\ \E does \in {"start", "stop"}, wanted \in Wanted, restart \in BOOLEAN :
          LET then == IF does = "stop" /\ restart THEN wanted ELSE <<>>
          IN  /\ Goes(c, [Idle EXCEPT !.does = does, !.at = "next", !.then = then,
                                      !.left = IF does = "start" THEN wanted ELSE install.modules])
              /\ disturbed' = \/ disturbed
                              \/ \E d \in Commands : /\ job[d] # Idle
                                                     /\ \/ Starts(does, then) \/ job[d].does = "undo"
                                                        \/ Starts(job[d].does, job[d].then)
    /\ UNCHANGED <<proc, clock, files, faults, astray, residue>>

\* One attempt at the pid. A start overwrites a file that holds none.
ReadPid(c) ==
    /\ job[c].at = "next" /\ job[c].left # <<>>
    /\ LET pid == pidfile[This(c)]
       IN  \/ pid \in Pids /\ Goes(c, [job[c] EXCEPT !.at = "open", !.pid = pid])
           \/ pid \notin Pids /\ job[c].does = "start" /\ To(c, "spawn")
           \/ pid = NoPid /\ job[c].does # "start" /\ Skip(c)
           \/ pid = Torn /\ job[c].does # "start" /\ To(c, "unlink")
    /\ UNCHANGED <<proc, clock, files, begun, faults, history>>

\* What becomes of a daemon whose files are found to be stale, or to prove nothing.
Stale(c) == To(c, "unlink")
Unverified(c) == IF job[c].does = "start" THEN Undo(c) ELSE Skip(c)

OpenPidfd(c) ==
    /\ job[c].at = "open"
    /\ IF Alive(job[c].pid)
          THEN Goes(c, [job[c] EXCEPT !.at = "identity", !.fd = proc[job[c].pid].since])
          ELSE Stale(c)
    /\ UNCHANGED <<proc, clock, files, begun, faults, history>>

\* Whether the process that the pidfd is bound to is there.
Bound(c) == proc[job[c].pid].since = job[c].fd

\* Without an identity file the process must be seen to run the module (_legacy_start_time).
Known(c, id) ==
    \/ id = NoIdentity /\ proc[job[c].pid].runs = This(c) /\ To(c, "confirm")
    \/ id = NoIdentity /\ proc[job[c].pid].runs # This(c) /\ Unverified(c)
    \/ id = TornIdentity /\ Unverified(c)
    \/ id.pid = job[c].pid /\ Goes(c, [job[c] EXCEPT !.at = "compare", !.told = id.since])
    \/ id.pid \notin {NoPid, Torn, job[c].pid} /\ Stale(c)

ReadIdentity(c) ==
    /\ job[c].at = "identity"
    /\ Known(c, identity[This(c)])
    /\ UNCHANGED <<proc, clock, files, begun, faults, history>>

Compare(c) ==
    /\ job[c].at = "compare"
    /\ \/ ~Alive(job[c].pid) /\ Unverified(c)
       \/ proc[job[c].pid].since = job[c].told /\ To(c, "confirm")
       \/ Alive(job[c].pid) /\ proc[job[c].pid].since # job[c].told /\ Stale(c)
    /\ UNCHANGED <<proc, clock, files, begun, faults, history>>

\* Mutant: the process is authenticated first, and then the pidfd is opened.
OpenLate(c) ==
    /\ job[c].at = "confirm"
    /\ \/ ~Alive(job[c].pid) /\ Stale(c)
       \/ Alive(job[c].pid) /\ job[c].does = "start" /\ Skip(c)
       \/ /\ Alive(job[c].pid) /\ job[c].does # "start"
          /\ Goes(c, [job[c] EXCEPT !.at = "term", !.fd = proc[job[c].pid].since])
    /\ UNCHANGED <<proc, clock, files, begun, faults, history>>

\* All this was about the process the pidfd is bound to only if that is alive still.
Confirm(c) ==
    /\ job[c].at = "confirm"
    /\ \/ ~Bound(c) /\ Stale(c)
       \/ Bound(c) /\ job[c].does = "start" /\ Skip(c)
       \/ Bound(c) /\ job[c].does # "start" /\ To(c, "term")
    /\ UNCHANGED <<proc, clock, files, begun, faults, history>>

\* A signal through the pidfd reaches the process it is bound to, or nobody.
Signalled(c) == astray' = (astray \/ (Bound(c) /\ proc[job[c].pid].runs # This(c)))

Term(c) ==
    /\ job[c].at = "term"
    /\ Signalled(c)
    /\ IF Bound(c) THEN To(c, "wait") ELSE To(c, "unlink")
    /\ UNCHANGED <<proc, clock, files, begun, faults, disturbed, residue>>

\* It exits within the time, or is killed.
Exited(c) ==
    /\ job[c].at = "wait" /\ ~Bound(c)
    /\ To(c, "unlink")
    /\ UNCHANGED <<proc, clock, files, begun, faults, history>>

KillDaemon(c) ==
    /\ job[c].at = "wait" /\ Bound(c)
    /\ Signalled(c)
    /\ proc' = [proc EXCEPT ![job[c].pid] = NoProcess]
    /\ To(c, "unlink")
    /\ UNCHANGED <<clock, files, begun, faults, disturbed, residue>>

\* The processes of a name that could not be signalled count no more.
Spared(started, n) ==
    [i \in DOMAIN started |->
        IF started[i].name = n THEN [started[i] EXCEPT !.pid = NoPid] ELSE started[i]]

\* The pidfd, a signal or the wait after SIGKILL fails: nothing is proved.
CannotSignal(c) ==
    /\ job[c].at \in {"open", "term", "wait"} /\ Fault
    /\ IF job[c].does = "undo"
          THEN Goes(c, [Passed(job[c]) EXCEPT !.started = Spared(@, This(c))])
          ELSE Unverified(c)
    /\ UNCHANGED <<proc, clock, files, begun, history>>

Unlink(c) ==
    /\ job[c].at = "unlink"
    /\ pidfile' = [pidfile EXCEPT ![This(c)] = NoPid]
    /\ To(c, "unlink identity")
    /\ UNCHANGED <<proc, clock, identity, begun, faults, history>>

UnlinkIdentity(c) ==
    /\ job[c].at = "unlink identity"
    /\ identity' = [identity EXCEPT ![This(c)] = NoIdentity]
    /\ IF job[c].does = "start" THEN To(c, "spawn") ELSE Skip(c)
    /\ UNCHANGED <<proc, clock, pidfile, begun, faults, history>>

-----------------------------------------------------------------------------
(* Starting                                                                *)

Spawn(c) ==
    /\ job[c].at = "spawn" /\ clock < install.processes
    /\ \E p \in {q \in Pids : ~Alive(q)} :
          /\ proc' = Process(p, This(c), clock + 1)
          /\ Goes(c, [job[c] EXCEPT !.at = "create", !.pid = p, !.fd = clock + 1])
    /\ clock' = clock + 1
    /\ UNCHANGED <<files, begun, faults, history>>

\* No process, or one whose start time cannot be read: it is terminated, in time.
SpawnFails(c) ==
    /\ job[c].at = "spawn" /\ Fault
    /\ Undo(c)
    /\ UNCHANGED <<proc, clock, files, begun, history>>

\* A file is opened, which empties it, and then written.
WritePid(c) ==
    /\ \/ /\ job[c].at = "create" /\ To(c, "write")
          /\ pidfile' = [pidfile EXCEPT ![This(c)] = Torn]
       \/ /\ job[c].at = "write" /\ To(c, "create identity")
          /\ pidfile' = [pidfile EXCEPT ![This(c)] = job[c].pid]
    /\ UNCHANGED <<proc, clock, identity, begun, faults, history>>

WriteIdentity(c) ==
    /\ \/ /\ job[c].at = "create identity" /\ To(c, "write identity")
          /\ identity' = [identity EXCEPT ![This(c)] = TornIdentity]
       \/ /\ job[c].at = "write identity"
          /\ identity' = [identity EXCEPT ![This(c)] = [pid |-> job[c].pid, since |-> job[c].fd]]
          /\ Goes(c, Passed([job[c] EXCEPT !.started = Append(@,
                [name |-> This(c), pid |-> job[c].pid, since |-> job[c].fd])]))
    /\ UNCHANGED <<proc, clock, pidfile, begun, faults, history>>

\* The start has the process for a child, and terminates it without a pidfd, in time.
WriteFails(c) ==
    /\ job[c].at \in {"create", "write", "create identity", "write identity"} /\ Fault
    /\ proc' = IF Bound(c) THEN [proc EXCEPT ![job[c].pid] = NoProcess] ELSE proc
    /\ pidfile' = [pidfile EXCEPT ![This(c)] = NoPid]
    /\ identity' = [identity EXCEPT ![This(c)] = NoIdentity]
    /\ Undo(c)
    /\ UNCHANGED <<clock, begun, history>>

Healthy(s) == s.pid # NoPid /\ proc[s.pid].since = s.since
Left(c) == {i \in DOMAIN job[c].started : Healthy(job[c].started[i])}

\* At the end of its daemons a stop is done, or goes on to start; a start looks if those
\* it has started are alive, for a while.
Finish(c) ==
    /\ job[c].at = "next" /\ job[c].left = <<>>
    /\ \/ /\ job[c].then # <<>>
          /\ Goes(c, [Idle EXCEPT !.does = "start", !.at = "next", !.left = job[c].then])
       \/ job[c].does = "start" /\ Left(c) # DOMAIN job[c].started /\ Undo(c)
       \/ /\ job[c].then = <<>> /\ (job[c].does = "start" => Left(c) = DOMAIN job[c].started)
          /\ Goes(c, Idle)
    /\ residue' = IF job[c].does = "undo" THEN residue \cup {job[c].started[i].since : i \in Left(c)}
                  ELSE residue
    /\ UNCHANGED <<proc, clock, files, begun, faults, astray, disturbed>>

Killed(c) ==
    /\ job[c] # Idle /\ Fault
    /\ Goes(c, Idle) /\ disturbed' = TRUE
    /\ UNCHANGED <<proc, clock, files, begun, astray, residue>>

Step ==
    \/ \E p \in Pids : Exit(p) \/ Arrives(p)
    \/ \E c \in Commands :
          \/ Begin(c) \/ ReadPid(c) \/ OpenPidfd(c) \/ ReadIdentity(c) \/ Compare(c)
          \/ Confirm(c) \/ Term(c) \/ Exited(c) \/ KillDaemon(c) \/ CannotSignal(c)
          \/ Unlink(c) \/ UnlinkIdentity(c) \/ Spawn(c) \/ SpawnFails(c) \/ WritePid(c)
          \/ WriteIdentity(c) \/ WriteFails(c) \/ Finish(c) \/ Killed(c)

Next == Step /\ UNCHANGED install

Spec == Init /\ [][Next]_dvars

-----------------------------------------------------------------------------
(* Properties                                                              *)

TypeOK ==
    /\ install \in Installs /\ \A p \in Pids : proc[p].since \in 0 .. clock
    /\ \A n \in Names : pidfile[n] \in Pids \cup {NoPid, Torn} /\ identity[n].since \in 0 .. clock
    /\ \A c \in Commands : job[c].fd \in 0 .. clock /\ ToSet(job[c].left) \subseteq Names
    /\ clock \in 1 .. install.processes /\ faults \in 0 .. MaxFaults

Quiet == \A c \in Commands : job[c] = Idle

\* Tracked: unless a start ever ran beside another command, or a command was killed,
\* every daemon that runs while no command does is the one its files tell of (and so
\* there is one of each name at most), for the next command to find; and a start that
\* fails leaves nothing of what it started, but what it could not signal (_stop_one,
\* start_daemons and its rollback).
Tracked ==
    ~disturbed =>
        /\ Quiet => \A p \in Pids : proc[p].runs \in Names =>
              /\ pidfile[proc[p].runs] = p
              /\ identity[proc[p].runs] \in {NoIdentity, [pid |-> p, since |-> proc[p].since]}
        /\ residue = {}

\* DaemonsTrue: whatever overlaps, fails or uses a pid again, no process is signalled but
\* the daemon it is taken for (_open_owned_pidfd, _owned_start_time); and Tracked.
DaemonsTrue == ~astray /\ Tracked
=============================================================================
