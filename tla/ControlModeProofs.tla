--------------------------- MODULE ControlModeProofs ---------------------------
(***************************************************************************)
(* Proofs about ControlMode: the command lock is accounted for, replies go *)
(* to their commands, and no viewer misses output unnoticed, for any       *)
(* number of viewers, any queue size and any number of broken streams.     *)
(***************************************************************************)
EXTENDS ControlMode, RedisListsProofs

-----------------------------------------------------------------------------
(* The inductive invariant *)

\* Where a task waits for the lock, and where it has it.
InLine(t)  == pc[t] \in {"ensure", "queued", "nested"}
Holding(t) == pc[t] \in {"reply", "stop", "spawn", "nested"} \/ (pc[t] = "ready" /\ t # Main)

\* The lock and its queue agree with where the tasks are. A task waits once, and
\* one that starts the connection waits for a lock that is its own.
LockInv ==
    /\ holder \in Tasks \cup {None}
    /\ waiters \in Seq(Tasks)
    /\ IsInjective(waiters)
    /\ \A t \in Tasks : holder = t <=> Holding(t)
    /\ \A t \in Tasks : In(waiters, t) <=> InLine(t)

\* What a task does fits where it is. The service's own task never comes back, and
\* no viewer does anything before it is through.
TaskInv ==
    /\ pc \in [Tasks -> {"idle", "call", "ensure", "stop", "spawn", "ready",
                         "nested", "queued", "reply", "gone"}]
    /\ doing \in [Tasks -> Errand]
    /\ at \in [Tasks -> Nat]
    /\ used \in [asks : Nat, renames : Nat, breaks : Nat]
    /\ \A t \in Tasks : pc[t] \in {"idle", "gone"} <=> doing[t] = "none"
    /\ \A t \in Tasks : pc[t] \in {"queued", "reply"} => doing[t] \in Command
    /\ pc[Main] \in {"ready", "queued", "reply", "idle", "gone"}
    /\ pc[Main] # "idle" => \A v \in Viewers : pc[v] = "idle"

\* At most one command awaits its reply, and its task has the lock.
PendingInv ==
    /\ reply \in [Tasks -> Reply]
    /\ pending = <<>> \/ (/\ holder \in Tasks
                          /\ pending = <<holder>>
                          /\ pc[holder] = "reply"
                          /\ reply[holder] = Open)

\* The connection. Only a task with the lock starts a process, and the process it
\* starts serves no command: the task waits for itself, or the stream is broken,
\* or the process is gone. (In the last conjuncts, a command that was queued
\* before the stream broke is written to a process whose output nobody reads.)
ConnInv ==
    /\ proc \in [n : Nat, up : BOOLEAN]
    /\ reading \in BOOLEAN /\ broken \in BOOLEAN /\ ready \in BOOLEAN
    /\ proc.n >= 1
    /\ ~proc.up => asked = <<>>
    /\ reading /\ broken => proc.n >= 2 /\ pc[Main] = "gone"
    /\ \A t \in Tasks : pc[t] \in {"stop", "spawn"} /\ reading
                            => proc.n >= 2 /\ pc[Main] = "gone"
    /\ \A t \in Tasks : pc[t] = "spawn" => ~proc.up /\ (broken => pc[Main] = "gone")
    /\ \A t \in Tasks \ {Main} : pc[t] \in {"ready", "nested"} => proc.n >= 2
    /\ proc.n = 1 /\ proc.up /\ ~broken => reading
    /\ proc.n >= 2 /\ proc.up /\ ~broken
           => \E t \in Tasks \ {Main} : pc[t] \in {"ready", "nested"}
    /\ proc.n >= 2 /\ pc[Main] # "idle" => pc[Refresher] # "queued"
    /\ proc.n >= 2 => \A t \in Tasks : pc[t] = "reply" =>
           broken /\ ~reading /\ reply[t].is \in {"open", "failed"}

\* The first process is connected.
InStep == proc.n = 1 /\ reading

Replied(i) == stream[i].kind = "reply"

\* Before the reply to the attach, nothing has been asked.
Attaching ==
    /\ pending = <<>> /\ asked = <<>>
    /\ pc[Main] = "ready" /\ \A t \in Tasks \ {Main} : pc[t] = "idle"
    /\ stream # <<>> /\ stream[1] = Hello
    /\ \A i \in DOMAIN stream : Replied(i) => i = 1
    /\ published = 0

\* No command awaits a reply, and none is owed.
Quiet == asked = <<>> /\ \A i \in DOMAIN stream : ~Replied(i)

\* What tmux owes or has said is the reply to the one command that awaits it.
Owed ==
    /\ asked = <<>> \/ asked = <<[to |-> holder, want |-> doing[holder]]>>
    /\ \A i \in DOMAIN stream : Replied(i) =>
         /\ asked = <<>>
         /\ stream[i].reply.to = holder
         /\ stream[i].reply.want = doing[holder]
    /\ \A i, j \in DOMAIN stream : Replied(i) /\ Replied(j) => i = j

\* tmux's replies and the commands that await one are in step.
ReplyInv ==
    /\ asked \in Seq([to : Tasks, want : Command])
    /\ stream \in Seq(Event)
    /\ InStep /\ ~ready => Attaching
    /\ InStep /\ ready /\ pending = <<>> => Quiet
    /\ InStep /\ ready /\ pending # <<>> => Owed
    /\ AnswersMatch

Written(i) == stream[i].kind = "output"

\* The stream holds the outputs that are not published yet, in order, and a
\* snapshot shows exactly those before it.
OutputInv ==
    /\ screen \in Nat /\ published \in Nat
    /\ InStep =>
         /\ \A i \in DOMAIN stream : Written(i) => stream[i].n \in published + 1 .. screen
         /\ \A i, j \in DOMAIN stream : i < j /\ Written(i) /\ Written(j)
                                            => stream[i].n < stream[j].n
         /\ \A m \in published + 1 .. screen :
              \E i \in DOMAIN stream : Written(i) /\ stream[i].n = m
         /\ published <= screen
    /\ InStep /\ ready => \A i \in DOMAIN stream : Replied(i) =>
         /\ stream[i].reply.shot \in published .. screen
         /\ \A j \in DOMAIN stream : Written(j) =>
              IF j < i THEN stream[j].n <= stream[i].reply.shot
                       ELSE stream[j].n > stream[i].reply.shot

\* A viewer that knows that it missed something, or is to be told.
Excused(v) ==
    \/ v \in missed \cup closed
    \/ \E i \in DOMAIN queue[v] : queue[v][i].kind = "error"

\* The snapshot of a viewer that waits for more.
Taken(v) ==
    IF doing[v] = "cursor" THEN {shot[v]}
    ELSE IF pc[v] = "reply" /\ reply[v].is = "ok" THEN {reply[v].shot} ELSE {}

\* Any other viewer, while the first process is connected: what it was sent ends
\* with the last output published; or what it buffers does, and its snapshot,
\* once taken, shows what came before. Afterwards there is none but those that
\* await a first snapshot that they never get.
Follower(v) ==
    /\ Gapless(Waiting(v))
    /\ InStep /\ phase[v] = "live" => Waiting(v)[Len(Waiting(v))].n = published
    /\ InStep /\ phase[v] = "buffering" =>
         /\ \A i \in DOMAIN buffer[v] : buffer[v][i] = published - Len(buffer[v]) + i
         /\ \A s \in Taken(v) : published - Len(buffer[v]) <= s /\ s <= published
    /\ ~InStep => phase[v] = "off"
                    \/ (proc.n >= 2 /\ phase[v] = "buffering" /\ doing[v] = "capture")

ViewTypes ==
    /\ phase \in [Viewers -> {"off", "buffering", "live"}]
    /\ buffer \in [Viewers -> Seq(Nat)]
    /\ shot \in [Viewers -> Nat]
    /\ queue \in [Viewers -> Seq(Item)]
    /\ \A v \in Viewers : Len(queue[v]) <= QueueMax
    /\ closed \subseteq Viewers
    /\ seen \in [Viewers -> Nat]
    /\ missed \subseteq Viewers

\* A viewer buffers while its snapshot is taken; and it follows the output, or
\* knows that it does not.
ViewInv ==
    /\ ViewTypes
    /\ \A v \in Viewers : phase[v] = "buffering" <=> doing[v] \in {"capture", "cursor"}
    /\ \A v \in Viewers : Excused(v) \/ Follower(v)

Inv == LockInv /\ TaskInv /\ PendingInv /\ ConnInv /\ ReplyInv /\ OutputInv /\ ViewInv

-----------------------------------------------------------------------------
(* Tasks, and the queue of the lock *)

\* The tasks are different from one another, and from none.
LEMMA TaskNames ==
    /\ Main \in Tasks /\ Refresher \in Tasks /\ Viewers \subseteq Tasks
    /\ Main # Refresher /\ Main \notin Viewers /\ Refresher \notin Viewers
    /\ None \notin Tasks
BY TasksAssumption DEF Tasks

\* A task that joins the queue is in it, once, at its end.
LEMMA QueueJoins ==
    ASSUME LockInv, NEW t \in Tasks, ~InLine(t), Queue(t)
    PROVE  /\ holder' = holder
           /\ waiters' \in Seq(Tasks) /\ IsInjective(waiters')
           /\ \A u \in Tasks : In(waiters', u) <=> In(waiters, u) \/ u = t
BY AppendIn DEF LockInv, Queue

\* Who is behind the first in the queue.
LEMMA BehindFacts ==
    ASSUME LockInv
    PROVE  /\ Behind \in Seq(Tasks) /\ IsInjective(Behind)
           /\ waiters # <<>> => /\ Behind = Tail(waiters)
                                /\ Head(waiters) \in Tasks /\ InLine(Head(waiters))
           /\ \A u \in Tasks : In(Behind, u) <=>
                In(waiters, u) /\ (waiters # <<>> => u # Head(waiters))
<1>1. CASE waiters = <<>>
  BY <1>1 DEF Behind, LockInv, In
<1>2. CASE waiters # <<>>
  BY <1>2, TailIn DEF Behind, LockInv
<1> QED BY <1>1, <1>2

\* Removing the refresh task from a queue, in which it may be.
LEMMA RefresherLeaves ==
    ASSUME NEW s \in Seq(Tasks), IsInjective(s)
    PROVE  /\ RemoveFirst(s, Refresher) \in Seq(Tasks)
           /\ IsInjective(RemoveFirst(s, Refresher))
           /\ \A u : In(RemoveFirst(s, Refresher), u) <=> In(s, u) /\ u # Refresher
<1>1. CASE In(s, Refresher)
  BY <1>1, LRemIn DEF LRem
<1>2. CASE ~In(s, Refresher)
  <2>1. DOMAIN s = 1 .. Len(s)
    BY LenProperties
  <2>2. RemoveFirst(s, Refresher) = s
    BY <1>2, <2>1 DEF RemoveFirst, In
  <2> QED BY <1>2, <2>2 DEF In
<1> QED BY <1>1, <1>2

\* How a task's operation ends by an exception.
LEMMA FailsMoves ==
    ASSUME TaskInv, NEW t \in Tasks, NEW known \in BOOLEAN, Fails(t, known)
    PROVE  /\ \E label \in {"idle", "gone"} : pc' = [pc EXCEPT ![t] = label]
           /\ doing' = [doing EXCEPT ![t] = "none"]
           /\ \A u \in Tasks : u # t => pc'[u] = pc[u] /\ doing'[u] = doing[u]
           /\ t = Main => pc'[t] = "gone"
           /\ t = Refresher => pc'[t] = "idle"
           /\ \/ phase' = phase /\ buffer' = buffer /\ (t \in Viewers => doing[t] = "keys")
              \/ t \in Viewers /\ Off(t)
BY TaskNames DEF Fails, Go, TaskInv

-----------------------------------------------------------------------------
(* The lock is kept *)

\* One task moves, and the lock and its queue with it.
LEMMA LockMoves ==
    ASSUME Inv, NEW t \in Tasks, NEW label, pc' = [pc EXCEPT ![t] = label],
           \/ /\ UNCHANGED lock
              /\ ~Holding(t) /\ ~InLine(t)
              /\ label \in {"idle", "gone", "call"}
           \/ /\ UNCHANGED lock
              /\ pc[t] \in {"stop", "spawn"} /\ label \in {"spawn", "ready"} /\ t # Main
           \/ /\ (~InLine(t) /\ Free) \/ Turn(t)
              /\ Take(t) /\ label \in {"reply", "spawn", "stop"}
           \/ /\ Turn(t) /\ InLine(t)
              /\ waiters' = Tail(waiters) /\ UNCHANGED holder
              /\ label \in {"idle", "gone", "call"}
           \/ /\ ~InLine(t) /\ Queue(t)
              /\ \/ ~Holding(t) /\ label \in {"ensure", "queued"}
                 \/ Holding(t) /\ label = "nested"
           \/ /\ Holding(t) /\ ~InLine(t) /\ Release /\ label \in {"idle", "gone", "call"}
    PROVE  LockInv'
<1> USE TaskNames DEF Inv
<1>1. pc'[t] = label /\ \A u \in Tasks : u # t => pc'[u] = pc[u]
  BY DEF TaskInv
<1>2. CASE UNCHANGED lock /\ ~Holding(t) /\ ~InLine(t) /\ label \in {"idle", "gone", "call"}
  BY <1>1, <1>2 DEF lock, LockInv, Holding, InLine
<1>7. CASE /\ UNCHANGED lock /\ t # Main
           /\ pc[t] \in {"stop", "spawn"} /\ label \in {"spawn", "ready"}
  BY <1>1, <1>7 DEF lock, LockInv, Holding, InLine
<1>3. CASE /\ Take(t) /\ label \in {"reply", "spawn", "stop"}
           /\ (~InLine(t) /\ Free) \/ Turn(t)
  <2>1. holder = None /\ holder' = t /\ waiters' = Behind
    BY <1>3 DEF Take, Turn, Free
  <2>2. \A u \in Tasks : In(Behind, u) <=> In(waiters, u) /\ u # t
    BY <1>3, BehindFacts DEF Turn, Free, LockInv
  <2>3. Behind \in Seq(Tasks) /\ IsInjective(Behind)
    BY BehindFacts
  <2> HIDE DEF Behind
  <2>4. \A u \in Tasks : ~Holding(u)
    BY <2>1 DEF LockInv
  <2> QED BY <1>1, <1>3, <2>1, <2>2, <2>3, <2>4 DEF LockInv, Holding, InLine
<1>4. CASE Turn(t) /\ waiters' = Tail(waiters) /\ UNCHANGED holder
           /\ label \in {"idle", "gone", "call"}
  BY <1>1, <1>4, BehindFacts DEF Turn, LockInv, Holding, InLine
<1>5. CASE /\ ~InLine(t) /\ Queue(t)
           /\ (~Holding(t) /\ label \in {"ensure", "queued"})
              \/ (Holding(t) /\ label = "nested")
  BY <1>1, <1>5, QueueJoins DEF LockInv, Holding, InLine
<1>6. CASE Holding(t) /\ ~InLine(t) /\ Release /\ label \in {"idle", "gone", "call"}
  BY <1>1, <1>6 DEF Release, LockInv, Holding, InLine
<1> QED BY <1>2, <1>3, <1>4, <1>5, <1>6, <1>7

\* Starting a connection keeps the lock accounted for.
LEMMA LockStart ==
    ASSUME Inv, NEW t \in Tasks,
           Start(t) \/ SpawnFails(t) \/ StartTimeout(t) \/ (t = Refresher /\ ReconnectCancelled)
    PROVE  LockInv'
<1> USE TaskNames
<1>0. TaskInv /\ LockInv
  BY DEF Inv
<1>1. CASE Reconnect(t)
  <2>1. Take(t) /\ pc' = [pc EXCEPT ![t] = "spawn"]
    BY <1>1 DEF Reconnect, Go
  <2>2. (~InLine(t) /\ Free) \/ Turn(t)
    BY <1>1 DEF Reconnect, InLine
  <2> QED BY <2>1, <2>2, LockMoves
<1>2. CASE ReconnectStops(t)
  <2>1. /\ holder = None /\ holder' = t /\ waiters' = RemoveFirst(Behind, Refresher)
        /\ t # Refresher
    BY <1>2 DEF ReconnectStops, Free, Turn
  <2>2. /\ pc'[t] = "stop" /\ pc'[Refresher] = "idle"
        /\ \A u \in Tasks \ {t, Refresher} : pc'[u] = pc[u]
    BY <1>0, <1>2, <2>1 DEF ReconnectStops, TaskInv
  <2>3. t # Main
    BY <1>0, <1>2 DEF ReconnectStops, TaskInv
  <2>4. \A u \in Tasks : In(Behind, u) <=> In(waiters, u) /\ u # t
    BY <1>0, <1>2, BehindFacts DEF ReconnectStops, Turn, Free, LockInv, InLine
  <2>5. /\ waiters' \in Seq(Tasks) /\ IsInjective(waiters')
        /\ \A u : In(waiters', u) <=> In(Behind, u) /\ u # Refresher
    BY <1>0, <2>1, BehindFacts, RefresherLeaves
  <2>6. \A u \in Tasks : ~Holding(u)
    BY <1>0, <2>1 DEF LockInv
  <2> QED BY <1>0, <2>1, <2>2, <2>3, <2>4, <2>5, <2>6 DEF LockInv, Holding, InLine
<1>3. CASE Stopped(t) \/ Spawned(t)
  <2>1. t # Main
    BY <1>0, <1>3 DEF Stopped, Spawned, TaskInv
  <2>2. \E label \in {"spawn", "ready"} : pc' = [pc EXCEPT ![t] = label]
    BY <1>3 DEF Stopped, Spawned, Go
  <2>3. UNCHANGED lock /\ pc[t] \in {"stop", "spawn"}
    BY <1>3 DEF Stopped, Spawned
  <2> QED BY <2>1, <2>2, <2>3, LockMoves
<1>4. CASE Ready(t)
  <2>1. Queue(t) /\ pc' = [pc EXCEPT ![t] = "nested"] /\ ~InLine(t) /\ Holding(t)
    BY <1>4 DEF Ready, Go, InLine, Holding
  <2> QED BY <2>1, LockMoves
<1>5. CASE SpawnFails(t) \/ StartFails(t) \/ StartTimeout(t)
  <2>1. PICK label \in {"idle", "gone"} : pc' = [pc EXCEPT ![t] = label]
    BY <1>0, <1>5, FailsMoves DEF SpawnFails, StartFails, StartTimeout
  <2>2. pc[t] \in {"spawn", "ready"} /\ (pc[t] = "spawn" => t # Main)
    BY <1>0, <1>5 DEF SpawnFails, StartFails, StartTimeout, TaskInv
  <2>3. IF t = Main THEN UNCHANGED lock ELSE Release
    BY <1>5, <2>2 DEF SpawnFails, StartFails, StartTimeout
  <2> QED BY <2>1, <2>2, <2>3, LockMoves DEF Holding, InLine
<1>6. CASE t = Refresher /\ ReconnectCancelled
  <2>1. pc' = [pc EXCEPT ![t] = "idle"] /\ UNCHANGED holder /\ waiters' = Behind
    BY <1>6 DEF ReconnectCancelled, Go
  <2>2. CASE pc[t] = "ensure"
    <3>1. Turn(t) /\ InLine(t)
      BY <1>6, <2>2 DEF ReconnectCancelled, InLine
    <3> QED BY <2>1, <3>1, LockMoves DEF Behind, Turn
  <2>3. CASE pc[t] = "call"
    <3>1. UNCHANGED lock
      BY <1>6, <2>1, <2>3 DEF ReconnectCancelled, Free, Behind, lock
    <3> QED BY <2>1, <2>3, <3>1, LockMoves DEF Holding, InLine
  <2> QED BY <1>6, <2>2, <2>3 DEF ReconnectCancelled
<1> QED BY <1>1, <1>2, <1>3, <1>4, <1>5, <1>6 DEF Start

\* So do commands, and what viewers do.
LEMMA LockTalk ==
    ASSUME Inv, NEW t \in Tasks, Talk(t) \/ (t \in Viewers /\ (Handle(t) \/ Client(t)))
    PROVE  LockInv'
<1> USE TaskNames
<1>0. TaskInv
  BY DEF Inv
<1>1. CASE EnsureWaits(t) \/ CallLater(t)
  <2>1. PICK label \in {"ensure", "queued"} : pc' = [pc EXCEPT ![t] = label]
    BY <1>1 DEF EnsureWaits, CallLater, Go
  <2>2. Queue(t) /\ ~InLine(t) /\ ~Holding(t)
    BY <1>1 DEF EnsureWaits, CallLater, Connected, InLine, Holding
  <2> QED BY <2>1, <2>2, LockMoves
<1>2. CASE EnsureMended(t) \/ CallReset(t)
  <2>1. PICK label \in {"idle", "gone", "call"} : pc' = [pc EXCEPT ![t] = label]
    BY <1>0, <1>2, FailsMoves DEF EnsureMended, CallReset, Go
  <2>2. Turn(t) /\ InLine(t) /\ waiters' = Tail(waiters) /\ UNCHANGED holder
    BY <1>2 DEF EnsureMended, CallReset, InLine
  <2> QED BY <2>1, <2>2, LockMoves
<1>3. CASE CallNow(t) \/ CallGranted(t)
  <2>1. Take(t) /\ pc' = [pc EXCEPT ![t] = "reply"]
    BY <1>3 DEF CallNow, CallGranted, Go
  <2>2. (~InLine(t) /\ Free) \/ Turn(t)
    BY <1>3 DEF CallNow, CallGranted, Connected, InLine
  <2> QED BY <2>1, <2>2, LockMoves
<1>4. CASE CallFails(t) \/ (t \in Viewers /\ (Unsubscribe(t) \/ Client(t)))
  <2>1. CASE t \in Viewers /\ Forward(t)
    BY <2>1 DEF Forward, tasks, lock, Inv, LockInv, Holding, InLine
  <2>2. CASE ~(t \in Viewers /\ Forward(t))
    <3>1. PICK label \in {"idle", "gone", "call"} : pc' = [pc EXCEPT ![t] = label]
      BY <1>0, <1>4, <2>2, FailsMoves DEF CallFails, Unsubscribe, Client, Ask, Disconnect, Go
    <3>2. UNCHANGED lock /\ ~InLine(t) /\ ~Holding(t)
      BY <1>4, <2>2 DEF CallFails, Connected, Unsubscribe, Client, Ask, Disconnect, InLine, Holding
    <3> QED BY <3>1, <3>2, LockMoves
  <2> QED BY <2>1, <2>2
<1>5. CASE Done(t) \/ Refused(t) \/ (t \in Viewers /\ (Captured(t) \/ Snapshot(t)))
  <2>1. PICK label \in {"idle", "gone", "call"} : pc' = [pc EXCEPT ![t] = label]
    BY <1>0, <1>5, FailsMoves DEF Done, Refused, Captured, Snapshot, Go
  <2>2. Release /\ Holding(t) /\ ~InLine(t)
    BY <1>5 DEF Done, Refused, Captured, Snapshot, Answered, InLine, Holding
  <2> QED BY <2>1, <2>2, LockMoves
<1> QED BY <1>1, <1>2, <1>3, <1>4, <1>5 DEF Talk, Handle

\* So does every step.
LEMMA LockStep == ASSUME Inv, Next PROVE LockInv'
<1>1. CASE Produce \/ Answer \/ Rename \/ ReadOutput \/ ReadReply \/ EndOfStream
           \/ Die \/ StreamFails
  <2>1. UNCHANGED lock /\ pc' = pc
    BY <1>1 DEF Produce, Answer, Rename, ReadOutput, ReadReply, EndOfStream, Die,
                StreamFails, ReaderEnds, tasks
  <2> QED BY <2>1 DEF Inv, LockInv, lock, Holding, InLine
<1>2. CASE ReadWindow
  <2>1. UNCHANGED lock /\ (pc' = pc \/ pc' = [pc EXCEPT ![Refresher] = "call"])
        /\ (pc' # pc => pc[Refresher] = "idle")
    BY <1>2 DEF ReadWindow, Go
  <2>2. CASE pc' = pc
    BY <2>1, <2>2 DEF Inv, LockInv, lock, Holding, InLine
  <2>3. CASE pc' # pc
    BY <2>1, <2>3, TaskNames, LockMoves DEF Holding, InLine
  <2> QED BY <2>2, <2>3
<1> QED BY <1>1, <1>2, LockStart, LockTalk, TaskNames DEF Next, Reader, Run, Faults

-----------------------------------------------------------------------------
(* Where tasks are, and what they do there *)

\* One task goes on to something that fits.
LEMMA TaskMoves ==
    ASSUME Inv, NEW t \in Tasks, NEW label, NEW errand \in Errand, Go(t, label, errand),
           label \in {"idle", "call", "ensure", "stop", "spawn", "ready", "nested",
                      "queued", "reply", "gone"},
           label \in {"idle", "gone"} <=> errand = "none",
           label \in {"queued", "reply"} => errand \in Command,
           t = Main => pc[Main] # "idle" /\ label \in {"queued", "reply", "idle", "gone"},
           t \in Viewers => pc[Main] = "idle",
           at' \in [Tasks -> Nat],
           used' \in [asks : Nat, renames : Nat, breaks : Nat]
    PROVE  TaskInv'
<1>1. /\ pc'[t] = label /\ \A u \in Tasks : u # t => pc'[u] = pc[u]
      /\ doing'[t] = errand /\ \A u \in Tasks : u # t => doing'[u] = doing[u]
      /\ pc' \in [Tasks -> {"idle", "call", "ensure", "stop", "spawn", "ready",
                            "nested", "queued", "reply", "gone"}]
      /\ doing' \in [Tasks -> Errand]
  BY DEF Go, Inv, TaskInv
<1>2. \A u \in Tasks : pc'[u] \in {"idle", "gone"} <=> doing'[u] = "none"
  BY <1>1 DEF Inv, TaskInv
<1>3. \A u \in Tasks : pc'[u] \in {"queued", "reply"} => doing'[u] \in Command
  BY <1>1 DEF Inv, TaskInv
<1>4. pc'[Main] \in {"ready", "queued", "reply", "idle", "gone"}
  BY <1>1, TaskNames DEF Inv, TaskInv
<1>5. pc'[Main] # "idle" => \A v \in Viewers : pc'[v] = "idle"
  BY <1>1, TaskNames DEF Inv, TaskInv
<1> QED BY <1>1, <1>2, <1>3, <1>4, <1>5 DEF TaskInv

\* A task that does something is known to be awake.
LEMMA Awake ==
    ASSUME Inv, NEW t \in Tasks, pc[t] \notin {"idle", "gone"}
    PROVE  /\ doing[t] \in Errand /\ doing[t] # "none"
           /\ pc[t] \in {"queued", "reply"} => doing[t] \in Command
           /\ t = Main => pc[t] \in {"ready", "queued", "reply"}
           /\ t \in Viewers => pc[Main] = "idle"
           /\ at \in [Tasks -> Nat]
           /\ used \in [asks : Nat, renames : Nat, breaks : Nat]
BY DEF Inv, TaskInv

\* Failing, a task goes on to nothing.
LEMMA TaskFails ==
    ASSUME Inv, NEW t \in Tasks, NEW known \in BOOLEAN, Fails(t, known),
           pc[t] \notin {"idle", "gone"}, at' = at,
           used' \in [asks : Nat, renames : Nat, breaks : Nat]
    PROVE  TaskInv'
<1>1. PICK label \in {"idle", "gone"} : Go(t, label, "none")
  BY FailsMoves DEF Inv, Go
<1> QED BY <1>1, Awake, TaskMoves DEF Errand

\* The counters are counters.
LEMMA FaultCounts == ASSUME Inv, Fault PROVE used' \in [asks : Nat, renames : Nat, breaks : Nat]
BY DEF Inv, TaskInv, Fault

\* Starting a connection, a task goes on to what fits.
LEMMA TaskStart ==
    ASSUME Inv, NEW t \in Tasks,
           Start(t) \/ SpawnFails(t) \/ StartTimeout(t) \/ (t = Refresher /\ ReconnectCancelled)
    PROVE  TaskInv'
<1> USE TaskNames
<1>1. CASE Reconnect(t) \/ Stopped(t) \/ Spawned(t) \/ Ready(t)
  <2>1. PICK label \in {"spawn", "ready", "nested"} : Go(t, label, doing[t])
    BY <1>1 DEF Reconnect, Stopped, Spawned, Ready
  <2>2. pc[t] \in {"call", "ensure", "stop", "spawn", "ready"} /\ at' = at /\ used' = used
        /\ (t = Main => ~(pc[t] = "ready"))
    BY <1>1 DEF Reconnect, Stopped, Spawned, Ready
  <2>3. t # Main
    BY <2>2, Awake
  <2> QED BY <2>1, <2>2, <2>3, Awake, TaskMoves
<1>2. CASE ReconnectStops(t)
  <2>1. /\ t # Refresher /\ pc[t] \in {"call", "ensure"}
        /\ pc' = [pc EXCEPT ![t] = "stop", ![Refresher] = "idle"]
        /\ doing' = [doing EXCEPT ![Refresher] = "none"]
        /\ at' = at /\ used' = used
    BY <1>2 DEF ReconnectStops
  <2>2. t # Main /\ (t \in Viewers => pc[Main] = "idle")
    BY <2>1, Awake
  <2>3. /\ pc'[t] = "stop" /\ pc'[Refresher] = "idle" /\ pc'[Main] = pc[Main]
        /\ \A u \in Tasks \ {t, Refresher} : pc'[u] = pc[u]
        /\ doing'[Refresher] = "none" /\ \A u \in Tasks \ {Refresher} : doing'[u] = doing[u]
        /\ pc' \in [Tasks -> {"idle", "call", "ensure", "stop", "spawn", "ready",
                              "nested", "queued", "reply", "gone"}]
        /\ doing' \in [Tasks -> Errand]
    BY <2>1, <2>2 DEF Inv, TaskInv, Errand
  <2> QED BY <2>1, <2>2, <2>3 DEF Inv, TaskInv
<1>3. CASE SpawnFails(t) \/ StartFails(t) \/ StartTimeout(t)
  <2>1. PICK known \in BOOLEAN : Fails(t, known)
    BY <1>3 DEF SpawnFails, StartFails, StartTimeout
  <2>2. pc[t] \in {"spawn", "ready"} /\ at' = at /\ (Fault \/ used' = used)
    BY <1>3 DEF SpawnFails, StartFails, StartTimeout
  <2> QED BY <2>1, <2>2, TaskFails, FaultCounts, Awake
<1>4. CASE t = Refresher /\ ReconnectCancelled
  <2>1. Go(t, "idle", "none") /\ pc[t] \in {"call", "ensure"} /\ at' = at /\ used' = used
    BY <1>4 DEF ReconnectCancelled
  <2> QED BY <1>4, <2>1, Awake, TaskMoves DEF Errand
<1> QED BY <1>1, <1>2, <1>3, <1>4 DEF Start

\* So it does with commands, and a viewer with its messages.
LEMMA TaskTalk ==
    ASSUME Inv, NEW t \in Tasks, Talk(t) \/ (t \in Viewers /\ (Handle(t) \/ Client(t)))
    PROVE  TaskInv'
<1> USE TaskNames
<1>1. CASE EnsureWaits(t) \/ EnsureMended(t)
  <2>1. PICK label \in {"ensure", "call"} : Go(t, label, doing[t])
    BY <1>1 DEF EnsureWaits, EnsureMended
  <2>2. pc[t] \in {"call", "ensure"} /\ at' = at /\ used' = used
    BY <1>1 DEF EnsureWaits, EnsureMended
  <2> QED BY <2>1, <2>2, Awake, TaskMoves
<1>2. CASE CallNow(t) \/ CallLater(t)
  <2>1. PICK label \in {"reply", "queued"} : Go(t, label, First(doing[t]))
    BY <1>2 DEF CallNow, CallLater
  <2>2. pc[t] \in {"call", "ready"} /\ doing[t] # "leave" /\ used' = used
    BY <1>2 DEF CallNow, CallLater, Connected
  <2>3. First(doing[t]) \in Command
    BY <2>2, Awake DEF First, Errand, Command
  <2>4. at' \in [Tasks -> Nat]
    BY <1>2, <2>2, Awake DEF CallNow, CallLater, Inv, ConnInv
  <2> QED BY <2>1, <2>2, <2>3, <2>4, Awake, TaskMoves DEF Errand, Command
<1>3. CASE CallGranted(t)
  <2>1. /\ Go(t, "reply", doing[t]) /\ pc[t] = "queued" /\ used' = used
        /\ at' = [at EXCEPT ![t] = 0]
    BY <1>3 DEF CallGranted
  <2>2. doing[t] # "none" /\ doing[t] \in Errand /\ doing[t] \in Command
    BY <2>1, Awake
  <2> QED BY <2>1, <2>2, Awake, TaskMoves
<1>4. CASE CallFails(t) \/ CallReset(t) \/ Refused(t)
  <2>1. PICK known \in BOOLEAN : Fails(t, known)
    BY <1>4 DEF CallFails, CallReset, Refused
  <2>2. pc[t] \in {"call", "ready", "queued", "reply"} /\ at' = at /\ used' = used
    BY <1>4 DEF CallFails, CallReset, Refused, Connected, Answered
  <2> QED BY <2>1, <2>2, TaskFails, Awake
<1>5. CASE Done(t) \/ (t \in Viewers /\ (Snapshot(t) \/ Unsubscribe(t)))
  <2>1. Go(t, "idle", "none") /\ pc[t] \in {"reply", "call"} /\ at' = at /\ used' = used
    BY <1>5 DEF Done, Snapshot, Unsubscribe, Answered
  <2> QED BY <2>1, Awake, TaskMoves DEF Errand
<1>6. CASE t \in Viewers /\ Captured(t)
  <2>1. Go(t, "call", "cursor") /\ pc[t] = "reply" /\ at' = at /\ used' = used
    BY <1>6 DEF Captured, Answered
  <2> QED BY <1>6, <2>1, Awake, TaskMoves DEF Errand, Command
<1>7. CASE t \in Viewers /\ Disconnect(t)
  <2>1. Go(t, "gone", "none") /\ pc[Main] = "idle" /\ at' = at /\ used' = used
    BY <1>7 DEF Disconnect, Serving
  <2>2. at \in [Tasks -> Nat] /\ used \in [asks : Nat, renames : Nat, breaks : Nat]
    BY DEF Inv, TaskInv
  <2> QED BY <1>7, <2>1, <2>2, TaskMoves DEF Errand
<1>8. CASE t \in Viewers /\ Forward(t)
  BY <1>8 DEF Forward, tasks, Inv, TaskInv
<1>9. ASSUME t \in Viewers, NEW errand \in {"subscribe", "keys", "leave"}, Ask(t, errand)
      PROVE  TaskInv'
  <2>1. Go(t, "call", errand) /\ pc[Main] = "idle" /\ at' = at
        /\ used' = [used EXCEPT !.asks = @ + 1]
    BY <1>9 DEF Ask, Serving
  <2>2. at' \in [Tasks -> Nat] /\ used' \in [asks : Nat, renames : Nat, breaks : Nat]
    BY <2>1 DEF Inv, TaskInv
  <2> QED BY <1>9, <2>1, <2>2, TaskMoves DEF Errand, Command
<1> QED BY <1>1, <1>2, <1>3, <1>4, <1>5, <1>6, <1>7, <1>8, <1>9 DEF Talk, Handle, Client

\* Every step leaves tasks where they fit.
LEMMA TaskStep == ASSUME Inv, Next PROVE TaskInv'
<1>1. CASE Produce \/ Answer \/ ReadOutput \/ ReadReply \/ EndOfStream
  BY <1>1 DEF Produce, Answer, ReadOutput, ReadReply, EndOfStream, ReaderEnds, tasks, Inv, TaskInv
<1>2. CASE Rename \/ Die \/ StreamFails
  <2>1. used' \in [asks : Nat, renames : Nat, breaks : Nat]
    BY <1>2, FaultCounts DEF Rename, Die, StreamFails, Inv, TaskInv
  <2>2. UNCHANGED tasks
    BY <1>2 DEF Rename, Die, StreamFails, ReaderEnds
  <2> QED BY <2>1, <2>2 DEF tasks, Inv, TaskInv
<1>3. CASE ReadWindow
  <2>1. at' = at /\ used' = used
        /\ \/ UNCHANGED <<pc, doing>>
           \/ Go(Refresher, "call", "list")
    BY <1>3 DEF ReadWindow
  <2>2. CASE UNCHANGED <<pc, doing>>
    BY <2>1, <2>2 DEF Inv, TaskInv
  <2>3. CASE Go(Refresher, "call", "list")
    BY <2>1, <2>3, TaskMoves, TaskNames DEF Inv, TaskInv, Errand, Command
  <2> QED BY <2>1, <2>2, <2>3
<1> QED BY <1>1, <1>2, <1>3, TaskStart, TaskTalk, TaskNames DEF Next, Reader, Run, Faults

-----------------------------------------------------------------------------
(* One command at a time *)

\* Replies and events of the named kinds.
LEMMA Replies ==
    /\ NoReply \in Reply /\ Open \in Reply /\ Failed \in Reply
    /\ NoReply.is = "none" /\ Open.is = "open" /\ Failed.is = "failed"
    /\ Hello \in Event /\ Hello.kind = "reply" /\ Notice \in Event /\ Notice.kind = "window"
    /\ \A i \in Nat : Out(i) \in Event /\ Out(i).kind = "output" /\ Out(i).n = i
    /\ \A r \in Reply : Said(r) \in Event /\ Said(r).kind = "reply" /\ Said(r).reply = r
BY DEF NoReply, Open, Failed, Reply, Hello, Said, Notice, Out, Event

\* While a command awaits its reply, its task has the lock and stands still, and
\* no other gets it.
LEMMA Awaiting ==
    ASSUME Inv, pending # <<>>
    PROVE  /\ holder \in Tasks /\ pending = <<holder>>
           /\ pc[holder] = "reply" /\ reply[holder] = Open
           /\ \A is \in {{"ok"}, {"error", "failed"}, {"ok", "error"}} : ~Answered(holder, is)
           /\ \A t \in Tasks : t # holder => ~Holding(t)
           /\ ~Free /\ \A t \in Tasks : ~Turn(t)
BY TaskNames, Replies DEF Inv, LockInv, PendingInv, Answered, Free, Turn, Holding

\* Whoever has the lock otherwise, or takes it, finds no command.
LEMMA NoneAwaits ==
    ASSUME Inv,
           \/ holder = None
           \/ \E t \in Tasks : Holding(t) /\ pc[t] # "reply"
           \/ \E t \in Tasks : pc[t] = "reply" /\ reply[t].is # "open"
    PROVE  pending = <<>>
BY TaskNames, Replies DEF Inv, LockInv, PendingInv, Holding

\* Nothing that concerns the pending command changes.
LEMMA PendingSame ==
    ASSUME Inv, pending' = pending, reply' \in [Tasks -> Reply],
           pending # <<>> => /\ holder' = holder
                             /\ pc'[holder] = pc[holder]
                             /\ reply'[holder] = reply[holder]
    PROVE  PendingInv'
BY DEF Inv, PendingInv

\* A command is written, by a task that takes the lock.
LEMMA PendingWritten ==
    ASSUME Inv, NEW t \in Tasks, NEW want, Write(t, want), Take(t), holder = None, pc'[t] = "reply"
    PROVE  PendingInv'
<1>1. pending' = <<t>>
  BY NoneAwaits DEF Write
<1>2. reply' = [reply EXCEPT ![t] = Open] /\ holder' = t
  BY DEF Write, Take
<1> QED BY <1>1, <1>2, Replies DEF Inv, PendingInv

\* The reader's end answers whatever is pending.
LEMMA PendingFailed ==
    ASSUME Inv, ReaderEnds
    PROVE  PendingInv' /\ pending' = <<>>
           /\ \A t \in Tasks : reply'[t] = reply[t] \/ (reply'[t] = Failed /\ reply[t] = Open)
<1>1. /\ pending' = <<>>
      /\ reply' = [t \in Tasks |->
           IF \E i \in DOMAIN pending : pending[i] = t THEN Failed ELSE reply[t]]
  BY DEF ReaderEnds
<1>2. ASSUME NEW t \in Tasks, \E i \in DOMAIN pending : pending[i] = t PROVE reply[t] = Open
  BY <1>2, Awaiting
<1> QED BY <1>1, <1>2, Replies DEF Inv, PendingInv

\* Starting a connection, no command that is awaited is lost.
LEMMA PendingStart ==
    ASSUME Inv, NEW t \in Tasks,
           Start(t) \/ SpawnFails(t) \/ StartTimeout(t) \/ (t = Refresher /\ ReconnectCancelled)
    PROVE  PendingInv'
<1> USE TaskNames
<1>1. CASE Reconnect(t) \/ Stopped(t)
  BY <1>1 DEF Reconnect, Stopped, Spawning, Inv, PendingInv
<1>2. CASE ReconnectStops(t) \/ Spawned(t) \/ SpawnFails(t) \/ (t = Refresher /\ ReconnectCancelled)
  <2>1. pending = <<>>
    <3>1. holder = None \/ (Holding(t) /\ pc[t] # "reply")
      BY <1>2 DEF ReconnectStops, Spawned, SpawnFails, ReconnectCancelled, Free, Turn, Holding
    <3> QED BY <3>1, NoneAwaits
  <2>2. pending' = pending /\ reply' = reply
    BY <1>2 DEF ReconnectStops, Spawned, SpawnFails, ReconnectCancelled
  <2> QED BY <2>1, <2>2, PendingSame DEF Inv, PendingInv
<1>3. CASE Ready(t) \/ StartFails(t)
  <2>1. pending' = pending /\ reply' = reply /\ pc[t] = "ready"
    BY <1>3 DEF Ready, StartFails
  <2>2. pending # <<>> => holder' = holder /\ holder # t
    BY <1>3, <2>1, Awaiting DEF Ready, StartFails, Queue, lock, Holding
  <2>3. \A u \in Tasks : u # t => pc'[u] = pc[u]
    <3>1. CASE Ready(t)
      BY <3>1 DEF Ready, Go, Inv, TaskInv
    <3>2. CASE StartFails(t)
      <4>1. Fails(t, TRUE) /\ TaskInv
        BY <3>2 DEF StartFails, Inv
      <4> QED BY <4>1, FailsMoves
    <3> QED BY <1>3, <3>1, <3>2
  <2> QED BY <2>1, <2>2, <2>3, Awaiting, PendingSame DEF Inv, PendingInv
<1>4. CASE StartTimeout(t)
  BY <1>4, PendingFailed DEF StartTimeout
<1> QED BY <1>1, <1>2, <1>3, <1>4 DEF Start

\* Nor is it when others issue commands, or are done with theirs.
LEMMA PendingTalk ==
    ASSUME Inv, NEW t \in Tasks, Talk(t) \/ (t \in Viewers /\ (Handle(t) \/ Client(t)))
    PROVE  PendingInv'
<1> USE TaskNames
<1>1. CASE CallNow(t) \/ CallGranted(t)
  <2>1. PICK want : Write(t, want)
    BY <1>1 DEF CallNow, CallGranted
  <2>2. Take(t) /\ pc' = [pc EXCEPT ![t] = "reply"] /\ holder = None
    BY <1>1 DEF CallNow, CallGranted, Go, Free, Turn
  <2> QED BY <2>1, <2>2, PendingWritten DEF Inv, TaskInv
<1>2. CASE EnsureWaits(t) \/ EnsureMended(t) \/ CallLater(t) \/ CallFails(t) \/ CallReset(t)
           \/ (t \in Viewers /\ (Unsubscribe(t) \/ Client(t)))
  <2>1. pending' = pending /\ reply' = reply
    BY <1>2 DEF EnsureWaits, EnsureMended, CallLater, CallFails, CallReset, Unsubscribe, Client,
                Ask, Forward, Disconnect
  <2>2. holder' = holder
    BY <1>2 DEF EnsureWaits, EnsureMended, CallLater, CallFails, CallReset, Unsubscribe, Client,
                Ask, Forward, Disconnect, Queue, lock
  <2>3. \A u \in Tasks : u # t => pc'[u] = pc[u]
    <3>1. CASE CallFails(t) \/ CallReset(t)
      BY <3>1, FailsMoves DEF CallFails, CallReset, Inv, TaskInv
    <3>2. CASE t \in Viewers /\ (Unsubscribe(t) \/ Client(t))
      BY <3>2 DEF Unsubscribe, Client, Ask, Forward, Disconnect, Go, tasks, Inv, TaskInv
    <3>3. CASE EnsureWaits(t) \/ EnsureMended(t) \/ CallLater(t)
      BY <3>3 DEF EnsureWaits, EnsureMended, CallLater, Go, Inv, TaskInv
    <3> QED BY <1>2, <3>1, <3>2, <3>3
  <2>4. pc'[t] = pc[t] \/ pc[t] # "reply"
    BY <1>2 DEF EnsureWaits, EnsureMended, CallLater, CallFails, CallReset, Unsubscribe, Client,
                Ask, Forward, Disconnect, Connected, tasks
  <2> QED BY <2>1, <2>2, <2>3, <2>4, Awaiting, PendingSame DEF Inv, PendingInv
<1>3. CASE Done(t) \/ Refused(t) \/ (t \in Viewers /\ (Captured(t) \/ Snapshot(t)))
  <2>1. pending' = pending /\ reply' = [reply EXCEPT ![t] = NoReply]
    BY <1>3 DEF Done, Refused, Captured, Snapshot, Forget
  <2>2. pending = <<>>
    BY <1>3, NoneAwaits DEF Done, Refused, Captured, Snapshot, Answered
  <2> QED BY <2>1, <2>2, Replies DEF Inv, PendingInv
<1> QED BY <1>1, <1>2, <1>3 DEF Talk, Handle

\* After every step at most one command awaits its reply.
LEMMA PendingStep == ASSUME Inv, Next PROVE PendingInv'
<1>1. CASE Produce \/ Answer \/ Rename \/ ReadOutput \/ Die
  BY <1>1, PendingSame DEF Produce, Answer, Rename, ReadOutput, Die, lock, tasks, Inv, PendingInv
<1>2. CASE ReadWindow
  <2>1. pending' = pending /\ reply' = reply /\ UNCHANGED lock
        /\ (pc' = pc \/ (pc[Refresher] = "idle" /\ pc' = [pc EXCEPT ![Refresher] = "call"]))
    BY <1>2 DEF ReadWindow, Go
  <2>2. pending # <<>> => pc'[holder] = pc[holder]
    BY <2>1, Awaiting DEF Inv, TaskInv
  <2> QED BY <2>1, <2>2, PendingSame DEF lock, Inv, PendingInv
<1>3. CASE ReadReply
  <2>1. CASE pending = <<>>
    BY <1>3, <2>1, PendingSame DEF ReadReply, Inv, PendingInv
  <2>2. CASE pending # <<>>
    <3>1. pending = <<holder>> /\ holder \in Tasks
      BY <2>2, Awaiting
    <3>2. pending' = Tail(pending) /\ reply' = [reply EXCEPT ![Head(pending)] = Head(stream).reply]
      BY <1>3, <2>2 DEF ReadReply
    <3>3. Head(pending) = holder /\ Tail(pending) = <<>>
      BY <3>1
    <3>4. Head(stream) \in Event
      BY <1>3, HeadTailProperties DEF ReadReply, Reads, Inv, ReplyInv
    <3> QED BY <3>1, <3>2, <3>3, <3>4 DEF Event, Inv, PendingInv
  <2> QED BY <2>1, <2>2
<1>4. CASE EndOfStream \/ StreamFails
  BY <1>4, PendingFailed DEF EndOfStream, StreamFails
<1> QED BY <1>1, <1>2, <1>3, <1>4, PendingStart, PendingTalk, TaskNames
        DEF Next, Reader, Run, Faults

-----------------------------------------------------------------------------
(* The connection *)

\* A task moves that has nothing to do with the start of the connection.
LEMMA ConnMoves ==
    ASSUME Inv, UNCHANGED conn, ~proc.up => asked' = <<>>,
           NEW t \in Tasks, NEW label, pc' = [pc EXCEPT ![t] = label], pc[t] # "gone",
           t = Main => pc[Main] # "idle",
           pc[t] \in {"ready", "nested"} /\ t # Main => broken \/ ~proc.up,
           \/ label \in {"idle", "gone", "call", "ensure"}
           \/ label = "queued" /\ ~broken /\ proc.up
           \/ label = "reply" /\ (proc.n = 1 \/ (broken /\ ~reading)),
           \A u \in Tasks : pc'[u] = "reply" =>
             (pc[u] = "reply" /\ reply'[u] = reply[u]) \/ reply'[u].is \in {"open", "failed"}
    PROVE  ConnInv'
<1> USE TaskNames
<1>0. TaskInv /\ ConnInv
  BY DEF Inv
<1>1. pc'[t] = label /\ \A u \in Tasks : u # t => pc'[u] = pc[u]
  BY <1>0 DEF TaskInv
<1>2. proc' = proc /\ reading' = reading /\ broken' = broken /\ ready' = ready
  BY DEF conn
<1>3. pc[Main] = "gone" => pc'[Main] = "gone"
  BY <1>1
<1>4. /\ \A u \in Tasks : pc'[u] \in {"stop", "spawn"} => pc[u] = pc'[u]
      /\ \A u \in Tasks \ {Main} : pc'[u] \in {"ready", "nested"} => pc[u] = pc'[u]
  BY <1>1
<1>5. proc.n >= 2 /\ proc.up /\ ~broken
        => \E u \in Tasks \ {Main} : pc'[u] \in {"ready", "nested"}
  BY <1>0, <1>1 DEF ConnInv
<1>6. proc.n >= 2 /\ pc'[Main] # "idle" => pc'[Refresher] # "queued"
  <2>1. CASE t = Refresher /\ label = "queued"
    <3> SUFFICES ASSUME proc.n >= 2, pc'[Main] # "idle" PROVE FALSE
      BY <1>1, <2>1
    <3>1. pc'[Main] = pc[Main]
      BY <1>1, <2>1
    <3>2. PICK u \in Tasks \ {Main} : pc[u] \in {"ready", "nested"}
      BY <1>0, <2>1 DEF ConnInv
    <3>3. u = Refresher
      BY <1>0, <3>1, <3>2 DEF TaskInv, Tasks
    <3> QED BY <2>1, <3>2, <3>3
  <2>2. CASE t # Refresher
    <3>1. pc'[Main] # "idle" => pc[Main] # "idle"
      BY <1>1
    <3> QED BY <1>0, <1>1, <2>2, <3>1 DEF ConnInv
  <2>3. CASE t = Refresher /\ label # "queued"
    BY <1>1, <2>3
  <2> QED BY <2>1, <2>2, <2>3
<1>7. proc.n >= 2 => \A u \in Tasks : pc'[u] = "reply" =>
        broken /\ ~reading /\ reply'[u].is \in {"open", "failed"}
  BY <1>0, <1>1 DEF ConnInv
<1> QED BY <1>0, <1>2, <1>3, <1>4, <1>5, <1>6, <1>7 DEF ConnInv

\* A command that is written at once goes to the first process; one that was
\* queued, possibly to a process whose output nobody reads.
LEMMA WriteConn ==
    ASSUME Inv, NEW t \in Tasks, CallNow(t) \/ CallGranted(t)
    PROVE  /\ proc.up /\ holder = None
           /\ proc.n = 1 \/ (broken /\ ~reading)
           /\ CallNow(t) => proc.n = 1 /\ reading
<1> USE TaskNames
<1>0. TaskInv /\ ConnInv /\ LockInv
  BY DEF Inv
<1>1. proc.up /\ holder = None
  BY DEF CallNow, CallGranted, Free, Turn
<1>2. proc.n >= 2 => broken
  BY <1>0, <1>1 DEF ConnInv, LockInv, Holding
<1>3. proc.n \in Nat /\ proc.n >= 1
  BY <1>0 DEF ConnInv
<1>4. CASE CallNow(t)
  <2>1. ~broken
    BY <1>4 DEF CallNow, Connected
  <2>2. proc.n = 1
    BY <1>2, <1>3, <2>1
  <2> QED BY <1>0, <1>1, <2>1, <2>2 DEF ConnInv
<1>5. CASE CallGranted(t)
  <2>1. ASSUME proc.n >= 2, reading PROVE FALSE
    <3>1. pc[Main] = "gone"
      BY <1>0, <1>2, <2>1 DEF ConnInv
    <3>2. t = Refresher /\ pc[t] = "queued"
      BY <1>0, <1>5, <3>1 DEF CallGranted, TaskInv, Tasks
    <3> QED BY <1>0, <2>1, <3>1, <3>2 DEF ConnInv
  <2>2. ~CallNow(t)
    BY <1>5 DEF CallNow, CallGranted, Connected
  <2> QED BY <1>1, <1>2, <1>3, <2>1, <2>2
<1> QED BY <1>4, <1>5

\* Commands leave the connection as it is, and are written where they may be.
LEMMA ConnTalk ==
    ASSUME Inv, NEW t \in Tasks, Talk(t) \/ (t \in Viewers /\ (Handle(t) \/ Client(t)))
    PROVE  ConnInv'
<1> USE TaskNames
<1>0. TaskInv /\ ConnInv
  BY DEF Inv
<1>1. CASE CallNow(t) \/ CallGranted(t)
  <2>1. /\ pc' = [pc EXCEPT ![t] = "reply"] /\ UNCHANGED conn
        /\ reply' = [reply EXCEPT ![t] = Open] /\ proc.up
    BY <1>1 DEF CallNow, CallGranted, Go, Write
  <2>2. pc[t] \in {"call", "ready", "queued"} /\ (pc[t] = "ready" => t = Main)
    BY <1>1 DEF CallNow, CallGranted, Connected
  <2>3. \A u \in Tasks : pc'[u] = "reply" =>
          (pc[u] = "reply" /\ reply'[u] = reply[u]) \/ reply'[u].is \in {"open", "failed"}
    BY <1>0, <2>1, Replies DEF TaskInv, Inv, PendingInv
  <2> QED BY <1>1, <2>1, <2>2, <2>3, WriteConn, ConnMoves
<1>2. CASE CallLater(t)
  <2>1. /\ pc' = [pc EXCEPT ![t] = "queued"] /\ UNCHANGED conn /\ reply' = reply
        /\ proc.up /\ ~broken
    BY <1>2 DEF CallLater, Connected, Go
  <2>2. pc[t] \in {"call", "ready"} /\ (pc[t] = "ready" => t = Main)
    BY <1>2 DEF CallLater, Connected
  <2>3. \A u \in Tasks : pc'[u] = "reply" => pc[u] = "reply"
    BY <1>0, <2>1 DEF TaskInv
  <2> QED BY <2>1, <2>2, <2>3, ConnMoves
<1>3. CASE \/ EnsureWaits(t) \/ EnsureMended(t)
           \/ t \in Viewers /\ (Unsubscribe(t) \/ Disconnect(t) \/ \E errand : Ask(t, errand))
  <2>1. PICK label \in {"idle", "gone", "call", "ensure"} : pc' = [pc EXCEPT ![t] = label]
    BY <1>3 DEF EnsureWaits, EnsureMended, Unsubscribe, Ask, Disconnect, Go
  <2>2. UNCHANGED conn /\ asked' = asked /\ reply' = reply
    BY <1>3 DEF EnsureWaits, EnsureMended, Unsubscribe, Ask, Disconnect, tmux
  <2>3. pc[t] \in {"call", "ensure", "idle"} /\ (pc[t] = "idle" => t \in Viewers)
    BY <1>3 DEF EnsureWaits, EnsureMended, Unsubscribe, Ask, Disconnect
  <2>4. \A u \in Tasks : pc'[u] = "reply" => pc[u] = "reply"
    BY <1>0, <2>1 DEF TaskInv
  <2>5. ~proc.up => asked' = <<>>
    BY <1>0, <2>2 DEF ConnInv
  <2> QED BY <2>1, <2>2, <2>3, <2>4, <2>5, ConnMoves
<1>4. CASE t \in Viewers /\ Forward(t)
  BY <1>0, <1>4 DEF Forward, conn, tmux, tasks, ConnInv
<1>5. CASE CallFails(t) \/ CallReset(t) \/ Done(t) \/ Refused(t)
           \/ (t \in Viewers /\ (Captured(t) \/ Snapshot(t)))
  <2>1. PICK label \in {"idle", "gone", "call"} : pc' = [pc EXCEPT ![t] = label]
    BY <1>0, <1>5, FailsMoves DEF CallFails, CallReset, Done, Refused, Captured, Snapshot, Go
  <2>2. UNCHANGED conn /\ asked' = asked
    BY <1>5 DEF CallFails, CallReset, Done, Refused, Captured, Snapshot, tmux
  <2>3. reply' = reply \/ reply' = [reply EXCEPT ![t] = NoReply]
    BY <1>5 DEF CallFails, CallReset, Done, Refused, Captured, Snapshot, Forget
  <2>4. pc[t] \in {"call", "ready", "queued", "reply"} /\ (pc[t] = "ready" => t = Main)
    BY <1>5 DEF CallFails, CallReset, Done, Refused, Captured, Snapshot, Answered, Connected
  <2>5. \A u \in Tasks : pc'[u] = "reply" => pc[u] = "reply" /\ reply'[u] = reply[u]
    BY <1>0, <2>1, <2>3 DEF TaskInv, Inv, PendingInv
  <2>6. ~proc.up => asked' = <<>>
    BY <1>0, <2>2 DEF ConnInv
  <2> QED BY <2>1, <2>2, <2>4, <2>5, <2>6, ConnMoves
<1> QED BY <1>1, <1>2, <1>3, <1>4, <1>5 DEF Talk, Handle, Client

\* Two tasks do not have the lock, and none has it that is free.
LEMMA Sole ==
    ASSUME Inv
    PROVE  /\ \A t, u \in Tasks : Holding(t) /\ Holding(u) => t = u
           /\ holder = None => \A t \in Tasks : ~Holding(t)
BY TaskNames DEF Inv, LockInv

\* The reader's end: what is broken stays so until a task starts anew.
LEMMA ReaderEndsConn ==
    ASSUME Inv, ReaderEnds, NEW t \in Tasks, pc[t] = "ready" \/ reading,
           proc' = proc \/ proc' = [proc EXCEPT !.up = FALSE],
           ~proc'.up => asked' = <<>>,
           \/ pc' = pc /\ reading
           \/ \E label \in {"idle", "gone"} : pc' = [pc EXCEPT ![t] = label]
                                             /\ pc[t] = "ready" /\ (t = Main => label = "gone")
    PROVE  ConnInv'
<1> USE TaskNames
<1>0. TaskInv /\ ConnInv /\ LockInv
  BY DEF Inv
<1>1. reading' = FALSE /\ broken' = TRUE /\ ready' = TRUE
  BY DEF ReaderEnds
<1>2. /\ proc' \in [n : Nat, up : BOOLEAN] /\ proc'.n = proc.n
      /\ ~proc.up => ~proc'.up
  BY <1>0 DEF ConnInv
<1>3. \A u \in Tasks : reply'[u] = reply[u] \/ reply'[u].is \in {"open", "failed"}
  BY PendingFailed, Replies
<1>4. \A u \in Tasks : pc'[u] = pc[u] \/ pc'[u] \in {"idle", "gone"}
  BY <1>0 DEF TaskInv
<1>5. ASSUME NEW u \in Tasks, pc'[u] = "spawn" PROVE pc'[Main] = "gone"
  <2>1. pc[u] = "spawn" /\ Holding(u)
    BY <1>4, <1>5 DEF Holding
  <2>2. CASE reading
    <3>1. pc[Main] = "gone"
      BY <1>0, <2>1, <2>2 DEF ConnInv
    <3> QED BY <1>0, <3>1 DEF TaskInv
  <2>3. CASE ~reading
    <3>1. pc[t] = "ready" /\ t = Main
      BY <2>1, <2>3, Sole DEF Holding
    <3> QED BY <1>0, <2>3, <3>1 DEF TaskInv
  <2> QED BY <2>2, <2>3
<1>6. pc'[Refresher] = "queued" => pc[Refresher] = "queued"
  BY <1>4
<1>7. pc'[Main] # "idle" => pc[Main] # "idle"
  BY <1>0 DEF TaskInv
<1>8. /\ reading' \in BOOLEAN /\ broken' \in BOOLEAN /\ ready' \in BOOLEAN
      /\ proc'.n >= 1
      /\ ~proc'.up => asked' = <<>>
      /\ ~(reading' /\ broken')
  BY <1>0, <1>1, <1>2 DEF ConnInv
<1>9. \A u \in Tasks : pc'[u] \in {"stop", "spawn"} => ~reading'
  BY <1>1
<1>10. \A u \in Tasks : pc'[u] = "spawn" => ~proc'.up /\ (broken' => pc'[Main] = "gone")
  BY <1>0, <1>2, <1>4, <1>5 DEF ConnInv
<1>11. \A u \in Tasks \ {Main} : pc'[u] \in {"ready", "nested"} => proc'.n >= 2
  BY <1>0, <1>2, <1>4 DEF ConnInv
<1>12. proc'.n >= 2 /\ pc'[Main] # "idle" => pc'[Refresher] # "queued"
  BY <1>0, <1>2, <1>6, <1>7 DEF ConnInv
<1>13. proc'.n >= 2 => \A u \in Tasks : pc'[u] = "reply" =>
         broken' /\ ~reading' /\ reply'[u].is \in {"open", "failed"}
  BY <1>0, <1>1, <1>2, <1>3, <1>4 DEF ConnInv
<1> QED BY <1>1, <1>2, <1>8, <1>9, <1>10, <1>11, <1>12, <1>13 DEF ConnInv

\* Who starts the connection has the lock.
LEMMA ConnStart ==
    ASSUME Inv, NEW t \in Tasks,
           Start(t) \/ SpawnFails(t) \/ StartTimeout(t) \/ (t = Refresher /\ ReconnectCancelled)
    PROVE  ConnInv'
<1> USE TaskNames
<1>0. TaskInv /\ ConnInv /\ LockInv
  BY DEF Inv
<1>1. CASE Reconnect(t)
  <2>1. /\ broken /\ ~proc.up /\ broken' = FALSE /\ ready' = FALSE
        /\ proc' = proc /\ reading' = reading /\ asked' = asked /\ reply' = reply
        /\ holder = None
    BY <1>1 DEF Reconnect, Spawning, tmux, Free, Turn
  <2>2. pc'[t] = "spawn" /\ \A u \in Tasks : u # t => pc'[u] = pc[u]
    BY <1>0, <1>1 DEF Reconnect, Go, TaskInv
  <2>3. pc[t] \in {"call", "ensure"} /\ t # Main
    BY <1>0, <1>1 DEF Reconnect, TaskInv
  <2>4. \A u \in Tasks : ~Holding(u)
    BY <2>1, Sole
  <2> QED BY <1>0, <2>1, <2>2, <2>3, <2>4 DEF ConnInv, Holding
<1>2. CASE ReconnectStops(t)
  <2>1. /\ broken /\ UNCHANGED conn /\ asked' = asked /\ reply' = reply /\ holder = None
        /\ t # Refresher
    BY <1>2 DEF ReconnectStops, tmux, Free, Turn
  <2>2. /\ pc[t] \in {"call", "ensure"} /\ t # Main
        /\ pc'[t] = "stop" /\ pc'[Refresher] = "idle"
        /\ \A u \in Tasks \ {t, Refresher} : pc'[u] = pc[u]
    BY <1>0, <1>2, <2>1 DEF ReconnectStops, TaskInv
  <2>3. \A u \in Tasks : ~Holding(u)
    BY <2>1, Sole
  <2> QED BY <1>0, <2>1, <2>2, <2>3 DEF ConnInv, Holding, conn
<1>3. CASE Stopped(t)
  <2>1. /\ proc' = [proc EXCEPT !.up = FALSE] /\ asked' = <<>>
        /\ broken' = FALSE /\ ready' = FALSE /\ reading' = reading /\ reply' = reply
    BY <1>3 DEF Stopped, Spawning
  <2>2. pc'[t] = "spawn" /\ \A u \in Tasks : u # t => pc'[u] = pc[u]
    BY <1>0, <1>3 DEF Stopped, Go, TaskInv
  <2>3. pc[t] = "stop" /\ t # Main
    BY <1>0, <1>3 DEF Stopped, TaskInv
  <2>4. \A u \in Tasks : u # t => ~Holding(u)
    BY <2>3, Sole DEF Holding
  <2>5. proc' \in [n : Nat, up : BOOLEAN] /\ proc'.n = proc.n /\ ~proc'.up
    BY <1>0, <2>1 DEF ConnInv
  <2> QED BY <1>0, <2>1, <2>2, <2>3, <2>4, <2>5 DEF ConnInv, Holding
<1>4. CASE Spawned(t)
  <2>1. /\ proc' = [n |-> proc.n + 1, up |-> TRUE] /\ reading' = TRUE
        /\ UNCHANGED <<broken, ready, asked, reply>>
    BY <1>4 DEF Spawned
  <2>2. pc'[t] = "ready" /\ \A u \in Tasks : u # t => pc'[u] = pc[u]
    BY <1>0, <1>4 DEF Spawned, Go, TaskInv
  <2>3. pc[t] = "spawn" /\ t # Main
    BY <1>0, <1>4 DEF Spawned, TaskInv
  <2>4. \A u \in Tasks : u # t => ~Holding(u)
    BY <2>3, Sole DEF Holding
  <2>5. proc' \in [n : Nat, up : BOOLEAN] /\ proc'.n >= 2 /\ proc'.up
    BY <1>0, <2>1 DEF ConnInv
  <2>6. broken' => pc'[Main] = "gone"
    BY <1>0, <2>1, <2>2, <2>3 DEF ConnInv
  <2>7. \A u \in Tasks : pc'[u] \notin {"stop", "spawn", "reply"}
    BY <2>2, <2>4 DEF Holding
  <2>8. pc'[Main] # "idle" => pc'[Refresher] # "queued"
    BY <1>0, <2>2, <2>3 DEF TaskInv, Tasks
  <2> QED BY <1>0, <2>1, <2>2, <2>3, <2>5, <2>6, <2>7, <2>8 DEF ConnInv
<1>5. CASE SpawnFails(t) \/ StartFails(t) \/ (t = Refresher /\ ReconnectCancelled)
  <2>1. PICK label \in {"idle", "gone"} : pc' = [pc EXCEPT ![t] = label]
    BY <1>0, <1>5, FailsMoves DEF SpawnFails, StartFails, ReconnectCancelled, Go
  <2>2. reply' = reply /\ \A u \in Tasks : pc'[u] = "reply" => pc[u] = "reply"
    BY <1>0, <1>5, <2>1 DEF SpawnFails, StartFails, ReconnectCancelled, TaskInv
  <2>3. CASE SpawnFails(t) \/ StartFails(t)
    <3>1. UNCHANGED conn /\ asked' = asked
      BY <2>3 DEF SpawnFails, StartFails, tmux
    <3>2. pc[t] \in {"spawn", "ready"}
          /\ (pc[t] = "ready" /\ t # Main => broken \/ ~proc.up)
      BY <2>3 DEF SpawnFails, StartFails
    <3>3. ~proc.up => asked' = <<>>
      BY <1>0, <3>1 DEF ConnInv
    <3> QED BY <2>1, <2>2, <3>1, <3>2, <3>3, ConnMoves
  <2>4. CASE t = Refresher /\ ReconnectCancelled
    <3>1. /\ proc' = [proc EXCEPT !.up = FALSE] /\ asked' = <<>> /\ broken
          /\ UNCHANGED <<reading, broken, ready>>
          /\ pc[t] \in {"call", "ensure"}
      BY <2>4 DEF ReconnectCancelled
    <3>2. proc' \in [n : Nat, up : BOOLEAN] /\ proc'.n = proc.n /\ ~proc'.up
      BY <1>0, <3>1 DEF ConnInv
    <3>3. \A u \in Tasks : pc'[u] = pc[u] \/ pc'[u] \in {"idle", "gone"}
      BY <1>0, <2>1 DEF TaskInv
    <3>4. pc'[Main] = pc[Main]
      BY <1>0, <2>1, <2>4 DEF TaskInv
    <3> QED BY <1>0, <2>2, <2>4, <3>1, <3>2, <3>3, <3>4 DEF ConnInv
  <2> QED BY <1>5, <2>3, <2>4
<1>6. CASE Ready(t)
  <2>1. UNCHANGED conn /\ asked' = asked /\ reply' = reply /\ pc[t] = "ready" /\ t # Main
    BY <1>6 DEF Ready, tmux
  <2>2. pc'[t] = "nested" /\ \A u \in Tasks : u # t => pc'[u] = pc[u]
    BY <1>0, <1>6 DEF Ready, Go, TaskInv
  <2> QED BY <1>0, <2>1, <2>2 DEF ConnInv, conn
<1>7. CASE StartTimeout(t)
  <2>1. PICK label \in {"idle", "gone"} : pc' = [pc EXCEPT ![t] = label]
                                          /\ (t = Main => label = "gone")
    BY <1>0, <1>7, FailsMoves DEF StartTimeout, TaskInv
  <2>2. /\ ReaderEnds /\ pc[t] = "ready" /\ asked' = <<>>
        /\ proc' = [proc EXCEPT !.up = FALSE]
    BY <1>7 DEF StartTimeout
  <2> QED BY <2>1, <2>2, ReaderEndsConn
<1> QED BY <1>1, <1>2, <1>3, <1>4, <1>5, <1>6, <1>7 DEF Start

\* Every step keeps the connection accounted for.
LEMMA ConnStep == ASSUME Inv, Next PROVE ConnInv'
<1> USE TaskNames
<1>0. TaskInv /\ ConnInv
  BY DEF Inv
<1>1. CASE Produce \/ Answer \/ Rename \/ ReadOutput
  <2>1. UNCHANGED conn /\ pc' = pc /\ reply' = reply /\ (asked' = asked \/ proc.up)
    BY <1>1 DEF Produce, Answer, Rename, ReadOutput, tasks
  <2> QED BY <1>0, <2>1 DEF ConnInv, conn
<1>2. CASE Die
  <2>1. /\ proc' = [proc EXCEPT !.up = FALSE] /\ asked' = <<>>
        /\ UNCHANGED <<reading, broken, ready, reply, pc>>
    BY <1>2 DEF Die, tasks
  <2>2. proc' \in [n : Nat, up : BOOLEAN] /\ proc'.n = proc.n /\ ~proc'.up
    BY <1>0, <2>1 DEF ConnInv
  <2> QED BY <1>0, <2>1, <2>2 DEF ConnInv
<1>3. CASE ReadWindow
  <2>1. UNCHANGED conn /\ asked' = asked /\ reply' = reply
        /\ (pc' = pc \/ (pc[Refresher] = "idle" /\ pc' = [pc EXCEPT ![Refresher] = "call"]))
    BY <1>3 DEF ReadWindow, Go
  <2>2. CASE pc' = pc
    BY <1>0, <2>1, <2>2 DEF ConnInv, conn
  <2>3. CASE pc[Refresher] = "idle" /\ pc' = [pc EXCEPT ![Refresher] = "call"]
    <3>1. \A u \in Tasks : pc'[u] = "reply" => pc[u] = "reply"
      BY <1>0, <2>3 DEF TaskInv
    <3>2. ~proc.up => asked' = <<>>
      BY <1>0, <2>1 DEF ConnInv
    <3> QED BY <2>1, <2>3, <3>1, <3>2, ConnMoves
  <2> QED BY <2>1, <2>2, <2>3
<1>4. CASE ReadReply
  <2>1. /\ ready' = TRUE /\ UNCHANGED <<proc, reading, broken, asked, pc>> /\ reading
        /\ pending = <<>> => reply' = reply
    BY <1>4 DEF ReadReply, Reads, tasks
  <2>2. proc.n >= 2 => pending = <<>>
    BY <1>0, <2>1, Awaiting DEF ConnInv
  <2> QED BY <1>0, <2>1, <2>2 DEF ConnInv
<1>5. CASE EndOfStream \/ StreamFails
  <2>1. ReaderEnds /\ reading /\ UNCHANGED <<proc, asked, pc>>
    BY <1>5 DEF EndOfStream, StreamFails, tasks
  <2> QED BY <1>0, <2>1, ReaderEndsConn DEF ConnInv
<1> QED BY <1>1, <1>2, <1>3, <1>4, <1>5, ConnStart, ConnTalk DEF Next, Reader, Run, Faults

-----------------------------------------------------------------------------
(* Replies *)

\* The places of a sequence to which something is appended, and of its tail.
LEMMA AppendPlaces ==
    ASSUME NEW S, NEW s \in Seq(S), NEW e \in S
    PROVE  /\ Append(s, e) \in Seq(S) /\ Append(s, e) # <<>>
           /\ Len(s) \in Nat /\ DOMAIN s = 1 .. Len(s)
           /\ DOMAIN Append(s, e) = 1 .. Len(s) + 1
           /\ \A i \in DOMAIN s : Append(s, e)[i] = s[i]
           /\ Append(s, e)[Len(s) + 1] = e
           /\ s # <<>> => 1 \in DOMAIN s
<1>1. Len(s) \in Nat /\ DOMAIN s = 1 .. Len(s)
  BY LenProperties
<1>2. s # <<>> => Len(s) # 0
  BY EmptySeq
<1>3. Append(s, e)[Len(s) + 1] = e /\ Len(s) + 1 \in DOMAIN Append(s, e)
  BY <1>1, AppendProperties
<1> QED BY <1>1, <1>2, <1>3, AppendProperties

\* The places of what is left of a sequence when its head is taken.
LEMMA TailPlaces ==
    ASSUME NEW S, NEW s \in Seq(S), s # <<>>
    PROVE  /\ Tail(s) \in Seq(S) /\ Head(s) \in S /\ Head(s) = s[1]
           /\ Len(s) \in Nat /\ DOMAIN s = 1 .. Len(s) /\ 1 \in DOMAIN s
           /\ \A i \in DOMAIN Tail(s) : i \in Nat /\ i + 1 \in DOMAIN s /\ Tail(s)[i] = s[i + 1]
           /\ \A i \in DOMAIN s \ {1} : i - 1 \in DOMAIN Tail(s) /\ Tail(s)[i - 1] = s[i]
<1>1. Len(s) \in Nat /\ DOMAIN s = 1 .. Len(s) /\ Head(s) = s[1]
  BY LenProperties
<1>2. /\ Tail(s) \in Seq(S) /\ Head(s) \in S
      /\ Len(Tail(s)) = Len(s) - 1
      /\ \A i \in 1 .. Len(Tail(s)) : Tail(s)[i] = s[i + 1]
  BY HeadTailProperties
<1>3. DOMAIN Tail(s) = 1 .. Len(s) - 1
  BY <1>2, LenProperties
<1>4. Len(s) # 0
  BY EmptySeq
<1>5. ASSUME NEW i \in DOMAIN s \ {1} PROVE i - 1 \in DOMAIN Tail(s) /\ Tail(s)[i - 1] = s[i]
  <2>1. i - 1 \in 1 .. Len(s) - 1 /\ (i - 1) + 1 = i
    BY <1>1, <1>5
  <2> QED BY <1>2, <1>3, <2>1
<1> QED BY <1>1, <1>2, <1>3, <1>4, <1>5

\* Tasks that await a reply still do, or got one that is none.
LEMMA MatchKept ==
    ASSUME Inv,
           \A t \in Tasks : pc'[t] = "reply" =>
             \/ pc[t] = "reply" /\ doing'[t] = doing[t] /\ reply'[t] = reply[t]
             \/ reply'[t].is \in {"open", "failed"}
    PROVE  AnswersMatch'
BY DEF Inv, ReplyInv, AnswersMatch, Answered

\* Once out of step, no reply matters any more.
LEMMA ReplyOut ==
    ASSUME Inv, ~InStep', AnswersMatch',
           asked' \in Seq([to : Tasks, want : Command]), stream' \in Seq(Event)
    PROVE  ReplyInv'
BY DEF ReplyInv

\* A step that has nothing to do with commands or replies.
LEMMA ReplySame ==
    ASSUME Inv, UNCHANGED <<asked, stream, pending, published>>,
           InStep' => InStep /\ ready' = ready /\ (~ready => pc' = pc),
           InStep' /\ pending # <<>> => holder' = holder /\ doing'[holder] = doing[holder],
           AnswersMatch'
    PROVE  ReplyInv'
<1>1. (Attaching /\ pc' = pc => Attaching') /\ (Quiet => Quiet')
  BY DEF Attaching, Quiet, Replied
<1>2. holder' = holder /\ doing'[holder] = doing[holder] /\ Owed => Owed'
  BY DEF Owed, Replied
<1> QED BY <1>1, <1>2 DEF Inv, ReplyInv

\* The command that a task writes is the one whose reply is owed.
LEMMA ReplyWritten ==
    ASSUME Inv, NEW t \in Tasks, CallNow(t) \/ CallGranted(t)
    PROVE  ReplyInv'
<1> USE TaskNames
<1>0. TaskInv /\ ReplyInv
  BY DEF Inv
<1>1. PICK want \in Command :
        /\ Write(t, want) /\ Go(t, "reply", want)
        /\ pc[t] \in {"call", "ready", "queued"} /\ (pc[t] = "ready" => t = Main /\ ready)
        /\ Take(t) /\ UNCHANGED <<conn, stream, published>>
  <2>1. CASE CallNow(t)
    <3>1. pc[t] \in {"call", "ready"} /\ (pc[t] = "ready" => t = Main /\ ready)
          /\ doing[t] # "leave"
      BY <2>1 DEF CallNow, Connected
    <3>2. First(doing[t]) \in Command
      BY <3>1, Awake DEF First, Errand, Command
    <3> QED BY <2>1, <3>1, <3>2 DEF CallNow, history
  <2>2. CASE CallGranted(t)
    <3>1. doing[t] \in Command
      BY <2>2, Awake DEF CallGranted
    <3> QED BY <2>2, <3>1 DEF CallGranted, history
  <2> QED BY <2>1, <2>2
<1>2. proc.up /\ holder = None /\ pending = <<>> /\ holder' = t
  BY <1>1, WriteConn, NoneAwaits DEF Take
<1>3. pending' = <<t>> /\ reply' = [reply EXCEPT ![t] = Open]
      /\ asked' = Append(asked, [to |-> t, want |-> want])
  BY <1>1, <1>2 DEF Write
<1>4. asked' \in Seq([to : Tasks, want : Command])
  BY <1>0, <1>3, AppendProperties DEF ReplyInv
<1>5. AnswersMatch'
  <2>1. \A u \in Tasks : pc'[u] = "reply" =>
          \/ pc[u] = "reply" /\ doing'[u] = doing[u] /\ reply'[u] = reply[u]
          \/ reply'[u].is \in {"open", "failed"}
    BY <1>0, <1>1, <1>3, Replies DEF Go, TaskInv, Inv, PendingInv
  <2> QED BY <2>1, MatchKept
<1>6. doing'[t] = want
  BY <1>0, <1>1 DEF Go, TaskInv
<1>7. ASSUME InStep' PROVE ready' /\ Owed'
  <2>1. InStep /\ ready' = ready
    BY <1>1, <1>7 DEF InStep, conn
  <2>2. ready
    <3>1. SUFFICES ASSUME Attaching PROVE ready
      BY <1>0, <2>1 DEF ReplyInv
    <3> QED BY <1>1, <3>1 DEF Attaching
  <2>3. Quiet
    BY <1>0, <1>2, <2>1, <2>2 DEF ReplyInv
  <2>4. asked' = <<[to |-> t, want |-> want]>>
    BY <1>3, <2>3 DEF Quiet
  <2> QED BY <1>1, <1>2, <1>6, <2>1, <2>2, <2>3, <2>4 DEF Owed, Quiet, Replied
<1> QED BY <1>0, <1>1, <1>3, <1>4, <1>5, <1>7 DEF ReplyInv

\* Only a task that writes a command comes to await a reply.
LEMMA TaskMatch ==
    ASSUME Inv, NEW t \in Tasks,
           \A u \in Tasks : u # t => pc'[u] = pc[u] /\ doing'[u] = doing[u],
           pc'[t] # "reply" \/ (pc'[t] = pc[t] /\ doing'[t] = doing[t]),
           \A u \in Tasks : reply'[u] = reply[u] \/ reply'[u].is \in {"open", "failed"}
                            \/ (u = t /\ pc'[t] # "reply")
    PROVE  AnswersMatch'
BY MatchKept

\* In step, no task is about to start the connection.
LEMMA InStepStill ==
    ASSUME Inv, InStep
    PROVE  /\ ~broken
           /\ \A t \in Tasks : pc[t] \notin {"stop", "spawn", "nested"}
           /\ \A t \in Tasks : pc[t] = "ready" => t = Main
<1>1. ~broken
  BY DEF Inv, ConnInv, InStep
<1>2. \A t \in Tasks : pc[t] \notin {"stop", "spawn"}
  BY DEF Inv, ConnInv, InStep
<1>3. \A t \in Tasks \ {Main} : pc[t] \notin {"ready", "nested"}
  BY DEF Inv, ConnInv, InStep
<1>4. pc[Main] # "nested"
  BY DEF Inv, TaskInv
<1> QED BY <1>1, <1>2, <1>3, <1>4

\* Starting a connection, replies and commands stay in step, or no longer matter.
LEMMA ReplyStart ==
    ASSUME Inv, NEW t \in Tasks,
           Start(t) \/ SpawnFails(t) \/ StartTimeout(t) \/ (t = Refresher /\ ReconnectCancelled)
    PROVE  ReplyInv'
<1> USE TaskNames
<1>0. TaskInv /\ ReplyInv /\ ConnInv /\ PendingInv
  BY DEF Inv
<1>1. CASE ReconnectStops(t)
  <2>1. /\ UNCHANGED <<asked, stream, pending, published, reply, conn>>
        /\ holder = None /\ broken /\ pc[t] \in {"call", "ensure"} /\ t # Refresher
        /\ pc' = [pc EXCEPT ![t] = "stop", ![Refresher] = "idle"]
        /\ doing' = [doing EXCEPT ![Refresher] = "none"]
    BY <1>1 DEF ReconnectStops, tmux, history, Free, Turn
  <2>2. ~InStep'
    BY <2>1, InStepStill DEF InStep, conn
  <2>3. \A u \in Tasks : pc'[u] = "reply" => u # Refresher /\ pc[u] = "reply"
    BY <1>0, <2>1 DEF TaskInv
  <2>4. \A u \in Tasks : pc'[u] = "reply" =>
          pc[u] = "reply" /\ doing'[u] = doing[u] /\ reply'[u] = reply[u]
    BY <1>0, <2>1, <2>3 DEF TaskInv
  <2> QED BY <1>0, <2>1, <2>2, <2>4, MatchKept, ReplyOut DEF ReplyInv
<1>2. CASE ~ReconnectStops(t)
  <2>1. /\ \A u \in Tasks : u # t => pc'[u] = pc[u] /\ doing'[u] = doing[u]
        /\ pc'[t] # "reply"
    <3>1. CASE SpawnFails(t) \/ StartFails(t) \/ StartTimeout(t)
      BY <1>0, <3>1, FailsMoves DEF SpawnFails, StartFails, StartTimeout, TaskInv
    <3>2. CASE Reconnect(t) \/ Stopped(t) \/ Spawned(t) \/ Ready(t)
               \/ (t = Refresher /\ ReconnectCancelled)
      BY <1>0, <3>2 DEF Reconnect, Stopped, Spawned, Ready, ReconnectCancelled, Go, TaskInv
    <3> QED BY <1>2, <3>1, <3>2 DEF Start
  <2>2. \A u \in Tasks : reply'[u] = reply[u] \/ reply'[u].is \in {"open", "failed"}
    <3>1. CASE StartTimeout(t)
      BY <3>1, PendingFailed, Replies DEF StartTimeout
    <3>2. CASE ~StartTimeout(t)
      BY <1>2, <3>2 DEF Start, Reconnect, Stopped, Spawned, Ready, StartFails, SpawnFails,
                        ReconnectCancelled
    <3> QED BY <3>1, <3>2
  <2>3. AnswersMatch'
    BY <2>1, <2>2, TaskMatch
  <2>4. CASE StartFails(t)
    <3>1. /\ UNCHANGED <<asked, stream, pending, published, conn>>
          /\ pc[t] = "ready" /\ ready
      BY <2>4 DEF StartFails, tmux, history
    <3>2. InStep' => InStep /\ ready' = ready
      BY <3>1 DEF InStep, conn
    <3>3. InStep /\ pending # <<>> => holder' = holder /\ doing'[holder] = doing[holder]
      <4> SUFFICES ASSUME InStep, pending # <<>>
                   PROVE  holder' = holder /\ doing'[holder] = doing[holder]
        OBVIOUS
      <4>1. t = Main
        BY <3>1, InStepStill
      <4>2. holder' = holder /\ holder # t
        BY <2>4, <3>1, <4>1, Awaiting DEF StartFails, lock
      <4> QED BY <2>1, <4>2, Awaiting
    <3> QED BY <2>3, <3>1, <3>2, <3>3, ReplySame
  <2>5. CASE ~StartFails(t)
    <3>1. ~InStep'
      <4>1. CASE Spawned(t)
        BY <1>0, <4>1 DEF Spawned, InStep, ConnInv
      <4>2. CASE StartTimeout(t)
        BY <4>2 DEF StartTimeout, ReaderEnds, InStep
      <4>3. CASE Reconnect(t) \/ Stopped(t) \/ Ready(t) \/ SpawnFails(t)
                 \/ (t = Refresher /\ ReconnectCancelled)
        <5>1. ~InStep
          BY <4>3, InStepStill DEF Reconnect, Stopped, Ready, SpawnFails, ReconnectCancelled
        <5>2. reading' = reading /\ proc'.n = proc.n
          BY <1>0, <4>3 DEF Reconnect, Stopped, Ready, SpawnFails, ReconnectCancelled, conn, ConnInv
        <5> QED BY <5>1, <5>2 DEF InStep
      <4> QED BY <1>2, <2>5, <4>1, <4>2, <4>3 DEF Start
    <3>2. asked' \in Seq([to : Tasks, want : Command])
      <4>1. asked' = asked \/ asked' = <<>>
        BY <1>2, <2>5 DEF Start, Reconnect, Stopped, Spawned, Ready, SpawnFails, StartTimeout,
                          ReconnectCancelled, tmux
      <4>2. <<>> \in Seq([to : Tasks, want : Command])
        OBVIOUS
      <4> QED BY <1>0, <4>1, <4>2 DEF ReplyInv
    <3>3. stream' \in Seq(Event)
      <4>1. stream' = stream \/ stream' = <<>> \/ stream' = <<Hello>>
        BY <1>2, <2>5 DEF Start, Reconnect, Stopped, Spawned, Ready, SpawnFails, StartTimeout,
                          ReaderEnds, ReconnectCancelled, tmux
      <4>2. <<Hello>> \in Seq(Event) /\ <<>> \in Seq(Event)
        BY Replies
      <4> QED BY <1>0, <4>1, <4>2 DEF ReplyInv
    <3> QED BY <2>3, <3>1, <3>2, <3>3, ReplyOut
  <2> QED BY <2>4, <2>5
<1> QED BY <1>1, <1>2

\* Whatever tasks do with the lock, replies and commands stay in step.
LEMMA ReplyTalk ==
    ASSUME Inv, NEW t \in Tasks, Talk(t) \/ (t \in Viewers /\ (Handle(t) \/ Client(t)))
    PROVE  ReplyInv'
<1> USE TaskNames
<1>0. TaskInv /\ ReplyInv /\ ConnInv /\ PendingInv
  BY DEF Inv
<1>1. CASE CallNow(t) \/ CallGranted(t)
  BY <1>1, ReplyWritten
<1>2. CASE t \in Viewers /\ Forward(t)
  <2>1. UNCHANGED <<asked, stream, pending, published, conn, pc, doing, holder, reply>>
    BY <1>2 DEF Forward, tmux, tasks, lock
  <2>2. AnswersMatch' /\ (InStep' => InStep) /\ ready' = ready
    BY <1>0, <2>1 DEF ReplyInv, AnswersMatch, Answered, InStep, conn
  <2> QED BY <2>1, <2>2, ReplySame
<1>3. CASE ~(CallNow(t) \/ CallGranted(t) \/ (t \in Viewers /\ Forward(t)))
  <2>1. UNCHANGED <<asked, stream, pending, published, conn>>
    BY <1>3 DEF Talk, Handle, Client, EnsureWaits, EnsureMended, CallLater, CallFails, CallReset, Done,
                Refused, Captured, Snapshot, Unsubscribe, Ask, Disconnect, tmux, history
  <2>2. /\ \A u \in Tasks : u # t => pc'[u] = pc[u] /\ doing'[u] = doing[u]
        /\ pc'[t] # "reply"
    <3>1. CASE CallFails(t) \/ CallReset(t) \/ Refused(t)
      <4>1. PICK known \in BOOLEAN : Fails(t, known)
        BY <3>1 DEF CallFails, CallReset, Refused
      <4> QED BY <1>0, <4>1, FailsMoves DEF TaskInv
    <3>2. CASE EnsureWaits(t) \/ EnsureMended(t) \/ CallLater(t) \/ Done(t)
      BY <1>0, <3>2 DEF EnsureWaits, EnsureMended, CallLater, Done, Go, TaskInv
    <3>3. CASE t \in Viewers /\ (Captured(t) \/ Snapshot(t) \/ Unsubscribe(t) \/ Disconnect(t)
                                 \/ \E errand : Ask(t, errand))
      BY <1>0, <3>3 DEF Captured, Snapshot, Unsubscribe, Disconnect, Ask, Go, TaskInv
    <3> QED BY <1>3, <3>1, <3>2, <3>3 DEF Talk, Handle, Client
  <2>3. reply' = reply \/ reply' = [reply EXCEPT ![t] = NoReply]
    BY <1>3 DEF Talk, Handle, Client, EnsureWaits, EnsureMended, CallLater, CallFails, CallReset, Done,
                Refused, Captured, Snapshot, Unsubscribe, Ask, Disconnect, Forget
  <2>4. AnswersMatch'
    BY <1>0, <2>2, <2>3, TaskMatch DEF PendingInv
  <2>5. InStep' => InStep /\ ready' = ready
    BY <2>1 DEF InStep, conn
  <2>6. pending # <<>> => holder' = holder /\ doing'[holder] = doing[holder]
    <3> SUFFICES ASSUME pending # <<>> PROVE holder' = holder /\ doing'[holder] = doing[holder]
      OBVIOUS
    <3>1. t # holder
      <4>1. pc[t] = "reply" => \E is \in {{"ok"}, {"error", "failed"}, {"ok", "error"}} : Answered(t, is)
        BY <1>3 DEF Talk, Handle, Client, EnsureWaits, EnsureMended, CallLater, CallFails, CallReset,
                    Done, Refused, Captured, Snapshot, Unsubscribe, Ask, Disconnect, Connected
      <4> QED BY <4>1, Awaiting
    <3>3. ~Holding(t)
      BY <3>1, Awaiting
    <3>4. holder' = holder
      BY <1>3, <3>3 DEF Talk, Handle, Client, EnsureWaits, EnsureMended, CallLater, CallFails, CallReset,
           Done, Refused, Captured, Snapshot, Unsubscribe, Ask, Disconnect, Queue, lock, Answered, Holding
    <3> QED BY <2>2, <3>1, <3>4, Awaiting
  <2>7. InStep /\ ~ready => pc' = pc
    <3> SUFFICES ASSUME InStep, ~ready PROVE FALSE
      OBVIOUS
    <3>1. Attaching
      BY <1>0 DEF ReplyInv
    <3>2. pc[t] \in {"idle", "ready"} /\ (pc[t] = "ready" => t = Main) /\ pc[Main] = "ready"
      BY <3>1 DEF Attaching
    <3> QED BY <1>3, <3>2 DEF Talk, Handle, Client, EnsureWaits, EnsureMended, CallLater, CallFails,
           CallReset, Done, Refused, Captured, Snapshot, Unsubscribe, Ask, Disconnect, Connected,
           Answered, Serving
  <2> QED BY <2>1, <2>4, <2>5, <2>6, <2>7, ReplySame
<1> QED BY <1>1, <1>2, <1>3

\* tmux writes something that is no reply.
LEMMA ReplyAppended ==
    ASSUME Inv, NEW e \in Event, e.kind # "reply", stream' = Append(stream, e),
           UNCHANGED <<asked, pending, published, conn, pc, doing, reply, holder>>
    PROVE  ReplyInv'
<1>0. ReplyInv
  BY DEF Inv
<1>1. /\ stream' \in Seq(Event) /\ stream' # <<>>
      /\ Len(stream) \in Nat /\ DOMAIN stream = 1 .. Len(stream)
      /\ DOMAIN stream' = 1 .. Len(stream) + 1
      /\ \A i \in DOMAIN stream : stream'[i] = stream[i]
      /\ stream'[Len(stream) + 1] = e
      /\ stream # <<>> => 1 \in DOMAIN stream
  BY <1>0, AppendPlaces DEF ReplyInv
<1>2. \A i \in DOMAIN stream' : Replied(i)' => i \in DOMAIN stream /\ Replied(i)
  BY <1>1 DEF Replied
<1>3. (Attaching => Attaching') /\ (Quiet => Quiet')
  BY <1>1, <1>2 DEF Attaching, Quiet
<1>4. Owed => Owed'
  BY <1>1, <1>2 DEF Owed
<1>5. AnswersMatch' /\ (InStep' => InStep) /\ ready' = ready
  BY <1>0 DEF ReplyInv, AnswersMatch, Answered, InStep, conn
<1> QED BY <1>0, <1>1, <1>3, <1>4, <1>5 DEF ReplyInv

\* The reader takes something that is no reply.
LEMMA ReplyTail ==
    ASSUME Inv, stream # <<>>, Head(stream).kind # "reply", stream' = Tail(stream),
           UNCHANGED <<asked, pending, conn, reply, holder>>,
           \A t \in Tasks : pc'[t] = "reply" => pc[t] = "reply",
           \A t \in Tasks : pc[t] = "reply" => doing'[t] = doing[t]
    PROVE  ReplyInv'
<1>0. ReplyInv
  BY DEF Inv
<1>1. /\ stream' \in Seq(Event) /\ Head(stream) = stream[1]
      /\ \A i \in DOMAIN stream' : i \in Nat /\ i + 1 \in DOMAIN stream /\ stream'[i] = stream[i + 1]
  BY <1>0, TailPlaces DEF ReplyInv
<1>2. \A i \in DOMAIN stream' : Replied(i)' => i + 1 \in DOMAIN stream /\ Replied(i + 1)
  BY <1>1 DEF Replied
<1>3. ~Attaching
  BY <1>1, Replies DEF Attaching
<1>4. Quiet => Quiet'
  BY <1>2 DEF Quiet
<1>5. pending # <<>> /\ Owed => Owed'
  <2> SUFFICES ASSUME pending # <<>>, Owed PROVE Owed'
    OBVIOUS
  <2>1. holder' = holder /\ doing'[holder] = doing[holder]
    BY Awaiting
  <2>2. \A i, j \in DOMAIN stream' : Replied(i)' /\ Replied(j)' => i = j
    <3> SUFFICES ASSUME NEW i \in DOMAIN stream', NEW j \in DOMAIN stream', Replied(i)', Replied(j)'
                 PROVE  i = j
      OBVIOUS
    <3>1. i + 1 = j + 1 /\ i \in Nat /\ j \in Nat
      BY <1>1, <1>2 DEF Owed
    <3> QED BY <3>1
  <2> QED BY <1>1, <1>2, <2>1, <2>2 DEF Owed
<1>6. AnswersMatch' /\ (InStep' => InStep) /\ ready' = ready
  BY <1>0, MatchKept DEF InStep, conn
<1> QED BY <1>0, <1>1, <1>3, <1>4, <1>5, <1>6 DEF ReplyInv

\* tmux answers: the command it answers is the one that awaits its reply.
LEMMA ReplyAnswer == ASSUME Inv, Answer PROVE ReplyInv'
<1>0. ReplyInv
  BY DEF Inv
<1>1. PICK is \in {"ok", "error"} :
        /\ asked # <<>> /\ asked' = Tail(asked)
        /\ stream' = Append(stream, Said([is |-> is, to |-> Head(asked).to,
                                          want |-> Head(asked).want, shot |-> screen]))
        /\ UNCHANGED <<pending, conn, pc, doing, reply, holder>>
  BY DEF Answer, tasks, lock
<1>2. PICK r : r = [is |-> is, to |-> Head(asked).to, want |-> Head(asked).want, shot |-> screen]
  OBVIOUS
<1>3. Head(asked) \in [to : Tasks, want : Command] /\ asked' \in Seq([to : Tasks, want : Command])
  BY <1>0, <1>1, TailPlaces DEF ReplyInv
<1>4. r \in Reply
  BY <1>2, <1>3 DEF Reply, Inv, OutputInv
<1>5. Said(r) \in Event /\ Said(r).reply = r
  BY <1>4, Replies
<1>6. /\ stream' \in Seq(Event)
      /\ Len(stream) \in Nat /\ DOMAIN stream = 1 .. Len(stream)
      /\ DOMAIN stream' = 1 .. Len(stream) + 1
      /\ \A i \in DOMAIN stream : stream'[i] = stream[i]
      /\ stream'[Len(stream) + 1] = Said(r)
  BY <1>0, <1>1, <1>2, <1>5, AppendPlaces DEF ReplyInv
<1>7. AnswersMatch' /\ (InStep' => InStep) /\ ready' = ready
  BY <1>0, <1>1 DEF ReplyInv, AnswersMatch, Answered, InStep, conn
<1>8. ASSUME InStep PROVE ready /\ pending # <<>> /\ Owed'
  <2>1. ready /\ pending # <<>> /\ Owed
    BY <1>0, <1>1, <1>8 DEF ReplyInv, Attaching, Quiet
  <2>2. asked = <<[to |-> holder, want |-> doing[holder]]>>
    BY <1>1, <2>1 DEF Owed
  <2>3. asked' = <<>> /\ r.to = holder /\ r.want = doing[holder]
    BY <1>1, <1>2, <2>2
  <2>4. \A i \in DOMAIN stream : ~Replied(i)
    BY <1>1, <2>1 DEF Owed
  <2>5. \A i \in DOMAIN stream' : Replied(i)' => i = Len(stream) + 1
    BY <1>6, <2>4 DEF Replied
  <2> QED BY <1>1, <1>5, <1>6, <2>1, <2>3, <2>5 DEF Owed
<1> QED BY <1>1, <1>3, <1>6, <1>7, <1>8 DEF ReplyInv

\* The reader takes a reply: that to the attach, or that of the command that
\* awaits it.
LEMMA ReplyRead == ASSUME Inv, ReadReply PROVE ReplyInv'
<1>0. ReplyInv /\ ConnInv
  BY DEF Inv
<1>1. /\ reading /\ stream # <<>> /\ Head(stream).kind = "reply"
      /\ stream' = Tail(stream) /\ ready' = TRUE
      /\ UNCHANGED <<proc, reading, asked, pc, doing, holder>>
      /\ IF pending = <<>> THEN UNCHANGED <<pending, reply>>
         ELSE /\ pending' = Tail(pending)
              /\ reply' = [reply EXCEPT ![Head(pending)] = Head(stream).reply]
  BY DEF ReadReply, Reads, tasks, lock
<1>2. /\ stream' \in Seq(Event) /\ Head(stream) = stream[1] /\ Head(stream) \in Event
      /\ 1 \in DOMAIN stream
      /\ \A i \in DOMAIN stream' : i \in Nat /\ i + 1 \in DOMAIN stream /\ stream'[i] = stream[i + 1]
  BY <1>0, <1>1, TailPlaces DEF ReplyInv
<1>3. Replied(1)
  BY <1>1, <1>2 DEF Replied
<1>4. ASSUME asked = <<>>, \A i \in DOMAIN stream : Replied(i) => i = 1 PROVE Quiet'
  <2>1. \A i \in DOMAIN stream' : Replied(i)' => i + 1 = 1 /\ i \in Nat
    BY <1>2, <1>4 DEF Replied
  <2>2. \A i \in DOMAIN stream' : i # 0
    BY <1>2, LenProperties
  <2> QED BY <1>1, <1>4, <2>1, <2>2 DEF Quiet
<1>5. CASE pending = <<>>
  <2>1. AnswersMatch' /\ pending' = <<>>
    BY <1>0, <1>1, <1>5 DEF ReplyInv, AnswersMatch, Answered
  <2>2. ASSUME InStep PROVE Quiet'
    <3>1. Attaching
      BY <1>0, <1>2, <1>3, <1>5, <2>2 DEF ReplyInv, Quiet
    <3> QED BY <1>4, <3>1 DEF Attaching
  <2> QED BY <1>0, <1>1, <1>2, <2>1, <2>2 DEF ReplyInv, InStep
<1>6. CASE pending # <<>>
  <2>1. /\ holder \in Tasks /\ pending = <<holder>> /\ pc[holder] = "reply"
    BY <1>6, Awaiting
  <2>2. InStep
    BY <1>0, <1>1, <2>1 DEF ConnInv, InStep
  <2>3. ready /\ Owed
    BY <1>0, <1>6, <2>2 DEF ReplyInv, Attaching
  <2>4. asked = <<>> /\ stream[1].reply.to = holder /\ stream[1].reply.want = doing[holder]
    BY <1>2, <1>3, <2>3 DEF Owed
  <2>5. \A i \in DOMAIN stream : Replied(i) => i = 1
    BY <1>2, <1>3, <2>3 DEF Owed
  <2>6. pending' = <<>> /\ reply' = [reply EXCEPT ![holder] = stream[1].reply]
    BY <1>1, <1>2, <1>6, <2>1
  <2>7. AnswersMatch'
    BY <1>0, <1>1, <2>1, <2>4, <2>6 DEF ReplyInv, AnswersMatch, Answered, Inv, PendingInv
  <2> QED BY <1>0, <1>1, <1>2, <1>4, <2>4, <2>5, <2>6, <2>7 DEF ReplyInv
<1> QED BY <1>5, <1>6

\* Replies and commands stay in step.
LEMMA ReplyStep == ASSUME Inv, Next PROVE ReplyInv'
<1> USE TaskNames
<1>0. ReplyInv /\ TaskInv /\ OutputInv
  BY DEF Inv
<1>1. CASE Produce \/ Rename
  <2>1. /\ \E e \in Event : e.kind # "reply" /\ stream' = Append(stream, e)
        /\ UNCHANGED <<asked, pending, published, conn, pc, doing, reply, holder>>
    <3>1. CASE Produce
      <4>1. Out(screen + 1) \in Event /\ Out(screen + 1).kind = "output"
        BY <1>0, Replies DEF OutputInv
      <4> QED BY <3>1, <4>1 DEF Produce, tasks, lock, history
    <3>2. CASE Rename
      BY <3>2, Replies DEF Rename, tasks, lock, history
    <3> QED BY <1>1, <3>1, <3>2
  <2> QED BY <2>1, ReplyAppended
<1>2. CASE ReadOutput \/ ReadWindow
  <2>1. /\ stream # <<>> /\ Head(stream).kind # "reply" /\ stream' = Tail(stream)
        /\ UNCHANGED <<asked, pending, conn, reply, holder>>
    BY <1>2 DEF ReadOutput, ReadWindow, Reads, lock
  <2>2. /\ \A t \in Tasks : pc'[t] = "reply" => pc[t] = "reply"
        /\ \A t \in Tasks : pc[t] = "reply" => doing'[t] = doing[t]
    BY <1>0, <1>2 DEF ReadOutput, ReadWindow, Go, tasks, TaskInv
  <2> QED BY <2>1, <2>2, ReplyTail
<1>3. CASE Die
  <2>1. /\ asked' = <<>> /\ proc'.n = proc.n
        /\ UNCHANGED <<stream, pending, published, reading, ready, pc, doing, reply, holder>>
    BY <1>3 DEF Die, tasks, lock, history, Inv, ConnInv
  <2>2. (Attaching => Attaching') /\ (Quiet => Quiet') /\ (Owed => Owed')
    BY <2>1 DEF Attaching, Quiet, Owed, Replied
  <2>3. AnswersMatch' /\ (InStep' => InStep)
    BY <1>0, <2>1 DEF ReplyInv, AnswersMatch, Answered, InStep
  <2>4. asked' \in Seq([to : Tasks, want : Command])
    BY <2>1
  <2> QED BY <1>0, <2>1, <2>2, <2>3, <2>4 DEF ReplyInv
<1>4. CASE EndOfStream \/ StreamFails
  <2>1. ReaderEnds /\ UNCHANGED <<asked, pc, doing>>
    BY <1>4 DEF EndOfStream, StreamFails, tasks
  <2>2. ~InStep' /\ stream' = <<>>
    BY <2>1 DEF ReaderEnds, InStep
  <2>3. AnswersMatch'
    BY <2>1, PendingFailed, Replies, MatchKept
  <2>4. stream' \in Seq(Event)
    BY <2>2
  <2> QED BY <1>0, <2>1, <2>2, <2>3, <2>4, ReplyOut DEF ReplyInv
<1> QED BY <1>1, <1>2, <1>3, <1>4, ReplyAnswer, ReplyRead, ReplyStart, ReplyTalk
        DEF Next, Reader, Run, Faults

-----------------------------------------------------------------------------
(* The output of the pane *)

\* The output is where it was, or nobody reads it.
LEMMA OutputSame ==
    ASSUME Inv, UNCHANGED <<screen, published>>,
           InStep' => InStep /\ stream' = stream /\ ready' = ready
    PROVE  OutputInv'
BY DEF Inv, OutputInv, Written, Replied

\* tmux writes an output, or a reply or a notice, which is none.
LEMMA OutputAppended ==
    ASSUME Inv, NEW e \in Event, stream' = Append(stream, e), UNCHANGED <<published, conn>>,
           \/ e.kind = "output" /\ e.n = screen + 1 /\ screen' = screen + 1
           \/ e.kind = "reply" /\ e.reply.shot = screen /\ screen' = screen
           \/ e.kind = "window" /\ screen' = screen
    PROVE  OutputInv'
<1>0. OutputInv /\ ReplyInv
  BY DEF Inv
<1>1. /\ Len(stream) \in Nat /\ DOMAIN stream = 1 .. Len(stream)
      /\ DOMAIN stream' = 1 .. Len(stream) + 1
      /\ \A i \in DOMAIN stream : stream'[i] = stream[i]
      /\ stream'[Len(stream) + 1] = e
  BY <1>0, AppendPlaces DEF ReplyInv
<1>2. screen \in Nat /\ published \in Nat /\ screen' \in {screen, screen + 1} /\ published' = published
  BY <1>0 DEF OutputInv
<1>3. (InStep' <=> InStep) /\ ready' = ready
  BY DEF InStep, conn
<1>4. \A i \in DOMAIN stream' : Written(i)' =>
        \/ i \in DOMAIN stream /\ Written(i)
        \/ i = Len(stream) + 1 /\ e.n = screen + 1 /\ screen' = screen + 1
  BY <1>1 DEF Written
<1>5. \A i \in DOMAIN stream' : Replied(i)' =>
        \/ i \in DOMAIN stream /\ Replied(i)
        \/ i = Len(stream) + 1 /\ e.reply.shot = screen /\ screen' = screen
  BY <1>1 DEF Replied
<1>6. ASSUME InStep, NEW i \in DOMAIN stream', Written(i)'
      PROVE  stream'[i].n \in published + 1 .. screen'
  BY <1>0, <1>1, <1>2, <1>4, <1>6 DEF OutputInv
<1>7. ASSUME InStep, NEW i \in DOMAIN stream', NEW j \in DOMAIN stream', i < j, Written(i)', Written(j)'
      PROVE  stream'[i].n < stream'[j].n
  <2>1. i \in DOMAIN stream /\ Written(i) /\ stream[i].n \in published + 1 .. screen
    BY <1>0, <1>1, <1>4, <1>7 DEF OutputInv
  <2> QED BY <1>0, <1>1, <1>2, <1>4, <1>7, <2>1 DEF OutputInv
<1>8. ASSUME InStep, NEW m \in published + 1 .. screen'
      PROVE  \E i \in DOMAIN stream' : Written(i)' /\ stream'[i].n = m
  <2>1. CASE m \in published + 1 .. screen
    <3>1. PICK i \in DOMAIN stream : Written(i) /\ stream[i].n = m
      BY <1>0, <1>8, <2>1 DEF OutputInv
    <3> QED BY <1>1, <3>1 DEF Written
  <2>2. CASE m \notin published + 1 .. screen
    <3>1. m = screen + 1 /\ screen' = screen + 1
      BY <1>2, <1>8, <2>2
    <3>2. e.kind = "output" /\ e.n = screen + 1
      BY <1>2, <3>1
    <3> QED BY <1>1, <3>1, <3>2 DEF Written
  <2> QED BY <2>1, <2>2
<1>9. ASSUME InStep, ready, NEW i \in DOMAIN stream', Replied(i)'
      PROVE  /\ stream'[i].reply.shot \in published .. screen'
             /\ \A j \in DOMAIN stream' : Written(j)' =>
                  IF j < i THEN stream'[j].n <= stream'[i].reply.shot
                           ELSE stream'[j].n > stream'[i].reply.shot
  <2>0. published <= screen
    BY <1>0, <1>9 DEF OutputInv
  <2>1. CASE i \in DOMAIN stream /\ Replied(i)
    <3>1. stream'[i].reply.shot = stream[i].reply.shot /\ stream[i].reply.shot \in published .. screen
      BY <1>0, <1>1, <1>9, <2>1 DEF OutputInv
    <3>2. ASSUME NEW j \in DOMAIN stream, Written(j)
          PROVE  IF j < i THEN stream[j].n <= stream[i].reply.shot
                          ELSE stream[j].n > stream[i].reply.shot
      BY <1>0, <1>9, <2>1, <3>2 DEF OutputInv
    <3>3. ASSUME NEW j \in DOMAIN stream', Written(j)', j \notin DOMAIN stream
          PROVE  ~(j < i) /\ stream'[j].n = screen + 1
      BY <1>1, <1>4, <2>1, <3>3
    <3> QED BY <1>1, <1>2, <1>4, <3>1, <3>2, <3>3
  <2>2. CASE i = Len(stream) + 1 /\ e.reply.shot = screen /\ screen' = screen
    <3>1. \A j \in DOMAIN stream' : Written(j)' =>
            j \in DOMAIN stream /\ stream[j].n \in published + 1 .. screen
      BY <1>0, <1>2, <1>4, <1>9, <2>2 DEF OutputInv
    <3> QED BY <1>1, <1>2, <2>0, <2>2, <3>1
  <2> QED BY <1>5, <1>9, <2>1, <2>2
<1>10. InStep => published <= screen'
  BY <1>0, <1>2 DEF OutputInv
<1> QED BY <1>2, <1>3, <1>6, <1>7, <1>8, <1>9, <1>10 DEF OutputInv

\* The next output that the reader takes is the one after the last it took.
LEMMA OutputNext ==
    ASSUME Inv, InStep, Reads("output")
    PROVE  Head(stream).n = published + 1
<1>1. /\ 1 \in DOMAIN stream /\ Head(stream) = stream[1] /\ Written(1)
      /\ DOMAIN stream = 1 .. Len(stream) /\ Len(stream) \in Nat
  BY TailPlaces DEF Reads, Written, Inv, ReplyInv
<1>2. stream[1].n \in published + 1 .. screen /\ published \in Nat /\ screen \in Nat
  BY <1>1 DEF Inv, OutputInv
<1>3. PICK i \in DOMAIN stream : Written(i) /\ stream[i].n = published + 1
  BY <1>2 DEF Inv, OutputInv
<1>4. i # 1 => stream[1].n < stream[i].n
  BY <1>1, <1>3 DEF Inv, OutputInv
<1> QED BY <1>1, <1>2, <1>3, <1>4

\* The reader takes something.
LEMMA OutputTail ==
    ASSUME Inv, reading, stream # <<>>, stream' = Tail(stream), UNCHANGED <<screen, proc, reading>>,
           \/ Head(stream).kind = "output" /\ published' = Head(stream).n /\ ready' = ready
           \/ Head(stream).kind = "window" /\ published' = published /\ ready' = ready
           \/ Head(stream).kind = "reply" /\ published' = published /\ ready' = TRUE
    PROVE  OutputInv'
<1>0. OutputInv /\ ReplyInv
  BY DEF Inv
<1>1. /\ Head(stream) = stream[1] /\ Head(stream) \in Event
      /\ DOMAIN stream = 1 .. Len(stream) /\ Len(stream) \in Nat /\ 1 \in DOMAIN stream
      /\ \A i \in DOMAIN stream' : i \in Nat /\ i + 1 \in DOMAIN stream /\ stream'[i] = stream[i + 1]
      /\ \A i \in DOMAIN stream \ {1} : i - 1 \in DOMAIN stream' /\ stream'[i - 1] = stream[i]
  BY <1>0, TailPlaces DEF ReplyInv
<1>2. screen \in Nat /\ published \in Nat /\ published' \in Nat /\ screen' = screen
  BY <1>0, <1>1 DEF OutputInv, Event
<1>3. InStep' <=> InStep
  BY DEF InStep
<1>4. \A i \in DOMAIN stream' : /\ Written(i)' <=> Written(i + 1)
                                /\ Replied(i)' <=> Replied(i + 1)
                                /\ i \in Nat \ {0}
  BY <1>1, LenProperties DEF Written, Replied
<1>5. ASSUME InStep
      PROVE  \/ Written(1) /\ published' = published + 1 /\ stream[1].n = published + 1
             \/ ~Written(1) /\ published' = published
  BY <1>1, <1>5, OutputNext DEF Written, Reads
<1>6. ASSUME InStep, NEW i \in DOMAIN stream', Written(i)'
      PROVE  stream'[i].n \in published' + 1 .. screen
  <2>1. i + 1 \in DOMAIN stream /\ Written(i + 1) /\ 1 < i + 1 /\ stream'[i] = stream[i + 1]
    BY <1>1, <1>4, <1>6
  <2>2. stream[i + 1].n \in published + 1 .. screen
    BY <1>0, <1>6, <2>1 DEF OutputInv
  <2>3. Written(1) => stream[1].n < stream[i + 1].n
    BY <1>0, <1>1, <1>6, <2>1 DEF OutputInv
  <2> QED BY <1>2, <1>5, <1>6, <2>1, <2>2, <2>3
<1>7. ASSUME InStep, NEW i \in DOMAIN stream', NEW j \in DOMAIN stream', i < j, Written(i)', Written(j)'
      PROVE  stream'[i].n < stream'[j].n
  <2>1. i + 1 \in DOMAIN stream /\ j + 1 \in DOMAIN stream /\ i + 1 < j + 1
        /\ Written(i + 1) /\ Written(j + 1)
    BY <1>1, <1>4, <1>7
  <2> QED BY <1>0, <1>1, <1>7, <2>1 DEF OutputInv
<1>8. ASSUME InStep, NEW m \in published' + 1 .. screen
      PROVE  \E i \in DOMAIN stream' : Written(i)' /\ stream'[i].n = m
  <2>0. PICK p \in Nat : p = published'
    BY <1>2
  <2>1. m \in published + 1 .. screen
    <3>1. p >= published
      BY <1>2, <1>5, <1>8, <2>0
    <3>2. m \in p + 1 .. screen
      BY <1>8, <2>0
    <3>3. m \in Int /\ p + 1 <= m /\ m <= screen
      BY <1>2, <3>2
    <3> QED BY <1>2, <3>1, <3>3
  <2>2. PICK i \in DOMAIN stream : Written(i) /\ stream[i].n = m
    BY <1>0, <1>8, <2>1 DEF OutputInv
  <2>3. i # 1
    <3>1. SUFFICES ASSUME i = 1 PROVE FALSE
      OBVIOUS
    <3>2. p = m
      BY <1>5, <1>8, <2>0, <2>2, <3>1
    <3> QED BY <1>2, <1>8, <2>0, <3>2
  <2>4. i - 1 \in DOMAIN stream' /\ stream'[i - 1] = stream[i]
    BY <1>1, <2>3
  <2> QED BY <2>2, <2>4 DEF Written
<1>9. InStep => published' <= screen
  <2>1. InStep /\ Written(1) => stream[1].n \in published + 1 .. screen
    BY <1>0, <1>1 DEF OutputInv
  <2> QED BY <1>0, <1>2, <1>5, <2>1 DEF OutputInv
<1>10. ASSUME InStep, ready', NEW i \in DOMAIN stream', Replied(i)'
       PROVE  /\ stream'[i].reply.shot \in published' .. screen
              /\ \A j \in DOMAIN stream' : Written(j)' =>
                   IF j < i THEN stream'[j].n <= stream'[i].reply.shot
                            ELSE stream'[j].n > stream'[i].reply.shot
  <2>1. i + 1 \in DOMAIN stream /\ Replied(i + 1) /\ 1 < i + 1 /\ stream'[i] = stream[i + 1]
    BY <1>1, <1>4, <1>10
  <2>2. ready
    <3>1. ~Attaching
      BY <2>1 DEF Attaching
    <3> QED BY <1>0, <1>10, <3>1 DEF ReplyInv
  <2>3. /\ stream[i + 1].reply.shot \in published .. screen
        /\ \A j \in DOMAIN stream : Written(j) =>
             IF j < i + 1 THEN stream[j].n <= stream[i + 1].reply.shot
                          ELSE stream[j].n > stream[i + 1].reply.shot
    BY <1>0, <1>10, <2>1, <2>2 DEF OutputInv
  <2>4. stream'[i].reply.shot \in published' .. screen
    BY <1>1, <1>2, <1>5, <1>10, <2>1, <2>3
  <2>5. ASSUME NEW j \in DOMAIN stream', Written(j)'
        PROVE  IF j < i THEN stream'[j].n <= stream'[i].reply.shot
                        ELSE stream'[j].n > stream'[i].reply.shot
    <3>1. j + 1 \in DOMAIN stream /\ Written(j + 1) /\ stream'[j] = stream[j + 1]
          /\ (j < i <=> j + 1 < i + 1)
      BY <1>1, <1>4, <2>5
    <3> QED BY <2>1, <2>3, <3>1
  <2> QED BY <2>4, <2>5
<1> QED BY <1>2, <1>3, <1>6, <1>7, <1>8, <1>9, <1>10 DEF OutputInv

\* Every step keeps the output in order.
LEMMA OutputStep == ASSUME Inv, Next PROVE OutputInv'
<1> USE TaskNames
<1>0. OutputInv /\ ConnInv /\ ReplyInv
  BY DEF Inv
<1>1. CASE Produce
  <2>1. Out(screen + 1) \in Event /\ Out(screen + 1).kind = "output" /\ Out(screen + 1).n = screen + 1
    BY <1>0, Replies DEF OutputInv
  <2>2. /\ stream' = Append(stream, Out(screen + 1)) /\ screen' = screen + 1
        /\ UNCHANGED <<published, conn>>
    BY <1>1 DEF Produce, history
  <2> QED BY <2>1, <2>2, OutputAppended
<1>2. CASE Answer
  <2>1. PICK is \in {"ok", "error"} :
          /\ asked # <<>> /\ UNCHANGED <<published, conn, screen>>
          /\ stream' = Append(stream, Said([is |-> is, to |-> Head(asked).to,
                                            want |-> Head(asked).want, shot |-> screen]))
    BY <1>2 DEF Answer, history
  <2>2. PICK r : r = [is |-> is, to |-> Head(asked).to, want |-> Head(asked).want, shot |-> screen]
    OBVIOUS
  <2>3. Head(asked) \in [to : Tasks, want : Command]
    BY <1>0, <2>1, TailPlaces DEF ReplyInv
  <2>4. r \in Reply /\ r.shot = screen
    BY <1>0, <2>2, <2>3 DEF Reply, OutputInv
  <2>5. Said(r) \in Event /\ Said(r).kind = "reply" /\ Said(r).reply = r
    BY <2>4, Replies
  <2> QED BY <2>1, <2>2, <2>4, <2>5, OutputAppended
<1>3. CASE Rename
  BY <1>3, Replies, OutputAppended DEF Rename, history
<1>4. CASE ReadOutput \/ ReadWindow \/ ReadReply
  <2>1. /\ reading /\ stream # <<>> /\ stream' = Tail(stream)
        /\ UNCHANGED <<screen, proc, reading>>
        /\ \/ Head(stream).kind = "output" /\ published' = Head(stream).n /\ ready' = ready
           \/ Head(stream).kind = "window" /\ published' = published /\ ready' = ready
           \/ Head(stream).kind = "reply" /\ published' = published /\ ready' = TRUE
    BY <1>4 DEF ReadOutput, ReadWindow, ReadReply, Reads, conn, history
  <2> QED BY <2>1, OutputTail
<1>5. CASE Die \/ EndOfStream \/ StreamFails
  BY <1>0, <1>5, OutputSame DEF Die, EndOfStream, StreamFails, ReaderEnds, history, InStep, ConnInv
<1>6. ASSUME NEW t \in Tasks,
             Start(t) \/ SpawnFails(t) \/ StartTimeout(t) \/ (t = Refresher /\ ReconnectCancelled)
      PROVE  OutputInv'
  <2>1. UNCHANGED <<screen, published>>
    BY <1>6 DEF Start, Reconnect, ReconnectStops, Stopped, Spawned, Ready, StartFails, SpawnFails,
                StartTimeout, ReconnectCancelled, tmux, history
  <2>2. CASE Reconnect(t) \/ Stopped(t)
    <3>1. ~InStep /\ reading' = reading /\ proc'.n = proc.n
      BY <1>0, <2>2, InStepStill DEF Reconnect, Stopped, ConnInv
    <3> QED BY <2>1, <3>1, OutputSame DEF InStep
  <2>3. CASE Spawned(t)
    BY <1>0, <2>1, <2>3, OutputSame DEF Spawned, InStep, ConnInv
  <2>4. CASE StartTimeout(t)
    BY <2>1, <2>4, OutputSame DEF StartTimeout, ReaderEnds, InStep
  <2>5. CASE \/ ReconnectStops(t) \/ Ready(t) \/ StartFails(t) \/ SpawnFails(t)
             \/ t = Refresher /\ ReconnectCancelled
    <3>1. stream' = stream /\ ready' = ready /\ reading' = reading /\ proc'.n = proc.n
      BY <1>0, <2>5 DEF ReconnectStops, Ready, StartFails, SpawnFails, ReconnectCancelled, tmux,
                        conn, ConnInv
    <3> QED BY <2>1, <3>1, OutputSame DEF InStep
  <2> QED BY <1>6, <2>2, <2>3, <2>4, <2>5 DEF Start
<1>7. ASSUME NEW t \in Tasks, Talk(t) \/ (t \in Viewers /\ (Handle(t) \/ Client(t)))
      PROVE  OutputInv'
  <2>1. UNCHANGED <<screen, published, stream, conn>>
    BY <1>7 DEF Talk, Handle, Client, EnsureWaits, EnsureMended, CallNow, CallLater, CallFails,
                CallGranted, CallReset, Done, Refused, Captured, Snapshot, Unsubscribe, Ask, Forward,
                Disconnect, tmux, history
  <2> QED BY <2>1, OutputSame DEF InStep, conn
<1> QED BY <1>1, <1>2, <1>3, <1>4, <1>5, <1>6, <1>7 DEF Next, Reader, Run, Faults

-----------------------------------------------------------------------------
(* What viewers are sent *)

\* The places of a sequence with something put in front.
LEMMA FrontPlaces ==
    ASSUME NEW S, NEW e \in S, NEW s \in Seq(S)
    PROVE  /\ <<e>> \o s \in Seq(S) /\ <<e>> \o s # <<>>
           /\ Len(s) \in Nat /\ DOMAIN s = 1 .. Len(s)
           /\ Len(<<e>> \o s) = Len(s) + 1
           /\ (<<e>> \o s)[1] = e
           /\ \A i \in 1 .. Len(s) : (<<e>> \o s)[i + 1] = s[i]
<1>1. /\ <<e>> \in Seq(S) /\ Len(<<e>>) = 1 /\ <<e>>[1] = e
  OBVIOUS
<1>2. Len(s) \in Nat /\ DOMAIN s = 1 .. Len(s)
  BY LenProperties
<1>3. /\ <<e>> \o s \in Seq(S) /\ Len(<<e>> \o s) = 1 + Len(s)
      /\ \A i \in 1 .. 1 + Len(s) : (<<e>> \o s)[i] = IF i <= 1 THEN <<e>>[i] ELSE s[i - 1]
  BY <1>1, <1>2, ConcatProperties
<1>4. ASSUME NEW i \in 1 .. Len(s) PROVE (<<e>> \o s)[i + 1] = s[i]
  <2>1. i + 1 \in 1 .. 1 + Len(s) /\ ~(i + 1 <= 1) /\ (i + 1) - 1 = i
    BY <1>2, <1>4
  <2> QED BY <1>3, <2>1
<1>5. (<<e>> \o s)[1] = e
  BY <1>1, <1>2, <1>3
<1>6. <<e>> \o s # <<>>
  BY <1>2, <1>3
<1> QED BY <1>2, <1>3, <1>4, <1>5, <1>6

\* What is put in front and what is put behind do not meet.
LEMMA FrontAssoc ==
    ASSUME NEW S, NEW e \in S, NEW s \in Seq(S), NEW t \in Seq(S)
    PROVE  <<e>> \o (s \o t) = (<<e>> \o s) \o t
<1> DEFINE st == s \o t
           es == <<e>> \o s
<1>1. /\ Len(s) \in Nat /\ Len(t) \in Nat
      /\ st \in Seq(S) /\ Len(st) = Len(s) + Len(t)
      /\ \A i \in 1 .. Len(s) + Len(t) : st[i] = IF i <= Len(s) THEN s[i] ELSE t[i - Len(s)]
  BY LenProperties, ConcatProperties
<1>2. /\ es \in Seq(S) /\ Len(es) = Len(s) + 1 /\ es[1] = e
      /\ \A i \in 1 .. Len(s) : es[i + 1] = s[i]
  BY FrontPlaces
<1> HIDE DEF st, es
<1> DEFINE l == <<e>> \o st
           r == es \o t
<1>3. /\ l \in Seq(S) /\ Len(l) = Len(st) + 1 /\ l[1] = e
      /\ \A i \in 1 .. Len(st) : l[i + 1] = st[i]
  BY <1>1, FrontPlaces
<1>4. /\ r \in Seq(S) /\ Len(r) = Len(es) + Len(t)
      /\ \A i \in 1 .. Len(es) + Len(t) : r[i] = IF i <= Len(es) THEN es[i] ELSE t[i - Len(es)]
  BY <1>1, <1>2, ConcatProperties
<1> HIDE DEF l, r
<1>5. Len(l) = Len(r)
  BY <1>1, <1>2, <1>3, <1>4
<1>6. ASSUME NEW i \in 1 .. Len(l) PROVE l[i] = r[i]
  <2>1. CASE i = 1
    BY <1>1, <1>2, <1>3, <1>4, <2>1
  <2>2. CASE i # 1
    <3>1. PICK j \in 1 .. Len(st) : i = j + 1
      <4>1. i - 1 \in 1 .. Len(st) /\ i = (i - 1) + 1
        BY <1>1, <1>3, <1>6, <2>2
      <4> QED BY <4>1
    <3>2. l[i] = st[j]
      BY <1>3, <3>1
    <3>3. CASE j <= Len(s)
      <4>1. j \in 1 .. Len(s) /\ i \in 1 .. Len(es) + Len(t) /\ i <= Len(es) /\ st[j] = s[j]
        BY <1>1, <1>2, <3>1, <3>3
      <4>2. r[i] = es[j + 1]
        BY <1>4, <3>1, <4>1
      <4> QED BY <1>2, <3>2, <4>1, <4>2
    <3>4. CASE ~(j <= Len(s))
      <4>1. /\ i \in 1 .. Len(es) + Len(t) /\ ~(i <= Len(es)) /\ i - Len(es) = j - Len(s)
            /\ st[j] = t[j - Len(s)]
        BY <1>1, <1>2, <3>1, <3>4
      <4>2. r[i] = t[i - Len(es)]
        BY <1>4, <4>1
      <4> QED BY <3>2, <4>1, <4>2
    <3> QED BY <3>3, <3>4
  <2> QED BY <2>1, <2>2
<1>7. l = r
  BY <1>3, <1>4, <1>5, <1>6, SeqEqual
<1> QED BY <1>7 DEF l, r, st, es

\* Items.
LEMMA Items ==
    /\ \A n \in Nat : Data(n) \in Item /\ Data(n).kind = "output" /\ Data(n).n = n
    /\ \A n \in Nat : Shot(n) \in Item /\ Shot(n).kind = "snapshot" /\ Shot(n).n = n
    /\ ErrorEvent \in Item /\ ErrorEvent.kind = "error"
BY DEF Data, Shot, ErrorEvent, Item

\* Where one sequence without gaps continues another, there is none.
LEMMA GapJoin ==
    ASSUME NEW s \in Seq(Item), NEW t \in Seq(Item), s # <<>>, t # <<>>,
           Gapless(s), Gapless(t), Follows(s[Len(s)], t[1])
    PROVE  Gapless(s \o t) /\ (s \o t)[Len(s \o t)] = t[Len(t)]
<1> DEFINE u == s \o t
<1>1. Len(s) \in Nat \ {0} /\ Len(t) \in Nat \ {0}
  BY LenProperties, EmptySeq
<1>2. /\ u \in Seq(Item) /\ Len(u) = Len(s) + Len(t)
      /\ \A i \in 1 .. Len(s) + Len(t) : u[i] = IF i <= Len(s) THEN s[i] ELSE t[i - Len(s)]
  BY <1>1, ConcatProperties
<1> HIDE DEF u
<1>3. ASSUME NEW i \in 2 .. Len(u) PROVE Follows(u[i - 1], u[i])
  <2>1. i \in 1 .. Len(s) + Len(t) /\ i - 1 \in 1 .. Len(s) + Len(t)
    BY <1>1, <1>2, <1>3
  <2>2. CASE i <= Len(s)
    <3>1. i \in 2 .. Len(s) /\ u[i] = s[i] /\ u[i - 1] = s[i - 1]
      BY <1>1, <1>2, <1>3, <2>1, <2>2
    <3> QED BY <3>1 DEF Gapless
  <2>3. CASE i = Len(s) + 1
    <3>1. u[i] = t[1] /\ u[i - 1] = s[Len(s)]
      BY <1>1, <1>2, <2>1, <2>3
    <3> QED BY <3>1
  <2>4. CASE i > Len(s) + 1
    <3>1. PICK j \in 2 .. Len(t) : j = i - Len(s)
      BY <1>1, <1>2, <1>3, <2>4
    <3>2. u[i] = t[j]
      BY <1>1, <1>2, <2>1, <2>4, <3>1
    <3>3. (i - 1) - Len(s) = j - 1 /\ ~(i - 1 <= Len(s))
      BY <1>1, <1>3, <2>4, <3>1
    <3>4. u[i - 1] = t[j - 1]
      BY <1>2, <2>1, <3>3
    <3> QED BY <3>2, <3>4 DEF Gapless
  <2> QED BY <1>1, <1>3, <2>2, <2>3, <2>4
<1>4. u[Len(u)] = t[Len(t)]
  <2>1. Len(u) \in 1 .. Len(s) + Len(t) /\ ~(Len(u) <= Len(s)) /\ Len(u) - Len(s) = Len(t)
    BY <1>1, <1>2
  <2> QED BY <1>2, <2>1
<1> QED BY <1>3, <1>4 DEF Gapless, u

\* More is sent to a viewer.
LEMMA GapSent ==
    ASSUME NEW n \in Nat, NEW q \in Seq(Item), NEW t \in Seq(Item), t # <<>>, Gapless(t),
           LET w == <<Data(n)>> \o q IN Gapless(w) /\ Follows(w[Len(w)], t[1])
    PROVE  LET w == <<Data(n)>> \o (q \o t) IN Gapless(w) /\ w[Len(w)] = t[Len(t)]
<1>1. <<Data(n)>> \o (q \o t) = (<<Data(n)>> \o q) \o t
  BY Items, FrontAssoc
<1>2. <<Data(n)>> \o q \in Seq(Item) /\ <<Data(n)>> \o q # <<>>
  BY Items, FrontPlaces
<1> QED BY <1>1, <1>2, GapJoin

\* The terminal is shown the next item.
LEMMA GapShown ==
    ASSUME NEW n \in Nat, NEW q \in Seq(Item), q # <<>>, Gapless(<<Data(n)>> \o q)
    PROVE  LET w == <<Data(n)>> \o q
               z == <<Data(Head(q).n)>> \o Tail(q)
           IN  Head(q).n \in Nat /\ Gapless(z) /\ z[Len(z)].n = w[Len(w)].n
<1> DEFINE w == <<Data(n)>> \o q
           z == <<Data(Head(q).n)>> \o Tail(q)
<1>1. /\ Tail(q) \in Seq(Item) /\ Head(q) \in Item /\ Head(q) = q[1]
      /\ Len(q) \in Nat \ {0} /\ Len(Tail(q)) = Len(q) - 1
      /\ \A i \in 1 .. Len(Tail(q)) : Tail(q)[i] = q[i + 1]
  BY LenProperties, EmptySeq, HeadTailProperties
<1>2. Head(q).n \in Nat
  BY <1>1 DEF Item
<1>3. /\ Len(w) = Len(q) + 1 /\ w[1] = Data(n) /\ \A i \in 1 .. Len(q) : w[i + 1] = q[i]
  BY Items, FrontPlaces
<1>4. /\ Len(z) = Len(Tail(q)) + 1 /\ z[1] = Data(Head(q).n)
      /\ \A i \in 1 .. Len(Tail(q)) : z[i + 1] = Tail(q)[i]
  BY <1>1, <1>2, Items, FrontPlaces
<1>5. Gapless(w)
  OBVIOUS
<1> HIDE DEF w, z
<1>6. w[2] = q[1] /\ z[1].n = w[2].n
  BY <1>1, <1>2, <1>3, <1>4, Items
<1>7. ASSUME NEW i \in 2 .. Len(z) PROVE z[i] = w[i + 1]
  <2>1. PICK j \in 1 .. Len(q) - 1 : i = j + 1
    <3>1. i - 1 \in 1 .. Len(q) - 1 /\ i = (i - 1) + 1
      BY <1>1, <1>4, <1>7
    <3> QED BY <3>1
  <2>2. z[i] = q[j + 1]
    BY <1>1, <1>4, <2>1
  <2>3. j + 1 \in 1 .. Len(q)
    BY <1>1, <2>1
  <2> QED BY <1>3, <2>1, <2>2, <2>3
<1>8. ASSUME NEW i \in 1 .. Len(z) PROVE z[i].n = w[i + 1].n
  BY <1>1, <1>4, <1>6, <1>7, <1>8
<1>9. ASSUME NEW i \in 2 .. Len(z) PROVE Follows(z[i - 1], z[i])
  <2>1. i + 1 \in 2 .. Len(w) /\ i - 1 \in 1 .. Len(z) /\ (i - 1) + 1 = i /\ (i + 1) - 1 = i
    BY <1>1, <1>3, <1>4, <1>9
  <2>2. Follows(w[i], w[i + 1])
    BY <1>5, <2>1 DEF Gapless
  <2>3. z[i - 1].n = w[i].n /\ z[i] = w[i + 1]
    BY <1>7, <1>8, <1>9, <2>1
  <2> QED BY <2>2, <2>3 DEF Follows
<1>10. z[Len(z)].n = w[Len(w)].n
  BY <1>1, <1>3, <1>4, <1>8
<1> QED BY <1>2, <1>9, <1>10 DEF Gapless, w, z

\* The snapshot and what was buffered meanwhile.
LEMMA GapBuffered ==
    ASSUME ViewTypes, NEW v \in Viewers, NEW s \in Nat, NEW p \in Nat,
           \A i \in DOMAIN buffer[v] : buffer[v][i] = p - Len(buffer[v]) + i,
           p - Len(buffer[v]) <= s, s <= p
    PROVE  LET t == <<Shot(s)>> \o Buffered(v)
           IN  /\ t \in Seq(Item) /\ t # <<>> /\ Gapless(t)
               /\ t[1] = Shot(s) /\ t[Len(t)].n = p
               /\ Len(t) = Len(buffer[v]) + 1
<1> DEFINE d == Buffered(v)
           t == <<Shot(s)>> \o d
<1>0. PICK k : k = Len(buffer[v])
  OBVIOUS
<1>1. buffer[v] \in Seq(Nat)
  BY DEF ViewTypes
<1>2. k \in Nat /\ DOMAIN buffer[v] = 1 .. k /\ \A i \in 1 .. k : buffer[v][i] \in Nat
  BY <1>0, <1>1, LenProperties, ElementOfSeq
<1>10. (\A i \in 1 .. k : buffer[v][i] = p - k + i) /\ p - k <= s /\ s <= p
  BY <1>0, <1>2
<1>3. d = [i \in 1 .. k |-> Data(buffer[v][i])]
  BY <1>2 DEF Buffered
<1>4. d \in Seq(Item) /\ Len(d) = k /\ \A i \in 1 .. k : d[i].n = p - k + i
  <2>1. \A i \in 1 .. k : Data(buffer[v][i]) \in Item
    BY <1>2, Items
  <2>2. d \in Seq(Item) /\ Len(d) = k
    BY <1>2, <1>3, <2>1, IsASeq, LenProperties
  <2>3. \A i \in 1 .. k : d[i].n = buffer[v][i]
    BY <1>2, <1>3, Items
  <2> QED BY <1>10, <2>2, <2>3
<1>5. /\ t \in Seq(Item) /\ t # <<>> /\ Len(t) = k + 1 /\ t[1] = Shot(s)
      /\ \A i \in 1 .. k : t[i + 1] = d[i]
  BY <1>4, Items, FrontPlaces
<1> HIDE DEF d, t
<1>6. t[1].n = s
  BY <1>5, Items
<1>7. \A i \in 2 .. k + 1 : t[i].n = p - k + i - 1
  <2> SUFFICES ASSUME NEW i \in 2 .. k + 1 PROVE t[i].n = p - k + i - 1
    OBVIOUS
  <2>1. PICK j \in 1 .. k : i = j + 1
    <3>1. i - 1 \in 1 .. k /\ i = (i - 1) + 1
      BY <1>2
    <3> QED BY <3>1
  <2>2. t[i].n = p - k + j
    BY <1>4, <1>5, <2>1
  <2> QED BY <1>2, <2>1, <2>2
<1>8. ASSUME NEW i \in 2 .. Len(t) PROVE Follows(t[i - 1], t[i])
  <2>1. t[i].n = p - k + i - 1 /\ i \in 2 .. k + 1
    BY <1>5, <1>7, <1>8
  <2>2. CASE i = 2
    <3>1. t[i - 1].n = s /\ t[i].n <= s + 1
      BY <1>2, <1>10, <1>6, <2>1, <2>2
    <3> QED BY <3>1 DEF Follows
  <2>3. CASE i # 2
    <3>1. i - 1 \in 2 .. k + 1
      BY <1>2, <2>1, <2>3
    <3>2. t[i - 1].n = p - k + (i - 1) - 1
      BY <1>7, <3>1
    <3>3. t[i].n <= t[i - 1].n + 1
      BY <1>2, <2>1, <3>2
    <3> QED BY <3>3 DEF Follows
  <2> QED BY <2>2, <2>3
<1>9. t[Len(t)].n = p
  <2>1. CASE k = 0
    BY <1>5, <1>6, <1>10, <2>1
  <2>2. CASE k # 0
    <3>1. k + 1 \in 2 .. k + 1
      BY <1>2, <2>2
    <3> QED BY <1>2, <1>5, <1>7, <3>1
  <2> QED BY <2>1, <2>2
<1> QED BY <1>0, <1>5, <1>8, <1>9 DEF Gapless, t, d

\* Who knows that something was missed keeps knowing it.
LEMMA ExcusedKept ==
    ASSUME ViewTypes, NEW v \in Viewers, Excused(v), missed \subseteq missed', closed \subseteq closed',
           \/ queue'[v] = queue[v]
           \/ \E items \in Seq(Item) : queue'[v] = queue[v] \o items
           \/ v \in missed'
    PROVE  Excused(v)'
<1>1. CASE v \in missed \cup closed \/ queue'[v] = queue[v] \/ v \in missed'
  BY <1>1 DEF Excused
<1>2. ASSUME NEW items \in Seq(Item), queue'[v] = queue[v] \o items,
             NEW i \in DOMAIN queue[v], queue[v][i].kind = "error"
      PROVE  Excused(v)'
  <2>1. queue[v] \in Seq(Item)
    BY DEF ViewTypes
  <2>2. PICK e : e = queue[v][i]
    OBVIOUS
  <2>3. In(queue[v], e)
    BY <1>2, <2>2 DEF In
  <2>4. In(queue[v] \o items, e)
    BY <2>1, <2>3, ConcatIn
  <2> QED BY <1>2, <2>2, <2>4 DEF In, Excused
<1> QED BY <1>1, <1>2 DEF Excused

\* A task goes on; a viewer's handler subscribes, unsubscribes or keeps what it has.
LEMMA ViewMoves ==
    ASSUME Inv, NEW t \in Tasks, UNCHANGED <<queue, seen, closed, missed, published>>,
           \A u \in Viewers : u # t =>
             /\ pc'[u] = pc[u] /\ doing'[u] = doing[u] /\ reply'[u] = reply[u]
             /\ phase'[u] = phase[u] /\ buffer'[u] = buffer[u] /\ shot'[u] = shot[u],
           phase' \in [Viewers -> {"off", "buffering", "live"}],
           buffer' \in [Viewers -> Seq(Nat)], shot' \in [Viewers -> Nat],
           (InStep' <=> InStep), proc.n \in Nat, proc'.n \in Nat, proc'.n >= proc.n,
           t \in Viewers =>
             \/ /\ phase'[t] = phase[t] /\ buffer'[t] = buffer[t]
                /\ (doing'[t] \in {"capture", "cursor"} <=> doing[t] \in {"capture", "cursor"})
                /\ Taken(t)' \subseteq Taken(t)
                /\ (~InStep /\ doing[t] = "capture" /\ proc.n >= 2 => doing'[t] = "capture")
             \/ phase'[t] = "off" /\ doing'[t] \notin {"capture", "cursor"}
             \/ /\ phase'[t] = "buffering" /\ buffer'[t] = <<>>
                /\ doing'[t] = "capture" /\ Taken(t)' = {}
                /\ (~InStep => proc.n >= 2)
    PROVE  ViewInv'
<1>0. ViewInv
  BY DEF Inv
<1>1. ViewTypes'
  BY <1>0 DEF ViewInv, ViewTypes
<1>2. ASSUME NEW v \in Viewers
      PROVE  phase'[v] = "buffering" <=> doing'[v] \in {"capture", "cursor"}
  <2>1. CASE v # t
    BY <1>0, <2>1 DEF ViewInv
  <2>2. CASE v = t
    BY <1>0, <2>2 DEF ViewInv
  <2> QED BY <2>1, <2>2
<1>3. ASSUME NEW v \in Viewers, ~Excused(v)' PROVE Follower(v)'
  <2>1. Follower(v)
    BY <1>0, <1>3 DEF ViewInv, Excused
  <2>2. Waiting(v)' = Waiting(v)
    BY DEF Waiting
  <2>3. CASE v # t
    <3>1. Taken(v)' = Taken(v)
      BY <2>3 DEF Taken
    <3> QED BY <2>1, <2>2, <2>3, <3>1 DEF Follower
  <2>4. CASE v = t /\ phase'[t] = "off"
    BY <2>1, <2>2, <2>4 DEF Follower
  <2>5. CASE /\ v = t /\ phase'[t] = phase[t] /\ buffer'[t] = buffer[t]
             /\ Taken(t)' \subseteq Taken(t)
             /\ (~InStep /\ doing[t] = "capture" /\ proc.n >= 2 => doing'[t] = "capture")
    BY <2>1, <2>2, <2>5 DEF Follower
  <2>6. CASE /\ v = t /\ phase'[t] = "buffering" /\ buffer'[t] = <<>>
             /\ doing'[t] = "capture" /\ Taken(t)' = {}
             /\ (~InStep => proc.n >= 2)
    BY <2>1, <2>2, <2>6 DEF Follower
  <2> QED BY <2>3, <2>4, <2>5, <2>6
<1> QED BY <1>1, <1>2, <1>3 DEF ViewInv

\* The end of the reader: who watches is told, or counts as not told.
LEMMA ViewEnds ==
    ASSUME Inv, ReaderEnds, UNCHANGED <<shot, closed, seen>>, published' \in Nat,
           \/ UNCHANGED <<phase, buffer, doing>>
           \/ \E t \in Tasks : Fails(t, TRUE)
    PROVE  ViewInv'
<1> USE TaskNames
<1>0. ViewInv /\ TaskInv
  BY DEF Inv
<1>1. PICK Told \in SUBSET Viewers : Tell(Told)
  BY DEF ReaderEnds
<1>2. /\ \A v \in Told : phase[v] # "off" /\ Len(queue[v]) # QueueMax
      /\ queue' = [v \in Viewers |-> IF v \in Told THEN Append(queue[v], ErrorEvent) ELSE queue[v]]
      /\ missed' = missed \cup ({v \in Viewers : phase[v] # "off"} \ Told)
  BY <1>1 DEF Tell
<1>3. /\ phase' \in [Viewers -> {"off", "buffering", "live"}]
      /\ buffer' \in [Viewers -> Seq(Nat)]
      /\ \A v \in Viewers : phase'[v] = phase[v] \/ phase'[v] = "off"
      /\ \A v \in Viewers : phase'[v] = "buffering" <=> doing'[v] \in {"capture", "cursor"}
  <2>1. CASE UNCHANGED <<phase, buffer, doing>>
    BY <1>0, <2>1 DEF ViewInv, ViewTypes
  <2>2. ASSUME NEW t \in Tasks, Fails(t, TRUE)
        PROVE  /\ phase' \in [Viewers -> {"off", "buffering", "live"}]
               /\ buffer' \in [Viewers -> Seq(Nat)]
               /\ \A v \in Viewers : phase'[v] = phase[v] \/ phase'[v] = "off"
               /\ \A v \in Viewers : phase'[v] = "buffering" <=> doing'[v] \in {"capture", "cursor"}
    <3>0. PICK known \in BOOLEAN : Fails(t, known)
      BY <2>2
    <3>1. /\ doing'[t] = "none" /\ \A u \in Tasks : u # t => doing'[u] = doing[u]
          /\ \/ phase' = phase /\ buffer' = buffer /\ (t \in Viewers => doing[t] = "keys")
             \/ t \in Viewers /\ Off(t)
      <4>1. /\ doing' = [doing EXCEPT ![t] = "none"]
            /\ \/ phase' = phase /\ buffer' = buffer /\ (t \in Viewers => doing[t] = "keys")
               \/ t \in Viewers /\ Off(t)
        BY <1>0, <3>0, FailsMoves
      <4> QED BY <1>0, <4>1 DEF TaskInv
    <3>2. CASE phase' = phase /\ buffer' = buffer /\ (t \in Viewers => doing[t] = "keys")
      BY <1>0, <3>1, <3>2 DEF ViewInv, ViewTypes
    <3>3. CASE t \in Viewers /\ Off(t)
      <4>1. <<>> \in Seq(Nat)
        OBVIOUS
      <4>2. /\ phase' = [phase EXCEPT ![t] = "off"] /\ buffer' = [buffer EXCEPT ![t] = <<>>]
        BY <3>3 DEF Off
      <4>3. buffer' \in [Viewers -> Seq(Nat)]
        BY <1>0, <4>1, <4>2 DEF ViewInv, ViewTypes
      <4> QED BY <1>0, <3>1, <3>3, <4>2, <4>3 DEF ViewInv, ViewTypes
    <3> QED BY <3>1, <3>2, <3>3
  <2> QED BY <2>1, <2>2
<1>4. ASSUME NEW v \in Viewers
      PROVE  /\ queue'[v] \in Seq(Item) /\ Len(queue'[v]) <= QueueMax
             /\ phase[v] = "off" => queue'[v] = queue[v]
             /\ phase[v] # "off" => Excused(v)'
             /\ Excused(v) => Excused(v)'
  <2>1. queue[v] \in Seq(Item) /\ Len(queue[v]) \in Nat /\ Len(queue[v]) <= QueueMax
    BY <1>0, LenProperties DEF ViewInv, ViewTypes
  <2>2. CASE v \in Told
    <3>1. queue'[v] = Append(queue[v], ErrorEvent)
      BY <1>2, <2>2
    <3>2. /\ queue'[v] \in Seq(Item) /\ Len(queue'[v]) = Len(queue[v]) + 1
          /\ DOMAIN queue'[v] = 1 .. Len(queue[v]) + 1
          /\ queue'[v][Len(queue[v]) + 1] = ErrorEvent
      BY <2>1, <3>1, Items, AppendPlaces, AppendProperties
    <3>3. Excused(v)'
      BY <2>1, <3>2, Items DEF Excused
    <3>4. Len(queue'[v]) <= QueueMax
      BY <1>2, <2>1, <2>2, <3>2, BoundsAssumption
    <3> QED BY <1>2, <2>2, <3>2, <3>3, <3>4
  <2>3. CASE v \notin Told
    BY <1>2, <2>1, <2>3 DEF Excused
  <2> QED BY <2>2, <2>3
<1>5. missed' \subseteq Viewers /\ queue' \in [Viewers -> Seq(Item)]
  BY <1>0, <1>2, <1>4 DEF ViewInv, ViewTypes
<1>6. ViewTypes'
  BY <1>0, <1>3, <1>4, <1>5 DEF ViewInv, ViewTypes
<1>7. ASSUME NEW v \in Viewers, ~Excused(v)' PROVE Follower(v)'
  <2>1. phase[v] = "off" /\ queue'[v] = queue[v] /\ Follower(v)
    BY <1>0, <1>4, <1>7 DEF ViewInv
  <2>2. phase'[v] = "off" /\ Waiting(v)' = Waiting(v)
    BY <1>3, <2>1 DEF Waiting
  <2> QED BY <2>1, <2>2 DEF Follower
<1> QED BY <1>3, <1>6, <1>7 DEF ViewInv

\* What is put into a viewer's queue: all of it, unless it is too much.
LEMMA PushFacts ==
    ASSUME NEW q \in Seq(Item), NEW items \in Seq(Item)
    PROVE  /\ Push(q, items) \in Seq(Item)
           /\ Len(Push(q, items)) <= QueueMax
           /\ Len(q) + Len(items) <= QueueMax => Push(q, items) = q \o items
<1>1. Push(q, items) = LTrim(q \o items, QueueMax)
  BY DEF Push, LTrim
<1>2. /\ q \o items \in Seq(Item) /\ Len(q \o items) = Len(q) + Len(items)
      /\ Len(q) \in Nat /\ Len(items) \in Nat
  BY LenProperties, ConcatProperties
<1>3. QueueMax \in Nat \ {0}
  BY BoundsAssumption
<1>4. PICK s \in Seq(Item) : s = q \o items
  BY <1>2
<1>5. /\ LTrim(s, QueueMax) \in Seq(Item)
      /\ Len(LTrim(s, QueueMax)) = IF Len(s) > QueueMax THEN QueueMax ELSE Len(s)
      /\ Len(s) <= QueueMax => LTrim(s, QueueMax) = s
  BY <1>3, LTrimIn
<1> QED BY <1>1, <1>2, <1>3, <1>4, <1>5

\* The reader publishes an output to who is live, and to who buffers.
LEMMA ViewPublished == ASSUME Inv, ReadOutput PROVE ViewInv'
<1>0. ViewInv /\ OutputInv
  BY DEF Inv
<1>1. PICK n : n = Head(stream).n
  OBVIOUS
<1>2. /\ Reads("output") /\ published' = n
      /\ queue' = [v \in Viewers |->
           IF phase[v] = "live" THEN Push(queue[v], <<Data(n)>>) ELSE queue[v]]
      /\ buffer' = [v \in Viewers |->
           IF phase[v] = "buffering" THEN Append(buffer[v], n) ELSE buffer[v]]
      /\ missed' = missed \cup {v \in Viewers : phase[v] = "live" /\ Len(queue[v]) = QueueMax}
      /\ UNCHANGED <<conn, pc, doing, reply, phase, shot, closed, seen>>
  BY <1>1 DEF ReadOutput, tasks
<1>3. n \in Nat
  <2>1. Head(stream) \in Event
    BY <1>2, TailPlaces DEF Reads, Inv, ReplyInv
  <2> QED BY <1>1, <2>1 DEF Event
<1>4. InStep => n = published + 1
  BY <1>1, <1>2, OutputNext
<1>5. <<Data(n)>> \in Seq(Item) /\ Len(<<Data(n)>>) = 1 /\ <<Data(n)>>[1] = Data(n)
      /\ Data(n).kind = "output" /\ Data(n).n = n
  BY <1>3, Items
<1>6. ASSUME NEW v \in Viewers
      PROVE  /\ queue[v] \in Seq(Item) /\ Len(queue[v]) \in Nat /\ Len(queue[v]) <= QueueMax
             /\ queue'[v] \in Seq(Item) /\ Len(queue'[v]) <= QueueMax
             /\ buffer[v] \in Seq(Nat) /\ buffer'[v] \in Seq(Nat)
             /\ \/ v \in missed'
                \/ phase[v] = "live" /\ queue'[v] = queue[v] \o <<Data(n)>>
                \/ phase[v] # "live" /\ queue'[v] = queue[v]
  <2>1. /\ queue[v] \in Seq(Item) /\ Len(queue[v]) \in Nat /\ Len(queue[v]) <= QueueMax
        /\ buffer[v] \in Seq(Nat)
    BY <1>0, LenProperties DEF ViewInv, ViewTypes
  <2>2. buffer'[v] \in Seq(Nat)
    BY <1>2, <1>3, <2>1, AppendProperties
  <2>3. CASE phase[v] = "live"
    <3>1. queue'[v] = Push(queue[v], <<Data(n)>>)
      BY <1>2, <2>3
    <3>2. v \in missed' \/ Len(queue[v]) + 1 <= QueueMax
      BY <1>2, <2>1, <2>3, BoundsAssumption
    <3> QED BY <1>5, <2>1, <2>2, <2>3, <3>1, <3>2, PushFacts
  <2>4. CASE phase[v] # "live"
    BY <1>2, <2>1, <2>2, <2>4
  <2> QED BY <2>3, <2>4
<1>7. ViewTypes'
  BY <1>0, <1>2, <1>6 DEF ViewInv, ViewTypes
<1>8. InStep' <=> InStep
  BY <1>2 DEF InStep, conn
<1>9. ASSUME NEW v \in Viewers, ~Excused(v)' PROVE Follower(v)'
  <2>1. v \notin missed' /\ missed \subseteq missed'
    BY <1>2, <1>9 DEF Excused
  <2>2. Follower(v)
    <3>1. \/ queue'[v] = queue[v] \/ \E items \in Seq(Item) : queue'[v] = queue[v] \o items
      BY <1>5, <1>6, <2>1
    <3>2. ~Excused(v)
      BY <1>0, <1>2, <1>9, <2>1, <3>1, ExcusedKept DEF ViewInv
    <3> QED BY <1>0, <3>2 DEF ViewInv
  <2>3. phase'[v] = phase[v] /\ doing'[v] = doing[v] /\ Taken(v)' = Taken(v) /\ proc' = proc
    BY <1>2 DEF Taken, conn
  <2>4. seen'[v] = seen[v] /\ seen[v] \in Nat
    BY <1>0, <1>2 DEF ViewInv, ViewTypes
  <2>5. CASE InStep /\ phase[v] = "live"
    <3>1. queue'[v] = queue[v] \o <<Data(n)>>
      BY <1>6, <2>1, <2>5
    <3>2. Gapless(<<Data(n)>>)
      BY <1>5 DEF Gapless
    <3>3. Gapless(Waiting(v)) /\ Waiting(v)[Len(Waiting(v))].n = published
      BY <2>2, <2>5 DEF Follower
    <3>4. Follows(Waiting(v)[Len(Waiting(v))], Data(n))
      BY <1>0, <1>4, <1>5, <2>5, <3>3 DEF Follows, OutputInv
    <3>5. Waiting(v)' = <<Data(seen[v])>> \o (queue[v] \o <<Data(n)>>)
      BY <2>4, <3>1 DEF Waiting
    <3>6. Gapless(Waiting(v)') /\ Waiting(v)'[Len(Waiting(v)')] = Data(n)
      <4>1. PICK m \in Nat, q \in Seq(Item), d \in Seq(Item) :
              m = seen[v] /\ q = queue[v] /\ d = <<Data(n)>>
        BY <1>5, <1>6, <2>4
      <4>2. Waiting(v) = <<Data(m)>> \o q /\ Waiting(v)' = <<Data(m)>> \o (q \o d)
        BY <3>5, <4>1 DEF Waiting
      <4>3. d # <<>> /\ Gapless(d) /\ d[1] = Data(n) /\ d[Len(d)] = Data(n)
        BY <1>5, <3>2, <4>1
      <4> HIDE DEF Waiting
      <4>4. LET w == <<Data(m)>> \o q IN Gapless(w) /\ Follows(w[Len(w)], d[1])
        BY <3>3, <3>4, <4>2, <4>3
      <4>5. LET w == <<Data(m)>> \o (q \o d) IN Gapless(w) /\ w[Len(w)] = d[Len(d)]
        BY <4>3, <4>4, GapSent
      <4> QED BY <4>2, <4>3, <4>5
    <3> QED BY <1>2, <1>5, <1>8, <2>3, <2>5, <3>6 DEF Follower
  <2>6. CASE InStep /\ phase[v] = "buffering"
    <3>1. Waiting(v)' = Waiting(v)
      BY <1>6, <2>1, <2>4, <2>6 DEF Waiting
    <3>2. buffer'[v] = Append(buffer[v], n)
      BY <1>2, <2>6
    <3>3. /\ Len(buffer[v]) \in Nat /\ DOMAIN buffer[v] = 1 .. Len(buffer[v])
          /\ Len(buffer'[v]) = Len(buffer[v]) + 1
          /\ DOMAIN buffer'[v] = 1 .. Len(buffer[v]) + 1
          /\ \A i \in DOMAIN buffer[v] : buffer'[v][i] = buffer[v][i]
          /\ buffer'[v][Len(buffer[v]) + 1] = n
      BY <1>3, <1>6, <3>2, AppendPlaces, AppendProperties
    <3>4. published \in Nat /\ published' = published + 1 /\ n = published + 1
      BY <1>0, <1>2, <1>4, <2>6 DEF OutputInv
    <3>5. /\ \A i \in DOMAIN buffer[v] : buffer[v][i] = published - Len(buffer[v]) + i
          /\ \A s \in Taken(v) : published - Len(buffer[v]) <= s /\ s <= published
      BY <2>2, <2>6 DEF Follower
    <3>6. \A i \in DOMAIN buffer'[v] : buffer'[v][i] = published' - Len(buffer'[v]) + i
      <4>0. PICK k \in Nat : k = Len(buffer[v])
        BY <3>3
      <4> SUFFICES ASSUME NEW i \in 1 .. k + 1
                   PROVE  buffer'[v][i] = (published + 1) - (k + 1) + i
        BY <3>3, <3>4, <4>0
      <4>1. CASE i \in 1 .. k
        <5>1. buffer'[v][i] = published - k + i
          BY <3>3, <3>5, <4>0, <4>1
        <5> QED BY <3>4, <5>1
      <4>2. CASE i = k + 1
        <5>1. buffer'[v][i] = published + 1
          BY <3>3, <3>4, <4>0, <4>2
        <5> QED BY <3>4, <4>2, <5>1
      <4> QED BY <4>1, <4>2
    <3>7. \A s \in Taken(v) : s \in Nat
      <4>1. shot[v] \in Nat /\ reply[v].shot \in Nat
        BY <1>0, TaskNames DEF ViewInv, ViewTypes, Inv, PendingInv, Reply
      <4> QED BY <4>1 DEF Taken
    <3>8. \A s \in Taken(v) : published' - Len(buffer'[v]) <= s /\ s <= published'
      BY <3>3, <3>4, <3>5, <3>7
    <3> QED BY <1>8, <2>2, <2>3, <2>6, <3>1, <3>6, <3>8 DEF Follower
  <2>7. CASE ~InStep \/ phase[v] = "off"
    <3>1. phase[v] # "live"
      BY <2>2, <2>7 DEF Follower
    <3>2. Waiting(v)' = Waiting(v)
      BY <1>6, <2>1, <2>4, <3>1 DEF Waiting
    <3> QED BY <1>8, <2>2, <2>3, <2>7, <3>1, <3>2 DEF Follower
  <2> QED BY <1>0, <2>5, <2>6, <2>7 DEF ViewInv, ViewTypes
<1> QED BY <1>0, <1>2, <1>7, <1>9 DEF ViewInv

\* The snapshot that a reply brings shows what has been published.
LEMMA ViewRead == ASSUME Inv, ReadReply PROVE ViewInv'
<1> USE TaskNames
<1>0. ViewInv /\ ReplyInv /\ OutputInv /\ ConnInv /\ PendingInv
  BY DEF Inv
<1>1. /\ reading /\ stream # <<>> /\ Head(stream).kind = "reply"
      /\ UNCHANGED <<proc, reading, pc, doing, phase, buffer, shot, queue, closed, published, seen, missed>>
      /\ IF pending = <<>> THEN UNCHANGED <<pending, reply>>
         ELSE /\ pending' = Tail(pending)
              /\ reply' = [reply EXCEPT ![Head(pending)] = Head(stream).reply]
  BY DEF ReadReply, Reads, tasks, view, history
<1>2. ViewTypes' /\ (InStep' <=> InStep) /\ proc' = proc
  BY <1>0, <1>1 DEF ViewInv, ViewTypes, InStep
<1>3. ASSUME NEW v \in Viewers, ~Excused(v)' PROVE Follower(v)'
  <2>1. Follower(v)
    BY <1>0, <1>1, <1>3 DEF ViewInv, Excused
  <2>2. Waiting(v)' = Waiting(v)
    BY <1>1 DEF Waiting
  <2>3. CASE reply'[v] = reply[v]
    <3>1. Taken(v)' = Taken(v)
      BY <1>1, <2>3 DEF Taken
    <3> QED BY <1>1, <1>2, <2>1, <2>2, <3>1 DEF Follower
  <2>4. CASE reply'[v] # reply[v]
    <3>1. pending # <<>> /\ v = holder /\ pc[v] = "reply" /\ reply'[v] = Head(stream).reply
      <4>1. pending # <<>>
        BY <1>1, <2>4
      <4>2. pending = <<holder>> /\ pc[holder] = "reply" /\ holder \in Tasks
        BY <4>1, Awaiting
      <4>3. reply' = [reply EXCEPT ![holder] = Head(stream).reply]
        BY <1>1, <4>1, <4>2
      <4> QED BY <1>0, <2>4, <4>1, <4>2, <4>3 DEF PendingInv
    <3>2. InStep
      BY <1>0, <1>1, <3>1 DEF ConnInv, InStep
    <3>3. ready
      BY <1>0, <3>1, <3>2 DEF ReplyInv, Attaching
    <3>4. /\ 1 \in DOMAIN stream /\ Head(stream) = stream[1] /\ Replied(1) /\ ~Written(1)
          /\ DOMAIN stream = 1 .. Len(stream) /\ Len(stream) \in Nat
      BY <1>0, <1>1, TailPlaces DEF ReplyInv, Replied, Written
    <3>5. PICK s : s = stream[1].reply.shot
      OBVIOUS
    <3>6. s \in published .. screen /\ published \in Nat /\ screen \in Nat
      BY <1>0, <3>2, <3>3, <3>4, <3>5 DEF OutputInv
    <3>7. \A j \in DOMAIN stream : Written(j) => stream[j].n > s
      <4> SUFFICES ASSUME NEW j \in DOMAIN stream, Written(j) PROVE stream[j].n > s
        OBVIOUS
      <4>1. ~(j < 1)
        BY <3>4
      <4> QED BY <1>0, <3>2, <3>3, <3>4, <3>5, <4>1 DEF OutputInv
    <3>8. s = published
      <4> SUFFICES ASSUME s # published PROVE FALSE
        OBVIOUS
      <4>1. published + 1 \in published + 1 .. screen /\ ~(published + 1 > s)
        BY <3>6
      <4>2. PICK j \in DOMAIN stream : Written(j) /\ stream[j].n = published + 1
        BY <1>0, <3>2, <4>1 DEF OutputInv
      <4> QED BY <3>7, <4>1, <4>2
    <3>9. \A r \in Taken(v)' : r = published \/ r \in Taken(v)
      BY <1>1, <3>1, <3>4, <3>5, <3>8 DEF Taken
    <3>10. published - Len(buffer[v]) <= published
      <4>1. buffer[v] \in Seq(Nat)
        BY <1>0 DEF ViewInv, ViewTypes
      <4>2. Len(buffer[v]) \in Nat
        BY <4>1, LenProperties
      <4> QED BY <3>6, <4>2
    <3>11. InStep' /\ phase'[v] = "buffering" =>
             \A r \in Taken(v)' : published - Len(buffer[v]) <= r /\ r <= published
      BY <1>1, <2>1, <3>2, <3>6, <3>9, <3>10 DEF Follower
    <3> QED BY <1>1, <1>2, <2>1, <2>2, <3>2, <3>11 DEF Follower
  <2> QED BY <2>3, <2>4
<1> QED BY <1>0, <1>1, <1>2, <1>3 DEF ViewInv

\* The snapshot, and what was buffered, are sent.
LEMMA ViewSnapshot == ASSUME Inv, NEW t \in Viewers, Snapshot(t) PROVE ViewInv'
<1> USE TaskNames
<1>0. ViewInv /\ TaskInv /\ OutputInv /\ ConnInv
  BY DEF Inv
<1>1. PICK items : items = <<Shot(shot[t])>> \o Buffered(t)
  OBVIOUS
<1>2. /\ queue' = [queue EXCEPT ![t] = Push(@, items)]
      /\ phase' = [phase EXCEPT ![t] = "live"]
      /\ buffer' = [buffer EXCEPT ![t] = <<>>]
      /\ shot' = [shot EXCEPT ![t] = 0]
      /\ Go(t, "idle", "none") /\ doing[t] = "cursor"
      /\ reply' = [reply EXCEPT ![t] = NoReply]
      /\ missed' = IF Len(queue[t]) + 1 + Len(buffer[t]) > QueueMax
                   THEN missed \cup {t} ELSE missed
      /\ UNCHANGED <<conn, closed, published, seen>>
  BY <1>1 DEF Snapshot, Forget
<1>3. /\ queue[t] \in Seq(Item) /\ Len(queue[t]) \in Nat
      /\ buffer[t] \in Seq(Nat) /\ Len(buffer[t]) \in Nat /\ shot[t] \in Nat /\ seen[t] \in Nat
  BY <1>0, LenProperties DEF ViewInv, ViewTypes
<1>4. items \in Seq(Item) /\ Len(items) = Len(buffer[t]) + 1
  <2>1. PICK k \in Nat : k = Len(buffer[t])
    BY <1>3
  <2>2. DOMAIN buffer[t] = 1 .. k /\ \A i \in 1 .. k : buffer[t][i] \in Nat
    BY <1>3, <2>1, LenProperties, ElementOfSeq
  <2>3. Buffered(t) = [i \in 1 .. k |-> Data(buffer[t][i])]
    BY <2>2 DEF Buffered
  <2>4. \A i \in 1 .. k : Data(buffer[t][i]) \in Item
    BY <2>2, Items
  <2>5. Buffered(t) \in Seq(Item) /\ Len(Buffered(t)) = k
    BY <2>1, <2>3, <2>4, IsASeq, LenProperties
  <2>6. Shot(shot[t]) \in Item
    BY <1>3, Items
  <2> HIDE DEF Buffered, Shot
  <2> QED BY <1>1, <2>1, <2>5, <2>6, FrontPlaces
<1>5. /\ queue'[t] \in Seq(Item) /\ Len(queue'[t]) <= QueueMax
      /\ t \in missed' \/ queue'[t] = queue[t] \o items
  <2>1. queue'[t] = Push(queue[t], items)
    BY <1>0, <1>2 DEF ViewInv, ViewTypes
  <2>2. t \in missed' \/ Len(queue[t]) + Len(items) <= QueueMax
    <3>1. PICK a \in Nat, b \in Nat : a = Len(queue[t]) /\ b = Len(buffer[t])
      BY <1>3
    <3>2. CASE a + 1 + b > QueueMax
      BY <1>2, <3>1, <3>2
    <3>3. CASE ~(a + 1 + b > QueueMax)
      <4>0. QueueMax \in Nat /\ a \in Nat /\ b \in Nat
        BY <3>1, BoundsAssumption
      <4>1. a + (b + 1) <= QueueMax
        BY <3>3, <4>0
      <4> QED BY <1>4, <3>1, <4>1
    <3> QED BY <3>2, <3>3
  <2> QED BY <1>3, <1>4, <2>1, <2>2, PushFacts
<1>6. missed \subseteq missed' /\ missed' \subseteq Viewers
      /\ \A v \in Viewers : v # t => queue'[v] = queue[v]
  BY <1>0, <1>2 DEF ViewInv, ViewTypes
<1>7. ViewTypes'
  <2>1. <<>> \in Seq(Nat)
    OBVIOUS
  <2>2. \A v \in Viewers : queue'[v] \in Seq(Item) /\ Len(queue'[v]) <= QueueMax
    BY <1>0, <1>5, <1>6 DEF ViewInv, ViewTypes
  <2>3. queue' \in [Viewers -> Seq(Item)]
    BY <1>0, <1>2, <2>2 DEF ViewInv, ViewTypes
  <2>4. phase' \in [Viewers -> {"off", "buffering", "live"}]
        /\ buffer' \in [Viewers -> Seq(Nat)] /\ shot' \in [Viewers -> Nat]
    BY <1>0, <1>2, <2>1 DEF ViewInv, ViewTypes
  <2> QED BY <1>0, <1>2, <1>6, <2>2, <2>3, <2>4 DEF ViewInv, ViewTypes
<1>8. /\ doing'[t] = "none" /\ pc'[t] = "idle"
      /\ \A v \in Viewers : v # t => doing'[v] = doing[v] /\ pc'[v] = pc[v]
  BY <1>0, <1>2 DEF Go, TaskInv
<1>9. ASSUME NEW v \in Viewers
      PROVE  phase'[v] = "buffering" <=> doing'[v] \in {"capture", "cursor"}
  BY <1>0, <1>2, <1>8 DEF ViewInv, ViewTypes
<1>10. (InStep' <=> InStep) /\ proc' = proc
  BY <1>2 DEF InStep, conn
<1>11. ASSUME NEW v \in Viewers, ~Excused(v)' PROVE Follower(v)'
  <2>1. Follower(v)
    <3>1. \/ queue'[v] = queue[v] \/ \E it \in Seq(Item) : queue'[v] = queue[v] \o it
          \/ v \in missed'
      BY <1>4, <1>5, <1>6
    <3>2. ~Excused(v)
      BY <1>0, <1>2, <1>6, <1>11, <3>1, ExcusedKept DEF ViewInv
    <3> QED BY <1>0, <3>2 DEF ViewInv
  <2>2. CASE v # t
    <3>1. Waiting(v)' = Waiting(v) /\ Taken(v)' = Taken(v)
      BY <1>2, <1>6, <1>8, <2>2, <1>0 DEF Waiting, Taken, ViewInv, ViewTypes, Inv, PendingInv
    <3>2. phase'[v] = phase[v] /\ buffer'[v] = buffer[v]
      BY <1>0, <1>2, <2>2 DEF ViewInv, ViewTypes
    <3> QED BY <1>2, <1>8, <1>10, <2>1, <2>2, <3>1, <3>2 DEF Follower
  <2>3. CASE v = t
    <3>1. phase[t] = "buffering" /\ shot[t] \in Taken(t)
      BY <1>0, <1>2 DEF ViewInv, Taken
    <3>2. InStep
      BY <1>2, <2>1, <2>3, <3>1 DEF Follower
    <3>3. queue'[t] = queue[t] \o items
      BY <1>5, <1>11, <2>3 DEF Excused
    <3>4. PICK p \in Nat : p = published
      BY <1>0 DEF OutputInv
    <3>5. PICK s \in Nat : s = shot[t]
      BY <1>3
    <3>6. /\ \A i \in DOMAIN buffer[t] : buffer[t][i] = p - Len(buffer[t]) + i
          /\ p - Len(buffer[t]) <= s /\ s <= p
      BY <2>1, <2>3, <3>1, <3>2, <3>4, <3>5 DEF Follower
    <3>7. /\ items # <<>> /\ Gapless(items) /\ items[1] = Shot(s) /\ items[Len(items)].n = p
      BY <1>0, <1>1, <3>5, <3>6, GapBuffered DEF ViewInv
    <3>8. PICK m \in Nat, q \in Seq(Item) : m = seen[t] /\ q = queue[t]
      BY <1>3
    <3>9. Waiting(t) = <<Data(m)>> \o q /\ Waiting(t)' = <<Data(m)>> \o (q \o items)
      BY <1>2, <3>3, <3>8 DEF Waiting
    <3>10. Gapless(Waiting(t))
      BY <2>1, <2>3 DEF Follower
    <3> HIDE DEF Waiting
    <3>11. LET w == <<Data(m)>> \o q IN Gapless(w) /\ Follows(w[Len(w)], items[1])
      <4>1. Shot(s).kind # "output"
        BY Items
      <4> QED BY <3>7, <3>9, <3>10, <4>1 DEF Follows
    <3>12. LET w == <<Data(m)>> \o (q \o items) IN Gapless(w) /\ w[Len(w)] = items[Len(items)]
      BY <1>4, <3>7, <3>11, GapSent
    <3>13. Gapless(Waiting(t)') /\ Waiting(t)'[Len(Waiting(t)')].n = p
      BY <3>7, <3>9, <3>12
    <3>14. phase'[t] = "live" /\ published' = p
      BY <1>0, <1>2, <3>4 DEF ViewInv, ViewTypes
    <3> QED BY <1>10, <2>3, <3>2, <3>13, <3>14 DEF Follower
  <2> QED BY <2>2, <2>3
<1> QED BY <1>7, <1>9, <1>11 DEF ViewInv

\* The terminal is shown the next thing sent.
LEMMA ViewForward == ASSUME Inv, NEW t \in Viewers, Forward(t) PROVE ViewInv'
<1>0. ViewInv
  BY DEF Inv
<1>1. PICK q \in Seq(Item) : q = queue[t]
  BY <1>0 DEF ViewInv, ViewTypes
<1>2. /\ q # <<>> /\ queue' = [queue EXCEPT ![t] = Tail(q)]
      /\ IF Head(q).kind = "error" THEN closed' = closed \cup {t} /\ UNCHANGED seen
         ELSE seen' = [seen EXCEPT ![t] = Head(q).n] /\ UNCHANGED closed
      /\ UNCHANGED <<conn, pc, doing, reply, phase, buffer, shot, published, missed>>
  BY <1>1 DEF Forward, tasks
<1>3. /\ Tail(q) \in Seq(Item) /\ Head(q) \in Item /\ Head(q).n \in Nat
      /\ Len(q) \in Nat /\ Len(Tail(q)) = Len(q) - 1 /\ Head(q) = q[1]
      /\ \A i \in DOMAIN q \ {1} : i - 1 \in DOMAIN Tail(q) /\ Tail(q)[i - 1] = q[i]
  <2>1. /\ Tail(q) \in Seq(Item) /\ Head(q) \in Item /\ Head(q) = q[1] /\ Len(q) \in Nat
        /\ \A i \in DOMAIN q \ {1} : i - 1 \in DOMAIN Tail(q) /\ Tail(q)[i - 1] = q[i]
    BY <1>2, TailPlaces
  <2>2. Len(Tail(q)) = Len(q) - 1
    BY <1>2, HeadTailProperties
  <2>3. Head(q).n \in Nat
    BY <2>1 DEF Item
  <2> QED BY <2>1, <2>2, <2>3
<1>4. /\ queue'[t] = Tail(q) /\ \A v \in Viewers : v # t => queue'[v] = queue[v]
  BY <1>0, <1>2 DEF ViewInv, ViewTypes
<1>5. ViewTypes'
  <2>1. Len(Tail(q)) <= QueueMax
    BY <1>0, <1>1, <1>3, BoundsAssumption DEF ViewInv, ViewTypes
  <2>2. \A v \in Viewers : queue'[v] \in Seq(Item) /\ Len(queue'[v]) <= QueueMax
    BY <1>0, <1>3, <1>4, <2>1 DEF ViewInv, ViewTypes
  <2>3. /\ queue' \in [Viewers -> Seq(Item)]
        /\ seen' \in [Viewers -> Nat]
        /\ closed' \subseteq Viewers
    <3>1. queue' \in [Viewers -> Seq(Item)]
      BY <1>0, <1>2, <1>3 DEF ViewInv, ViewTypes
    <3>2. seen' \in [Viewers -> Nat]
      BY <1>0, <1>2, <1>3 DEF ViewInv, ViewTypes
    <3>3. closed' \subseteq Viewers
      BY <1>0, <1>2 DEF ViewInv, ViewTypes
    <3> QED BY <3>1, <3>2, <3>3
  <2> QED BY <1>0, <1>2, <2>2, <2>3 DEF ViewInv, ViewTypes
<1>6. (InStep' <=> InStep) /\ proc' = proc
  BY <1>2 DEF InStep, conn
<1>7. ASSUME NEW v \in Viewers, ~Excused(v)' PROVE Follower(v)'
  <2>1. Taken(v)' = Taken(v)
    BY <1>2 DEF Taken
  <2>2. CASE v # t
    <3>1. Waiting(v)' = Waiting(v) /\ Follower(v)
      BY <1>0, <1>2, <1>4, <1>7, <2>2 DEF Waiting, Excused, ViewInv, ViewTypes
    <3> QED BY <1>2, <1>6, <2>1, <3>1 DEF Follower
  <2>3. CASE v = t
    <3>1. Head(q).kind # "error" /\ t \notin closed \cup missed
      BY <1>2, <1>7, <2>3 DEF Excused
    <3>2. ~Excused(t)
      <4> SUFFICES ASSUME NEW i \in DOMAIN q, q[i].kind = "error" PROVE FALSE
        BY <1>1, <3>1 DEF Excused
      <4>1. i # 1
        BY <1>3, <3>1
      <4>2. i - 1 \in DOMAIN Tail(q) /\ Tail(q)[i - 1].kind = "error"
        BY <1>3, <4>1
      <4> QED BY <1>4, <1>7, <2>3, <4>2 DEF Excused
    <3>3. Follower(t)
      BY <1>0, <3>2 DEF ViewInv
    <3>4. PICK m \in Nat : m = seen[t]
      BY <1>0 DEF ViewInv, ViewTypes
    <3>5. seen'[t] = Head(q).n
      BY <1>0, <1>2, <3>1 DEF ViewInv, ViewTypes
    <3>6. Waiting(t) = <<Data(m)>> \o q /\ Waiting(t)' = <<Data(Head(q).n)>> \o Tail(q)
      BY <1>1, <1>4, <3>4, <3>5 DEF Waiting
    <3>7. Gapless(Waiting(t))
      BY <3>3 DEF Follower
    <3> HIDE DEF Waiting
    <3>8. Gapless(<<Data(m)>> \o q)
      BY <3>6, <3>7
    <3>9. LET w == <<Data(m)>> \o q
              z == <<Data(Head(q).n)>> \o Tail(q)
          IN  Gapless(z) /\ z[Len(z)].n = w[Len(w)].n
      BY <1>2, <3>8, GapShown
    <3>10. Gapless(Waiting(t)') /\ Waiting(t)'[Len(Waiting(t)')].n = Waiting(t)[Len(Waiting(t))].n
      BY <3>6, <3>9
    <3> QED BY <1>2, <1>6, <2>1, <2>3, <3>3, <3>10 DEF Follower
  <2> QED BY <2>2, <2>3
<1> QED BY <1>0, <1>2, <1>5, <1>7 DEF ViewInv

\* A task moves, and the views are as they were: a handler that was taking a
\* snapshot still is, and holds no other.
LEMMA ViewKept ==
    ASSUME Inv, NEW t \in Tasks, UNCHANGED <<view, closed, history>>,
           \A u \in Viewers : u # t => pc'[u] = pc[u] /\ doing'[u] = doing[u] /\ reply'[u] = reply[u],
           (InStep' <=> InStep), proc'.n \in Nat, proc'.n >= proc.n,
           t \in Viewers =>
             \/ doing'[t] = doing[t] /\ (pc'[t] # "reply" \/ reply'[t].is # "ok")
             \/ doing'[t] = doing[t] /\ pc'[t] = pc[t] /\ reply'[t] = reply[t]
             \/ {doing[t], doing'[t]} \cap {"capture", "cursor"} = {}
    PROVE  ViewInv'
<1>0. ViewInv /\ proc.n \in Nat
  BY DEF Inv, ConnInv
<1>1. UNCHANGED <<phase, buffer, shot, queue, seen, closed, missed, published>>
  BY DEF view, history
<1>2. ASSUME t \in Viewers
      PROVE  /\ doing'[t] \in {"capture", "cursor"} <=> doing[t] \in {"capture", "cursor"}
             /\ doing[t] = "capture" => doing'[t] = "capture"
             /\ Taken(t)' \subseteq Taken(t) \/ doing'[t] \notin {"capture", "cursor"}
  BY <1>1, <1>2 DEF Taken
<1>3. t \in Viewers /\ doing'[t] \notin {"capture", "cursor"} => phase'[t] # "buffering"
  BY <1>0, <1>1, <1>2 DEF ViewInv
<1>4. ViewTypes'
  BY <1>0, <1>1 DEF ViewInv, ViewTypes
<1>5. ASSUME NEW v \in Viewers
      PROVE  phase'[v] = "buffering" <=> doing'[v] \in {"capture", "cursor"}
  BY <1>0, <1>1, <1>2, <1>5 DEF ViewInv
<1>6. ASSUME NEW v \in Viewers, ~Excused(v)' PROVE Follower(v)'
  <2>1. Follower(v) /\ Waiting(v)' = Waiting(v)
    BY <1>0, <1>1, <1>6 DEF ViewInv, Excused, Waiting
  <2>2. phase'[v] = "buffering" => Taken(v)' \subseteq Taken(v)
    BY <1>1, <1>2, <1>3 DEF Taken
  <2>3. doing[v] = "capture" => doing'[v] = "capture"
    BY <1>2
  <2> QED BY <1>0, <1>1, <2>1, <2>2, <2>3 DEF Follower
<1> QED BY <1>4, <1>5, <1>6 DEF ViewInv

\* A viewer is unsubscribed.
LEMMA ViewOff ==
    ASSUME Inv, NEW t \in Viewers, Off(t), doing'[t] = "none",
           UNCHANGED <<queue, seen, closed, missed, published, shot, proc, reading>>,
           \A u \in Viewers : u # t => /\ pc'[u] = pc[u] /\ doing'[u] = doing[u]
                                       /\ reply'[u] = reply[u]
    PROVE  ViewInv'
<1>0. ViewInv /\ proc.n \in Nat
  BY DEF Inv, ConnInv
<1>1. phase' = [phase EXCEPT ![t] = "off"] /\ buffer' = [buffer EXCEPT ![t] = <<>>]
  BY DEF Off
<1>2. <<>> \in Seq(Nat)
  OBVIOUS
<1>3. /\ phase' \in [Viewers -> {"off", "buffering", "live"}] /\ phase'[t] = "off"
      /\ buffer' \in [Viewers -> Seq(Nat)] /\ shot' \in [Viewers -> Nat]
      /\ \A u \in Viewers : u # t => phase'[u] = phase[u] /\ buffer'[u] = buffer[u]
  BY <1>0, <1>1, <1>2 DEF ViewInv, ViewTypes
<1>4. (InStep' <=> InStep) /\ proc' = proc
  BY DEF InStep
<1>5. t \in Tasks /\ UNCHANGED <<queue, seen, closed, missed, published>>
  BY TaskNames
<1>6. doing'[t] \notin {"capture", "cursor"} /\ proc'.n \in Nat /\ proc'.n >= proc.n
  BY <1>0, <1>4
<1>7. \A u \in Viewers : u # t =>
        /\ pc'[u] = pc[u] /\ doing'[u] = doing[u] /\ reply'[u] = reply[u]
        /\ phase'[u] = phase[u] /\ buffer'[u] = buffer[u] /\ shot'[u] = shot[u]
  BY <1>3
<1> QED BY <1>0, <1>3, <1>4, <1>5, <1>6, <1>7, ViewMoves

\* An operation that fails leaves the viewer unsubscribed, or live as it was.
LEMMA ViewFails ==
    ASSUME Inv, NEW t \in Tasks, NEW known \in BOOLEAN, Fails(t, known),
           UNCHANGED <<queue, seen, closed, missed, published, shot, proc, reading>>,
           \A u \in Viewers : u # t => reply'[u] = reply[u]
    PROVE  ViewInv'
<1> USE TaskNames
<1>0. ViewInv /\ TaskInv /\ ConnInv
  BY DEF Inv
<1>1. /\ doing' = [doing EXCEPT ![t] = "none"]
      /\ \A u \in Tasks : u # t => pc'[u] = pc[u] /\ doing'[u] = doing[u]
      /\ \/ phase' = phase /\ buffer' = buffer /\ (t \in Viewers => doing[t] = "keys")
         \/ t \in Viewers /\ Off(t)
  BY <1>0, FailsMoves
<1>2. doing'[t] = "none"
  BY <1>0, <1>1 DEF TaskInv
<1>3. (InStep' <=> InStep) /\ proc' = proc /\ proc.n \in Nat
  BY <1>0 DEF InStep, ConnInv
<1>4. CASE phase' = phase /\ buffer' = buffer /\ (t \in Viewers => doing[t] = "keys")
  <2>1. UNCHANGED <<view, closed, history>>
    BY <1>4 DEF view, history
  <2>2. proc'.n \in Nat /\ proc'.n >= proc.n
    BY <1>3
  <2>3. t \in Viewers => {doing[t], doing'[t]} \cap {"capture", "cursor"} = {}
    BY <1>2, <1>4
  <2>4. \A u \in Viewers : u # t => pc'[u] = pc[u] /\ doing'[u] = doing[u] /\ reply'[u] = reply[u]
    BY <1>1
  <2> QED BY <1>3, <2>1, <2>2, <2>3, <2>4, ViewKept
<1>5. CASE t \in Viewers /\ Off(t)
  BY <1>0, <1>1, <1>2, <1>3, <1>5, ViewOff DEF TaskInv
<1> QED BY <1>1, <1>4, <1>5

\* Starting a connection disturbs no view, unless the reader is ended.
LEMMA ViewStart ==
    ASSUME Inv, NEW t \in Tasks,
           Start(t) \/ SpawnFails(t) \/ StartTimeout(t) \/ (t = Refresher /\ ReconnectCancelled)
    PROVE  ViewInv'
<1> USE TaskNames
<1>0. TaskInv /\ ConnInv /\ OutputInv /\ proc.n \in Nat
  BY DEF Inv, ConnInv
<1>1. CASE \/ Reconnect(t) \/ Stopped(t) \/ Spawned(t) \/ Ready(t)
           \/ t = Refresher /\ ReconnectCancelled
  <2>1. UNCHANGED <<view, closed, history, reply>>
    BY <1>1 DEF Reconnect, Stopped, Spawned, Ready, ReconnectCancelled
  <2>2. \E label, errand : Go(t, label, errand) /\ label # "reply"
                           /\ (errand = doing[t] \/ t = Refresher)
    BY <1>1 DEF Reconnect, Stopped, Spawned, Ready, ReconnectCancelled
  <2>3. /\ \A u \in Viewers : u # t => pc'[u] = pc[u] /\ doing'[u] = doing[u] /\ reply'[u] = reply[u]
        /\ t \in Viewers => doing'[t] = doing[t] /\ pc'[t] # "reply"
    BY <1>0, <2>1, <2>2 DEF Go, TaskInv
  <2>4. (InStep' <=> InStep) /\ proc'.n \in Nat /\ proc'.n >= proc.n
    <3>1. CASE Spawned(t)
      <4>1. proc' = [n |-> proc.n + 1, up |-> TRUE] /\ ~InStep
        BY <3>1, InStepStill DEF Spawned
      <4>2. proc'.n = proc.n + 1 /\ proc.n >= 1
        BY <1>0, <4>1 DEF ConnInv
      <4> QED BY <1>0, <4>1, <4>2 DEF InStep
    <3>2. CASE ~Spawned(t)
      BY <1>0, <1>1, <3>2 DEF Reconnect, Stopped, Ready, ReconnectCancelled, InStep, ConnInv, conn
    <3> QED BY <3>1, <3>2
  <2> QED BY <2>1, <2>3, <2>4, ViewKept
<1>2. CASE ReconnectStops(t)
  <2>1. /\ UNCHANGED <<view, closed, history, reply, conn>> /\ t # Refresher
        /\ pc' = [pc EXCEPT ![t] = "stop", ![Refresher] = "idle"]
        /\ doing' = [doing EXCEPT ![Refresher] = "none"]
    BY <1>2 DEF ReconnectStops
  <2>2. /\ \A u \in Viewers : u # t => pc'[u] = pc[u] /\ doing'[u] = doing[u] /\ reply'[u] = reply[u]
        /\ t \in Viewers => doing'[t] = doing[t] /\ pc'[t] # "reply"
    BY <1>0, <2>1 DEF TaskInv
  <2>3. (InStep' <=> InStep) /\ proc'.n \in Nat /\ proc'.n >= proc.n
    BY <1>0, <2>1 DEF InStep, conn
  <2> QED BY <2>1, <2>2, <2>3, ViewKept
<1>3. CASE StartFails(t) \/ SpawnFails(t)
  <2>1. PICK known \in BOOLEAN : Fails(t, known)
    BY <1>3 DEF StartFails, SpawnFails
  <2>2. UNCHANGED <<queue, seen, closed, missed, published, shot, proc, reading, reply>>
    BY <1>3 DEF StartFails, SpawnFails, conn, history
  <2> QED BY <2>1, <2>2, ViewFails
<1>4. CASE StartTimeout(t)
  BY <1>0, <1>4, ViewEnds DEF StartTimeout, OutputInv
<1> QED BY <1>1, <1>2, <1>3, <1>4 DEF Start

\* Commands, and what viewers do.
LEMMA ViewTalk ==
    ASSUME Inv, NEW t \in Tasks, Talk(t) \/ (t \in Viewers /\ (Handle(t) \/ Client(t)))
    PROVE  ViewInv'
<1> USE TaskNames
<1>0. TaskInv /\ ConnInv /\ ViewInv /\ PendingInv /\ proc.n \in Nat
  BY DEF Inv, ConnInv
<1>1. CASE EnsureWaits(t) \/ EnsureMended(t) \/ CallGranted(t)
  <2>1. UNCHANGED <<view, closed, history, conn>>
    BY <1>1 DEF EnsureWaits, EnsureMended, CallGranted
  <2>2. \E label : Go(t, label, doing[t])
                   /\ \/ label # "reply" /\ reply' = reply
                      \/ reply' = [reply EXCEPT ![t] = Open]
    BY <1>1 DEF EnsureWaits, EnsureMended, CallGranted, Write
  <2>3. /\ \A u \in Viewers : u # t => pc'[u] = pc[u] /\ doing'[u] = doing[u] /\ reply'[u] = reply[u]
        /\ t \in Viewers => doing'[t] = doing[t] /\ (pc'[t] # "reply" \/ reply'[t].is # "ok")
    BY <1>0, <2>2, Replies DEF Go, TaskInv, PendingInv
  <2>4. (InStep' <=> InStep) /\ proc'.n \in Nat /\ proc'.n >= proc.n
    BY <1>0, <2>1 DEF InStep, conn
  <2> QED BY <2>1, <2>3, <2>4, ViewKept
<1>2. CASE CallNow(t) \/ CallLater(t)
  <2>1. /\ UNCHANGED <<shot, queue, closed, history, conn>> /\ Register(t)
        /\ ~broken /\ proc.up
        /\ \E label \in {"reply", "queued"} : Go(t, label, First(doing[t]))
              /\ \/ label # "reply" /\ reply' = reply
                 \/ reply' = [reply EXCEPT ![t] = Open]
    BY <1>2 DEF CallNow, CallLater, Connected, Write
  <2>2. /\ \A u \in Viewers : u # t => pc'[u] = pc[u] /\ doing'[u] = doing[u] /\ reply'[u] = reply[u]
        /\ doing'[t] = First(doing[t]) /\ (pc'[t] # "reply" \/ reply'[t].is # "ok")
    BY <1>0, <2>1, Replies DEF Go, TaskInv, PendingInv
  <2>3. (InStep' <=> InStep) /\ proc'.n \in Nat /\ proc'.n >= proc.n
    BY <1>0, <2>1 DEF InStep, conn
  <2>4. CASE doing[t] # "subscribe" \/ t \notin Viewers
    <3>1. UNCHANGED <<phase, buffer>>
      BY <1>0, <2>1, <2>4 DEF Register, ViewInv, ViewTypes
    <3>2. t \in Viewers => doing'[t] = doing[t]
      BY <2>2, <2>4 DEF First
    <3> QED BY <2>1, <2>2, <2>3, <3>1, <3>2, ViewKept DEF view
  <2>5. CASE doing[t] = "subscribe" /\ t \in Viewers
    <3>1. /\ phase' = [phase EXCEPT ![t] = "buffering"]
          /\ buffer' = [buffer EXCEPT ![t] = <<>>]
      BY <2>1, <2>5 DEF Register
    <3>2. <<>> \in Seq(Nat)
      OBVIOUS
    <3>3. /\ phase' \in [Viewers -> {"off", "buffering", "live"}]
          /\ buffer' \in [Viewers -> Seq(Nat)] /\ shot' \in [Viewers -> Nat]
          /\ phase'[t] = "buffering" /\ buffer'[t] = <<>>
          /\ \A u \in Viewers : u # t => phase'[u] = phase[u] /\ buffer'[u] = buffer[u]
                                         /\ shot'[u] = shot[u]
      <4>1. buffer' \in [Viewers -> Seq(Nat)]
        BY <1>0, <3>1, <3>2 DEF ViewInv, ViewTypes
      <4> QED BY <1>0, <2>1, <2>5, <3>1, <4>1 DEF ViewInv, ViewTypes
    <3>4. doing'[t] = "capture" /\ Taken(t)' = {}
      BY <2>2, <2>5 DEF First, Taken
    <3>5. ~InStep => proc.n >= 2
      BY <1>0, <2>1 DEF ConnInv, InStep
    <3>6. UNCHANGED <<queue, seen, closed, missed, published>>
      BY <2>1 DEF history
    <3> QED BY <1>0, <2>2, <2>3, <3>3, <3>4, <3>5, <3>6, ViewMoves
  <2> QED BY <2>4, <2>5
<1>3. CASE CallFails(t) \/ CallReset(t) \/ Refused(t)
  <2>1. PICK known \in BOOLEAN : Fails(t, known)
    BY <1>3 DEF CallFails, CallReset, Refused
  <2>2. /\ UNCHANGED <<queue, seen, closed, missed, published, shot, proc, reading>>
        /\ reply' = reply \/ reply' = [reply EXCEPT ![t] = NoReply]
    BY <1>3 DEF CallFails, CallReset, Refused, Forget, conn, history
  <2>3. \A u \in Viewers : u # t => reply'[u] = reply[u]
    BY <1>0, <2>2 DEF PendingInv
  <2> QED BY <2>1, <2>2, <2>3, ViewFails
<1>4. ASSUME Done(t) \/ (t \in Viewers /\ \E errand \in {"subscribe", "keys", "leave"} : Ask(t, errand))
      PROVE  ViewInv'
  <2>1. /\ UNCHANGED <<view, closed, history, conn>>
        /\ reply' = reply \/ reply' = [reply EXCEPT ![t] = NoReply]
        /\ \E label, errand : Go(t, label, errand) /\ errand \notin {"capture", "cursor"}
    BY <1>4 DEF Done, Ask, Forget
  <2>2. doing[t] \notin {"capture", "cursor"}
    BY <1>0, <1>4 DEF Done, Ask, TaskInv
  <2>3. /\ \A u \in Viewers : u # t => pc'[u] = pc[u] /\ doing'[u] = doing[u] /\ reply'[u] = reply[u]
        /\ doing'[t] \notin {"capture", "cursor"}
    BY <1>0, <2>1 DEF Go, TaskInv, PendingInv
  <2>4. (InStep' <=> InStep) /\ proc'.n \in Nat /\ proc'.n >= proc.n
    BY <1>0, <2>1 DEF InStep, conn
  <2>5. {doing[t], doing'[t]} \cap {"capture", "cursor"} = {}
    BY <2>2, <2>3
  <2> QED BY <2>1, <2>3, <2>4, <2>5, ViewKept
<1>5. CASE t \in Viewers /\ (Unsubscribe(t) \/ Disconnect(t))
  <2>1. /\ Off(t) /\ UNCHANGED <<queue, seen, closed, missed, published, shot, proc, reading, reply>>
        /\ \E label : Go(t, label, "none")
    BY <1>5 DEF Unsubscribe, Disconnect, conn, history
  <2>2. /\ \A u \in Viewers : u # t => pc'[u] = pc[u] /\ doing'[u] = doing[u]
        /\ doing'[t] = "none"
    BY <1>0, <2>1 DEF Go, TaskInv
  <2> QED BY <1>5, <2>1, <2>2, ViewOff
<1>6. CASE t \in Viewers /\ Captured(t)
  <2>1. /\ pc[t] = "reply" /\ reply[t].is = "ok" /\ doing[t] = "capture"
        /\ UNCHANGED <<phase, buffer, queue, closed, history, conn>>
        /\ shot' = [shot EXCEPT ![t] = reply[t].shot]
        /\ reply' = [reply EXCEPT ![t] = NoReply]
        /\ Go(t, "call", "cursor")
    BY <1>6 DEF Captured, Answered, Forget
  <2>2. /\ \A u \in Viewers : u # t => /\ pc'[u] = pc[u] /\ doing'[u] = doing[u]
                                       /\ reply'[u] = reply[u] /\ shot'[u] = shot[u]
        /\ doing'[t] = "cursor" /\ shot'[t] = reply[t].shot
        /\ shot' \in [Viewers -> Nat]
    BY <1>0, <1>6, <2>1 DEF Go, TaskInv, PendingInv, ViewInv, ViewTypes, Reply
  <2>3. Taken(t)' = Taken(t)
    BY <2>1, <2>2 DEF Taken
  <2>4. ~(proc.n >= 2)
    BY <1>0, <2>1 DEF ConnInv
  <2>5. (InStep' <=> InStep) /\ proc'.n \in Nat /\ proc'.n >= proc.n
    BY <1>0, <2>1 DEF InStep, conn
  <2>6. /\ phase' \in [Viewers -> {"off", "buffering", "live"}] /\ buffer' \in [Viewers -> Seq(Nat)]
        /\ UNCHANGED <<queue, seen, closed, missed, published>>
    BY <1>0, <2>1 DEF history, ViewInv, ViewTypes
  <2> QED BY <1>0, <2>1, <2>2, <2>3, <2>4, <2>5, <2>6, ViewMoves
<1>7. CASE t \in Viewers /\ (Snapshot(t) \/ Forward(t))
  BY <1>7, ViewSnapshot, ViewForward
<1> QED BY <1>1, <1>2, <1>3, <1>4, <1>5, <1>6, <1>7 DEF Talk, Handle, Client

\* Every step keeps viewers on the output, or lets them know.
LEMMA ViewStep == ASSUME Inv, Next PROVE ViewInv'
<1> USE TaskNames
<1>0. TaskInv /\ ConnInv /\ OutputInv /\ proc.n \in Nat
  BY DEF Inv, ConnInv
<1>1. CASE Produce \/ Answer \/ Rename \/ Die \/ ReadWindow
  <2>1. UNCHANGED <<view, closed, history, reply>>
    BY <1>1 DEF Produce, Answer, Rename, Die, ReadWindow
  <2>2. (InStep' <=> InStep) /\ proc'.n \in Nat /\ proc'.n >= proc.n
    BY <1>0, <1>1 DEF Produce, Answer, Rename, Die, ReadWindow, InStep, conn, ConnInv
  <2>3. \A u \in Viewers : u # Refresher =>
          pc'[u] = pc[u] /\ doing'[u] = doing[u] /\ reply'[u] = reply[u]
    BY <1>0, <1>1, <2>1 DEF Produce, Answer, Rename, Die, ReadWindow, Go, tasks, TaskInv
  <2> QED BY <2>1, <2>2, <2>3, ViewKept
<1>2. CASE EndOfStream \/ StreamFails
  <2>1. /\ ReaderEnds /\ UNCHANGED <<shot, closed, seen, published, phase, buffer, doing>>
    BY <1>2 DEF EndOfStream, StreamFails, tasks
  <2> QED BY <1>0, <2>1, ViewEnds DEF OutputInv
<1> QED BY <1>1, <1>2, ViewRead, ViewPublished, ViewStart, ViewTalk DEF Next, Reader, Run, Faults

-----------------------------------------------------------------------------
(* The invariant, and what follows from it *)

\* It holds when the service starts.
LEMMA InvInit == ASSUME Init PROVE Inv
<1> USE TaskNames, Replies
<1>1. LockInv
  BY DEF Init, LockInv, Holding, InLine, In, IsInjective
<1>2. TaskInv
  BY DEF Init, TaskInv, Errand, Command
<1>3. PendingInv
  BY DEF Init, PendingInv
<1>4. ConnInv
  <2>1. /\ proc \in [n : Nat, up : BOOLEAN] /\ proc.n = 1 /\ proc.up
        /\ reading = TRUE /\ broken = FALSE /\ ready = FALSE
    BY DEF Init
  <2>2. \A t \in Tasks : pc[t] = IF t = Main THEN "ready" ELSE "idle"
    BY DEF Init
  <2>3. ~(proc.n >= 2) /\ proc.n >= 1
    BY <2>1
  <2>4. /\ \A t \in Tasks : pc[t] \notin {"stop", "spawn", "nested", "reply"}
        /\ \A t \in Tasks \ {Main} : pc[t] # "ready"
    BY <2>2
  <2> HIDE DEF Init
  <2> QED BY <2>1, <2>3, <2>4 DEF ConnInv
<1>5. ReplyInv
  BY DEF Init, ReplyInv, Attaching, Replied, InStep, AnswersMatch, Answered
<1>6. OutputInv
  BY DEF Init, OutputInv, Written, Replied, InStep
<1>7. ViewInv
  BY BoundsAssumption DEF Init, ViewInv, ViewTypes, Follower, Waiting, Gapless, InStep
<1> QED BY <1>1, <1>2, <1>3, <1>4, <1>5, <1>6, <1>7 DEF Inv

\* Nothing changes in a stuttering step.
LEMMA InvStutters == ASSUME Inv, UNCHANGED vars PROVE Inv'
<1>1. UNCHANGED <<lock, pending, reply, conn, tmux, tasks, view, closed, history, used>>
  BY DEF vars
<1>2. LockInv' /\ TaskInv' /\ PendingInv'
  BY <1>1 DEF lock, tasks, Inv, LockInv, Holding, InLine, In, TaskInv, PendingInv
<1>3. ConnInv'
  BY <1>1 DEF conn, tmux, tasks, Inv, ConnInv
<1>4. (InStep' <=> InStep) /\ \A i \in DOMAIN stream : (Replied(i)' <=> Replied(i))
                                                     /\ (Written(i)' <=> Written(i))
  BY <1>1 DEF conn, tmux, InStep, Replied, Written
<1>5. AnswersMatch'
  BY <1>1 DEF tasks, Inv, ReplyInv, AnswersMatch, Answered
<1>6. UNCHANGED <<asked, stream, pending, published, screen, ready, holder, pc, doing>>
  BY <1>1 DEF conn, tmux, tasks, history, lock
<1>7. ReplyInv'
  BY <1>4, <1>5, <1>6, ReplySame
<1>8. OutputInv'
  BY <1>4, <1>6, OutputSame
<1>9. ViewInv'
  <2>1. /\ \A u \in Viewers : pc'[u] = pc[u] /\ doing'[u] = doing[u] /\ reply'[u] = reply[u]
        /\ proc' = proc /\ proc.n \in Nat
    BY <1>1 DEF tasks, conn, Inv, ConnInv
  <2>2. Refresher \in Tasks /\ Refresher \notin Viewers
    BY TaskNames
  <2>3. proc'.n \in Nat /\ proc'.n >= proc.n
    BY <2>1
  <2> QED BY <1>1, <1>4, <2>1, <2>2, <2>3, ViewKept
<1> QED BY <1>2, <1>3, <1>7, <1>8, <1>9 DEF Inv

\* The inductive invariant: the lock, the tasks, the pending command, the connection,
\* tmux's replies, the output and the views agree with one another in every state.
THEOREM Invariance == Spec => []Inv
<1>1. Inv /\ [Next]_vars => Inv'
  BY LockStep, TaskStep, PendingStep, ConnStep, ReplyStep, OutputStep, ViewStep, InvStutters DEF Inv
<1> QED BY <1>1, InvInit, PTL DEF Spec

\* Every variable holds a value of its type; queues stay within their size, and only
\* the holder of the lock has a command under way (control.py: command).
THEOREM TypeCorrect == Spec => []TypeOK
<1>1. ASSUME Inv PROVE TypeOK
  <2>1. /\ pending \in Seq(Tasks) /\ Len(pending) <= 1
        /\ pending # <<>> => pending = <<holder>>
    <3>1. CASE pending = <<>>
      BY <3>1
    <3>2. CASE pending # <<>>
      <4>1. pending = <<holder>> /\ holder \in Tasks
        BY <1>1, <3>2, Awaiting
      <4>2. <<holder>> \in Seq(Tasks) /\ Len(<<holder>>) = 1
        BY <4>1
      <4> QED BY <4>1, <4>2
    <3> QED BY <3>1, <3>2
  <2>2. /\ holder \in Tasks \cup {None} /\ waiters \in Seq(Tasks)
    BY <1>1 DEF Inv, LockInv
  <2>3. /\ reply \in [Tasks -> Reply] /\ proc \in [n : Nat, up : BOOLEAN]
        /\ reading \in BOOLEAN /\ broken \in BOOLEAN /\ ready \in BOOLEAN
    BY <1>1 DEF Inv, PendingInv, ConnInv
  <2>4. /\ asked \in Seq([to : Tasks, want : Command]) /\ stream \in Seq(Event)
        /\ screen \in Nat /\ published \in Nat
    BY <1>1 DEF Inv, ReplyInv, OutputInv
  <2> QED BY <1>1, <2>1, <2>2, <2>3, <2>4 DEF Inv, TaskInv, ViewInv, ViewTypes, TypeOK
<1> QED BY <1>1, Invariance, PTL

\* The command lock is held exactly by who reconnects or awaits a reply, whichever
\* way operations end (control.py: command, ensure_connected).
THEOREM LockAccountedHolds == Spec => []LockAccounted
<1>1. Inv => LockAccounted
  BY DEF Inv, LockInv, Holding, LockAccounted
<1> QED BY <1>1, Invariance, PTL

\* A command gets the reply that tmux wrote to it (control.py: _resolve_response).
THEOREM AnswersMatchHolds == Spec => []AnswersMatch
<1>1. Inv => AnswersMatch
  BY DEF Inv, ReplyInv
<1> QED BY <1>1, Invariance, PTL

\* A viewer whose queue never overflowed misses no output from its snapshot on
\* (control.py: update_subscription, _publish).
THEOREM NoGapHolds == Spec => []NoGap
<1>1. ASSUME Inv PROVE NoGap
  <2> SUFFICES ASSUME NEW v \in Viewers, v \notin missed \cup closed,
                      ~\E i \in DOMAIN queue[v] : queue[v][i].kind = "error"
               PROVE  /\ phase[v] = "live" =>
                           /\ Gapless(Waiting(v))
                           /\ Waiting(v)[Len(Waiting(v))].n = published
                      /\ phase[v] = "buffering" /\ doing[v] = "cursor" =>
                           LET s == <<Shot(shot[v])>> \o Buffered(v)
                           IN Gapless(s) /\ s[Len(s)].n >= published
    BY DEF NoGap
  <2>1. Follower(v) /\ ViewTypes
    BY <1>1 DEF Inv, ViewInv, Excused
  <2>2. phase[v] = "live" =>
          Gapless(Waiting(v)) /\ Waiting(v)[Len(Waiting(v))].n = published
    BY <2>1 DEF Follower
  <2>3. ASSUME phase[v] = "buffering", doing[v] = "cursor"
        PROVE  LET s == <<Shot(shot[v])>> \o Buffered(v)
               IN Gapless(s) /\ s[Len(s)].n >= published
    <3>1. InStep /\ shot[v] \in Taken(v)
      BY <2>1, <2>3 DEF Follower, Taken
    <3>2. PICK p \in Nat, n \in Nat : p = published /\ n = shot[v]
      BY <1>1, <2>1 DEF Inv, OutputInv, ViewTypes
    <3>3. /\ \A i \in DOMAIN buffer[v] : buffer[v][i] = p - Len(buffer[v]) + i
          /\ p - Len(buffer[v]) <= n /\ n <= p
      BY <2>1, <2>3, <3>1, <3>2 DEF Follower
    <3>4. LET s == <<Shot(n)>> \o Buffered(v) IN Gapless(s) /\ s[Len(s)].n = p
      BY <2>1, <3>3, GapBuffered
    <3> QED BY <3>2, <3>4
  <2> QED BY <2>2, <2>3
<1> QED BY <1>1, Invariance, PTL
===============================================================================
