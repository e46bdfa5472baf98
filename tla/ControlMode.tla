----------------------------- MODULE ControlMode -----------------------------
(***************************************************************************)
(* The session daemon's one tmux control-mode connection, shared by all    *)
(* viewers (modules/session/control.py, class ControlModeClient) and the   *)
(* websocket handlers that use it (modules/session/app.py).                *)
(*                                                                         *)
(* One event loop runs these tasks: a handler per viewer, the refresh of   *)
(* the pane map, the start of the service, and the reader of tmux's        *)
(* output. Code between two awaits is one action; a task gives way only    *)
(* where it waits for the command lock, a reply, or the process. (Between  *)
(* the two commands of a snapshot the model gives way too.)                *)
(*                                                                         *)
(* One pane is watched. tmux writes its output as the numbers 1, 2, ...:   *)
(* what the pane shows is the number of outputs so far.                    *)
(***************************************************************************)
EXTENDS Integers, FiniteSets, SequencesExt

CONSTANTS
    Viewers,     \* websocket connections
    Main,        \* the task that runs the service's lifespan
    Refresher,   \* the task of _schedule_refresh
    None,
    QueueMax,    \* Subscriber.queue's maxsize
    MaxOutput,   \* bound: outputs of the pane
    MaxAsks,     \* bound: messages of all viewers
    MaxRenames,  \* bound: window notifications
    MaxBreaks    \* bound: ends of the stream, failed and late starts

ASSUME TasksAssumption ==
    /\ Main \notin Viewers
    /\ Refresher \notin Viewers \cup {Main}
    /\ None \notin Viewers \cup {Main, Refresher}

ASSUME BoundsAssumption ==
    /\ QueueMax \in Nat \ {0}
    /\ {MaxOutput, MaxAsks, MaxRenames, MaxBreaks} \subseteq Nat

Tasks == Viewers \cup {Main, Refresher}

VARIABLES
    holder,    \* the holder of _command_lock
    waiters,   \* the tasks that wait for it, in order
    pending,   \* _pending: the tasks whose futures await a reply, in order
    reply,     \* per task, the future of its command
    proc,      \* self.process: the how-manieth it is, and whether it runs
    reading,   \* the reader task of this process has not ended
    broken,    \* broken_reason is set
    ready,     \* _ready
    asked,     \* commands written to tmux and not yet executed
    stream,    \* what tmux wrote and the reader has not read
    screen,    \* outputs the pane has produced
    pc,        \* where each task is
    doing,     \* what it is about to do or doing
    at,        \* the process it looked up before it queued for the lock
    phase,     \* per viewer: off, buffering (during a snapshot) or live
    buffer,    \* Subscriber.buffering
    shot,      \* the snapshot a viewer's handler holds
    queue,     \* Subscriber.queue
    closed,    \* viewers that were sent the error event
    \* history and bounds:
    published, \* the last output the reader has published
    seen,      \* per viewer, what its terminal shows
    missed,    \* viewers from whose full queue an event was dropped, or who were
               \* not told that the stream ended
    used       \* how much of each bound is used up

lock    == <<holder, waiters>>
conn    == <<proc, reading, broken, ready>>
tmux    == <<asked, stream, screen>>
tasks   == <<pc, doing, at>>
view    == <<phase, buffer, shot, queue>>
history == <<published, seen, missed>>
vars    == <<lock, pending, reply, conn, tmux, tasks, view, closed, history, used>>

-----------------------------------------------------------------------------
(* Types *)

Command == {"list", "capture", "cursor", "keys"}
Errand  == Command \cup {"none", "subscribe", "leave"}

NoReply == [is |-> "none", to |-> None, want |-> "none", shot |-> 0]
Open    == [NoReply EXCEPT !.is = "open"]
Failed  == [NoReply EXCEPT !.is = "failed"]

Reply == [is : {"none", "open", "ok", "error", "failed"},
          to : Tasks \cup {None}, want : Command \cup {"none"}, shot : Nat]

\* What tmux writes: a reply, an output of the pane, or a window notification.
\* The first reply of a process is that of attach-session itself.
Said(r) == [kind |-> "reply", reply |-> r, n |-> 0]
Out(i)  == [kind |-> "output", reply |-> NoReply, n |-> i]
Notice  == [kind |-> "window", reply |-> NoReply, n |-> 0]
Hello   == Said([NoReply EXCEPT !.is = "ok"])

Event == [kind : {"reply", "output", "window"}, reply : Reply, n : Nat]

\* What a viewer's queue holds.
Shot(i)  == [kind |-> "snapshot", n |-> i]
Data(i)  == [kind |-> "output", n |-> i]
ErrorEvent == [kind |-> "error", n |-> 0]

Item == [kind : {"snapshot", "output", "error"}, n : Nat]

\* Every variable holds a value of its type; queues stay within their size, and
\* only the holder of the lock has a command under way.
TypeOK ==
    /\ holder \in Tasks \cup {None}
    /\ waiters \in Seq(Tasks)
    /\ pending \in Seq(Tasks)
    /\ Len(pending) <= 1
    /\ pending # <<>> => pending = <<holder>>
    /\ reply \in [Tasks -> Reply]
    /\ proc \in [n : Nat, up : BOOLEAN]
    /\ reading \in BOOLEAN
    /\ broken \in BOOLEAN
    /\ ready \in BOOLEAN
    /\ asked \in Seq([to : Tasks, want : Command])
    /\ stream \in Seq(Event)
    /\ screen \in Nat
    /\ pc \in [Tasks -> {"idle", "call", "ensure", "stop", "spawn", "ready",
                         "nested", "queued", "reply", "gone"}]
    /\ doing \in [Tasks -> Errand]
    /\ at \in [Tasks -> Nat]
    /\ phase \in [Viewers -> {"off", "buffering", "live"}]
    /\ buffer \in [Viewers -> Seq(Nat)]
    /\ shot \in [Viewers -> Nat]
    /\ queue \in [Viewers -> Seq(Item)]
    /\ \A v \in Viewers : Len(queue[v]) <= QueueMax
    /\ closed \subseteq Viewers
    /\ published \in Nat
    /\ seen \in [Viewers -> Nat]
    /\ missed \subseteq Viewers
    /\ used \in [asks : Nat, renames : Nat, breaks : Nat]

-----------------------------------------------------------------------------
\* lifespan has spawned the first process and waits for it.
Init ==
    /\ holder = None
    /\ waiters = <<>>
    /\ pending = <<>>
    /\ reply = [t \in Tasks |-> NoReply]
    /\ proc = [n |-> 1, up |-> TRUE]
    /\ reading = TRUE
    /\ broken = FALSE
    /\ ready = FALSE
    /\ asked = <<>>
    /\ stream = <<Hello>>
    /\ screen = 0
    /\ pc = [t \in Tasks |-> IF t = Main THEN "ready" ELSE "idle"]
    /\ doing = [t \in Tasks |-> IF t = Main THEN "list" ELSE "none"]
    /\ at = [t \in Tasks |-> 0]
    /\ phase = [v \in Viewers |-> "off"]
    /\ buffer = [v \in Viewers |-> <<>>]
    /\ shot = [v \in Viewers |-> 0]
    /\ queue = [v \in Viewers |-> <<>>]
    /\ closed = {}
    /\ published = 0
    /\ seen = [v \in Viewers |-> 0]
    /\ missed = {}
    /\ used = [asks |-> 0, renames |-> 0, breaks |-> 0]

Go(t, label, errand) ==
    /\ pc' = [pc EXCEPT ![t] = label]
    /\ doing' = [doing EXCEPT ![t] = errand]

\* A fault is one of MaxBreaks.
Fault ==
    /\ used.breaks < MaxBreaks
    /\ used' = [used EXCEPT !.breaks = @ + 1]

(* asyncio.Lock: first come, first served *)

Free == holder = None /\ waiters = <<>>

Turn(t) == holder = None /\ waiters # <<>> /\ Head(waiters) = t

Release == holder' = None /\ UNCHANGED waiters

Queue(t) == waiters' = Append(waiters, t) /\ UNCHANGED holder

\* Who waits behind the one that may have the lock next.
Behind == IF waiters = <<>> THEN <<>> ELSE Tail(waiters)

\* t has the lock: at once, or because its turn has come.
Take(t) ==
    /\ holder' = t
    /\ waiters' = Behind

-----------------------------------------------------------------------------
(* tmux (external) *)

\* The pane writes something.
Produce ==
    /\ proc.up
    /\ screen < MaxOutput
    /\ screen' = screen + 1
    /\ stream' = Append(stream, Out(screen + 1))
    /\ UNCHANGED <<lock, pending, reply, conn, asked, tasks, view, closed,
                   history, used>>

\* %begin, the lines of the answer, and %end or %error.
Answer ==
    /\ proc.up
    /\ asked # <<>>
    /\ \E is \in {"ok", "error"} :
         stream' = Append(stream, Said([is |-> is, to |-> Head(asked).to,
                                        want |-> Head(asked).want, shot |-> screen]))
    /\ asked' = Tail(asked)
    /\ UNCHANGED <<lock, pending, reply, conn, screen, tasks, view, closed,
                   history, used>>

\* A window is added, closed or renamed.
Rename ==
    /\ proc.up
    /\ used.renames < MaxRenames
    /\ used' = [used EXCEPT !.renames = @ + 1]
    /\ stream' = Append(stream, Notice)
    /\ UNCHANGED <<lock, pending, reply, conn, asked, screen, tasks, view,
                   closed, history>>

Die ==
    /\ proc.up
    /\ Fault
    /\ proc' = [proc EXCEPT !.up = FALSE]
    /\ asked' = <<>>
    /\ UNCHANGED <<lock, pending, reply, reading, broken, ready, stream, screen,
                   tasks, view, closed, history>>

-----------------------------------------------------------------------------
(* _read_control_stream *)

Reads(kind) == reading /\ stream # <<>> /\ Head(stream).kind = kind

\* Mutant: nothing makes room.
PushGrowing(q, items) == q \o items

\* put_nowait of one item after the other; when the queue is full, the oldest
\* makes room, so the newest QueueMax stay.
Push(q, items) ==
    LET all == q \o items
    IN IF Len(all) > QueueMax THEN SubSeq(all, Len(all) - QueueMax + 1, Len(all)) ELSE all

\* _publish
ReadOutput ==
    LET n    == Head(stream).n
        Live == {v \in Viewers : phase[v] = "live"}
    IN /\ Reads("output")
       /\ stream' = Tail(stream)
       /\ published' = n
       /\ queue' = [v \in Viewers |->
            IF v \in Live THEN Push(queue[v], <<Data(n)>>) ELSE queue[v]]
       /\ buffer' = [v \in Viewers |->
            IF phase[v] = "buffering" THEN Append(buffer[v], n) ELSE buffer[v]]
       /\ missed' = missed \cup {v \in Live : Len(queue[v]) = QueueMax}
       /\ UNCHANGED <<lock, pending, reply, conn, asked, screen, tasks, phase,
                      shot, closed, seen, used>>

\* _schedule_refresh: one refresh at a time.
ReadWindow ==
    /\ Reads("window")
    /\ stream' = Tail(stream)
    /\ IF pc[Refresher] = "idle" THEN Go(Refresher, "call", "list")
       ELSE UNCHANGED <<pc, doing>>
    /\ UNCHANGED <<lock, pending, reply, conn, asked, screen, at, view, closed,
                   history, used>>

\* _resolve_response, _reject_response: the reply is that of the oldest future.
ReadReply ==
    /\ Reads("reply")
    /\ stream' = Tail(stream)
    /\ ready' = TRUE
    /\ IF pending = <<>> THEN UNCHANGED <<pending, reply>>
       ELSE /\ pending' = Tail(pending)
            /\ reply' = [reply EXCEPT ![Head(pending)] = Head(stream).reply]
    /\ UNCHANGED <<lock, proc, reading, broken, asked, screen, tasks, view,
                   closed, history, used>>

\* put_nowait raises on the first full queue, and who comes after it in the sets
\* is not told.
Tell(Told) ==
    LET Watching == {v \in Viewers : phase[v] # "off"}
        Full     == {v \in Watching : Len(queue[v]) = QueueMax}
    IN /\ Told \subseteq Watching \ Full
       /\ Full = {} => Told = Watching
       /\ queue' = [v \in Viewers |->
            IF v \in Told THEN Append(queue[v], ErrorEvent) ELSE queue[v]]
       /\ missed' = missed \cup (Watching \ Told)

\* The finally clause of the reader.
ReaderEnds ==
    /\ reading' = FALSE
    /\ broken' = TRUE
    /\ ready' = TRUE
    /\ stream' = <<>>
    /\ pending' = <<>>
    /\ reply' = [t \in Tasks |->
         IF \E i \in DOMAIN pending : pending[i] = t THEN Failed ELSE reply[t]]
    /\ \E Told \in SUBSET Viewers : Tell(Told)

EndOfStream ==
    /\ reading
    /\ ~proc.up
    /\ stream = <<>>
    /\ ReaderEnds
    /\ UNCHANGED <<lock, proc, asked, screen, tasks, phase, buffer, shot, closed,
                   published, seen, used>>

\* %exit, or an exception in the reader: tmux may run on.
StreamFails ==
    /\ reading
    /\ Fault
    /\ ReaderEnds
    /\ UNCHANGED <<lock, proc, asked, screen, tasks, phase, buffer, shot, closed,
                   published, seen>>

-----------------------------------------------------------------------------
(* How an operation ends *)

\* unsubscribe, in the finally clause of the handler.
Off(v) ==
    /\ phase' = [phase EXCEPT ![v] = "off"]
    /\ buffer' = [buffer EXCEPT ![v] = <<>>]

\* The exception leaves update_subscription or send_keys. The handler answers a
\* ControlModeError of send_keys and goes on; any other exception ends it. The
\* refresh task ends either way, and so does the service when its start fails.
Fails(t, known) ==
    IF t \notin Viewers
    THEN /\ Go(t, IF t = Main THEN "gone" ELSE "idle", "none")
         /\ UNCHANGED <<phase, buffer>>
    ELSE IF doing[t] = "keys" /\ known
    THEN Go(t, "idle", "none") /\ UNCHANGED <<phase, buffer>>
    ELSE Go(t, "gone", "none") /\ Off(t)

-----------------------------------------------------------------------------
(* start and stop *)

\* The synchronous part of start, and the spawning that it awaits.
Spawning ==
    /\ broken' = FALSE
    /\ ready' = FALSE
    /\ pending' = <<>>

\* ensure_connected, with the lock: reconnect, or see that another task has.
Reconnect(t) ==
    /\ \/ pc[t] = "call" /\ Free
       \/ pc[t] = "ensure" /\ Turn(t)
    /\ broken
    /\ ~proc.up
    /\ Take(t)
    /\ Spawning
    /\ Go(t, "spawn", doing[t])
    /\ UNCHANGED <<reply, proc, reading, tmux, at, view, closed, history, used>>

\* start finds the process running and stops it first. stop cancels the refresh
\* task, wherever it waits.
ReconnectStops(t) ==
    /\ \/ pc[t] = "call" /\ Free
       \/ pc[t] = "ensure" /\ Turn(t)
    /\ broken
    /\ proc.up
    /\ t # Refresher
    /\ holder' = t
    /\ waiters' = RemoveFirst(Behind, Refresher)
    /\ pc' = [pc EXCEPT ![t] = "stop", ![Refresher] = "idle"]
    /\ doing' = [doing EXCEPT ![Refresher] = "none"]
    /\ UNCHANGED <<pending, reply, conn, tmux, at, view, closed, history, used>>

\* The refresh task cancels itself: the process is told to terminate, the start
\* is abandoned.
ReconnectCancelled ==
    /\ \/ pc[Refresher] = "call" /\ Free
       \/ pc[Refresher] = "ensure" /\ Turn(Refresher)
    /\ broken
    /\ proc.up
    /\ waiters' = Behind
    /\ proc' = [proc EXCEPT !.up = FALSE]
    /\ asked' = <<>>
    /\ Go(Refresher, "idle", "none")
    /\ UNCHANGED <<holder, pending, reply, reading, broken, ready, stream, screen,
                   at, view, closed, history, used>>

Stopped(t) ==
    /\ pc[t] = "stop"
    /\ proc' = [proc EXCEPT !.up = FALSE]
    /\ asked' = <<>>
    /\ Spawning
    /\ Go(t, "spawn", doing[t])
    /\ UNCHANGED <<lock, reply, reading, stream, screen, at, view, closed,
                   history, used>>

Spawned(t) ==
    /\ pc[t] = "spawn"
    /\ proc' = [n |-> proc.n + 1, up |-> TRUE]
    /\ reading' = TRUE
    /\ stream' = <<Hello>>
    /\ Go(t, "ready", doing[t])
    /\ UNCHANGED <<lock, pending, reply, broken, ready, asked, screen, at, view,
                   closed, history, used>>

\* create_subprocess_exec raises. broken_reason has been cleared.
SpawnFails(t) ==
    /\ pc[t] = "spawn"
    /\ Fault
    /\ Release
    /\ Fails(t, FALSE)
    /\ UNCHANGED <<pending, reply, conn, tmux, at, shot, queue, closed, history>>

\* refresh_panes issues a command inside ensure_connected: the task queues for
\* the lock that it holds.
Ready(t) ==
    /\ pc[t] = "ready"
    /\ t # Main
    /\ ready
    /\ ~broken
    /\ proc.up
    /\ Queue(t)
    /\ Go(t, "nested", doing[t])
    /\ UNCHANGED <<pending, reply, conn, tmux, at, view, closed, history, used>>

\* The stream broke again, or the process is gone, before start was through.
StartFails(t) ==
    /\ pc[t] = "ready"
    /\ ready
    /\ broken \/ (t # Main /\ ~proc.up)
    /\ IF t = Main THEN UNCHANGED lock ELSE Release
    /\ Fails(t, TRUE)
    /\ UNCHANGED <<pending, reply, conn, tmux, at, shot, queue, closed, history,
                   used>>

\* _ready is not set within the timeout: stop ends the process and its reader.
StartTimeout(t) ==
    /\ pc[t] = "ready"
    /\ ~ready
    /\ Fault
    /\ proc' = [proc EXCEPT !.up = FALSE]
    /\ asked' = <<>>
    /\ ReaderEnds
    /\ IF t = Main THEN UNCHANGED lock ELSE Release
    /\ Fails(t, TRUE)
    /\ UNCHANGED <<screen, at, shot, closed, published, seen>>

-----------------------------------------------------------------------------
(* command *)

\* ensure_connected finds the stream broken and another task in possession.
EnsureWaits(t) ==
    /\ pc[t] = "call"
    /\ broken
    /\ ~Free
    /\ Queue(t)
    /\ Go(t, "ensure", doing[t])
    /\ UNCHANGED <<pending, reply, conn, tmux, at, view, closed, history, used>>

\* It has its turn and finds the stream mended.
EnsureMended(t) ==
    /\ pc[t] = "ensure"
    /\ Turn(t)
    /\ ~broken
    /\ waiters' = Tail(waiters)
    /\ Go(t, "call", doing[t])
    /\ UNCHANGED <<holder, pending, reply, conn, tmux, at, view, closed, history,
                   used>>

\* Mutant: the snapshot is taken before the viewer is subscribed.
RegisterLate(t) == UNCHANGED <<phase, buffer>>

\* A subscription is registered, and buffers, before the snapshot is asked for.
Register(t) ==
    IF doing[t] = "subscribe"
    THEN /\ phase' = [phase EXCEPT ![t] = "buffering"]
         /\ buffer' = [buffer EXCEPT ![t] = <<>>]
    ELSE UNCHANGED <<phase, buffer>>

First(errand) == IF errand = "subscribe" THEN "capture" ELSE errand

\* The future is queued and the command written, with the lock held.
Write(t, want) ==
    /\ pending' = Append(pending, t)
    /\ reply' = [reply EXCEPT ![t] = Open]
    /\ asked' = IF proc.up THEN Append(asked, [to |-> t, want |-> want]) ELSE asked

\* Mutant: start does not wait for the reply to the attach.
ConnectedEarly(t) ==
    /\ ~broken
    /\ doing[t] # "leave"
    /\ pc[t] = "call" \/ (t = Main /\ pc[t] = "ready")

\* ensure_connected has nothing to do. The lifespan's start comes here by its own
\* refresh_panes, without the lock.
Connected(t) ==
    /\ ~broken
    /\ doing[t] # "leave"
    /\ pc[t] = "call" \/ (t = Main /\ pc[t] = "ready" /\ ready)

\* The lock is free.
CallNow(t) ==
    /\ Connected(t)
    /\ proc.up
    /\ Free
    /\ Take(t)
    /\ Register(t)
    /\ Write(t, First(doing[t]))
    /\ Go(t, "reply", First(doing[t]))
    /\ UNCHANGED <<conn, stream, screen, at, shot, queue, closed, history, used>>

\* It is not; the process at hand now is the one that will be written to.
CallLater(t) ==
    /\ Connected(t)
    /\ proc.up
    /\ ~Free
    /\ Queue(t)
    /\ Register(t)
    /\ at' = [at EXCEPT ![t] = proc.n]
    /\ Go(t, "queued", First(doing[t]))
    /\ UNCHANGED <<pending, reply, conn, tmux, shot, queue, closed, history, used>>

\* "tmux control mode is not running"
CallFails(t) ==
    /\ Connected(t)
    /\ ~proc.up
    /\ Fails(t, TRUE)
    /\ UNCHANGED <<lock, pending, reply, conn, tmux, at, shot, queue, closed,
                   history, used>>

\* broken_reason is not looked at again.
CallGranted(t) ==
    /\ pc[t] = "queued"
    /\ Turn(t)
    /\ proc.up
    /\ at[t] = proc.n
    /\ Take(t)
    /\ at' = [at EXCEPT ![t] = 0]
    /\ Write(t, doing[t])
    /\ Go(t, "reply", doing[t])
    /\ UNCHANGED <<conn, stream, screen, view, closed, history, used>>

\* The pipe of a process that ended: drain raises ConnectionResetError.
CallReset(t) ==
    /\ pc[t] = "queued"
    /\ Turn(t)
    /\ ~proc.up \/ at[t] # proc.n
    /\ waiters' = Tail(waiters)
    /\ Fails(t, FALSE)
    /\ UNCHANGED <<holder, pending, reply, conn, tmux, at, shot, queue, closed,
                   history, used>>

\* A task is done with its future.
Forget(t) == reply' = [reply EXCEPT ![t] = NoReply]

Answered(t, is) == pc[t] = "reply" /\ reply[t].is \in is

\* capture-pane has been answered; the cursor is asked for next.
Captured(v) ==
    /\ Answered(v, {"ok"})
    /\ doing[v] = "capture"
    /\ Release
    /\ Forget(v)
    /\ shot' = [shot EXCEPT ![v] = reply[v].shot]
    /\ Go(v, "call", "cursor")
    /\ UNCHANGED <<pending, conn, tmux, at, phase, buffer, queue, closed,
                   history, used>>

Buffered(v) == [i \in DOMAIN buffer[v] |-> Data(buffer[v][i])]

\* The snapshot and then the buffered output go to the queue, and output flows.
Snapshot(v) ==
    /\ Answered(v, {"ok"})
    /\ doing[v] = "cursor"
    /\ Release
    /\ Forget(v)
    /\ queue' = [queue EXCEPT ![v] = Push(@, <<Shot(shot[v])>> \o Buffered(v))]
    /\ missed' = IF Len(queue[v]) + 1 + Len(buffer[v]) > QueueMax
                  THEN missed \cup {v} ELSE missed
    /\ phase' = [phase EXCEPT ![v] = "live"]
    /\ buffer' = [buffer EXCEPT ![v] = <<>>]
    /\ shot' = [shot EXCEPT ![v] = 0]
    /\ Go(v, "idle", "none")
    /\ UNCHANGED <<pending, conn, tmux, at, closed, published, seen,
                   used>>

\* Keys have been sent, or the pane map has been read.
Done(t) ==
    /\ Answered(t, {"ok"})
    /\ doing[t] \in {"keys", "list"}
    /\ Release
    /\ Forget(t)
    /\ Go(t, "idle", "none")
    /\ UNCHANGED <<pending, conn, tmux, at, view, closed, history, used>>

\* Mutant: the lock is released on the way of success only.
RefusedLocked(t) ==
    /\ Answered(t, {"error", "failed"})
    /\ Forget(t)
    /\ Fails(t, TRUE)
    /\ UNCHANGED <<lock, pending, conn, tmux, at, shot, queue, closed,
                   history, used>>

\* tmux answered with %error, or the stream ended.
Refused(t) ==
    /\ Answered(t, {"error", "failed"})
    /\ Release
    /\ Forget(t)
    /\ Fails(t, TRUE)
    /\ UNCHANGED <<pending, conn, tmux, at, shot, queue, closed, history,
                   used>>

-----------------------------------------------------------------------------
(* session_socket: a viewer's handler and its forward_output *)

Serving == pc[Main] = "idle"

\* A message of the client: subscribe (again, with refresh), unsubscribe, or keys
\* for the pane it is subscribed to.
Ask(v, errand) ==
    /\ Serving
    /\ pc[v] = "idle"
    /\ v \notin closed
    /\ errand \in {"keys", "leave"} => phase[v] = "live"
    /\ used.asks < MaxAsks
    /\ used' = [used EXCEPT !.asks = @ + 1]
    /\ Go(v, "call", errand)
    /\ UNCHANGED <<lock, pending, reply, conn, tmux, at, view, closed, history>>

\* An empty subscription has nothing to snapshot.
Unsubscribe(v) ==
    /\ pc[v] = "call"
    /\ ~broken
    /\ doing[v] = "leave"
    /\ Off(v)
    /\ Go(v, "idle", "none")
    /\ UNCHANGED <<lock, pending, reply, conn, tmux, at, shot, queue, closed,
                   history, used>>

\* forward_output sends the next event; the error event closes the socket.
Forward(v) ==
    /\ queue[v] # <<>>
    /\ v \notin closed
    /\ pc[v] # "gone"
    /\ queue' = [queue EXCEPT ![v] = Tail(@)]
    /\ IF Head(queue[v]).kind = "error"
       THEN closed' = closed \cup {v} /\ UNCHANGED seen
       ELSE seen' = [seen EXCEPT ![v] = Head(queue[v]).n] /\ UNCHANGED closed
    /\ UNCHANGED <<lock, pending, reply, conn, tmux, tasks, phase, buffer, shot,
                   published, missed, used>>

\* The client disconnects, or the handler sees that forward_output has ended.
Disconnect(v) ==
    /\ Serving
    /\ pc[v] = "idle"
    /\ Off(v)
    /\ Go(v, "gone", "none")
    /\ UNCHANGED <<lock, pending, reply, conn, tmux, at, shot, queue, closed,
                   history, used>>

-----------------------------------------------------------------------------
Reader == ReadOutput \/ ReadWindow \/ ReadReply \/ EndOfStream

Start(t) ==
    \/ Reconnect(t) \/ ReconnectStops(t) \/ Stopped(t) \/ Spawned(t)
    \/ Ready(t) \/ StartFails(t)

Talk(t) ==
    \/ EnsureWaits(t) \/ EnsureMended(t)
    \/ CallNow(t) \/ CallLater(t) \/ CallFails(t) \/ CallGranted(t) \/ CallReset(t)
    \/ Done(t) \/ Refused(t)

Handle(v) == Captured(v) \/ Snapshot(v) \/ Unsubscribe(v)

\* What a task does when the event loop runs it.
Run(t) ==
    \/ Start(t) \/ Talk(t)
    \/ t \in Viewers /\ Handle(t)
    \/ t = Refresher /\ ReconnectCancelled

Faults ==
    \/ Die \/ StreamFails
    \/ \E t \in Tasks : SpawnFails(t) \/ StartTimeout(t)

Client(v) ==
    \/ \E errand \in {"subscribe", "keys", "leave"} : Ask(v, errand)
    \/ Forward(v) \/ Disconnect(v)

Next ==
    \/ Produce \/ Answer \/ Rename
    \/ Reader
    \/ \E t \in Tasks : Run(t)
    \/ \E v \in Viewers : Client(v)
    \/ Faults

Spec == Init /\ [][Next]_vars

\* The event loop runs every task that can run, and tmux answers. Nothing is
\* assumed of clients, of the pane or of faults.
Fairness ==
    /\ WF_vars(Answer)
    /\ WF_vars(Reader)
    /\ \A t \in Tasks : WF_vars(Run(t))

FairSpec == Spec /\ Fairness

-----------------------------------------------------------------------------
(* Safety *)

\* A command gets the reply that tmux wrote to it, never that of another task's
\* command, of an earlier one, or of the attach (_pending is a FIFO beside
\* tmux's; the command lock and _ready keep the two in step).
AnswersMatch ==
    \A t \in Tasks :
        Answered(t, {"ok", "error"}) => reply[t].to = t /\ reply[t].want = doing[t]

\* Nothing is missed between a and b, seen one after the other.
Follows(a, b) == b.kind = "output" => b.n <= a.n + 1

Gapless(s) == \A i \in 2 .. Len(s) : Follows(s[i - 1], s[i])

Waiting(v) == <<Data(seen[v])>> \o queue[v]

\* A viewer whose queue never overflowed misses no output, from its snapshot on,
\* whatever else is snapshot, refreshed and published meanwhile: what its queue
\* holds continues what it has seen, up to the last output read; and what is
\* buffered continues the snapshot that its handler holds (update_subscription
\* buffers before it captures, control.py:173-186).
NoGap ==
    \A v \in Viewers \ (missed \cup closed) :
        \/ \E i \in DOMAIN queue[v] : queue[v][i].kind = "error"
        \/ /\ phase[v] = "live" =>
                /\ Gapless(Waiting(v))
                /\ Waiting(v)[Len(Waiting(v))].n = published
           /\ phase[v] = "buffering" /\ doing[v] = "cursor" =>
                LET s == <<Shot(shot[v])>> \o Buffered(v)
                IN Gapless(s) /\ s[Len(s)].n >= published

\* Whoever holds the command lock is reconnecting or awaits a reply, and nobody
\* else does: no way out of an operation, by an error reply, a dead process, a
\* broken stream or a cancelled task, leaves the lock taken.
LockAccounted ==
    \A t \in Tasks :
        holder = t <=>
            \/ pc[t] = "reply"
            \/ pc[t] \in {"stop", "spawn", "nested"}
            \/ pc[t] = "ready" /\ t # Main

(* A statement of the repository that the code does not keep *)

\* tests/test_session.py:390, "session control recovers after stream break": the
\* task that reconnects gets out of ensure_connected.
Recovers ==
    \A t \in Tasks : pc[t] = "spawn" ~> pc[t] \in {"call", "reply", "idle", "gone"}
=============================================================================
