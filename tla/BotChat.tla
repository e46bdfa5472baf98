------------------------------- MODULE BotChat -------------------------------
(***************************************************************************)
(* The Telegram bot (clients/telegram/bot.py) and the one chat it obeys:   *)
(* the poller that fetches updates and hands them to the chat's worker,    *)
(* the worker that handles them one after the other, the flows (hire, add  *)
(* a ticket, retire, broadcast) that take an answer per update, and the    *)
(* threads beside the worker: those that show a pane, those that show a    *)
(* turn's activity, and the one that pushes replies, which ends the        *)
(* display of the turn it thinks was answered.                             *)
(*                                                                         *)
(* What an update says is one of a small set; an update has the number     *)
(* Telegram gives it. A transaction (chat_txn) that calls nobody is one    *)
(* step; a flow's step that calls the office keeps its transaction open    *)
(* meanwhile, and the other threads wait.                                  *)
(***************************************************************************)
EXTENDS Naturals, Sequences, SequencesExt

CONSTANTS
    Agents,      \* with a terminal
    Home,        \* the agent a chat talks to until it picks one
    Sessions,    \* bound: what may be said in one run, and how often: [of, length]
    MaxWaiting,  \* bound: updates Telegram holds, and those that wait for the worker
    MaxUpdates,  \* bound: updates of any run
    MaxCrashes   \* bound: deaths of the bot

VARIABLES
    said,        \* the session
    total,       \* updates there have been
    telegram,    \* those Telegram still holds
    fetched,     \* the poller's: those it has yet to hand over
    offset,      \* the poller's, 0 when it has none
    queue,       \* the worker's
    at,          \* where the worker is
    pending,     \* the flow that is open
    target,      \* the agent picked
    voice,
    slot,        \* the pane watch the chat knows of
    watching,    \* pane watches that run
    leaving,     \* those in their last lines
    renders,     \* per agent, the turn whose activity is shown
    turns,       \* activity watchers that run
    finished,    \* turns whose display is finalized
    popped,      \* those about to be
    told,        \* watches and turns whose stop_event is set
    crashes,
    \* history:
    calls,       \* made to the office on the operator's behalf
    handled,     \* updates whose handler has ended
    lost         \* updates that went with the process

incoming == <<said, total, telegram, fetched, offset>>
state    == <<pending, target, voice>>
panes    == <<slot, watching, leaving>>
activity == <<renders, turns, finished, popped>>
bvars    == <<incoming, queue, at, state, panes, activity, told, crashes, calls, handled, lost>>

Kinds  == {"message", "edited_message", "callback_query"}  \* ALLOWED_UPDATE_TYPES
Words  == {"say", "misnamed", "photo", "mention", "run", "broadcast", "cancel", "menu", "voice",
           "watch", "unwatch",                                             \* typed
           "hire", "ticket", "priority", "retire", "talk", "control", "stop"}  \* tapped
Update == [kinds : SUBSET Kinds, ours : BOOLEAN, word : Words, agent : Agents \cup {Home}]
NoFlow == [flow |-> "none", stage |-> "none", agent |-> Home, opened |-> 0, answers |-> <<>>]
Asleep == [step |-> "asleep", flow |-> NoFlow, was |-> NoFlow, agent |-> Home, old |-> 0,
           u |-> [id |-> 0, is |-> [kinds |-> {}, ours |-> FALSE, word |-> "none", agent |-> Home]]]
Nobody == [id |-> 0, agent |-> Home]
Turn   == [id : 1 .. MaxUpdates, agent : Agents \cup {Home}]

Init ==
    /\ said \in Sessions
    /\ total = 0 /\ telegram = <<>> /\ fetched = <<>> /\ offset = 0
    /\ queue = <<>> /\ at = Asleep
    /\ pending = NoFlow /\ target = Home /\ voice = FALSE
    /\ slot = Nobody /\ watching = {} /\ leaving = {}
    /\ renders = [a \in Agents \cup {Home} |-> 0] /\ turns = {} /\ finished = {} /\ popped = {}
    /\ told = {} /\ crashes = 0
    /\ calls = <<>> /\ handled = {} /\ lost = {}

-----------------------------------------------------------------------------
(* Updates come in                                                         *)

\* The operator, or somebody else, types or taps.
Say(u) ==
    /\ total < said.length /\ Len(telegram) < MaxWaiting /\ Len(fetched) + Len(queue) < MaxWaiting
    /\ total' = total + 1
    /\ telegram' = Append(telegram, [id |-> total + 1, is |-> u])
    /\ UNCHANGED <<said, fetched, offset, queue, at, state, panes, activity, told, crashes, calls, handled, lost>>

\* Telegram forgets what lies below the offset of a request, and answers with the rest.
\* (A request whose answer is lost is one made before the updates came.)
Oldest == total + 1 - Len(telegram)
Unconfirmed(n) ==
    IF n <= Oldest THEN telegram ELSE SubSeq(telegram, n + 1 - Oldest, Len(telegram))

GetUpdates ==
    /\ fetched = <<>>
    /\ telegram' = Unconfirmed(offset)
    /\ fetched' = telegram'
    /\ fetched' # fetched \/ telegram' # telegram
    /\ UNCHANGED <<said, total, offset, queue, at, state, panes, activity, told, crashes, calls, handled, lost>>

\* An update of two types is refused, one of none dropped.
Routed(u) == IF \E k \in Kinds : u.kinds = {k} THEN CHOOSE k \in Kinds : u.kinds = {k} ELSE "none"

Allowed(u) == Routed(u) # "none" /\ u.ours

\* Mutant: the poller does not move its offset.
SubmitAgain ==
    /\ fetched # <<>>
    /\ fetched' = Tail(fetched)
    /\ UNCHANGED offset
    /\ LET u == Head(fetched) IN
       IF Allowed(u.is)
         THEN queue' = Append(queue, u) /\ UNCHANGED handled
         ELSE handled' = handled \cup {u.id} /\ UNCHANGED queue
    /\ UNCHANGED <<said, total, telegram, at, state, panes, activity, told, crashes, calls, lost>>

\* One update goes to the worker; one that is not the chat's is dropped here.
Submit ==
    /\ fetched # <<>>
    /\ fetched' = Tail(fetched)
    /\ offset' = Head(fetched).id + 1
    /\ LET u == Head(fetched) IN
       IF Allowed(u.is)
         THEN queue' = Append(queue, u) /\ UNCHANGED handled
         ELSE handled' = handled \cup {u.id} /\ UNCHANGED queue
    /\ UNCHANGED <<said, total, telegram, at, state, panes, activity, told, crashes, calls, lost>>

-----------------------------------------------------------------------------
(* The worker                                                              *)

Take ==
    /\ at = Asleep /\ queue # <<>>
    /\ at' = [Asleep EXCEPT !.step = "dispatch", !.u = Head(queue)]
    /\ queue' = Tail(queue)
    /\ UNCHANGED <<incoming, state, panes, activity, told, crashes, calls, handled, lost>>

Now(step)  == at.step = step
This       == at.u.id
Says(word) == Now("dispatch") /\ at.u.is.word = word
Typed      == Now("dispatch") /\ Routed(at.u.is) = "message"
Tapped(w)  == Says(w) /\ Routed(at.u.is) = "callback_query" /\ at.u.is.agent \in Agents \cup {Home}
Command(w) == Says(w) /\ Typed /\ pending = NoFlow

Handled == at' = Asleep /\ handled' = handled \cup {This}

\* The transaction a flow's step keeps while it calls the office.
Free == at.step # "submit"

Call(flow, raised) ==
    calls' = Append(calls, [by |-> This, life |-> crashes, raised |-> raised,
                            opened |-> flow.opened, answers |-> flow.answers])

Unopened == [opened |-> 0, answers |-> <<>>]

\* An edit answers nothing.
DeclineEdited ==
    /\ Now("dispatch") /\ Routed(at.u.is) = "edited_message"
    /\ Handled
    /\ UNCHANGED <<incoming, queue, state, panes, activity, told, crashes, calls, lost>>

\* A flow begins, and whatever flow was open is forgotten. Hire, a ticket and a
\* retirement begin with a tap, a broadcast with a label of the keyboard.
Open(flow, stage) ==
    pending' = [flow |-> flow, stage |-> stage, agent |-> at.u.is.agent, opened |-> This, answers |-> <<>>]

Begin ==
    /\ \/ Tapped("hire") /\ Open("hire", "name")
       \/ Tapped("ticket") /\ Open("ticket", "title")
       \/ Tapped("retire") /\ Open("retire", "confirm")
       \/ Command("broadcast") /\ Open("broadcast", "message")
    /\ Handled
    /\ UNCHANGED <<incoming, queue, target, voice, panes, activity, told, crashes, calls, lost>>

\* What comes after each question; "submit" and "tap" ask nothing more.
After == [name |-> "profile", profile |-> "provider", provider |-> "submit", title |-> "description",
          description |-> "tap", confirm |-> "submit", message |-> "submit"]

\* The text answers: a new agent's name must be one, a retirement's must be the agent's.
Answers == CASE pending.stage = "name"    -> at.u.is.word = "say"
             [] pending.stage = "confirm" -> at.u.is.word = "say" /\ at.u.is.agent = pending.agent
             [] OTHER                     -> TRUE

Answered == [pending EXCEPT !.answers = Append(@, This)]

Answering == Typed /\ pending # NoFlow /\ at.u.is.word \notin {"cancel", "photo"}

Cancel ==
    /\ Typed /\ Says("cancel") /\ pending # NoFlow
    /\ pending' = NoFlow /\ Handled
    /\ UNCHANGED <<incoming, queue, target, voice, panes, activity, told, crashes, calls, lost>>

\* The question is asked again: the answer will not do, or only a tap will.
AskAgain ==
    /\ Answering /\ (pending.stage = "tap" \/ ~ Answers)
    /\ Handled
    /\ UNCHANGED <<incoming, queue, state, panes, activity, told, crashes, calls, lost>>

Advance ==
    /\ Answering /\ pending.stage # "tap" /\ Answers /\ After[pending.stage] # "submit"
    /\ pending' = [Answered EXCEPT !.stage = After[pending.stage]]
    /\ Handled
    /\ UNCHANGED <<incoming, queue, target, voice, panes, activity, told, crashes, calls, lost>>

\* Mutant: the last answer leaves the flow open.
LastAnswerKept ==
    /\ Answering /\ pending.stage # "tap" /\ Answers /\ After[pending.stage] = "submit"
    /\ at' = [at EXCEPT !.step = "submit", !.flow = Answered, !.was = pending]
    /\ UNCHANGED <<incoming, queue, state, panes, activity, told, crashes, calls, handled, lost>>

\* The last answer: the flow is closed before the call.
LastAnswer ==
    /\ Answering /\ pending.stage # "tap" /\ Answers /\ After[pending.stage] = "submit"
    /\ at' = [at EXCEPT !.step = "submit", !.flow = Answered, !.was = pending]
    /\ pending' = NoFlow
    /\ UNCHANGED <<incoming, queue, target, voice, panes, activity, told, crashes, calls, handled, lost>>

\* A priority is tapped: the flow is claimed, and called for when the transaction is over.
Priority ==
    /\ Tapped("priority") /\ pending # NoFlow /\ pending.stage = "tap"
    /\ at' = [at EXCEPT !.step = "add", !.flow = Answered, !.was = pending]
    /\ pending' = NoFlow
    /\ UNCHANGED <<incoming, queue, target, voice, panes, activity, told, crashes, calls, handled, lost>>

\* The office is called. Whether it took the request or not, the flow has ended.
Submitted ==
    /\ at.step \in {"submit", "add"}
    /\ Call(at.flow, FALSE) /\ Handled
    /\ UNCHANGED <<incoming, queue, state, panes, activity, told, crashes, lost>>

\* The call raises: a hire is put back at its last question, another flow is gone.
Raised ==
    /\ at.step \in {"submit", "add"}
    /\ pending' = IF at.flow.flow = "hire" THEN at.was ELSE pending
    /\ Call(at.flow, TRUE) /\ Handled
    /\ UNCHANGED <<incoming, queue, target, voice, panes, activity, told, crashes, lost>>

-----------------------------------------------------------------------------
(* Prompts and the activity they set off                                   *)

\* A plain text goes to the agent picked, a mention or a /run to the one it names.
Destination == IF at.u.is.word \in {"mention", "run"} THEN at.u.is.agent ELSE target

\* The agent is blocked, unknown, or the line is not allowed: nothing is sent.
Declined ==
    /\ Command("say") \/ Command("mention") \/ Command("run") \/ (Typed /\ Says("photo"))
    /\ Handled
    /\ UNCHANGED <<incoming, queue, state, panes, activity, told, crashes, calls, lost>>

\* What is said of a watcher that has ended need not be kept.
Live(turn) == {turn} \cap ({t.id : t \in turns} \cup IF Now("swapped") THEN {This} ELSE {})

\* The turn's display takes the place of the agent's last one.
Prompt ==
    /\ \E w \in {"say", "misnamed", "cancel", "mention", "run"} : Command(w)
    /\ at' = [at EXCEPT !.step = "swapped", !.agent = Destination, !.old = renders[Destination]]
    /\ renders' = [renders EXCEPT ![Destination] = This]
    /\ UNCHANGED <<incoming, queue, state, panes, turns, finished, popped, told, crashes, calls, handled, lost>>

\* The last one is stopped and finalized, and this one's watcher starts.
StopOld ==
    /\ Now("swapped")
    /\ at' = [at EXCEPT !.step = "send", !.old = 0]
    /\ told' = told \cup Live(at.old)
    /\ finished' = finished \cup Live(at.old)
    /\ turns' = turns \cup {[id |-> This, agent |-> at.agent]}
    /\ UNCHANGED <<incoming, queue, state, panes, renders, popped, crashes, calls, handled, lost>>

Sent ==
    /\ Now("send")
    /\ Call(Unopened, FALSE) /\ Handled
    /\ UNCHANGED <<incoming, queue, state, panes, activity, told, crashes, lost>>

\* finalize_activity takes the display out of the map first.
Pop(agent, turn) ==
    /\ renders' = [renders EXCEPT ![agent] = 0]
    /\ popped' = popped \cup {turn}

\* The office refuses the prompt: it finalizes its own display, if that is still there.
Refused ==
    /\ Now("send")
    /\ Call(Unopened, FALSE) /\ Handled
    /\ IF renders[at.agent] = This THEN Pop(at.agent, This) ELSE UNCHANGED <<renders, popped>>
    /\ UNCHANGED <<incoming, queue, state, panes, turns, finished, told, crashes, lost>>

\* A file is sent on like a text, whatever flow is open, and without a display.
Photo ==
    /\ Typed /\ Says("photo")
    /\ Call(Unopened, FALSE) /\ Handled
    /\ UNCHANGED <<incoming, queue, state, panes, activity, told, crashes, lost>>

\* The agent is paused or resumed at once; the button can be tapped again.
Control ==
    /\ Tapped("control")
    /\ Call(Unopened, FALSE) /\ Handled
    /\ UNCHANGED <<incoming, queue, state, panes, activity, told, crashes, lost>>

\* ReplyPusher has a reply of the agent: it ends the display of whatever turn is there.
Reply(agent) ==
    /\ Free /\ renders[agent] # 0
    /\ Pop(agent, renders[agent])
    /\ UNCHANGED <<incoming, queue, at, state, panes, turns, finished, told, crashes, calls, handled, lost>>

Finalize(turn) ==
    /\ turn \in popped
    /\ popped' = popped \ {turn} /\ finished' = finished \cup Live(turn)
    /\ UNCHANGED <<incoming, queue, at, state, panes, renders, turns, told, crashes, calls, handled, lost>>

\* An activity watcher ends: told to, its display finalized, after its 300 s, or broken.
TurnEnds(turn) ==
    /\ turn \in turns
    /\ turns' = turns \ {turn} /\ finished' = finished \ {turn.id} /\ told' = told \ {turn.id}
    /\ UNCHANGED <<incoming, queue, at, state, panes, renders, popped, crashes, calls, handled, lost>>

-----------------------------------------------------------------------------
(* Choices and pane watches                                                *)

PickTarget ==
    /\ Tapped("talk") /\ target' = at.u.is.agent /\ Handled
    /\ UNCHANGED <<incoming, queue, pending, voice, panes, activity, told, crashes, calls, lost>>

ToggleVoice ==
    /\ Command("voice") /\ voice' = ~ voice /\ Handled
    /\ UNCHANGED <<incoming, queue, pending, target, panes, activity, told, crashes, calls, lost>>

\* What only shows something, or a tap nothing waits for.
Look ==
    /\ \/ Command("menu")
       \/ Tapped("priority") /\ (pending = NoFlow \/ (pending # NoFlow /\ pending.stage # "tap"))
    /\ Handled
    /\ UNCHANGED <<incoming, queue, state, panes, activity, told, crashes, calls, lost>>

\* A watch takes the place of the chat's last one, which is told, in one transaction.
WatchPick ==
    /\ Command("watch") /\ at.u.is.agent \in Agents
    /\ told' = told \cup ({slot.id} \cap watching)
    /\ slot' = [id |-> This, agent |-> at.u.is.agent]
    /\ at' = [at EXCEPT !.step = "start"]
    /\ UNCHANGED <<incoming, queue, state, watching, leaving, activity, crashes, calls, handled, lost>>

WatchStart ==
    /\ Now("start") /\ watching' = watching \cup {This} /\ Handled
    /\ UNCHANGED <<incoming, queue, state, slot, leaving, activity, told, crashes, calls, lost>>

\* /unwatch stops whatever the chat watches, the button of a watch only its agent's.
Unwatch ==
    /\ Command("unwatch") \/ (Tapped("stop") /\ at.u.is.agent = slot.agent)
    /\ told' = told \cup ({slot.id} \cap watching) /\ Handled
    /\ UNCHANGED <<incoming, queue, state, panes, activity, crashes, calls, lost>>

StopNothing ==
    /\ Tapped("stop") /\ at.u.is.agent # slot.agent /\ Handled
    /\ UNCHANGED <<incoming, queue, state, panes, activity, told, crashes, calls, lost>>

\* A watch ends: told to, its agent idle, its time up, or the connection gone.
WatchEnds(w) ==
    /\ w \in watching
    /\ watching' = watching \ {w} /\ leaving' = leaving \cup {w} /\ told' = told \ {w}
    /\ UNCHANGED <<incoming, queue, at, state, slot, activity, crashes, calls, handled, lost>>

\* Mutant: it clears the chat's watch, whichever that is.
ClearAny(w) ==
    /\ w \in leaving /\ Free
    /\ leaving' = leaving \ {w} /\ slot' = Nobody
    /\ UNCHANGED <<incoming, queue, at, state, watching, activity, told, crashes, calls, handled, lost>>

\* Its last lines: it clears the chat's watch if that is still itself.
Clear(w) ==
    /\ w \in leaving /\ Free
    /\ leaving' = leaving \ {w}
    /\ slot' = IF slot.id = w THEN Nobody ELSE slot
    /\ UNCHANGED <<incoming, queue, at, state, watching, activity, told, crashes, calls, handled, lost>>

\* The bot dies and starts again: everything but Telegram's own queue is gone.
Crash ==
    /\ crashes < MaxCrashes
    /\ crashes' = crashes + 1
    /\ lost' = lost \cup {u \in 1 .. total : u \notin handled /\ \A i \in DOMAIN telegram : telegram[i].id # u}
    /\ fetched' = <<>> /\ offset' = 0 /\ queue' = <<>> /\ at' = Asleep
    /\ pending' = NoFlow /\ target' = Home /\ voice' = FALSE
    /\ slot' = Nobody /\ watching' = {} /\ leaving' = {}
    /\ renders' = [a \in Agents \cup {Home} |-> 0] /\ turns' = {} /\ finished' = {} /\ popped' = {}
    /\ told' = {}
    /\ UNCHANGED <<said, total, telegram, calls, handled>>

Next ==
    \/ \E u \in said.of : Say(u)
    \/ GetUpdates \/ Submit \/ Take
    \/ DeclineEdited \/ Begin \/ Cancel \/ AskAgain \/ Advance \/ LastAnswer \/ Priority \/ Submitted \/ Raised
    \/ Declined \/ Prompt \/ StopOld \/ Sent \/ Refused \/ Photo \/ Control
    \/ \E a \in Agents \cup {Home} : Reply(a)
    \/ \E t \in popped : Finalize(t)
    \/ \E t \in turns : TurnEnds(t)
    \/ PickTarget \/ ToggleVoice \/ Look \/ WatchPick \/ WatchStart \/ Unwatch \/ StopNothing
    \/ \E w \in watching : WatchEnds(w)
    \/ \E w \in leaving : Clear(w)
    \/ Crash

Spec == Init /\ [][Next]_bvars

-----------------------------------------------------------------------------
(* Properties                                                              *)

\* Everything is of its kind; the poller never runs behind the worker.
TypeOK ==
    /\ \A i \in DOMAIN telegram : telegram[i].id \in 1 .. total /\ telegram[i].is \in said.of
    /\ said.of \subseteq Update
    /\ offset \in 0 .. MaxUpdates + 1 /\ crashes \in 0 .. MaxCrashes
    /\ target \in Agents \cup {Home} /\ voice \in BOOLEAN
    /\ turns \subseteq Turn /\ handled \cup lost \subseteq 1 .. total
    /\ watching \cup leaving \cup told \cup finished \cup popped \subseteq 1 .. MaxUpdates
    /\ slot \in [id : 0 .. MaxUpdates, agent : Agents \cup {Home}]
    /\ \A i \in DOMAIN calls : calls[i].life \in 0 .. MaxCrashes

\* run_polling's order: in one life of the bot updates act in the order they were sent,
\* each once; only a death takes one away.
InOrderOnce ==
    /\ \A i, j \in DOMAIN calls : i < j /\ calls[i].life = calls[j].life => calls[i].by < calls[j].by
    /\ \A u \in 1 .. total :
          \/ u \in handled \cup lost
          \/ at # Asleep /\ This = u
          \/ \E s \in {telegram, fetched, queue} : \E i \in DOMAIN s : s[i].id = u

\* A flow is submitted once, unless the call raised, with as many answers as it asked
\* for, each given after the question and after the one before it.
FlowTrue ==
    /\ \A i, j \in DOMAIN calls :
          i < j /\ calls[i].opened = calls[j].opened /\ calls[i].life = calls[j].life
            => calls[i].opened = 0 \/ calls[i].raised
    /\ \A i \in DOMAIN calls :
          /\ \A a, b \in DOMAIN calls[i].answers : a < b => calls[i].answers[a] < calls[i].answers[b]
          /\ \A a \in DOMAIN calls[i].answers : calls[i].opened < calls[i].answers[a]

\* Every thread that shows something can be reached: it is the one the chat knows of,
\* or it has been told to end, or is about to be.
Reachable ==
    /\ \A w \in watching : w = slot.id \/ w \in told
    /\ \A t \in turns :
          \/ renders[t.agent] = t.id
          \/ t.id \in told \cup finished \cup popped
          \/ Now("swapped") /\ at.old = t.id

\* What the operator sends takes effect in order and at most once, and what it starts
\* can be stopped.
ChatTrue == InOrderOnce /\ FlowTrue /\ Reachable

=============================================================================
