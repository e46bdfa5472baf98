-------------------------------- MODULE Board --------------------------------
(***************************************************************************)
(* One participant's ticket board (modules/office/cli.py, commands take to *)
(* delete; lib/board_interaction.py add_ticket). Every office command is a *)
(* process of its own: it reads lists with LRANGE, one after the other,    *)
(* picks one entry, and then runs one Lua script that names that entry by  *)
(* its exact bytes. Nothing is locked between the reads and the script.    *)
(*                                                                         *)
(* Tickets reach the board through receive custody, which runs add_ticket  *)
(* at most once for each AddTicket envelope.                               *)
(*                                                                         *)
(* Timestamps are left out, so two entries that differ only in when they   *)
(* were written are the same bytes here.                                   *)
(***************************************************************************)
EXTENDS Integers, FiniteSets, RedisLists

CONSTANTS
    Procs,       \* office processes
    Adds,        \* AddTicket envelopes that may be sent to this board
    Ids,         \* ticket ids
    Titles,
    Original,    \* the title that add gives
    Outcomes,    \* choices of done --outcome
    None,
    NotesMax,    \* NOTES_MAX
    DoneMax,     \* BOARD_DONE_MAX
    MaxCommands  \* bound: commands other than add

ASSUME TicketsAssumption ==
    /\ Original \in Titles
    /\ None \notin Ids \cup Titles \cup Outcomes \cup Adds
    /\ {"none", "note", "cancelled"} \cap Outcomes = {}

ASSUME CapsAssumption ==
    /\ NotesMax \in Nat
    /\ DoneMax \in Nat \ {0}
    /\ MaxCommands \in Nat

VARIABLES
    list,      \* tasks.todo, doing, hold, done and invalid
    cmd,       \* per process, the command it runs
    flight,    \* payloads of AddTicket envelopes sent and not yet opened
    \* history and bounds:
    sent,      \* per envelope, the id it was sent with, or None
    created,   \* envelopes whose ticket was written
    removed,   \* tickets that a delete or the retention removed
    told,      \* per ticket, the notes and verdicts that took effect, in order
    titled,    \* per ticket, the last title that took effect
    started    \* how much of MaxCommands is used up

history == <<sent, created, removed, told, titled, started>>
vars    == <<list, cmd, flight, history>>

-----------------------------------------------------------------------------
(* Entries and commands *)

Open   == {"todo", "doing", "hold"}
States == Open \cup {"done"}
Lists  == States \cup {"invalid"}

Verdicts == Outcomes \cup {"cancelled"}

\* What is stored in a list. Two entries are the same bytes iff they are equal.
\* normalize_ticket rejects an entry that is not ok.
Entry == [add : Adds, id : Ids, ok : BOOLEAN, title : Titles,
          status : States \cup {"cancelled"}, outcome : Outcomes \cup {"none"},
          notes : Seq(Verdicts \cup {"note"})]

New(a, id, ok) == [add |-> a, id |-> id, ok |-> ok, title |-> Original,
                   status |-> "todo", outcome |-> "none", notes |-> <<>>]

\* The lists that a command reads, in order, without and with an id.
ScansBare ==
    [take    |-> <<"todo">>,
     done    |-> <<"doing">>,
     cancel  |-> <<"doing">>,
     return  |-> <<"doing">>,
     hold    |-> <<"doing">>,
     note    |-> <<"doing">>,
     retitle |-> <<"todo", "doing", "hold">>]

ScansById ==
    [take    |-> <<"todo", "hold">>,
     done    |-> <<"doing">>,
     cancel  |-> <<"doing", "todo">>,
     return  |-> <<"doing">>,
     hold    |-> <<"doing", "todo">>,
     note    |-> <<"todo", "doing", "hold">>,
     retitle |-> <<"todo", "doing", "hold">>,
     reopen  |-> <<"done">>,
     requeue |-> <<"done">>,  \* reopen --todo
     delete  |-> <<"todo", "doing", "hold", "done">>,
     add     |-> <<"todo", "doing", "hold", "done">>]

Commands == DOMAIN ScansById

Sighting == [at : Lists, entry : Entry]

Process == [do : Commands \cup {"none"}, ref : Ids \cup {None}, arg : Adds \cup {None},
            step : {"idle", "check", "read", "apply"}, left : Seq(States),
            found : SUBSET Sighting, bad : Seq(Sighting)]

Idle == [do |-> "none", ref |-> None, arg |-> None, step |-> "idle",
         left |-> <<>>, found |-> {}, bad |-> <<>>]

\* Every variable holds a value of its type; a process that runs a command is at
\* one of its steps and has seen only entries of this board.
TypeOK ==
    /\ list \in [Lists -> Seq(Entry)]
    /\ cmd \in [Procs -> Process]
    /\ \A p \in Procs : cmd[p].do = "none" <=> cmd[p] = Idle
    /\ flight \subseteq Entry
    /\ sent \in [Adds -> Ids \cup {None}]
    /\ created \subseteq Adds
    /\ removed \subseteq created
    /\ told \in [Adds -> Seq(Verdicts \cup {"note"})]
    /\ titled \in [Adds -> Titles]
    /\ started \in 0 .. MaxCommands

Init ==
    /\ list = [s \in Lists |-> <<>>]
    /\ cmd = [p \in Procs |-> Idle]
    /\ flight = {}
    /\ sent = [a \in Adds |-> None]
    /\ created = {}
    /\ removed = {}
    /\ told = [a \in Adds |-> <<>>]
    /\ titled = [a \in Adds |-> Original]
    /\ started = 0

-----------------------------------------------------------------------------
(* A command starts, and ends. Its id is looked at while it reads; titles and *)
(* outcomes, given at the start too, are chosen where they are used.          *)

Starts(p, do, ref, arg, left) ==
    /\ cmd[p] = Idle
    /\ cmd' = [cmd EXCEPT ![p] =
         [Idle EXCEPT !.do = do, !.ref = ref, !.arg = arg, !.left = left,
                      !.step = IF do = "take" THEN "check" ELSE "read"]]

Counts ==
    /\ started < MaxCommands
    /\ started' = started + 1
    /\ UNCHANGED <<list, flight, sent, created, removed, told, titled>>

Bare(p, do) ==
    /\ Starts(p, do, None, None, ScansBare[do])
    /\ Counts

ById(p, do, ref) ==
    /\ do # "add"
    /\ Starts(p, do, ref, None, ScansById[do])
    /\ Counts

Issued == {sent[a] : a \in Adds} \ {None}

Sends(a, id, ok) ==
    /\ sent[a] = None
    /\ sent' = [sent EXCEPT ![a] = id]
    /\ flight' = flight \cup {New(a, id, ok)}

\* add without --id makes a new id, and reads no board. Other senders of
\* AddTicket may write a payload that cannot be read.
AddNew(a, id, ok) ==
    /\ id \notin Issued
    /\ Sends(a, id, ok)
    /\ UNCHANGED <<list, cmd, created, removed, told, titled, started>>

AddSame(p, a, id) ==
    /\ sent[a] = None
    /\ id \in Issued
    /\ Starts(p, "add", id, a, ScansById.add)
    /\ UNCHANGED <<list, flight, history>>

Ends(p) == cmd' = [cmd EXCEPT ![p] = Idle]

\* The process is killed, or Redis answers with an error.
Interrupt(p) ==
    /\ cmd[p] # Idle
    /\ Ends(p)
    /\ UNCHANGED <<list, flight, history>>

-----------------------------------------------------------------------------
(* What a command reads *)

\* take without an id looks at the head only.
Seen(c) ==
    LET s == list[Head(c.left)]
    IN IF c.do = "take" /\ c.ref = None THEN SubSeq(s, 1, IF s = <<>> THEN 0 ELSE 1)
       ELSE s

Bad(e) == ~e.ok

Matches(c) == {[at |-> Head(c.left), entry |-> e] :
    e \in {x \in Range(Seen(c)) : x.ok /\ c.ref \in {None, x.id}}}

\* What is left of a reading from its first unreadable entry on.
FromBad(reading) ==
    LET B == {i \in DOMAIN reading : Bad(reading[i].entry)}
    IN IF B = {} THEN <<>> ELSE SubSeq(reading, Min(B), Len(reading))

Quarry(c) ==
    FromBad([i \in DOMAIN Seen(c) |-> [at |-> Head(c.left), entry |-> Seen(c)[i]]])

\* LRANGE of the next list. An unreadable entry ends every command but take,
\* which puts it away first, and add, which ignores it.
Read(p) ==
    LET c == cmd[p]
    IN /\ c.step = "read"
       /\ c.left # <<>>
       /\ c.bad = <<>>
       /\ IF \/ Quarry(c) # <<>> /\ c.do \notin {"take", "add"}
             \/ Matches(c) # {} /\ c.do = "add"
          THEN Ends(p)
          ELSE cmd' = [cmd EXCEPT ![p] = [c EXCEPT
                 !.left = Tail(@),
                 !.found = @ \cup Matches(c),
                 !.bad = IF c.do = "take" THEN Quarry(c) ELSE <<>>]]
       /\ UNCHANGED <<list, flight, history>>

\* Mutant: what LREM returns is not looked at.
TransferBlind(from, old, to, new) ==
    list' = [list EXCEPT ![from] = LRem(@, old), ![to] = Append(@, new)]

\* The transition script: LREM of the exact entry, RPUSH of its replacement.
Transfer(from, old, to, new) ==
    /\ In(list[from], old)
    /\ list' = [list EXCEPT ![from] = LRem(@, old), ![to] = Append(@, new)]

\* _quarantine_invalid: the entry goes to invalid as it is. take without an id
\* ends there.
Quarantine(p) ==
    LET c == cmd[p]
        x == Head(c.bad)
    IN /\ c.bad # <<>>
       /\ Transfer(x.at, x.entry, "invalid", x.entry)
       /\ IF c.ref = None THEN Ends(p)
          ELSE cmd' = [cmd EXCEPT ![p].bad = FromBad(Tail(@))]
       /\ UNCHANGED <<flight, history>>

\* Another command has put it away.
QuarantineFails(p) ==
    LET c == cmd[p]
    IN /\ c.bad # <<>>
       /\ ~In(list[Head(c.bad).at], Head(c.bad).entry)
       /\ Ends(p)
       /\ UNCHANGED <<list, flight, history>>

\* All is read.
Decides(p) ==
    /\ cmd[p].step = "read"
    /\ cmd[p].left = <<>>
    /\ cmd[p].bad = <<>>

Choice(c) == CHOOSE x \in c.found : TRUE

Eligible(c) ==
    /\ Cardinality(c.found) = 1
    /\ c.do = "note" => Len(Choice(c).entry.notes) < NotesMax

\* No entry, several, or no room for a note.
Refuse(p) ==
    /\ Decides(p)
    /\ cmd[p].do # "add"
    /\ ~Eligible(cmd[p])
    /\ Ends(p)
    /\ UNCHANGED <<list, flight, history>>

\* take looks at the length of doing before it reads, reopen when it has chosen.
CheckDoing(p) ==
    LET c == cmd[p]
    IN /\ \/ c.step = "check"
          \/ c.do = "reopen" /\ Decides(p) /\ Eligible(c)
       /\ IF list["doing"] # <<>> THEN Ends(p)
          ELSE cmd' = [cmd EXCEPT ![p].step = IF c.do = "take" THEN "read" ELSE "apply"]
       /\ UNCHANGED <<list, flight, history>>

-----------------------------------------------------------------------------
(* What a command does *)

\* One entry has been chosen, and the script is next.
Applies(p, Kinds) ==
    /\ cmd[p].do \in Kinds
    /\ IF cmd[p].do = "reopen" THEN cmd[p].step = "apply"
       ELSE Decides(p) /\ Eligible(cmd[p])

Tells(a, what) == told' = [told EXCEPT ![a] = Append(@, what)]

\* _transition_selected
Transition(p, x, to, new) ==
    /\ Transfer(x.at, x.entry, to, new)
    /\ Ends(p)
    /\ UNCHANGED <<flight, sent, created, removed, titled, started>>

\* Mutant: reopen relies on its own look at doing.
BusyTaking(c) == c.do = "take" /\ list["doing"] # <<>>

\* The script lets take and reopen through only when doing is empty.
Busy(c) == c.do \in {"take", "reopen"} /\ list["doing"] # <<>>

Take(p) ==
    LET x == Choice(cmd[p])
    IN /\ Applies(p, {"take"})
       /\ ~Busy(cmd[p])
       /\ Transition(p, x, "doing", [x.entry EXCEPT !.status = "doing"])
       /\ UNCHANGED told

Done(p, outcome) ==
    LET x == Choice(cmd[p])
    IN /\ Applies(p, {"done"})
       /\ Transition(p, x, "done", [x.entry EXCEPT !.status = "done", !.outcome = outcome])
       /\ Tells(x.entry.add, outcome)

\* Mutant: the status is the name of the command.
CancelNamed(p) ==
    LET x == Choice(cmd[p])
    IN /\ Applies(p, {"cancel"})
       /\ Transition(p, x, "done", [x.entry EXCEPT !.status = "cancel"])
       /\ Tells(x.entry.add, "cancelled")

Cancel(p) ==
    LET x == Choice(cmd[p])
    IN /\ Applies(p, {"cancel"})
       /\ Transition(p, x, "done", [x.entry EXCEPT !.status = "cancelled"])
       /\ Tells(x.entry.add, "cancelled")

Return(p) ==
    LET x == Choice(cmd[p])
    IN /\ Applies(p, {"return"})
       /\ Transition(p, x, "todo", [x.entry EXCEPT !.status = "todo", !.outcome = "none"])
       /\ UNCHANGED told

Hold(p) ==
    LET x == Choice(cmd[p])
    IN /\ Applies(p, {"hold"})
       /\ Transition(p, x, "hold", [x.entry EXCEPT !.status = "hold"])
       /\ UNCHANGED told

Previous(e) == IF e.status = "cancelled" THEN "cancelled" ELSE e.outcome

\* The verdict becomes a note; nothing limits their number here.
Reopened(e, status) ==
    [e EXCEPT !.status = status, !.outcome = "none", !.notes = Append(@, Previous(e))]

Reopen(p) ==
    LET x == Choice(cmd[p])
    IN /\ Applies(p, {"reopen"})
       /\ ~Busy(cmd[p])
       /\ Transition(p, x, "doing", Reopened(x.entry, "doing"))
       /\ UNCHANGED told

\* Mutant: the verdict is dropped with the outcome.
RequeueForgets(p) ==
    LET x == Choice(cmd[p])
    IN /\ Applies(p, {"requeue"})
       /\ Transition(p, x, "todo", [x.entry EXCEPT !.status = "todo", !.outcome = "none"])
       /\ UNCHANGED told

Requeue(p) ==
    LET x == Choice(cmd[p])
    IN /\ Applies(p, {"requeue"})
       /\ Transition(p, x, "todo", Reopened(x.entry, "todo"))
       /\ UNCHANGED told

\* LSET of the first entry that is equal.
Replace(s, old, new) ==
    [s EXCEPT ![CHOOSE i \in DOMAIN s : s[i] = old /\ \A j \in 1 .. i - 1 : s[j] # old] = new]

Retitle(p, title) ==
    LET x == Choice(cmd[p])
    IN /\ Applies(p, {"retitle"})
       /\ In(list[x.at], x.entry)
       /\ list' = [list EXCEPT ![x.at] =
            Replace(@, x.entry, [x.entry EXCEPT !.title = title])]
       /\ titled' = [titled EXCEPT ![x.entry.add] = title]
       /\ Ends(p)
       /\ UNCHANGED <<flight, sent, created, removed, told, started>>

\* Mutant: the entry to rewrite is found by its id.
NoteById(p) ==
    LET x == Choice(cmd[p])
        Same == {i \in DOMAIN list[x.at] : list[x.at][i].id = x.entry.id}
    IN /\ Applies(p, {"note"})
       /\ \E i \in Same :
            list' = [list EXCEPT ![x.at][i] = [x.entry EXCEPT !.notes = Append(@, "note")]]
       /\ Tells(x.entry.add, "note")
       /\ Ends(p)
       /\ UNCHANGED <<flight, sent, created, removed, titled, started>>

Note(p) ==
    LET x == Choice(cmd[p])
    IN /\ Applies(p, {"note"})
       /\ In(list[x.at], x.entry)
       /\ list' = [list EXCEPT ![x.at] =
            Replace(@, x.entry, [x.entry EXCEPT !.notes = Append(@, "note")])]
       /\ Tells(x.entry.add, "note")
       /\ Ends(p)
       /\ UNCHANGED <<flight, sent, created, removed, titled, started>>

Delete(p) ==
    LET x == Choice(cmd[p])
    IN /\ Applies(p, {"delete"})
       /\ In(list[x.at], x.entry)
       /\ list' = [list EXCEPT ![x.at] = LRem(@, x.entry)]
       /\ removed' = removed \cup {x.entry.add}
       /\ Ends(p)
       /\ UNCHANGED <<flight, sent, created, told, titled, started>>

\* "task changed while the command was running", or doing is taken.
Changed(p) ==
    LET x == Choice(cmd[p])
    IN /\ Applies(p, Commands \ {"add"})
       /\ ~In(list[x.at], x.entry) \/ Busy(cmd[p])
       /\ Ends(p)
       /\ UNCHANGED <<list, flight, history>>

-----------------------------------------------------------------------------
(* Tickets arrive and are trimmed *)

\* add --id has not found the id, and sends its envelope.
Send(p) ==
    /\ Decides(p)
    /\ cmd[p].do = "add"
    /\ Sends(cmd[p].arg, cmd[p].ref, TRUE)
    /\ Ends(p)
    /\ UNCHANGED <<list, created, removed, told, titled, started>>

\* add_ticket: RPUSH to todo. Whether custody learns of it is custody's affair.
Create(e) ==
    /\ flight' = flight \ {e}
    /\ created' = created \cup {e.add}
    /\ list' = [list EXCEPT !["todo"] = Append(@, e)]
    /\ UNCHANGED <<cmd, sent, removed, told, titled, started>>

\* The envelope ends elsewhere: dead, unresolved or undeliverable.
Stray(e) ==
    /\ flight' = flight \ {e}
    /\ UNCHANGED <<list, cmd, history>>

\* RetentionTrimmer.poll.
TrimDone ==
    LET s == list["done"]
    IN /\ Len(s) > DoneMax
       /\ list' = [list EXCEPT !["done"] = LTrim(@, DoneMax)]
       /\ removed' = removed \cup {s[i].add : i \in 1 .. Len(s) - DoneMax}
       /\ UNCHANGED <<cmd, flight, sent, created, told, titled, started>>

-----------------------------------------------------------------------------
Command(p) ==
    \/ \E do \in DOMAIN ScansBare : Bare(p, do)
    \/ \E do \in DOMAIN ScansById, ref \in Ids : ById(p, do, ref)
    \/ \E a \in Adds, id \in Ids : AddSame(p, a, id)

Look(p) ==
    \/ CheckDoing(p) \/ Read(p) \/ Refuse(p)
    \/ Quarantine(p) \/ QuarantineFails(p)

Act(p) ==
    \/ Take(p) \/ Cancel(p) \/ Return(p) \/ Hold(p) \/ Reopen(p) \/ Requeue(p)
    \/ \E outcome \in Outcomes : Done(p, outcome)
    \/ \E title \in Titles : Retitle(p, title)
    \/ Note(p) \/ Delete(p) \/ Changed(p) \/ Send(p)

Next ==
    \/ \E p \in Procs : Command(p) \/ Look(p) \/ Act(p) \/ Interrupt(p)
    \/ \E a \in Adds, id \in Ids, ok \in BOOLEAN : AddNew(a, id, ok)
    \/ \E e \in flight : Create(e) \/ Stray(e)
    \/ TrimDone

Spec == Init /\ [][Next]_vars

-----------------------------------------------------------------------------
(* Safety *)

\* One ticket at a time is being done, however many processes take and reopen at
\* once (modules/office/README.md:75-78, "keeps the one-doing-ticket invariant
\* under concurrent office take calls").
OneDoing == Len(list["doing"]) <= 1

Places(a) ==
    UNION {{<<s, i>> : i \in {j \in DOMAIN list[s] : list[s][j].add = a}} : s \in Lists}

\* A ticket that was written and not removed by a delete or by retention is in
\* one list, once, and its status says which; any other is in none. A command
\* that acts on what it read a while ago neither loses nor doubles a ticket, and
\* what cannot be read stays where it came or is put away
\* (modules/office/README.md:75-82).
TicketKept ==
    /\ \A a \in Adds : Cardinality(Places(a)) = IF a \in created \ removed THEN 1 ELSE 0
    /\ \A s \in Lists : \A i \in DOMAIN list[s] :
         LET e == list[s][i]
         IN IF Bad(e) THEN s \in {"todo", "invalid"}
            ELSE e.status = s \/ (s = "done" /\ e.status = "cancelled")

\* No note, title or verdict that took effect is lost to a command that worked on
\* an older reading, and none is overwritten by a later one: the ticket carries
\* all of them, in order, the verdicts of earlier rounds among the notes
\* (modules/office/README.md:123, "reopening never erases what was decided"; 128,
\* "a concurrent transition makes it fail rather than lose either change").
RecordKept ==
    \A s \in States : \A i \in DOMAIN list[s] :
        LET e == list[s][i]
        IN /\ e.title = titled[e.add]
           /\ told[e.add] = IF s = "done" THEN Append(e.notes, Previous(e)) ELSE e.notes

(* Refinement *)

Held(a) == {s \in Lists : \E i \in DOMAIN list[s] : list[s][i].add = a}

Stored(a, s) == list[s][CHOOSE i \in DOMAIN list[s] : list[s][i].add = a]

\* The ticket as its owner sees it.
Card(a) ==
    IF Held(a) = {} THEN [state |-> IF a \in removed THEN "gone" ELSE "absent",
                          title |-> Original, notes |-> <<>>, verdict |-> "none"]
    ELSE LET s == CHOOSE s \in Held(a) : TRUE
             e == Stored(a, s)
         IN [state |-> IF s = "todo" /\ Bad(e) THEN "unread" ELSE s, title |-> e.title, notes |-> e.notes,
             verdict |-> IF s = "done" THEN Previous(e) ELSE "none"]

card == [a \in Adds |-> Card(a)]

Promise == INSTANCE BoardPromise WITH card <- card

\* Reads and scripts of concurrent processes together act as if each command were
\* one step on the ticket as it is at that moment.
PromiseKept == Promise!Spec
=============================================================================
