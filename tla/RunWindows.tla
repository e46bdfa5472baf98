----------------------------- MODULE RunWindows -----------------------------
(***************************************************************************)
(* The run windows of an office: `office run` opens one, a window of the   *)
(* tmux session with a label and a command (modules/tmux/ops.py), and      *)
(* `office run-rm` asks for its removal (modules/office/cli.py). run-rm    *)
(* knows of windows only what the reconciler has published, and leaves the *)
(* removal to the reconciler (modules/tmux/run_windows.py). tmux allows    *)
(* any number of windows of one label.                                     *)
(*                                                                         *)
(* Each command to tmux and to Redis is an action.                         *)
(***************************************************************************)
EXTENDS Naturals

CONSTANTS
    Openers,    \* `office run` processes; a window is named for the one that opens it
    Removers,   \* `office run-rm` processes
    Label,      \* the label each of them is about
    Nothing,    \* what is no window
    MaxFaults   \* bound: commands that fail, and deaths

VARIABLES
    window,     \* per opener: "none", the placeholder "held", "running", "exited", "gone"
    opener,     \* where it is
    record,     \* run.windows: per label, what was published, and (history) of which window
    asked,      \* run.remove
    remover,    \* [at, about]: where it is, and the window whose record it saw
    pass,       \* [at, left, seen]: the reconciler's place, the labels left, what it saw
    faults,
    \* history:
    moved,      \* whether a window changed since the pass last looked
    mixed       \* labels of which a removal saw two windows at once

wvars == <<window, opener, record, asked, remover, pass, faults, moved, mixed>>

Labels == {Label[x] : x \in Openers \cup Removers}
Exists == {"held", "running", "exited"}
Windows(n) == {w \in Openers : Label[w] = n /\ window[w] \in Exists}
NoRecord == [is |-> "none", about |-> Nothing]

\* A window with a pane that is not dead is running, the placeholder's too.
Shown(n) == IF \E w \in Windows(n) : window[w] # "exited" THEN "running" ELSE "exited"
\* Of several windows of a label one is taken, by their order in the session.
Sightings(n) == IF Windows(n) = {} THEN {NoRecord} ELSE [is : {Shown(n)}, about : Windows(n)]

Blank == [n \in Labels |-> NoRecord]
Start == [at |-> "rest", left |-> {}, seen |-> Blank]

\* A request may be left of an earlier run-rm that did not wait for it.
Init ==
    /\ window = [o \in Openers |-> "none"] /\ opener = [o \in Openers |-> "start"]
    /\ record = Blank /\ asked \in SUBSET Labels
    /\ remover = [r \in Removers |-> [at |-> "start", about |-> Nothing]]
    /\ pass = Start /\ faults = 0 /\ moved = FALSE /\ mixed = {}

Fault == faults < MaxFaults /\ faults' = faults + 1
Becomes(w, is) == window' = [window EXCEPT ![w] = is] /\ moved' = TRUE
history == <<moved, mixed>>

-----------------------------------------------------------------------------
(* office run (create_run_window)                                          *)

OpenerTo(o, at) == opener' = [opener EXCEPT ![o] = at]
ofOthers == <<record, asked, remover, pass, mixed>>

CheckLabel(o) ==
    /\ opener[o] = "start"
    /\ OpenerTo(o, IF Windows(Label[o]) = {} THEN "make" ELSE "over")
    /\ UNCHANGED <<window, faults, moved, ofOthers>>

\* The command waits until the window is set up: a placeholder holds it.
MakeWindow(o) ==
    /\ opener[o] = "make"
    /\ OpenerTo(o, "count") /\ Becomes(o, "held")
    /\ UNCHANGED <<faults, ofOthers>>

\* Mutant: that a concurrent creator passed the check as well is not looked at.
Uncounted(o) ==
    /\ opener[o] = "count"
    /\ OpenerTo(o, "retain")
    /\ UNCHANGED <<window, faults, moved, ofOthers>>

CountLabels(o) ==
    /\ opener[o] = "count"
    /\ OpenerTo(o, IF \E w \in Openers : Windows(Label[o]) = {w} THEN "retain" ELSE "undo")
    /\ UNCHANGED <<window, faults, moved, ofOthers>>

\* From here on the window stays when its command exits.
Retain(o) ==
    /\ opener[o] = "retain"
    /\ OpenerTo(o, IF window[o] \in Exists THEN "respawn" ELSE "undo")
    /\ UNCHANGED <<window, faults, moved, ofOthers>>

Respawn(o) ==
    /\ opener[o] = "respawn"
    /\ IF window[o] \in Exists
          THEN OpenerTo(o, "over") /\ Becomes(o, "running")
          ELSE OpenerTo(o, "undo") /\ UNCHANGED <<window, moved>>
    /\ UNCHANGED <<faults, ofOthers>>

CommandFails(o) ==
    /\ opener[o] \in {"make", "count", "retain", "respawn"} /\ Fault
    /\ OpenerTo(o, IF opener[o] = "make" THEN "over" ELSE "undo")
    /\ UNCHANGED <<window, moved, ofOthers>>

\* Only its own window, and that this fails is passed over.
UndoWindow(o) ==
    /\ opener[o] = "undo"
    /\ OpenerTo(o, "over")
    /\ \/ window[o] \in Exists /\ Becomes(o, "gone") /\ UNCHANGED faults
       \/ window[o] \notin Exists /\ UNCHANGED <<window, moved, faults>>
       \/ window[o] \in Exists /\ Fault /\ UNCHANGED <<window, moved>>
    /\ UNCHANGED ofOthers

OpenerDies(o) ==
    /\ opener[o] \notin {"start", "over"} /\ Fault
    /\ OpenerTo(o, "over")
    /\ UNCHANGED <<window, moved, ofOthers>>

\* A command exits; somebody at the terminal closes a window.
Exits(w)  == window[w] = "running" /\ Becomes(w, "exited") /\ UNCHANGED <<opener, faults, ofOthers>>
Closes(w) == window[w] \in Exists /\ Becomes(w, "gone") /\ UNCHANGED <<opener, faults, ofOthers>>

-----------------------------------------------------------------------------
(* office run-rm                                                           *)

RemoverTo(r, at) == remover' = [remover EXCEPT ![r].at = at]
Over(r) == remover' = [remover EXCEPT ![r] = [at |-> "over", about |-> Nothing]]
ofTmux == <<window, opener, history>>

\* A record that cannot be read is taken for none, here and later.
LookUp(r) ==
    /\ remover[r].at = "start"
    /\ IF record[Label[r]] = NoRecord
          THEN Over(r)
          ELSE remover' = [remover EXCEPT ![r] = [at |-> "ask", about |-> record[Label[r]].about]]
    /\ UNCHANGED <<record, asked, pass, faults, ofTmux>>

Ask(r) ==
    /\ remover[r].at = "ask"
    /\ asked' = asked \cup {Label[r]} /\ RemoverTo(r, "wait")
    /\ UNCHANGED <<record, pass, faults, ofTmux>>

AwaitRecord(r) ==
    /\ remover[r].at = "wait"
    /\ \/ record[Label[r]] = NoRecord /\ UNCHANGED faults
       \/ record[Label[r]] # NoRecord /\ Fault
    /\ RemoverTo(r, "confirm")
    /\ UNCHANGED <<record, asked, pass, ofTmux>>

Confirm(r) ==
    /\ remover[r].at = "confirm"
    /\ RemoverTo(r, IF Label[r] \in asked THEN "wait" ELSE "removed")
    /\ UNCHANGED <<record, asked, pass, faults, ofTmux>>

\* The wait is over, or a command fails, or the process dies: the request stays.
GiveUp(r) ==
    /\ remover[r].at \in {"start", "ask", "wait", "confirm"}
    /\ Over(r)
    /\ UNCHANGED <<record, asked, pass, faults, ofTmux>>

-----------------------------------------------------------------------------
(* The reconciler, at the end of a pass (_sync_run_windows)                *)

ofCommands == <<opener, remover>>
Handled(n, at) == pass' = [pass EXCEPT !.at = at, !.left = @ \ {n}, !.seen[n] = NoRecord]
PassTo(at) == pass' = [pass EXCEPT !.at = at]
\* The labels are dealt with one by one, in some order.
At(n, at) == pass.at = at /\ pass.left # {} /\ n = CHOOSE m \in pass.left : TRUE

\* The requests are read and, when there are some, the windows.
ReadRequests ==
    /\ pass.at \in {"rest", "done"}
    /\ pass' = [Start EXCEPT !.at = IF asked = {} THEN "publish" ELSE "look", !.left = asked]
    /\ UNCHANGED <<window, record, asked, faults, history, ofCommands>>

Snapshot ==
    /\ pass.at = "look"
    /\ \E seen \in [Labels -> UNION {Sightings(n) : n \in Labels}] :
          /\ \A n \in Labels : seen[n] \in Sightings(n)
          /\ pass' = [pass EXCEPT !.at = "remove", !.seen = seen]
    /\ mixed' = mixed \cup {n \in pass.left : \E v, w \in Windows(n) : v # w}
    /\ UNCHANGED <<window, record, asked, faults, moved, ofCommands>>

\* By its id; a kill that fails leaves the request for the next pass.
KillWindow(n) ==
    /\ At(n, "remove")
    /\ LET w == pass.seen[n].about
       IN  \/ pass.seen[n] = NoRecord /\ PassTo("forget") /\ UNCHANGED <<window, moved, faults>>
           \/ /\ pass.seen[n] # NoRecord /\ window[w] \in Exists
              /\ Becomes(w, "gone") /\ PassTo("forget") /\ UNCHANGED faults
           \/ /\ pass.seen[n] # NoRecord
              /\ IF window[w] \in Exists THEN Fault ELSE UNCHANGED faults
              /\ Handled(n, "remove") /\ UNCHANGED <<window, moved>>
    /\ UNCHANGED <<record, asked, mixed, ofCommands>>

\* First the request is forgotten, then the record.
Forget(n) ==
    /\ At(n, "forget")
    /\ asked' = asked \ {n} /\ PassTo("forget record")
    /\ UNCHANGED <<window, record, faults, history, ofCommands>>

ForgetRecord(n) ==
    /\ At(n, "forget record")
    /\ record' = [record EXCEPT ![n] = NoRecord] /\ Handled(n, "remove")
    /\ UNCHANGED <<window, asked, faults, history, ofCommands>>

RemovalsDone ==
    /\ pass.at = "remove" /\ pass.left = {}
    /\ PassTo("publish")
    /\ UNCHANGED <<window, record, asked, faults, history, ofCommands>>

LookAgain ==
    /\ pass.at = "publish"
    /\ \E seen \in [Labels -> UNION {Sightings(n) : n \in Labels}] :
          /\ \A n \in Labels : seen[n] \in Sightings(n)
          /\ pass' = [at |-> "write", left |-> Labels, seen |-> seen]
    /\ moved' = FALSE
    /\ UNCHANGED <<window, record, asked, faults, mixed, ofCommands>>

\* What changed is written, what is no more is deleted.
Publish(n) ==
    /\ At(n, "write")
    /\ record' = [record EXCEPT ![n] = pass.seen[n]]
    /\ Handled(n, IF pass.left = {n} THEN "done" ELSE "write")
    /\ UNCHANGED <<window, asked, faults, history, ofCommands>>

\* A command fails or the reconciler dies; it goes on with the next pass.
PassFails ==
    /\ pass.at \notin {"rest", "done"} /\ Fault
    /\ pass' = Start
    /\ UNCHANGED <<window, record, asked, history, ofCommands>>

Next ==
    \/ \E o \in Openers :
          \/ CheckLabel(o) \/ MakeWindow(o) \/ CountLabels(o) \/ Retain(o) \/ Respawn(o)
          \/ CommandFails(o) \/ UndoWindow(o) \/ OpenerDies(o) \/ Exits(o) \/ Closes(o)
    \/ \E r \in Removers : LookUp(r) \/ Ask(r) \/ AwaitRecord(r) \/ Confirm(r) \/ GiveUp(r)
    \/ \E n \in Labels : KillWindow(n) \/ Forget(n) \/ ForgetRecord(n) \/ Publish(n)
    \/ ReadRequests \/ Snapshot \/ RemovalsDone \/ LookAgain \/ PassFails

Spec == Init /\ [][Next]_wvars

-----------------------------------------------------------------------------
(* Properties                                                              *)

TypeOK ==
    /\ \A o \in Openers : window[o] \in Exists \cup {"none", "gone"}
    /\ asked \subseteq Labels /\ mixed \subseteq Labels /\ pass.left \subseteq Labels
    /\ \A n \in Labels : record[n].about \in Openers \cup {Nothing}
    /\ faults \in 0 .. MaxFaults

\* OneRuns: of any number of commands that open a window of one label at the same time,
\* one at most gets to run its command (create_run_window).
OneRuns ==
    \A n \in Labels : \A v, w \in Windows(n) :
        window[v] # "held" /\ window[w] # "held" => v = w

\* Removed: when run-rm says that a window is removed, the one whose record it saw is
\* gone, however requests, removals and re-openings of the label went, unless there were
\* two windows of the label when the reconciler took one (process_removals).
Removed ==
    \A r \in Removers : remover[r].at = "removed" =>
        window[remover[r].about] = "gone" \/ Label[r] \in mixed

\* Published: once a pass has ended, and unless a window has changed since it looked, the
\* published labels are those of the windows there are, and what is said of each is so
\* (publish).
Published ==
    pass.at = "done" /\ ~moved =>
        \A n \in Labels : IF Windows(n) = {} THEN record[n] = NoRecord
                          ELSE record[n].is = Shown(n)

RunsTrue == OneRuns /\ Removed /\ Published
=============================================================================
