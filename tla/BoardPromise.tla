---------------------------- MODULE BoardPromise ----------------------------
(***************************************************************************)
(* What the board promises the owner of its tickets (modules/office/       *)
(* README.md:75-131): each command is one step on one ticket, as it is     *)
(* when the command takes effect. At most one ticket is being done, titles *)
(* and notes belong to open tickets, only a finished ticket is reopened,   *)
(* its verdict then becoming a note, and no ticket comes back that was     *)
(* removed. No readings, no scripts, no processes.                         *)
(***************************************************************************)
EXTENDS Naturals, Sequences

CONSTANTS Adds, Titles, Original, Outcomes, NotesMax

VARIABLE card  \* per ticket: its state, title, notes and verdict

Absent == [state |-> "absent", title |-> Original, notes |-> <<>>, verdict |-> "none"]

Init == card = [a \in Adds |-> Absent]

\* Ticket a, in one of the states From, becomes c.
Becomes(a, From, c) ==
    /\ card[a].state \in From
    /\ card' = [card EXCEPT ![a] = c]

Arrive(a) ==
    /\ card[a].state = "absent"
    /\ \E state \in {"todo", "unread"} : card' = [card EXCEPT ![a].state = state]

NoneDoing == \A b \in Adds : card[b].state # "doing"

Take(a) == NoneDoing /\ Becomes(a, {"todo", "hold"}, [card[a] EXCEPT !.state = "doing"])

Finish(a, outcome) ==
    Becomes(a, {"doing"}, [card[a] EXCEPT !.state = "done", !.verdict = outcome])

Cancel(a) ==
    Becomes(a, {"doing", "todo"}, [card[a] EXCEPT !.state = "done", !.verdict = "cancelled"])

Return(a) == Becomes(a, {"doing"}, [card[a] EXCEPT !.state = "todo"])

Hold(a) == Becomes(a, {"doing", "todo"}, [card[a] EXCEPT !.state = "hold"])

Reopen(a, to) ==
    /\ to = "doing" => NoneDoing
    /\ Becomes(a, {"done"}, [card[a] EXCEPT !.state = to, !.verdict = "none",
                                            !.notes = Append(@, card[a].verdict)])

Note(a) ==
    /\ Len(card[a].notes) < NotesMax
    /\ Becomes(a, {"todo", "doing", "hold"}, [card[a] EXCEPT !.notes = Append(@, "note")])

Retitle(a, title) ==
    Becomes(a, {"todo", "doing", "hold"}, [card[a] EXCEPT !.title = title])

\* A ticket that cannot be read is put away, and nothing else is done to it.
PutAway(a) == Becomes(a, {"unread"}, [card[a] EXCEPT !.state = "invalid"])

Delete(a) ==
    Becomes(a, {"todo", "doing", "hold", "done"}, [Absent EXCEPT !.state = "gone"])

\* Retention removes finished tickets.
Trim ==
    \E S \in SUBSET {a \in Adds : card[a].state = "done"} :
        card' = [a \in Adds |-> IF a \in S THEN [Absent EXCEPT !.state = "gone"] ELSE card[a]]

Step(a) ==
    \/ Arrive(a) \/ Take(a) \/ Cancel(a) \/ Return(a) \/ Hold(a)
    \/ Note(a) \/ PutAway(a) \/ Delete(a)
    \/ \E outcome \in Outcomes : Finish(a, outcome)
    \/ \E to \in {"todo", "doing"} : Reopen(a, to)
    \/ \E title \in Titles : Retitle(a, title)

\* A command that leaves every ticket as it is, is no step.
Next ==
    /\ card' # card
    /\ (\E a \in Adds : Step(a)) \/ Trim

Spec == Init /\ [][Next]_card
=============================================================================
