------------------------------- MODULE BotPush -------------------------------
(***************************************************************************)
(* What the Telegram bot pushes into its chat (clients/telegram/bot.py):   *)
(* the alerts of the office, from a stream that may break (AlertPusher),   *)
(* or the replies in the bot's mailbox, which it polls (ReplyPusher).      *)
(* Each keeps its place in a file, so that a restart neither repeats what  *)
(* was shown nor passes over what was not; the place is written before     *)
(* the message is shown. The file is written in place, a failure to write  *)
(* it is logged, and a file that cannot be read counts as none: then the   *)
(* pusher begins at the end of what there is.                              *)
(*                                                                         *)
(* Entries are numbered as they come; the office keeps the last Retained.  *)
(***************************************************************************)
EXTENDS Naturals, Sequences, SequencesExt, FiniteSetsExt

CONSTANTS
    MaxEntries,  \* bound: entries that come
    Retained,    \* of a stream or an inbox
    Page,        \* entries a request returns at most
    Spoken,      \* entries that are to be spoken: replies, with the chat's voice on
    Files,       \* entries that are attachments
    MaxFaults    \* bound: writes, requests and calls that fail, and deaths

VARIABLES
    kind,      \* "alerts" or "replies"
    last,      \* entries so far
    file,      \* the place saved: an entry, 0 for none, Torn for what cannot be read
    step,      \* of the thread
    cursor,    \* the thread's place, 0 for none
    page,      \* entries it has fetched and not yet looked at
    faults,
    \* history:
    pushed,    \* entries shown, in order
    passed,    \* entries the bot has left out, for a reason
    replayed   \* entries it may show again, for a reason

thread  == <<step, cursor, page>>
history == <<pushed, passed, replayed>>
pvars   == <<kind, last, file, thread, faults, history>>

Torn    == MaxEntries + 1
Entries == 1 .. MaxEntries

Init ==
    /\ kind \in {"alerts", "replies"}
    /\ last \in 0 .. 1 /\ file = 0
    /\ step = "load" /\ cursor = 0 /\ page = <<>>
    /\ faults = 0
    /\ pushed = <<>> /\ passed = {} /\ replayed = {}

Fault == faults < MaxFaults /\ faults' = faults + 1

-----------------------------------------------------------------------------
(* The office                                                              *)

Arrive ==
    /\ last < MaxEntries /\ last' = last + 1
    /\ UNCHANGED <<kind, file, thread, faults, history>>

Kept == {e \in 1 .. last : e + Retained > last}

\* So many entries from one on, or as many as there are.
From(first, limit) == [i \in 1 .. Min({limit, last + 1 - first}) |-> first + i - 1]
Oldest == IF last < Retained THEN 1 ELSE last + 1 - Retained

\* Mutant: what lies at the place is part of the answer.
FromPlace(place, limit) == From(Max({place, Oldest}), limit)

\* A request after a place: the oldest kept entries behind it.
After(place, limit) == From(Max({place + 1, Oldest}), limit)

-----------------------------------------------------------------------------
(* The cursor file                                                         *)

\* CursorStore.load
Load ==
    /\ step = "load"
    /\ cursor' = IF file = Torn THEN 0 ELSE file
    /\ step' = IF cursor' = 0 THEN "seed" ELSE "read"
    /\ UNCHANGED <<kind, last, file, page, faults, history>>

\* A seeding ends at a place: what lies before it is left out, what lies behind it
\* is shown, for the first time or again.
SeededAt(place) ==
    /\ cursor' = place
    /\ passed' = passed \cup 1 .. place
    /\ replayed' = replayed \cup 1 .. last
    /\ step' = IF place = 0 THEN "read" ELSE "keep seed"
    /\ UNCHANGED page

\* AlertPusher asks once for as much as there is.
SeedAlerts ==
    /\ step = "seed" /\ kind = "alerts"
    /\ SeededAt(IF Kept = {} THEN 0 ELSE last)
    /\ UNCHANGED <<kind, last, file, faults, pushed>>

\* ReplyPusher reads page after page until one is not full.
SeedReplies ==
    /\ step = "seed" /\ kind = "replies"
    /\ LET entries == After(cursor, Page) IN
       IF Len(entries) < Page
         THEN SeededAt(IF entries = <<>> THEN cursor ELSE Last(entries)) /\ UNCHANGED pushed
         ELSE cursor' = Last(entries) /\ UNCHANGED <<step, page, history>>
    /\ UNCHANGED <<kind, last, file, faults>>

\* A request fails: the pusher begins where the seeding had come.
SeedFails ==
    /\ step = "seed" /\ Fault
    /\ SeededAt(cursor)
    /\ UNCHANGED <<kind, last, file, pushed>>

\* CursorStore.save
Save ==
    /\ step \in {"keep seed", "keep"}
    /\ file' = cursor
    /\ step' = IF step = "keep" THEN "show" ELSE "read"
    /\ UNCHANGED <<kind, last, cursor, page, faults, history>>

\* It fails, before the file was touched or after; the pusher goes on.
SaveFails ==
    /\ step \in {"keep seed", "keep"} /\ Fault
    /\ file' \in {file, Torn}
    /\ step' = IF step = "keep" THEN "show" ELSE "read"
    /\ replayed' = replayed \cup {cursor}
    /\ UNCHANGED <<kind, last, cursor, page, pushed, passed>>

-----------------------------------------------------------------------------
(* Reading                                                                 *)

\* The next page of the mailbox, or what the stream sends next.
Read ==
    /\ step = "read" /\ page = <<>>
    /\ page' = After(cursor, IF kind = "alerts" THEN 1 ELSE Page)
    /\ page' # <<>>
    /\ passed' = passed \cup {e \in 1 .. last : e \notin Kept /\ e > cursor}
    /\ UNCHANGED <<kind, last, file, step, cursor, faults, pushed, replayed>>

\* The request or the stream breaks, and is made again from the same place.
ReadFails ==
    /\ step = "read" /\ page = <<>> /\ Fault
    /\ UNCHANGED <<kind, last, file, thread, history>>

\* Mutant: the place taken is that of the whole page.
ReceivePage ==
    /\ step = "read" /\ page # <<>>
    /\ cursor' = Last(page) /\ page' = <<>>
    /\ step' = "keep"
    /\ UNCHANGED <<kind, last, file, faults, history>>

\* The next entry: its place is to be saved first.
Receive ==
    /\ step = "read" /\ page # <<>>
    /\ cursor' = Head(page) /\ page' = Tail(page)
    /\ step' = "keep"
    /\ UNCHANGED <<kind, last, file, faults, history>>

-----------------------------------------------------------------------------
(* Showing                                                                 *)

Shown == pushed' = Append(pushed, cursor)

\* An alert or a reply is sent, or an attachment that is as it should be.
Show ==
    /\ step = "show"
    /\ Shown
    /\ step' = IF kind = "replies" /\ cursor \in Spoken \ Files THEN "speak" ELSE "read"
    /\ UNCHANGED <<kind, last, file, cursor, page, faults, passed, replayed>>

\* Telegram refuses it or does not answer: a pusher never looks.
ShowFails ==
    /\ step = "show" /\ Fault
    /\ passed' = passed \cup {cursor}
    /\ step' = IF kind = "replies" /\ cursor \in Spoken \ Files THEN "speak" ELSE "read"
    /\ UNCHANGED <<kind, last, file, cursor, page, pushed, replayed>>

\* The attachment does not keep the contract, or cannot be sent: the chat is told so.
Reject ==
    /\ step = "show" /\ kind = "replies" /\ cursor \in Files
    /\ passed' = passed \cup {cursor} /\ step' = "read"
    /\ UNCHANGED <<kind, last, file, cursor, page, faults, pushed, replayed>>

Speak ==
    /\ step = "speak" /\ step' = "read"
    /\ UNCHANGED <<kind, last, file, cursor, page, faults, history>>

\* The speech cannot be made: the thread ends, and nobody starts another.
SpeakFails ==
    /\ step = "speak" /\ Fault
    /\ step' = "ended" /\ page' = <<>>
    /\ UNCHANGED <<kind, last, file, cursor, history>>

\* The bot dies and starts again; an entry whose place was saved is not seen again,
\* and a file it was writing may be unreadable.
Crash ==
    /\ Fault
    /\ \/ UNCHANGED file
       \/ step \in {"keep seed", "keep"} /\ file' = Torn
    /\ passed' = IF step = "show" THEN passed \cup {cursor} ELSE passed
    /\ step' = "load" /\ cursor' = 0 /\ page' = <<>>
    /\ UNCHANGED <<kind, last, pushed, replayed>>

Next ==
    \/ Arrive \/ Load \/ SeedAlerts \/ SeedReplies \/ SeedFails \/ Save \/ SaveFails
    \/ Read \/ ReadFails \/ Receive \/ Show \/ ShowFails \/ Reject \/ Speak \/ SpeakFails \/ Crash

Spec == Init /\ [][Next]_pvars

-----------------------------------------------------------------------------
(* Properties                                                              *)

\* Everything is of its kind, and the thread fetches only what lies behind its place.
TypeOK ==
    /\ last \in 0 .. MaxEntries /\ file \in 0 .. Torn /\ cursor \in 0 .. last
    /\ step \in {"load", "seed", "keep seed", "read", "keep", "show", "speak", "ended"}
    /\ \A i \in DOMAIN page : page[i] \in 1 .. last /\ (step \in {"read", "keep"} => page[i] > cursor)
    /\ passed \cup replayed \subseteq 0 .. MaxEntries /\ faults \in 0 .. MaxFaults

\* An entry is shown twice, or after a later one, only if its place could not be saved
\* or all places were lost.
ShownOnce ==
    \A i, j \in DOMAIN pushed : i < j /\ pushed[j] <= pushed[i] => pushed[j] \in replayed

\* The pusher's place never passes an entry that was not shown, unless it was there
\* before the pusher's first seeding, was dropped by the office, or was the one in hand
\* when a call failed or the bot died.
NoneSkipped ==
    \A e \in 1 .. (IF file = Torn \/ file < cursor THEN cursor ELSE file) :
        e \in Range(pushed) \cup passed \/ (e = cursor /\ step \in {"keep", "show"}) \/ step = "seed"

\* What comes for the chat is shown there in order, once, and without a gap.
PushTrue == ShownOnce /\ NoneSkipped

=============================================================================
