------------------------------ MODULE Mailbox ------------------------------
(***************************************************************************)
(* The mailbox of an API client: the API port takes the frames of its      *)
(* ingress in one command and appends them to the inbox, a capped stream   *)
(* (modules/api/port.py, lib/ingress_snapshot.py), and the client reads    *)
(* the inbox behind a cursor of its own, page by page or over a connection *)
(* the server keeps pushing on (modules/api/server.py).                    *)
(*                                                                         *)
(* One client. The delivery lock is modelled by who holds it, and by the   *)
(* fault that its lease lapses under a port that goes on (Custody models   *)
(* the lease). Unlike the ports that go through receive, this one keeps    *)
(* no record of the frames in its hands.                                   *)
(***************************************************************************)
EXTENDS Naturals, Sequences, SequencesExt, FiniteSets

CONSTANTS
    Ports,       \* processes of the API port
    Broken,      \* frames that parse rejects
    MaxFrames,   \* bound: frames admitted
    Cap,         \* MAILBOX_MAXLEN
    Limit,       \* entries per page
    MaxFaults    \* bound: deaths, failed commands, lapsed leases, lost connections

VARIABLES
    admitted,   \* frames admitted to ingress: 1 .. admitted
    ingress,
    lock,       \* the port that holds the delivery lock, or "free"
    phase,      \* of each port
    hand,       \* the frames each port has taken
    inbox,      \* the stream, as far as it is retained
    dead,
    cursor,     \* of the client: entries up to here are read
    pushed,     \* of the open connection: entries up to here are sent; 0 without one
    wire,       \* entries sent and not received
    faults,
    \* history:
    appended,   \* every frame ever appended to the inbox; an entry's id is its place here
    lost,       \* frames that went down with a port
    seen,       \* entries the client has read
    missed,     \* entries that were trimmed before the client read them
    lapsed      \* whether two ports were ever at work

port   == <<ingress, lock, phase, hand, dead>>
stream == <<inbox, appended, missed>>
reader == <<cursor, pushed, wire, seen>>
mvars  == <<admitted, port, stream, reader, faults, lost, lapsed>>

Closed == MaxFrames + 1

Init ==
    /\ admitted = 0 /\ ingress = <<>> /\ lock = "free"
    /\ phase = [p \in Ports |-> "rest"] /\ hand = [p \in Ports |-> <<>>]
    /\ inbox = <<>> /\ dead = {}
    /\ cursor = 0 /\ pushed = Closed /\ wire = <<>>
    /\ faults = 0 /\ appended = <<>> /\ lost = {} /\ seen = <<>> /\ missed = {} /\ lapsed = FALSE

Fault == faults < MaxFaults /\ faults' = faults + 1

-----------------------------------------------------------------------------
(* The port                                                                *)

\* The switch admits a frame, and kicks the port.
Admit ==
    /\ admitted < MaxFrames /\ admitted' = admitted + 1
    /\ ingress' = Append(ingress, admitted + 1)
    /\ UNCHANGED <<lock, phase, hand, dead, stream, reader, faults, lost, lapsed>>

\* An agent that is paused keeps its frames.
StartPort(p) ==
    /\ phase[p] = "rest" /\ lock = "free"
    /\ lock' = p
    /\ phase' = [phase EXCEPT ![p] = "snapshot"]
    /\ UNCHANGED <<admitted, ingress, hand, dead, stream, reader, faults, lost, lapsed>>

Paused(p) ==
    /\ phase[p] = "snapshot"
    /\ phase' = [phase EXCEPT ![p] = "rest"]
    /\ lock' = IF lock = p THEN "free" ELSE lock
    /\ UNCHANGED <<admitted, ingress, hand, dead, stream, reader, faults, lost, lapsed>>

\* The lease lapses, and the port goes on.
Lapse ==
    /\ lock # "free" /\ Fault
    /\ lock' = "free" /\ lapsed' = TRUE
    /\ UNCHANGED <<admitted, ingress, phase, hand, dead, stream, reader, lost>>

\* _SNAPSHOT_INGRESS: all frames at once.
Snapshot(p) ==
    /\ phase[p] = "snapshot"
    /\ hand' = [hand EXCEPT ![p] = ingress] /\ ingress' = <<>>
    /\ phase' = [phase EXCEPT ![p] = "open"]
    /\ UNCHANGED <<admitted, lock, dead, stream, reader, faults, lost, lapsed>>

\* The script fails, and the frames are taken one by one instead. When it was only the
\* answer that failed to arrive, the frames of the answer are gone.
SnapshotFails(p) ==
    /\ phase[p] = "snapshot" /\ Fault
    /\ phase' = [phase EXCEPT ![p] = "pop"]
    /\ \/ UNCHANGED <<ingress, lost>>
       \/ ingress' = <<>> /\ lost' = lost \cup ToSet(ingress)
    /\ UNCHANGED <<admitted, lock, hand, dead, stream, reader, lapsed>>

Pop(p) ==
    /\ phase[p] = "pop"
    /\ IF ingress = <<>>
         THEN phase' = [phase EXCEPT ![p] = "open"] /\ UNCHANGED <<ingress, hand>>
         ELSE /\ hand' = [hand EXCEPT ![p] = Append(@, Head(ingress))]
              /\ ingress' = Tail(ingress)
              /\ UNCHANGED phase
    /\ UNCHANGED <<admitted, lock, dead, stream, reader, faults, lost, lapsed>>

\* The stream may drop its oldest entries beyond the cap (maxlen is approximate).
Recent(s) == SubSeq(s, IF Len(s) > Cap THEN Len(s) - Cap + 1 ELSE 1, Len(s))

Add(f) ==
    /\ appended' = Append(appended, f)
    /\ LET longer == Append(inbox, [id |-> Len(appended) + 1, frame |-> f])
       IN  inbox' \in {longer, Recent(longer)}
    /\ missed' = missed \cup {n \in 1 .. Len(appended) :
                                /\ n \notin {e.id : e \in ToSet(inbox')}
                                /\ n > cursor /\ n \notin {e.id : e \in ToSet(wire)}}

\* One frame after the other: what does not parse is a dead letter, the rest is mail.
\* Whether an answer may say what it answers is decided on the way (Correlation).
Open(p) ==
    /\ phase[p] = "open" /\ hand[p] # <<>>
    /\ hand' = [hand EXCEPT ![p] = Tail(@)]
    /\ IF Head(hand[p]) \in Broken
         THEN dead' = dead \cup {Head(hand[p])} /\ UNCHANGED stream
         ELSE Add(Head(hand[p])) /\ UNCHANGED dead
    /\ UNCHANGED <<admitted, ingress, lock, phase, reader, faults, lost, lapsed>>

Finish(p) ==
    /\ phase[p] = "open" /\ hand[p] = <<>>
    /\ phase' = [phase EXCEPT ![p] = "rest"]
    /\ lock' = IF lock = p THEN "free" ELSE lock
    /\ UNCHANGED <<admitted, ingress, hand, dead, stream, reader, faults, lost, lapsed>>

\* A command fails or the process dies: what is in its hands is gone, but for the frame
\* that was just appended. The lock is released, or its lease runs out.
Die(p) ==
    /\ phase[p] # "rest" /\ Fault
    /\ \/ lost' = lost \cup ToSet(hand[p]) /\ UNCHANGED stream
       \/ /\ phase[p] = "open" /\ hand[p] # <<>> /\ Head(hand[p]) \notin Broken
          /\ Add(Head(hand[p]))
          /\ lost' = lost \cup ToSet(Tail(hand[p]))
    /\ hand' = [hand EXCEPT ![p] = <<>>]
    /\ phase' = [phase EXCEPT ![p] = "rest"]
    /\ lock' = IF lock = p THEN "free" ELSE lock
    /\ UNCHANGED <<admitted, ingress, dead, reader, lapsed>>

-----------------------------------------------------------------------------
(* The client                                                              *)

\* Where in the inbox the entries behind an id begin.
Behind(after) ==
    CHOOSE i \in 1 .. Len(inbox) + 1 : \A j \in 1 .. Len(inbox) : inbox[j].id > after <=> j >= i

\* Mutant: a page holds the latest entries.
LatestEntries(after) ==
    SubSeq(inbox, IF Len(inbox) - Behind(after) >= Limit THEN Len(inbox) + 1 - Limit
                  ELSE Behind(after), Len(inbox))

\* _read_stream_entries: the first entries behind the cursor.
Entries(after) ==
    SubSeq(inbox, Behind(after), IF Len(inbox) - Behind(after) >= Limit
                                   THEN Behind(after) + Limit - 1 ELSE Len(inbox))

\* GET messages: a page, and the cursor for the next one.
ReadPage ==
    /\ pushed = Closed
    /\ Entries(cursor) # <<>>
    /\ seen' = seen \o Entries(cursor)
    /\ cursor' = Last(Entries(cursor)).id
    /\ UNCHANGED <<admitted, port, stream, pushed, wire, faults, lost, lapsed>>

\* GET messages/stream: the server goes on behind the cursor it was given.
Connect ==
    /\ pushed = Closed
    /\ pushed' = cursor /\ wire' = <<>>
    /\ UNCHANGED <<admitted, port, stream, cursor, seen, faults, lost, lapsed>>

Push ==
    /\ pushed # Closed /\ wire = <<>>
    /\ Entries(pushed) # <<>>
    /\ wire' = Entries(pushed)
    /\ pushed' = Last(Entries(pushed)).id
    /\ UNCHANGED <<admitted, port, stream, cursor, seen, faults, lost, lapsed>>

Receive ==
    /\ pushed # Closed /\ wire # <<>>
    /\ seen' = Append(seen, Head(wire))
    /\ cursor' = Head(wire).id
    /\ wire' = Tail(wire)
    /\ UNCHANGED <<admitted, port, stream, pushed, faults, lost, lapsed>>

\* What was sent and not received is sent again to the next connection, if it is
\* retained until then.
Disconnect ==
    /\ pushed # Closed /\ Fault
    /\ pushed' = Closed /\ wire' = <<>>
    /\ missed' = missed \cup ({e.id : e \in ToSet(wire)} \ {e.id : e \in ToSet(inbox)})
    /\ UNCHANGED <<admitted, port, inbox, appended, cursor, seen, lost, lapsed>>

Next ==
    \/ Admit \/ Lapse \/ ReadPage \/ Connect \/ Push \/ Receive \/ Disconnect
    \/ \E p \in Ports : \/ StartPort(p) \/ Paused(p) \/ Snapshot(p) \/ SnapshotFails(p) \/ Pop(p)
                        \/ Open(p) \/ Finish(p) \/ Die(p)

Spec == Init /\ [][Next]_mvars

-----------------------------------------------------------------------------
(* Properties                                                              *)

Frames == 1 .. MaxFrames

TypeOK ==
    /\ ingress \in Seq(Frames) /\ \A p \in Ports : hand[p] \in Seq(Frames)
    /\ lock \in Ports \cup {"free"}
    /\ \A p \in Ports : phase[p] \in {"rest", "snapshot", "pop", "open"}
    /\ Len(inbox) <= MaxFrames
    /\ cursor \in 0 .. MaxFrames /\ pushed \in 0 .. Closed

InHand == UNION {ToSet(hand[p]) : p \in Ports}

\* MailKept: every frame admitted for the client is in one place: waiting, in the hands
\* of a port, appended once, a dead letter, or lost with a fault of the port; frames are
\* appended in the order they were admitted, unless two ports were at work; and the
\* client has read each entry behind its cursor once and in order, but those the cap
\* dropped before it came (snapshot_ingress, deliver_api, next_cursor, Last-Event-ID).
MailKept ==
    /\ LET places == <<ToSet(ingress), InHand, ToSet(appended), dead, lost>>
       IN  /\ UNION {places[i] : i \in DOMAIN places} = 1 .. admitted
           /\ \A i, j \in DOMAIN places : i # j => places[i] \cap places[j] = {}
    /\ \A i, j \in 1 .. Len(appended) : i < j =>
          appended[i] # appended[j] /\ (lapsed \/ appended[i] < appended[j])
    /\ lost # {} => faults > 0
    /\ \A i \in 1 .. Len(seen) : seen[i].frame = appended[seen[i].id]
    /\ \A i, j \in 1 .. Len(seen) : i < j => seen[i].id < seen[j].id
    /\ 1 .. cursor = ToSet([i \in 1 .. Len(seen) |-> seen[i].id]) \cup {n \in missed : n <= cursor}
=============================================================================
