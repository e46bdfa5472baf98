-------------------------------- MODULE Relay --------------------------------
(***************************************************************************)
(* The inter-office relay (modules/interoffice): a worker follows the      *)
(* mailbox this office has in another one, over a stream that may break,   *)
(* and puts every message into the local relay's egress. What it has dealt *)
(* with it keeps twice in Redis: a cursor, and a bounded ledger of the     *)
(* messages admitted, which the script that admits one writes with it      *)
(* (_ADMIT_ONCE). The lead may point the address book's entry elsewhere or *)
(* give it another token at any time; a worker is for one entry only.      *)
(*                                                                         *)
(* One entry of the address book, one worker at a time. An entry's         *)
(* identity is where its mailbox is; a mailbox is a sequence of messages,  *)
(* their places are the cursors, and a message may lie there twice: the    *)
(* port of an API participant that is not told of its append repeats it.   *)
(* Commands on Redis are steps, and any of them may fail.                  *)
(***************************************************************************)
EXTENDS Naturals, Sequences, FiniteSets, FiniteSetsExt, SequencesExt

CONSTANTS
    Places,     \* where a mailbox may be
    Mailbox,    \* of each place: what comes to lie there, in order
    Other,      \* messages of a kind the relay does not pass on
    Retained,   \* MAILBOX_MAXLEN
    Limit,      \* SEEN_LEDGER_LIMIT
    MaxChanges, \* bound: changes of the address book
    MaxFaults   \* bound: failures of the stream or of Redis, and deaths of the relay

VARIABLES
    length,     \* of each place: how much of its mailbox has come
    office,     \* the entry: its record names a place, or nowhere; its token is of one
    adding,     \* the place an office-add under way has yet to write
    cursor,     \* 0 for none
    ledger,     \* of each place: the messages admitted, with the cursor of the last sighting
    ready,      \* places whose ledger is complete
    known,      \* the relay's: the last entry it started a worker for
    worker,     \* [step, office, remaining, at]
    egress,     \* what has been admitted, in order
    changes, faults,
    \* history:
    whose,      \* the place whose entries the cursor counts
    excused     \* entries the relay leaves out, for a reason

stored == <<cursor, whose, ledger, ready, egress>>
relay  == <<known, worker>>
rvars  == <<length, office, adding, stored, relay, changes, faults, excused>>

NoOffice == [place |-> "nowhere", token |-> [of |-> "nowhere", n |-> 0]]
Offices  == [place : Places, token : [of : Places, n : 0 .. MaxChanges]]
NoWorker == [step |-> "none", office |-> NoOffice, remaining |-> 0, at |-> 0]
Entry(p, e) == [place |-> p, at |-> e]

\* A ledger that is not yet ready belongs to a cursor of a release that kept none.
Init ==
    /\ office \in {[place |-> p, token |-> [of |-> p, n |-> 0]] : p \in Places}
    /\ adding = "nowhere"
    /\ length \in [Places -> 0 .. 1]
    /\ cursor \in 0 .. length[office.place] /\ whose = office.place
    /\ egress = <<>> /\ ledger = [p \in Places |-> {}] /\ ready = {}
    /\ known = NoOffice /\ worker = NoWorker
    /\ changes = 0 /\ faults = 0
    /\ excused = {Entry(office.place, e) : e \in 1 .. cursor}

Fault == faults < MaxFaults /\ faults' = faults + 1

Kept(p) == {e \in 1 .. length[p] : e + Retained > length[p]}

-----------------------------------------------------------------------------
(* The other office, and the address book                                  *)

Mail(p) ==
    /\ length[p] < Len(Mailbox[p])
    /\ length' = [length EXCEPT ![p] = @ + 1]
    /\ UNCHANGED <<office, adding, stored, relay, changes, faults, excused>>

Change == changes < MaxChanges /\ changes' = changes + 1

\* office-add writes the token first: one for the same mailbox, or one for another.
OfficeAdd(p) ==
    /\ Change /\ adding = "nowhere"
    /\ adding' = p
    /\ office' = [office EXCEPT !.token = [of |-> p, n |-> changes + 1]]
    /\ UNCHANGED <<length, stored, relay, faults, excused>>

\* Then it writes the record, unless it dies before. The cursor it leaves alone.
OfficeAdded ==
    /\ adding # "nowhere" /\ adding' = "nowhere"
    /\ \/ office' = [office EXCEPT !.place = adding] /\ UNCHANGED faults
       \/ Fault /\ UNCHANGED office
    /\ UNCHANGED <<length, stored, relay, changes, excused>>

\* office-rm leaves the cursor too.
OfficeRm ==
    /\ Change /\ adding = "nowhere" /\ office.place # "nowhere"
    /\ office' = NoOffice
    /\ UNCHANGED <<length, adding, stored, relay, faults, excused>>

-----------------------------------------------------------------------------
(* InterofficeRelay.reconcile                                              *)

\* The worker of an entry that has changed returns where it looks at the entry, or a
\* script refuses it; the relay drops it.
Stop ==
    /\ worker.step # "none" /\ worker.office # office
    /\ worker' = NoWorker
    /\ UNCHANGED <<length, office, adding, stored, known, changes, faults, excused>>

\* A worker is started; the cursor goes if the relay knew the entry otherwise. A relay
\* that knew none goes on from the cursor there is, even one of another mailbox.
Start ==
    /\ worker.step = "none" /\ office.place # "nowhere"
    /\ cursor' = IF known \notin {NoOffice, office} THEN 0 ELSE cursor
    /\ known' = office /\ whose' = office.place
    /\ excused' = IF whose = office.place THEN excused ELSE excused \cup {Entry(office.place, e) : e \in 1 .. cursor'}
    /\ worker' = [NoWorker EXCEPT !.step = "connect", !.office = office]
    /\ UNCHANGED <<length, office, adding, ledger, ready, egress, changes, faults>>

-----------------------------------------------------------------------------
(* OfficeWorker                                                            *)

Does(step)   == worker.step = step
Goes(step)   == worker' = [worker EXCEPT !.step = step]
Here         == worker.office.place
Current      == worker.office = office          \* Store.current
This         == Mailbox[Here][worker.at]
Historical   == worker.remaining > 0 /\ worker.at <= worker.remaining
Again        == worker' = [NoWorker EXCEPT !.step = "connect", !.office = worker.office]

\* The stream begins behind the cursor, or at the start while the ledger is not ready. A
\* token of another mailbox opens none.
Connect ==
    /\ Does("connect") /\ Current /\ worker.office.token.of = Here
    /\ worker' = IF cursor > 0 /\ Here \notin ready
                   THEN [worker EXCEPT !.step = "read", !.remaining = cursor, !.at = 0]
                   ELSE [worker EXCEPT !.step = "read", !.at = cursor]
    /\ UNCHANGED <<length, office, adding, stored, known, changes, faults, excused>>

\* The next event, if the entry is still the worker's.
Read ==
    /\ Does("read") /\ Current
    /\ \E e \in Kept(Here) :
          /\ e > worker.at /\ \A f \in Kept(Here) : f > worker.at => e <= f
          /\ worker' = [worker EXCEPT !.at = e, !.step = "event"]
          /\ excused' = excused \cup {Entry(Here, f) : f \in (worker.at + 1) .. (e - 1)}
    /\ UNCHANGED <<length, office, adding, stored, known, changes, faults>>

\* finish_backfill: all that was committed is in the ledger, as far as it is still there.
FinishBackfill ==
    /\ \/ Does("event") /\ ~ Historical
       \/ Does("finish")
       \/ Does("read") /\ \A e \in Kept(Here) : e <= worker.at      \* a keepalive
    /\ worker.remaining > 0
    /\ IF Current /\ cursor = worker.remaining
         THEN /\ ready' = ready \cup {Here}
              /\ worker' = [worker EXCEPT !.remaining = 0, !.step = IF @ = "finish" THEN "read" ELSE @]
         ELSE Again /\ UNCHANGED ready
    /\ UNCHANGED <<length, office, adding, cursor, whose, ledger, egress, known, changes, faults, excused>>

\* What lies at or below the cursor has been dealt with.
SkipOld ==
    /\ Does("event") /\ worker.remaining = 0 /\ cursor > 0 /\ worker.at <= cursor
    /\ Goes("read")
    /\ UNCHANGED <<length, office, adding, stored, known, changes, faults, excused>>

Live == Does("event") /\ worker.remaining = 0 /\ (cursor = 0 \/ worker.at > cursor)

\* The script's ledger: it keeps the Limit messages seen last.
InLedger(p, m) == \E l \in ledger[p] : l.message = m

Sighted(p, m, e) ==
    LET others == {l \in ledger[p] : l.message # m}
        with   == others \cup {[message |-> m, at |-> Max({e} \cup {l.at : l \in ledger[p] \ others})]}
    IN  {l \in with : Cardinality({k \in with : k.at > l.at}) < Limit}

Remember == ledger' = [ledger EXCEPT ![Here] = Sighted(Here, This, worker.at)]

\* A message from before the cursor goes into the ledger and nowhere else.
Backfill ==
    /\ Does("event") /\ Historical
    /\ This \notin Other => Current /\ cursor = worker.remaining
    /\ IF This \in Other THEN UNCHANGED ledger ELSE Remember
    /\ Goes(IF worker.at = worker.remaining THEN "finish" ELSE "read")
    /\ UNCHANGED <<length, office, adding, cursor, whose, ready, egress, known, changes, faults, excused>>

\* A message of another kind is passed over, one that the ledger holds too.
Reject ==
    /\ Live /\ This \in Other
    /\ Goes("checkpoint")
    /\ excused' = excused \cup {Entry(Here, worker.at)}
    /\ UNCHANGED <<length, office, adding, stored, known, changes, faults>>

Seen ==
    /\ Live /\ This \notin Other /\ InLedger(Here, This) /\ Current
    /\ Remember
    /\ Goes("checkpoint")
    /\ UNCHANGED <<length, office, adding, cursor, whose, ready, egress, known, changes, faults, excused>>

NotSeen ==
    /\ Live /\ This \notin Other /\ ~ InLedger(Here, This) /\ Current
    /\ Goes("admit")
    /\ UNCHANGED <<length, office, adding, stored, known, changes, faults, excused>>

Admitted == egress' = Append(egress, [place |-> Here, message |-> This, at |-> worker.at])

\* Mutant: what has been admitted is not remembered with it.
EnqueueOnly ==
    /\ Does("admit") /\ Current
    /\ Admitted /\ ready' = ready \cup {Here}
    /\ UNCHANGED ledger

\* The script, once there is somebody to give the message to (the sender of the message
\* it answers, or the lead): it goes to the egress and into the ledger, or neither.
EnqueueOnce ==
    /\ Does("admit") /\ Current
    /\ Admitted /\ ready' = ready \cup {Here}
    /\ Remember

Admit ==
    /\ EnqueueOnce /\ Goes("checkpoint")
    /\ UNCHANGED <<length, office, adding, cursor, whose, known, changes, faults, excused>>

\* The script has run, and its answer is lost.
AdmitUnanswered ==
    /\ EnqueueOnce /\ Fault /\ Again
    /\ UNCHANGED <<length, office, adding, cursor, whose, known, changes, excused>>

\* The cursor only moves on, and only while the entry is the worker's.
Checkpoint ==
    /\ Does("checkpoint") /\ Current
    /\ cursor' = Max({cursor, worker.at})
    /\ Goes("read")
    /\ UNCHANGED <<length, office, adding, whose, ledger, ready, egress, known, changes, faults, excused>>

\* The stream or Redis fails: the worker connects again.
Fail ==
    /\ worker.step \notin {"none", "connect"} /\ Fault
    /\ Again
    /\ UNCHANGED <<length, office, adding, stored, known, changes, excused>>

\* The relay dies; the next one knows no entry.
Die ==
    /\ Fault
    /\ known' = NoOffice /\ worker' = NoWorker
    /\ UNCHANGED <<length, office, adding, stored, changes, excused>>

Next ==
    \/ \E p \in Places : Mail(p) \/ OfficeAdd(p)
    \/ OfficeAdded \/ OfficeRm \/ Stop \/ Start
    \/ Connect \/ Read \/ FinishBackfill \/ SkipOld \/ Backfill \/ Reject \/ Seen \/ NotSeen
    \/ Admit \/ AdmitUnanswered \/ Checkpoint \/ Fail \/ Die

Spec == Init /\ [][Next]_rvars

-----------------------------------------------------------------------------
(* Properties                                                              *)

\* Everything is of its kind, and a ledger keeps to its limit.
TypeOK ==
    /\ known \in Offices \cup {NoOffice} /\ office.place \in Places \cup {"nowhere"}
    /\ adding \in Places \cup {"nowhere"}
    /\ cursor \in Nat /\ ready \subseteq Places
    /\ \A p \in Places : Cardinality(ledger[p]) <= Limit
    /\ worker.step \in {"none", "connect", "read", "event", "finish", "admit", "checkpoint"}
    /\ worker.at \in Nat /\ worker.remaining \in Nat
    /\ faults \in 0 .. MaxFaults /\ changes \in 0 .. MaxChanges

\* A message of the other office reaches the local egress once, whatever is read again
\* after a failure, a restart or a new token; and in the order of its mailbox, but for
\* what a cursor of another mailbox had covered before.
AdmittedOnce ==
    \A i, j \in DOMAIN egress : i < j /\ egress[i].place = egress[j].place =>
        /\ egress[i].message # egress[j].message
        /\ egress[i].at < egress[j].at \/ Entry(egress[j].place, egress[j].at) \in excused

\* What lies behind the cursor was admitted, but for what the relay rejects, what the
\* other office dropped before it was read, and what a cursor of before covers. Of a
\* message that lies there twice, one has to be.
NothingPassed ==
    \A e \in 1 .. Min({cursor, length[whose]}) :
        \/ \E f \in 1 .. e : Mailbox[whose][f] = Mailbox[whose][e] /\ Entry(whose, f) \in excused
        \/ \E i \in DOMAIN egress : egress[i].place = whose /\ egress[i].message = Mailbox[whose][e]

RelayTrue == AdmittedOnce /\ NothingPassed

=============================================================================
