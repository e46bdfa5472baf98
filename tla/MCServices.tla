----------------------------- MODULE MCServices -----------------------------
(***************************************************************************)
(* The services beside the switch, the ports and the board, each on its    *)
(* own small instance. They share nothing but what each module models of   *)
(* its surroundings, so a behaviour is one of one component, which says    *)
(* of which; the variables of the others are "off". Variables of the same  *)
(* name in different components are one variable here.                     *)
(***************************************************************************)
EXTENDS Correlation

CONSTANTS
    a1, a2,
    Values, Profiles, Begins, MaxOps, MaxFaults    \* of Reconciler

VARIABLES
    allowEmpty, desired, op, ops, window, idling, pass, enrolled, existing, reading, draft,
    pending, known, backoff, touched, doubtful, faults, now, flavor, file, marking,
    deliveries, markers, unjudged, blocked, offset, events, usage, requests, attributed, at,
    pos, model, claim, judging, times, memory, crashes, lost, moves, slot, created, entered,
    backlog, found, told, reported, standing, rule, polled, due, present, storing, nags,
    again, last, ingress, hand, paused, report, watch, stalled, todo, began, agent, seen,
    arrived, done, gone, looked, relics, admitted, lock, phase, inbox, dead, cursor, pushed,
    wire, appended, missed, lapsed, changes, starting, granting, tokens, revoked, request,
    coop, egress, feed, held, page, place, prompt, turns, expired, filed, credential,
    replies, runs, answered, prompts, torn, said, total, telegram, fetched, queue, target,
    voice, watching, leaving, renders, finished, popped, calls, handled, kind, step, passed,
    replayed, length, office, adding, ledger, ready, worker, whose, excused, install, proc,
    clock, pidfile, identity, job, begun, astray, disturbed, residue, opener, record, asked,
    remover, moved, mixed, which

-----------------------------------------------------------------------------
(* The instances                                                           *)

MCBegins == {<<a1, a2>>}
MCSource == [m \in Messages |-> IF m = 1 THEN "c1" ELSE "c2"]
MCDest   == [m \in Messages |-> a1]

\* A line of a transcript. Claude's tell what they hold, Codex' the model in turn.
ClaudeLine(t, holds, id, spent) ==
    [type |-> t, content |-> holds, request |-> id, tokens |-> spent, model |-> "opus"]
CodexLine(t, id, spent, name) ==
    [type |-> t, request |-> id, tokens |-> spent, model |-> name]

\* Components that are proved about in one module are instances of that module's.
Box == INSTANCE MailboxProofs WITH
    Ports <- {"p1", "p2"}, Broken <- {2}, MaxFrames <- 4, Cap <- 2, Limit <- 1, MaxFaults <- 2,
    StlMembers <- {"m1"}, StlStall <- 1, StlMaxTime <- 2, StlMaxFrames <- 2, StlMaxMoves <- 1,
    StlMaxFaults <- 1,
    RecAgents <- Agents, RecLegacy <- Legacy, RecNone <- None, RecMaxHires <- MaxHires,
    RecValues <- Values, RecProfiles <- Profiles, RecBegins <- Begins, RecMaxOps <- MaxOps,
    RecMaxFaults <- MaxFaults,
    DmnCommands <- {1, 2}, DmnPids <- {1, 2}, DmnMaxFaults <- 1,
    DmnInstalls <- {[modules |-> <<"switch">>, beside |-> 2, processes |-> 2],
                    [modules |-> <<"switch", "api">>, beside |-> 1, processes |-> 3]},
    BotMaxEntries <- 4, BotRetained <- 3, BotPage <- 2, BotSpoken <- {2, 3}, BotFiles <- {3},
    BotMaxFaults <- 2,
    RelPlaces <- {"A", "B"}, RelOther <- {"o"}, RelRetained <- 2, RelLimit <- 2,
    RelMaxChanges <- 2, RelMaxFaults <- 1,
    RelMailbox <- [p \in {"A", "B"} |-> IF p = "A" THEN <<"m", "m", "n">> ELSE <<"n", "o">>]

Post(b, d, s, k, key) ==
    [bearer |-> b, to |-> d, as |-> s, kind |-> k, key |-> key, broken |-> {}]
Nobody == "no one"

\* What people do in the chat, as sessions: a number of updates drawn from a set.
Does(how, word) == [kinds |-> {how}, ours |-> TRUE, word |-> word, agent |-> "a1"]
Types(word) == Does("message", word)
Taps(word)  == Does("callback_query", word)
Strange     == [kinds |-> {"message"}, ours |-> FALSE, word |-> "say", agent |-> "a1"]
Double      == [kinds |-> {"message", "callback_query"}, ours |-> TRUE, word |-> "say", agent |-> "a1"]
Session(n, set) == [length |-> n, of |-> set]

MCSessions ==
    {Session(4, {Taps("hire"), Types("say")}),
     Session(3, {Taps("hire"), Types("say"), Types("cancel")}),
     Session(4, {Taps("ticket"), Taps("priority"), Types("say")}),
     Session(3, {Taps("retire"), Types("misnamed"), Types("say")}),
     Session(3, {Types("broadcast"), Types("say"), Types("photo")}),
     Session(2, {Types("say"), Types("mention"), Taps("talk")}),
     Session(3, {Types("run")}),
     Session(3, {Types("watch"), Types("unwatch"), Taps("stop")}),
     Session(3, {Does("edited_message", "say"), Types("photo"), Strange, Double}),
     Session(2, {Types("voice"), Types("menu"), Types("say"), Taps("control")})}

Door == INSTANCE ApiDoorProofs WITH
    Tokens <- {"t1"}, Names <- {"c1", "a1"}, Recheck <- 2,
    MaxTime <- 4, MaxChanges <- 4, MaxRequests <- 1,
    Requests <- {Post("t1", "a1", Nobody, "Message", Nobody),
                 Post("t1", "c1", "c1", "Message", Nobody),
                 Post("t1", "a1", "a1", "Command", Nobody),
                 Post("office", "a1", "c1", "Command", "c1"),
                 Post("office", "all", "c1", "Message", "a1"),
                 Post("office", "host", Nobody, "StartAgent", Nobody),
                 Post(Nobody, "a1", Nobody, "Message", Nobody),
                 [Post("office", "a1", Nobody, "Attachment", Nobody) EXCEPT !.broken = {"filename"}],
                 [Post("t1", "a1", Nobody, "Message", Nobody) EXCEPT !.broken = {"schema"}]},
    RunMessages <- {1, 2, 3, 4}, RunInContext <- {1, 3, 4}, RunInvalid <- {2}, RunSilent <- {4},
    RunAttachments <- {3}, RunKeep <- 3, RunMaxFaults <- 2,
    LeadTickets <- {"t1"}, LeadClients <- {"c1"}, LeadStatuses <- {"present", "absent"},
    LeadNothing <- "nothing", LeadCooldown <- 1, LeadMaxTime <- 2, LeadMaxMoves <- 2,
    LeadMaxFaults <- 1,
    LeadThreshold <- [stall |-> 1, doing |-> 1, todo |-> 1, hold |-> 1, unreplied |-> 1],
    WndOpeners <- {1, 2}, WndRemovers <- {3}, WndLabel <- [x \in 1 .. 3 |-> "n"], WndNothing <- 0,
    WndMaxFaults <- 1,
    ActLines <- [claude |-> {ClaudeLine("user", {"tool_result"}, "none", "none"),
                             ClaudeLine("assistant", {"text", "tool_use"}, "r1", "some")},
                 codex  |-> {CodexLine("token_count", "anonymous", "some", "none"),
                             CodexLine("turn_context", "none", "none", "m1")}],
    ActAnonymous <- "anonymous", ActNothing <- "none", ActVerifyAfter <- 1,
    ActMaxTime <- 2, ActMaxLines <- 2, ActMaxDeliveries <- 2, ActMaxCrashes <- 1,
    ChatAgents <- {"a1"}, ChatHome <- "home", ChatMaxWaiting <- 1, ChatMaxUpdates <- 4,
    ChatMaxCrashes <- 1, ChatSessions <- MCSessions

-----------------------------------------------------------------------------
(* One component at a time                                                 *)

\* The variables that belong to one component alone.
ofCorrelation == <<port, answer, answers, pastedIn, confirmed>>
ofReconciler == <<allowEmpty, desired, op, ops, idling, existing, reading, draft, backoff,
                  touched, doubtful>>
ofActivity == <<marking, deliveries, markers, unjudged, blocked, events, usage, attributed,
                pos, model, claim, judging, times, memory>>
ofLeadAlerts == <<created, entered, backlog, found, reported, standing, rule, polled, due,
                  present, storing, nags, again>>
ofStallMonitor == <<paused, report, watch, stalled, todo, began, agent, arrived, done, gone,
                    looked, relics>>
ofMailbox == <<admitted, lock, phase, inbox, dead, wire, appended, missed, lapsed>>
ofApiDoor == <<starting, granting, tokens, revoked, request, coop, feed, held>>
ofHeadless == <<place, prompt, expired, filed, credential, replies, runs, answered, prompts,
                torn>>
ofBotChat == <<said, total, telegram, fetched, queue, target, voice, watching, leaving,
               renders, finished, popped, calls, handled>>
ofBotPush == <<kind, step, passed, replayed>>
ofRelay == <<length, office, adding, ledger, ready, worker, whose, excused>>
ofDaemons == <<install, proc, clock, pidfile, identity, job, begun, astray, disturbed,
               residue>>
ofRunWindows == <<opener, record, asked, remover, moved, mixed>>

Off(variable) == variable = "off"

NoCorrelation ==
    /\ Off(port) /\ Off(answer) /\ Off(answers) /\ Off(pastedIn) /\ Off(confirmed)
NoReconciler ==
    /\ Off(allowEmpty) /\ Off(desired) /\ Off(op) /\ Off(ops) /\ Off(idling)
    /\ Off(existing) /\ Off(reading) /\ Off(draft) /\ Off(backoff) /\ Off(touched)
    /\ Off(doubtful)
NoActivity ==
    /\ Off(marking) /\ Off(deliveries) /\ Off(markers) /\ Off(unjudged) /\ Off(blocked)
    /\ Off(events) /\ Off(usage) /\ Off(attributed) /\ Off(pos) /\ Off(model) /\ Off(claim)
    /\ Off(judging) /\ Off(times) /\ Off(memory)
NoLeadAlerts ==
    /\ Off(created) /\ Off(entered) /\ Off(backlog) /\ Off(found) /\ Off(reported)
    /\ Off(standing) /\ Off(rule) /\ Off(polled) /\ Off(due) /\ Off(present) /\ Off(storing)
    /\ Off(nags) /\ Off(again)
NoStallMonitor ==
    /\ Off(paused) /\ Off(report) /\ Off(watch) /\ Off(stalled) /\ Off(todo) /\ Off(began)
    /\ Off(agent) /\ Off(arrived) /\ Off(done) /\ Off(gone) /\ Off(looked) /\ Off(relics)
NoMailbox ==
    /\ Off(admitted) /\ Off(lock) /\ Off(phase) /\ Off(inbox) /\ Off(dead) /\ Off(wire)
    /\ Off(appended) /\ Off(missed) /\ Off(lapsed)
NoApiDoor ==
    /\ Off(starting) /\ Off(granting) /\ Off(tokens) /\ Off(revoked) /\ Off(request)
    /\ Off(coop) /\ Off(feed) /\ Off(held)
NoHeadless ==
    /\ Off(place) /\ Off(prompt) /\ Off(expired) /\ Off(filed) /\ Off(credential)
    /\ Off(replies) /\ Off(runs) /\ Off(answered) /\ Off(prompts) /\ Off(torn)
NoBotChat ==
    /\ Off(said) /\ Off(total) /\ Off(telegram) /\ Off(fetched) /\ Off(queue) /\ Off(target)
    /\ Off(voice) /\ Off(watching) /\ Off(leaving) /\ Off(renders) /\ Off(finished)
    /\ Off(popped) /\ Off(calls) /\ Off(handled)
NoBotPush ==
    /\ Off(kind) /\ Off(step) /\ Off(passed) /\ Off(replayed)
NoRelay ==
    /\ Off(length) /\ Off(office) /\ Off(adding) /\ Off(ledger) /\ Off(ready) /\ Off(worker)
    /\ Off(whose) /\ Off(excused)
NoDaemons ==
    /\ Off(install) /\ Off(proc) /\ Off(clock) /\ Off(pidfile) /\ Off(identity) /\ Off(job)
    /\ Off(begun) /\ Off(astray) /\ Off(disturbed) /\ Off(residue)
NoRunWindows ==
    /\ Off(opener) /\ Off(record) /\ Off(asked) /\ Off(remover) /\ Off(moved) /\ Off(mixed)

InitCorrelation ==
    /\ which = "correlation" /\ Init
    /\ NoReconciler /\ NoActivity /\ NoLeadAlerts /\ NoStallMonitor /\ NoMailbox
    /\ NoApiDoor /\ NoHeadless /\ NoBotChat /\ NoBotPush /\ NoRelay /\ NoDaemons
    /\ NoRunWindows /\ Off(window) /\ Off(pass) /\ Off(enrolled) /\ Off(pending)
    /\ Off(known) /\ Off(faults) /\ Off(now) /\ Off(flavor) /\ Off(file) /\ Off(offset)
    /\ Off(requests) /\ Off(at) /\ Off(crashes) /\ Off(lost) /\ Off(moves) /\ Off(slot)
    /\ Off(told) /\ Off(last) /\ Off(ingress) /\ Off(hand) /\ Off(seen) /\ Off(cursor)
    /\ Off(pushed) /\ Off(changes) /\ Off(egress) /\ Off(page) /\ Off(turns)
InitReconciler ==
    /\ which = "reconciler" /\ Box!Rec!Init
    /\ NoCorrelation /\ NoActivity /\ NoLeadAlerts /\ NoStallMonitor /\ NoMailbox
    /\ NoApiDoor /\ NoHeadless /\ NoBotChat /\ NoBotPush /\ NoRelay /\ NoDaemons
    /\ NoRunWindows /\ Off(delivered) /\ Off(now) /\ Off(flavor) /\ Off(file) /\ Off(offset)
    /\ Off(requests) /\ Off(at) /\ Off(crashes) /\ Off(lost) /\ Off(moves) /\ Off(slot)
    /\ Off(told) /\ Off(last) /\ Off(ingress) /\ Off(hand) /\ Off(seen) /\ Off(cursor)
    /\ Off(pushed) /\ Off(changes) /\ Off(egress) /\ Off(page) /\ Off(turns)
InitActivity ==
    /\ which = "activity" /\ Door!Act!Init
    /\ NoCorrelation /\ NoReconciler /\ NoLeadAlerts /\ NoStallMonitor /\ NoMailbox
    /\ NoApiDoor /\ NoHeadless /\ NoBotChat /\ NoBotPush /\ NoRelay /\ NoDaemons
    /\ NoRunWindows /\ Off(registry) /\ Off(lead) /\ Off(incarnation) /\ Off(hires)
    /\ Off(delivered) /\ Off(window) /\ Off(pass) /\ Off(enrolled) /\ Off(pending)
    /\ Off(known) /\ Off(faults) /\ Off(moves) /\ Off(slot) /\ Off(told) /\ Off(last)
    /\ Off(ingress) /\ Off(hand) /\ Off(seen) /\ Off(cursor) /\ Off(pushed) /\ Off(changes)
    /\ Off(egress) /\ Off(page) /\ Off(turns)
InitLeadAlerts ==
    /\ which = "alerts" /\ Door!Lead!Init
    /\ NoCorrelation /\ NoReconciler /\ NoActivity /\ NoStallMonitor /\ NoMailbox
    /\ NoApiDoor /\ NoHeadless /\ NoBotChat /\ NoBotPush /\ NoRelay /\ NoDaemons
    /\ NoRunWindows /\ Off(registry) /\ Off(incarnation) /\ Off(hires) /\ Off(delivered)
    /\ Off(window) /\ Off(pass) /\ Off(enrolled) /\ Off(pending) /\ Off(known)
    /\ Off(flavor) /\ Off(file) /\ Off(offset) /\ Off(requests) /\ Off(at) /\ Off(crashes)
    /\ Off(lost) /\ Off(ingress) /\ Off(hand) /\ Off(seen) /\ Off(cursor) /\ Off(pushed)
    /\ Off(changes) /\ Off(egress) /\ Off(page) /\ Off(turns)
InitStallMonitor ==
    /\ which = "stall" /\ Box!Stl!Init
    /\ NoCorrelation /\ NoReconciler /\ NoActivity /\ NoLeadAlerts /\ NoMailbox /\ NoApiDoor
    /\ NoHeadless /\ NoBotChat /\ NoBotPush /\ NoRelay /\ NoDaemons /\ NoRunWindows
    /\ Off(registry) /\ Off(lead) /\ Off(incarnation) /\ Off(hires) /\ Off(delivered)
    /\ Off(window) /\ Off(pass) /\ Off(pending) /\ Off(known) /\ Off(flavor) /\ Off(file)
    /\ Off(offset) /\ Off(requests) /\ Off(crashes) /\ Off(lost) /\ Off(slot) /\ Off(last)
    /\ Off(cursor) /\ Off(pushed) /\ Off(changes) /\ Off(egress) /\ Off(page) /\ Off(turns)
InitMailbox ==
    /\ which = "mailbox" /\ Box!Init
    /\ NoCorrelation /\ NoReconciler /\ NoActivity /\ NoLeadAlerts /\ NoStallMonitor
    /\ NoApiDoor /\ NoHeadless /\ NoBotChat /\ NoBotPush /\ NoRelay /\ NoDaemons
    /\ NoRunWindows /\ Off(registry) /\ Off(lead) /\ Off(incarnation) /\ Off(hires)
    /\ Off(delivered) /\ Off(window) /\ Off(pass) /\ Off(enrolled) /\ Off(pending)
    /\ Off(known) /\ Off(now) /\ Off(flavor) /\ Off(file) /\ Off(offset) /\ Off(requests)
    /\ Off(at) /\ Off(crashes) /\ Off(moves) /\ Off(slot) /\ Off(told) /\ Off(last)
    /\ Off(changes) /\ Off(egress) /\ Off(page) /\ Off(turns)
InitApiDoor ==
    /\ which = "door" /\ Door!Init
    /\ NoCorrelation /\ NoReconciler /\ NoActivity /\ NoLeadAlerts /\ NoStallMonitor
    /\ NoMailbox /\ NoHeadless /\ NoBotChat /\ NoBotPush /\ NoRelay /\ NoDaemons
    /\ NoRunWindows /\ Off(lead) /\ Off(incarnation) /\ Off(hires) /\ Off(delivered)
    /\ Off(window) /\ Off(pass) /\ Off(enrolled) /\ Off(pending) /\ Off(known)
    /\ Off(faults) /\ Off(flavor) /\ Off(file) /\ Off(offset) /\ Off(crashes) /\ Off(lost)
    /\ Off(moves) /\ Off(slot) /\ Off(told) /\ Off(last) /\ Off(ingress) /\ Off(hand)
    /\ Off(seen) /\ Off(cursor) /\ Off(pushed) /\ Off(turns)
InitHeadless ==
    /\ which = "headless" /\ Door!Run!Init
    /\ NoCorrelation /\ NoReconciler /\ NoActivity /\ NoLeadAlerts /\ NoStallMonitor
    /\ NoMailbox /\ NoApiDoor /\ NoBotChat /\ NoBotPush /\ NoRelay /\ NoDaemons
    /\ NoRunWindows /\ Off(registry) /\ Off(lead) /\ Off(incarnation) /\ Off(hires)
    /\ Off(window) /\ Off(pass) /\ Off(enrolled) /\ Off(pending) /\ Off(known) /\ Off(now)
    /\ Off(file) /\ Off(offset) /\ Off(requests) /\ Off(crashes) /\ Off(lost) /\ Off(moves)
    /\ Off(slot) /\ Off(told) /\ Off(last) /\ Off(ingress) /\ Off(hand) /\ Off(seen)
    /\ Off(cursor) /\ Off(pushed) /\ Off(changes) /\ Off(egress) /\ Off(page)
InitBotChat ==
    /\ which = "chat" /\ Door!Chat!Init
    /\ NoCorrelation /\ NoReconciler /\ NoActivity /\ NoLeadAlerts /\ NoStallMonitor
    /\ NoMailbox /\ NoApiDoor /\ NoHeadless /\ NoBotPush /\ NoRelay /\ NoDaemons
    /\ NoRunWindows /\ Off(registry) /\ Off(lead) /\ Off(incarnation) /\ Off(hires)
    /\ Off(delivered) /\ Off(window) /\ Off(pass) /\ Off(enrolled) /\ Off(known)
    /\ Off(faults) /\ Off(now) /\ Off(flavor) /\ Off(file) /\ Off(requests) /\ Off(moves)
    /\ Off(last) /\ Off(ingress) /\ Off(hand) /\ Off(seen) /\ Off(cursor) /\ Off(pushed)
    /\ Off(changes) /\ Off(egress) /\ Off(page)
InitBotPush ==
    /\ which = "push" /\ Box!Bot!Init
    /\ NoCorrelation /\ NoReconciler /\ NoActivity /\ NoLeadAlerts /\ NoStallMonitor
    /\ NoMailbox /\ NoApiDoor /\ NoHeadless /\ NoBotChat /\ NoRelay /\ NoDaemons
    /\ NoRunWindows /\ Off(registry) /\ Off(lead) /\ Off(incarnation) /\ Off(hires)
    /\ Off(delivered) /\ Off(window) /\ Off(pass) /\ Off(enrolled) /\ Off(pending)
    /\ Off(known) /\ Off(now) /\ Off(flavor) /\ Off(offset) /\ Off(requests) /\ Off(at)
    /\ Off(crashes) /\ Off(lost) /\ Off(moves) /\ Off(slot) /\ Off(told) /\ Off(ingress)
    /\ Off(hand) /\ Off(seen) /\ Off(changes) /\ Off(egress) /\ Off(turns)
InitRelay ==
    /\ which = "relay" /\ Box!Rel!Init
    /\ NoCorrelation /\ NoReconciler /\ NoActivity /\ NoLeadAlerts /\ NoStallMonitor
    /\ NoMailbox /\ NoApiDoor /\ NoHeadless /\ NoBotChat /\ NoBotPush /\ NoDaemons
    /\ NoRunWindows /\ Off(registry) /\ Off(lead) /\ Off(incarnation) /\ Off(hires)
    /\ Off(delivered) /\ Off(window) /\ Off(pass) /\ Off(enrolled) /\ Off(pending)
    /\ Off(now) /\ Off(flavor) /\ Off(file) /\ Off(offset) /\ Off(requests) /\ Off(at)
    /\ Off(crashes) /\ Off(lost) /\ Off(moves) /\ Off(slot) /\ Off(told) /\ Off(last)
    /\ Off(ingress) /\ Off(hand) /\ Off(seen) /\ Off(pushed) /\ Off(page) /\ Off(turns)
InitDaemons ==
    /\ which = "daemons" /\ Box!Dmn!Init
    /\ NoCorrelation /\ NoReconciler /\ NoActivity /\ NoLeadAlerts /\ NoStallMonitor
    /\ NoMailbox /\ NoApiDoor /\ NoHeadless /\ NoBotChat /\ NoBotPush /\ NoRelay
    /\ NoRunWindows /\ Off(registry) /\ Off(lead) /\ Off(incarnation) /\ Off(hires)
    /\ Off(delivered) /\ Off(window) /\ Off(pass) /\ Off(enrolled) /\ Off(pending)
    /\ Off(known) /\ Off(now) /\ Off(flavor) /\ Off(file) /\ Off(offset) /\ Off(requests)
    /\ Off(at) /\ Off(crashes) /\ Off(lost) /\ Off(moves) /\ Off(slot) /\ Off(told)
    /\ Off(last) /\ Off(ingress) /\ Off(hand) /\ Off(seen) /\ Off(cursor) /\ Off(pushed)
    /\ Off(changes) /\ Off(egress) /\ Off(page) /\ Off(turns)
InitRunWindows ==
    /\ which = "runs" /\ Door!Wnd!Init
    /\ NoCorrelation /\ NoReconciler /\ NoActivity /\ NoLeadAlerts /\ NoStallMonitor
    /\ NoMailbox /\ NoApiDoor /\ NoHeadless /\ NoBotChat /\ NoBotPush /\ NoRelay
    /\ NoDaemons /\ Off(registry) /\ Off(lead) /\ Off(incarnation) /\ Off(hires)
    /\ Off(delivered) /\ Off(enrolled) /\ Off(pending) /\ Off(known) /\ Off(now)
    /\ Off(flavor) /\ Off(file) /\ Off(offset) /\ Off(requests) /\ Off(at) /\ Off(crashes)
    /\ Off(lost) /\ Off(moves) /\ Off(slot) /\ Off(told) /\ Off(last) /\ Off(ingress)
    /\ Off(hand) /\ Off(seen) /\ Off(cursor) /\ Off(pushed) /\ Off(changes) /\ Off(egress)
    /\ Off(page) /\ Off(turns)

InitServices ==
    \/ InitCorrelation \/ InitReconciler \/ InitActivity \/ InitLeadAlerts \/ InitStallMonitor
    \/ InitMailbox \/ InitApiDoor \/ InitHeadless \/ InitBotChat \/ InitBotPush \/ InitRelay
    \/ InitDaemons \/ InitRunWindows

OthersCorrelation ==
    UNCHANGED <<which, ofReconciler, ofActivity, ofLeadAlerts, ofStallMonitor, ofMailbox,
                    ofApiDoor, ofHeadless, ofBotChat, ofBotPush, ofRelay, ofDaemons,
                    ofRunWindows, window, pass, enrolled, pending, known, faults, now,
                    flavor, file, offset, requests, at, crashes, lost, moves, slot, told,
                    last, ingress, hand, seen, cursor, pushed, changes, egress, page,
                    turns>>
CorrelationStep == which = "correlation" /\ Next /\ OthersCorrelation

OthersReconciler ==
    UNCHANGED <<which, ofCorrelation, ofActivity, ofLeadAlerts, ofStallMonitor,
                    ofMailbox, ofApiDoor, ofHeadless, ofBotChat, ofBotPush, ofRelay,
                    ofDaemons, ofRunWindows, delivered, now, flavor, file, offset, requests,
                    at, crashes, lost, moves, slot, told, last, ingress, hand, seen, cursor,
                    pushed, changes, egress, page, turns>>
ReconcilerStep == which = "reconciler" /\ Box!Rec!Next /\ OthersReconciler

OthersActivity ==
    UNCHANGED <<which, ofCorrelation, ofReconciler, ofLeadAlerts, ofStallMonitor,
                    ofMailbox, ofApiDoor, ofHeadless, ofBotChat, ofBotPush, ofRelay,
                    ofDaemons, ofRunWindows, registry, lead, incarnation, hires, delivered,
                    window, pass, enrolled, pending, known, faults, moves, slot, told, last,
                    ingress, hand, seen, cursor, pushed, changes, egress, page, turns>>
ActivityStep == which = "activity" /\ Door!Act!Next /\ OthersActivity

OthersLeadAlerts ==
    UNCHANGED <<which, ofCorrelation, ofReconciler, ofActivity, ofStallMonitor,
                    ofMailbox, ofApiDoor, ofHeadless, ofBotChat, ofBotPush, ofRelay,
                    ofDaemons, ofRunWindows, registry, incarnation, hires, delivered,
                    window, pass, enrolled, pending, known, flavor, file, offset, requests,
                    at, crashes, lost, ingress, hand, seen, cursor, pushed, changes, egress,
                    page, turns>>
LeadAlertsStep == which = "alerts" /\ Door!Lead!Next /\ OthersLeadAlerts

OthersStallMonitor ==
    UNCHANGED <<which, ofCorrelation, ofReconciler, ofActivity, ofLeadAlerts, ofMailbox,
                    ofApiDoor, ofHeadless, ofBotChat, ofBotPush, ofRelay, ofDaemons,
                    ofRunWindows, registry, lead, incarnation, hires, delivered, window,
                    pass, pending, known, flavor, file, offset, requests, crashes, lost,
                    slot, last, cursor, pushed, changes, egress, page, turns>>
StallMonitorStep == which = "stall" /\ Box!Stl!Next /\ OthersStallMonitor

OthersMailbox ==
    UNCHANGED <<which, ofCorrelation, ofReconciler, ofActivity, ofLeadAlerts,
                    ofStallMonitor, ofApiDoor, ofHeadless, ofBotChat, ofBotPush, ofRelay,
                    ofDaemons, ofRunWindows, registry, lead, incarnation, hires, delivered,
                    window, pass, enrolled, pending, known, now, flavor, file, offset,
                    requests, at, crashes, moves, slot, told, last, changes, egress, page,
                    turns>>
MailboxStep == which = "mailbox" /\ Box!Next /\ OthersMailbox

OthersApiDoor ==
    UNCHANGED <<which, ofCorrelation, ofReconciler, ofActivity, ofLeadAlerts,
                    ofStallMonitor, ofMailbox, ofHeadless, ofBotChat, ofBotPush, ofRelay,
                    ofDaemons, ofRunWindows, lead, incarnation, hires, delivered, window,
                    pass, enrolled, pending, known, faults, flavor, file, offset, crashes,
                    lost, moves, slot, told, last, ingress, hand, seen, cursor, pushed,
                    turns>>
ApiDoorStep == which = "door" /\ Door!Next /\ OthersApiDoor

OthersHeadless ==
    UNCHANGED <<which, ofCorrelation, ofReconciler, ofActivity, ofLeadAlerts,
                    ofStallMonitor, ofMailbox, ofApiDoor, ofBotChat, ofBotPush, ofRelay,
                    ofDaemons, ofRunWindows, registry, lead, incarnation, hires, window,
                    pass, enrolled, pending, known, now, file, offset, requests, crashes,
                    lost, moves, slot, told, last, ingress, hand, seen, cursor, pushed,
                    changes, egress, page>>
HeadlessStep == which = "headless" /\ Door!Run!Next /\ OthersHeadless

OthersBotChat ==
    UNCHANGED <<which, ofCorrelation, ofReconciler, ofActivity, ofLeadAlerts,
                    ofStallMonitor, ofMailbox, ofApiDoor, ofHeadless, ofBotPush, ofRelay,
                    ofDaemons, ofRunWindows, registry, lead, incarnation, hires, delivered,
                    window, pass, enrolled, known, faults, now, flavor, file, requests,
                    moves, last, ingress, hand, seen, cursor, pushed, changes, egress,
                    page>>
BotChatStep == which = "chat" /\ Door!Chat!Next /\ OthersBotChat

OthersBotPush ==
    UNCHANGED <<which, ofCorrelation, ofReconciler, ofActivity, ofLeadAlerts,
                    ofStallMonitor, ofMailbox, ofApiDoor, ofHeadless, ofBotChat, ofRelay,
                    ofDaemons, ofRunWindows, registry, lead, incarnation, hires, delivered,
                    window, pass, enrolled, pending, known, now, flavor, offset, requests,
                    at, crashes, lost, moves, slot, told, ingress, hand, seen, changes,
                    egress, turns>>
BotPushStep == which = "push" /\ Box!Bot!Next /\ OthersBotPush

OthersRelay ==
    UNCHANGED <<which, ofCorrelation, ofReconciler, ofActivity, ofLeadAlerts,
                    ofStallMonitor, ofMailbox, ofApiDoor, ofHeadless, ofBotChat, ofBotPush,
                    ofDaemons, ofRunWindows, registry, lead, incarnation, hires, delivered,
                    window, pass, enrolled, pending, now, flavor, file, offset, requests,
                    at, crashes, lost, moves, slot, told, last, ingress, hand, seen, pushed,
                    page, turns>>
RelayStep == which = "relay" /\ Box!Rel!Next /\ OthersRelay

OthersDaemons ==
    UNCHANGED <<which, ofCorrelation, ofReconciler, ofActivity, ofLeadAlerts,
                    ofStallMonitor, ofMailbox, ofApiDoor, ofHeadless, ofBotChat, ofBotPush,
                    ofRelay, ofRunWindows, registry, lead, incarnation, hires, delivered,
                    window, pass, enrolled, pending, known, now, flavor, file, offset,
                    requests, at, crashes, lost, moves, slot, told, last, ingress, hand,
                    seen, cursor, pushed, changes, egress, page, turns>>
DaemonsStep == which = "daemons" /\ Box!Dmn!Next /\ OthersDaemons

OthersRunWindows ==
    UNCHANGED <<which, ofCorrelation, ofReconciler, ofActivity, ofLeadAlerts,
                    ofStallMonitor, ofMailbox, ofApiDoor, ofHeadless, ofBotChat, ofBotPush,
                    ofRelay, ofDaemons, registry, lead, incarnation, hires, delivered,
                    enrolled, pending, known, now, flavor, file, offset, requests, at,
                    crashes, lost, moves, slot, told, last, ingress, hand, seen, cursor,
                    pushed, changes, egress, page, turns>>
RunWindowsStep == which = "runs" /\ Door!Wnd!Next /\ OthersRunWindows

NextServices ==
    \/ CorrelationStep \/ ReconcilerStep \/ ActivityStep \/ LeadAlertsStep \/ StallMonitorStep
    \/ MailboxStep \/ ApiDoorStep \/ HeadlessStep \/ BotChatStep \/ BotPushStep \/ RelayStep
    \/ DaemonsStep \/ RunWindowsStep

services == <<which, ofCorrelation, ofReconciler, ofActivity, ofLeadAlerts, ofStallMonitor, ofMailbox, ofApiDoor, ofHeadless, ofBotChat, ofBotPush, ofRelay, ofDaemons, ofRunWindows, registry, lead, incarnation, hires, delivered, window, pass, enrolled, pending, known, faults, now, flavor, file, offset, requests, at, crashes, lost, moves, slot, told, last, ingress, hand, seen, cursor, pushed, changes, egress, page, turns>>

\* The reconciler's loop runs on, and the time it waits before a retry passes.
PassStep == which = "reconciler" /\ Box!Rec!Pass /\ OthersReconciler
RetryStep(a) == which = "reconciler" /\ Box!Rec!Retry(a) /\ OthersReconciler

SpecServices ==
    /\ InitServices /\ [][NextServices]_services
    /\ WF_services(PassStep) /\ \A a \in Agents : WF_services(RetryStep(a))

-----------------------------------------------------------------------------
(* Properties: each component's own, of the behaviours that are its.        *)

\* The types of every component's variables.
AllTypesOK ==
    CASE which = "correlation" -> TypeOK
      [] which = "reconciler"  -> Box!Rec!TypeOK
      [] which = "activity"    -> Door!Act!TypeOK
      [] which = "alerts"      -> Door!Lead!TypeOK
      [] which = "stall"       -> Box!Stl!TypeOK
      [] which = "mailbox"     -> Box!TypeOK
      [] which = "door"        -> Door!TypeOK
      [] which = "headless"    -> Door!Run!TypeOK
      [] which = "chat"        -> Door!Chat!TypeOK
      [] which = "push"        -> Box!Bot!TypeOK
      [] which = "relay"       -> Box!Rel!TypeOK
      [] which = "daemons"     -> Box!Dmn!TypeOK
      [] which = "runs"        -> Door!Wnd!TypeOK

\* A reply that is taken for one to a message is one (Correlation).
RepliesTrue == which = "correlation" => ReplyTrue /\ MembersBound

\* A window that a quiet reconciler leaves runs what its agent is to run, a run window
\* is one of its label, and is removed when that is said (Reconciler, RunWindows).
WindowsTrue ==
    /\ which = "reconciler" => Box!Rec!WindowCurrent
    /\ which = "runs"       => Door!Wnd!RunsTrue

\* A roster nobody changes any more ends up as windows (Reconciler).
Converges == <>[](which = "reconciler" => Box!Rec!Settled)

\* Every line of a transcript is accounted for once (Activity).
UsageAccounted == which = "activity" => Door!Act!UsageAccounted

\* A delivery is called unverified only if nothing took it up (Activity).
BlockedTrue == [][which = "activity" => Door!Act!Blocked]_services

\* What the lead and the status are told of something that stands still is so, and the
\* lead is told once (LeadAlerts, StallMonitor).
ReportsTrue ==
    /\ which = "alerts" => Door!Lead!ToldOnce
    /\ which = "stall"  => Box!Stl!StallTrue

\* A frame for an API client reaches its inbox, and its reader in order (Mailbox).
MailKept == which = "mailbox" => Box!MailKept

\* What is done on a cooperation token is done while it holds (ApiDoor).
CoopHeld == which = "door" => Door!CoopHeld

\* A prompt runs once, and what its run leaves is accounted for (Headless).
RunOnce == which = "headless" => Door!Run!RunOnce

\* What people ask for in the chat is what is done, and alerts and replies reach the
\* chat, in order (BotChat, BotPush).
BotTrue ==
    /\ which = "chat" => Door!Chat!ChatTrue
    /\ which = "push" => Box!Bot!PushTrue

\* A message of another office is admitted once, or rejected (Relay).
RelayTrue == which = "relay" => Box!Rel!RelayTrue

\* No process is taken for a daemon that is not it, and no daemon goes untracked (Daemons).
DaemonsTrue == which = "daemons" => Box!Dmn!DaemonsTrue
=============================================================================
