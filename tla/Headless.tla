------------------------------ MODULE Headless ------------------------------
(***************************************************************************)
(* The ports of agents without a window: one that asks the Claude Agent    *)
(* SDK (modules/claude_sdk/port.py), and remembers a conversation where    *)
(* the message names a context (lib/chat_cycle.py, lib/chat_memory.py),    *)
(* and one that runs a CLI in a sandbox (modules/openshell/port.py), with  *)
(* a credential in the sandbox for as long as it runs. Both run their      *)
(* model once per envelope and send what it said as an answer. The model   *)
(* follows an opener step by step; a command may fail or the port die      *)
(* between any two.                                                        *)
(*                                                                         *)
(* One agent, one port at a time, one context. The custody of an envelope  *)
(* is no more here than which list it is in (Custody has the rest).        *)
(***************************************************************************)
EXTENDS Naturals, Sequences, SequencesExt

CONSTANTS
    Messages,    \* 1 .. how many envelopes come, in order
    InContext,   \* those that name the context
    Invalid,     \* those the opener rejects before it begins
    Attachments, \* those that bring a file, of which the model is then told
    Silent,      \* those the model has nothing to say to
    Keep,        \* HOT_KEEP_COUNT
    MaxFaults    \* bound: failed commands and deaths of the port

VARIABLES
    flavor,      \* "sdk" or "shell"
    place,       \* of each envelope
    at,          \* what the opener does next
    prompt,      \* the turns it has read
    turns,       \* of the context: every turn written, an index as far as Keep reaches
    expired,     \* how many of them are gone
    filed,       \* the attachments written into the sandbox
    credential,  \* whether the credential is in the sandbox
    delivered,   \* the deliveries recorded for Correlation
    replies,     \* the answers sent
    faults,
    \* history:
    runs,        \* how often each envelope was run
    answered,    \* those whose run has ended well
    prompts,     \* the turns each run was shown
    torn         \* those of which only one turn was written

opener == <<at, prompt, filed>>
chat   == <<turns, expired>>
shown  == <<runs, answered, prompts>>
hvars  == <<flavor, place, opener, chat, credential, delivered, replies, faults, shown, torn>>

Init ==
    /\ flavor \in {"sdk", "shell"}
    /\ place = [m \in Messages |-> "ingress"]
    /\ at = "rest" /\ prompt = <<>> /\ filed = {} /\ turns = <<>> /\ expired = 0
    /\ credential = FALSE /\ delivered = {} /\ replies = {}
    /\ faults = 0
    /\ runs = [m \in Messages |-> 0] /\ answered = {}
    /\ prompts = [m \in Messages |-> <<>>] /\ torn = {}

Opening == {m \in Messages : place[m] = "opening"}
Current == CHOOSE m \in Opening : TRUE
Next_(m) == place[m] = "ingress" /\ \A n \in Messages : n < m => place[n] # "ingress"

Remembers(m) == flavor = "sdk" /\ m \in InContext

-----------------------------------------------------------------------------
(* receive                                                                 *)

\* The next envelope is taken. One that cannot be opened is a dead letter.
Take ==
    /\ at = "rest" /\ Opening = {}
    /\ \E m \in Messages :
          /\ Next_(m)
          /\ IF m \in Invalid
               THEN place' = [place EXCEPT ![m] = "dead"] /\ UNCHANGED at
               ELSE /\ place' = [place EXCEPT ![m] = "opening"]
                    /\ at' = IF Remembers(m) THEN "read" ELSE IF flavor = "shell" THEN "sandbox" ELSE "run"
    /\ UNCHANGED <<flavor, filed, prompt, chat, credential, delivered, replies, faults, shown, torn>>

Leave(m, where) == at' = "rest" /\ prompt' = <<>> /\ place' = [place EXCEPT ![m] = where]

\* Mutant: an envelope that was being opened is opened again.
OpenAgain == place' = [m \in Messages |-> IF place[m] = "opening" THEN "ingress" ELSE place[m]]

\* The next port finds an envelope that was being opened, and does not know how far.
Surface == place' = [m \in Messages |-> IF place[m] = "opening" THEN "unresolved" ELSE place[m]]

Recover ==
    /\ at = "rest" /\ Opening # {}
    /\ Surface
    /\ UNCHANGED <<flavor, opener, chat, credential, delivered, replies, faults, shown, torn>>

-----------------------------------------------------------------------------
(* The opener                                                              *)

\* read_turns: what the index holds and is not gone.
Live == SubSeq(turns, (IF Len(turns) - Keep > expired THEN Len(turns) - Keep ELSE expired) + 1,
               Len(turns))

ReadTurns ==
    /\ at = "read" /\ at' = "run"
    /\ prompt' = Live
    /\ UNCHANGED <<flavor, filed, place, chat, credential, delivered, replies, faults, shown, torn>>

\* Without a sandbox the envelope is a dead letter, also when its file was written before.
FindSandbox ==
    /\ at = "sandbox"
    /\ \/ /\ at' \in IF Current \in Attachments \ filed THEN {"attach"} ELSE {"credential", "run"}
          /\ UNCHANGED <<place, prompt>>
       \/ Leave(Current, "dead")
    /\ UNCHANGED <<flavor, filed, chat, credential, delivered, replies, faults, shown, torn>>

WriteAttachment ==
    /\ at = "attach"
    /\ \/ at' = "sandbox" /\ filed' = filed \cup {Current} /\ UNCHANGED <<place, prompt>>
       \/ Leave(Current, "dead") /\ UNCHANGED filed
    /\ UNCHANGED <<flavor, chat, credential, delivered, replies, faults, shown, torn>>

WriteCredential ==
    /\ at = "credential" /\ at' = "run"
    /\ credential' = TRUE
    /\ UNCHANGED <<flavor, filed, place, prompt, chat, delivered, replies, faults, shown, torn>>

Run ==
    /\ at = "run"
    /\ runs' = [runs EXCEPT ![Current] = @ + 1]
    /\ prompts' = [prompts EXCEPT ![Current] = prompt]
    /\ answered' = answered \cup {Current}
    /\ at' = IF credential THEN "wipe" ELSE IF Remembers(Current) THEN "user" ELSE "record"
    /\ prompt' = <<>>
    /\ UNCHANGED <<flavor, filed, place, chat, credential, delivered, replies, faults, torn>>

\* The credential is removed whatever came of the run.
Wipe ==
    /\ at \in {"wipe", "wipe and fail"}
    /\ credential' = FALSE
    /\ IF at = "wipe" THEN at' = "record" /\ UNCHANGED <<place, prompt>>
                      ELSE Leave(Current, "unresolved")
    /\ UNCHANGED <<flavor, filed, chat, delivered, replies, faults, shown, torn>>

Turn(m, role) == [of |-> m, role |-> role]

\* The message and the answer are remembered, after the answer is there.
WriteTurn ==
    /\ at \in {"user", "assistant"}
    /\ turns' = Append(turns, Turn(Current, at))
    /\ at' = IF at = "user" THEN "assistant" ELSE "record"
    /\ torn' = IF at = "user" THEN torn \cup {Current} ELSE torn \ {Current}
    /\ UNCHANGED <<flavor, filed, place, prompt, expired, credential, delivered, replies, faults, shown>>

\* An answer may refer to this delivery from here on; the record is best-effort.
RecordDelivered ==
    /\ at = "record"
    /\ delivered' = delivered \cup {Current}
    /\ IF Current \in Silent THEN Leave(Current, "opened")
                             ELSE at' = "reply" /\ UNCHANGED <<place, prompt>>
    /\ UNCHANGED <<flavor, filed, chat, credential, replies, faults, shown, torn>>

Reply ==
    /\ at = "reply"
    /\ replies' = replies \cup {Current}
    /\ Leave(Current, "opened")
    /\ UNCHANGED <<flavor, filed, chat, credential, delivered, faults, shown, torn>>

\* The oldest turn goes first.
Expire ==
    /\ expired < Len(turns) /\ expired' = expired + 1
    /\ UNCHANGED <<flavor, place, opener, turns, credential, delivered, replies, faults, shown, torn>>

-----------------------------------------------------------------------------
(* Faults                                                                  *)

Fault == faults < MaxFaults /\ faults' = faults + 1

\* A command or the run fails, done or not. The opener raises, and the envelope is
\* unresolved; where a credential was written, it is removed first. A record that fails
\* is passed over.
Fails ==
    /\ at \notin {"rest", "sandbox", "wipe", "wipe and fail"} /\ Fault
    /\ CASE at = "run" /\ credential -> at' = "wipe and fail" /\ UNCHANGED <<place, prompt>>
         [] at = "record" /\ Current \notin Silent -> at' = "reply" /\ UNCHANGED <<place, prompt>>
         [] at = "record" /\ Current \in Silent -> Leave(Current, "opened")
         [] OTHER -> Leave(Current, "unresolved")
    /\ runs' = IF at = "run" THEN [runs EXCEPT ![Current] = @ + 1] ELSE runs
    /\ prompts' = IF at = "run" THEN [prompts EXCEPT ![Current] = prompt] ELSE prompts
    /\ turns' \in {turns} \cup (IF at \in {"user", "assistant"} THEN {Append(turns, Turn(Current, at))} ELSE {})
    /\ torn' = IF at = "user" /\ turns' # turns THEN torn \cup {Current}
               ELSE IF at = "assistant" /\ turns' # turns THEN torn \ {Current} ELSE torn
    /\ credential' \in {credential, credential \/ at = "credential"}
    /\ replies' \in {replies} \cup (IF at = "reply" THEN {replies \cup {Current}} ELSE {})
    /\ UNCHANGED <<flavor, filed, expired, delivered, answered>>

\* The removal fails, and nobody notices.
WipeFails ==
    /\ at \in {"wipe", "wipe and fail"} /\ Fault
    /\ IF at = "wipe" THEN at' = "record" /\ UNCHANGED <<place, prompt>>
                      ELSE Leave(Current, "unresolved")
    /\ UNCHANGED <<flavor, filed, chat, credential, delivered, replies, shown, torn>>

Die ==
    /\ at # "rest" /\ Fault
    /\ at' = "rest" /\ prompt' = <<>>
    /\ runs' = IF at = "run" THEN [runs EXCEPT ![Current] = @ + 1] ELSE runs
    /\ prompts' = IF at = "run" THEN [prompts EXCEPT ![Current] = prompt] ELSE prompts
    /\ replies' \in {replies} \cup (IF at = "reply" THEN {replies \cup {Current}} ELSE {})
    /\ UNCHANGED <<flavor, filed, place, chat, credential, delivered, answered, torn>>

Next ==
    \/ Take \/ Recover \/ ReadTurns \/ FindSandbox \/ WriteAttachment \/ WriteCredential \/ Run \/ Wipe \/ WriteTurn
    \/ RecordDelivered \/ Reply \/ Expire \/ Fails \/ WipeFails \/ Die

Spec == Init /\ [][Next]_hvars

-----------------------------------------------------------------------------
(* Properties                                                              *)

TypeOK ==
    /\ place \in [Messages -> {"ingress", "opening", "opened", "dead", "unresolved"}]
    /\ (at # "rest" => Opening # {}) /\ \A m, n \in Opening : m = n
    /\ expired \in 0 .. Len(turns)
    /\ delivered \cup replies \cup answered \cup torn \cup filed \subseteq Messages

\* RunOnce: an envelope is run at most once, whatever fails in between; an answer is sent
\* for a run that ended well only, and what a dead letter asked for never began; a run is
\* shown earlier exchanges only, in order and in pairs, but for one that a fault tore or
\* whose first turn is gone; and the credential is in the sandbox while a run needs it, or
\* after a fault (_open_received, run_chat_cycle, read_turns, _exec_headless).
RunOnce ==
    /\ \A m \in Messages : runs[m] <= 1 /\ (place[m] = "dead" => runs[m] = 0)
    /\ replies \subseteq answered
    /\ faults = 0 => replies \subseteq delivered
    /\ \A m \in Messages : \A i \in 1 .. Len(prompts[m]) :
          LET t == prompts[m][i]
          IN  /\ t.of < m /\ t.of \in answered
              /\ t.role = "user" =>
                    t.of \in torn \/ (i < Len(prompts[m]) /\ prompts[m][i + 1] = Turn(t.of, "assistant"))
              /\ t.role = "assistant" /\ i > 1 => prompts[m][i - 1] = Turn(t.of, "user")
              /\ i > 1 => prompts[m][i - 1].of <= t.of
    /\ credential => faults > 0 \/ at \in {"run", "wipe"}
=============================================================================
