---------------------------- MODULE Correlation ----------------------------
(***************************************************************************)
(* Which answer belongs to which message: lib/reply_correlation.py. A port *)
(* records a message it has delivered to an agent (record_delivered), and  *)
(* the API port, before it files an answer that names a message, asks if   *)
(* that message was delivered to who answers, from the client the answer   *)
(* goes to (was_delivered, modules/api/port.py). Meanwhile names are let   *)
(* go and hired again: Hire and LetGo stand for the lifecycle's scripts.   *)
(***************************************************************************)
EXTENDS Membership

CONSTANTS
    Messages,
    Clients,
    SourceOf,    \* the client that sent a message
    DestOf,      \* the agent it was sent to
    MaxAnswers   \* bound: answers that name a message

ASSUME CorrelationAssumption ==
    /\ SourceOf \in [Messages -> Clients]
    /\ DestOf \in [Messages -> Agents]
    /\ MaxAnswers \in Nat

VARIABLES
    port,       \* per message, where its port is, and the incarnation it looked up
    delivered,  \* the delivered.* keys, that is message, incarnation and source
    answer,     \* the answer the API port holds
    answers,    \* answers so far
    \* history:
    pastedIn,   \* per message, the incarnation of its agent when it was pasted
    confirmed   \* the answers filed with a message named

corr == <<port, delivered, answer, answers, pastedIn, confirmed>>
vars == <<roster, corr>>

NoAnswer == [at |-> "none"]

Init ==
    /\ MembershipInit
    /\ port = [m \in Messages |-> [at |-> "queued", inc |-> 0]]
    /\ delivered = {}
    /\ answer = NoAnswer /\ answers = 0
    /\ pastedIn = [m \in Messages |-> 0]
    /\ confirmed = {}

Hire(a)  == Publish(a, "tmux") /\ UNCHANGED corr
LetGo(a) == Member(a) /\ Remove(a) /\ UNCHANGED corr

-----------------------------------------------------------------------------
(* The port that delivers a message                                        *)

Move(m, at, inc) == port' = [port EXCEPT ![m] = [at |-> at, inc |-> inc]]

\* A message that was not pasted is not recorded.
Paste(m) ==
    /\ port[m].at = "queued"
    /\ IF Member(DestOf[m])
          THEN Move(m, "pasted", 0) /\ pastedIn' = [pastedIn EXCEPT ![m] = incarnation[DestOf[m]]]
          ELSE Move(m, "done", 0) /\ UNCHANGED pastedIn
    /\ UNCHANGED <<roster, delivered, answer, answers, confirmed>>

\* Without an incarnation, or when a command fails, there is no record.
Look(m) ==
    /\ port[m].at = "pasted"
    /\ LET inc == incarnation[DestOf[m]]
       IN  Move(m, IF inc = 0 THEN "done" ELSE "found", inc) \/ Move(m, "done", 0)
    /\ UNCHANGED <<roster, delivered, answer, answers, pastedIn, confirmed>>

Record(m) ==
    /\ port[m].at = "found"
    /\ Move(m, "done", port[m].inc)
    /\ delivered' \in {delivered, delivered \cup {[msg |-> m, inc |-> port[m].inc, source |-> SourceOf[m]]}}
    /\ UNCHANGED <<roster, answer, answers, pastedIn, confirmed>>

Expire ==
    /\ \E d \in delivered : delivered' = delivered \ {d}
    /\ UNCHANGED <<roster, port, answer, answers, pastedIn, confirmed>>

-----------------------------------------------------------------------------
(* The API port that files an answer                                       *)

Ask ==
    /\ answer = NoAnswer /\ answers < MaxAnswers
    /\ \E m \in Messages, a \in Agents, c \in Clients :
          answer' = [at |-> "asked", msg |-> m, from |-> a, to |-> c]
    /\ answers' = answers + 1
    /\ UNCHANGED <<roster, port, delivered, pastedIn, confirmed>>

\* Nothing is known of a name without incarnation; a failed lookup drops the field too.
FindIncarnation ==
    /\ answer.at = "asked"
    /\ LET inc == incarnation[answer.from]
       IN  answer' \in {NoAnswer} \cup
               (IF inc = 0 THEN {}
                ELSE {[at |-> "verify", inc |-> inc, msg |-> answer.msg,
                       from |-> answer.from, to |-> answer.to]})
    /\ UNCHANGED <<roster, port, delivered, answers, pastedIn, confirmed>>

\* A delivered.* key is the key of an agent.
Claim(m, a, inc, c) ==
    /\ a = DestOf[m]
    /\ \E d \in delivered : d.msg = m /\ d.inc = inc /\ d.source = c

\* Mutant: the claim is read without asking again who is current.
StaleTrue == Claim(answer.msg, answer.from, answer.inc, answer.to)

\* The script's verdict: the incarnation is current still, and the claim is its own.
VerifiedTrue ==
    /\ incarnation[answer.from] = answer.inc
    /\ Claim(answer.msg, answer.from, answer.inc, answer.to)

\* Anything but a confirmed match, a failed script included, drops the field.
Verify ==
    /\ answer.at = "verify"
    /\ answer' = NoAnswer
    /\ confirmed' \in {confirmed} \cup
          (IF VerifiedTrue
             THEN {confirmed \cup {[msg |-> answer.msg, from |-> answer.from, to |-> answer.to,
                                     now |-> incarnation[answer.from]]}}
             ELSE {})
    /\ UNCHANGED <<roster, port, delivered, answers, pastedIn>>

Next ==
    \/ \E a \in Agents : Hire(a) \/ LetGo(a)
    \/ \E m \in Messages : Paste(m) \/ Look(m) \/ Record(m)
    \/ Expire \/ Ask \/ FindIncarnation \/ Verify

Spec == Init /\ [][Next]_vars

-----------------------------------------------------------------------------
(* Properties                                                              *)

TypeOK ==
    /\ MembershipTypeOK
    /\ port \in [Messages -> [at : {"queued", "pasted", "found", "done"}, inc : 0 .. MaxHires]]
    /\ delivered \subseteq [msg : Messages, inc : 1 .. MaxHires, source : Clients]
    /\ pastedIn \in [Messages -> 0 .. MaxHires]

\* ReplyTrue: an answer is filed as the answer to a message only if it goes to the
\* client that sent the message and comes from the name it was sent to, in the
\* incarnation that was current when the port recorded the delivery, which is the one
\* the message was pasted to or, when the name was let go and hired again between the
\* paste and the record, a later one (_VERIFY_DELIVERY_LUA, the source binding).
ReplyTrue ==
    \A v \in confirmed :
        /\ v.to = SourceOf[v.msg] /\ v.from = DestOf[v.msg]
        /\ port[v.msg].at = "done" /\ v.now = port[v.msg].inc
        /\ pastedIn[v.msg] <= v.now
=============================================================================
