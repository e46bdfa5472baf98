--------------------------- MODULE ServicesProofs ---------------------------
(***************************************************************************)
(* Proofs about the services of MCServices: first about a component, for   *)
(* every value of its constants, then about the behaviours that the run of *)
(* MCServices checks.                                                      *)
(***************************************************************************)
EXTENDS MCServices, Sequences, TLAPS

-----------------------------------------------------------------------------
(* Membership and Correlation *)

\* The roster: its types, MembersBound, and that the next incarnation is a new one.
RosterInv ==
    /\ MembershipTypeOK
    /\ MembersBound
    /\ \A a \in Agents : incarnation[a] <= hires

\* What was pasted to an incarnation is looked up in the same one or a later one, and
\* what is recorded of a message is what its port found.
DeliveryInv ==
    /\ TypeOK
    /\ \A m \in Messages :
         /\ port[m].at = "queued" => pastedIn[m] = 0
         /\ pastedIn[m] <= hires
         /\ port[m].at = "pasted" =>
              LET inc == incarnation[DestOf[m]] IN inc = 0 \/ pastedIn[m] <= inc
         /\ port[m].at = "found" => port[m].inc > 0 /\ pastedIn[m] <= port[m].inc
    /\ \A d \in delivered :
         /\ d.source = SourceOf[d.msg]
         /\ port[d.msg] = [at |-> "done", inc |-> d.inc]
         /\ pastedIn[d.msg] <= d.inc

\* The answer at hand names a message; those that were confirmed are true.
AnswerInv ==
    /\ answer.at \in {"none", "asked", "verify"}
    /\ answer.at # "none" => answer.msg \in Messages /\ answer.from \in Agents
    /\ \A v \in confirmed : v.msg \in Messages
    /\ ReplyTrue

CorrInv == RosterInv /\ DeliveryInv /\ AnswerInv

\* Initially the Legacy names are enrolled, and nothing was sent.
LEMMA CorrInit == Init => CorrInv
<1> SUFFICES ASSUME Init PROVE CorrInv
  OBVIOUS
<1>1. MembershipTypeOK
  BY MembershipAssumption DEF Init, MembershipInit, MembershipTypeOK, Ports
<1>2. RosterInv
  BY <1>1, MembershipAssumption
  DEF Init, MembershipInit, RosterInv, MembersBound, Member
<1>3. DeliveryInv
  BY <1>1, MembershipAssumption DEF Init, DeliveryInv, TypeOK, MembershipInit
<1>4. AnswerInv
  BY DEF Init, AnswerInv, NoAnswer, ReplyTrue
<1> QED BY <1>2, <1>3, <1>4 DEF CorrInv

\* What the lifecycle's scripts do to the roster: an incarnation is kept, ended, or one
\* that nobody had.
LEMMA RosterMoves ==
    ASSUME RosterInv, NEW a \in Agents, Publish(a, "tmux") \/ (Member(a) /\ Remove(a))
    PROVE  /\ RosterInv'
           /\ hires' >= hires
           /\ \A b \in Agents : \/ incarnation'[b] = incarnation[b]
                                \/ incarnation'[b] = 0
                                \/ incarnation'[b] > hires
<1>1. /\ registry \in [Agents -> Ports \cup {None}] /\ lead \in Agents \cup {None}
      /\ incarnation \in [Agents -> 0 .. MaxHires] /\ hires \in 0 .. MaxHires
      /\ MaxHires \in Nat /\ None \notin Agents \cup Ports
      /\ "tmux" \in Ports
  BY MembershipAssumption DEF RosterInv, MembershipTypeOK, Ports
<1>2. CASE Publish(a, "tmux")
  <2>1. CASE Mints(a)
    <3>1. /\ hires < MaxHires /\ hires' = hires + 1
          /\ incarnation' = [incarnation EXCEPT ![a] = hires + 1]
          /\ registry' = [registry EXCEPT ![a] = "tmux"]
          /\ lead' = IF lead = None THEN a ELSE lead
      BY <1>2, <2>1 DEF Publish
    <3>2. MembershipTypeOK'
      BY <1>1, <3>1 DEF MembershipTypeOK
    <3>3. MembersBound'
      BY <1>1, <3>1 DEF MembersBound, Member, RosterInv
    <3> QED BY <1>1, <3>1, <3>2, <3>3 DEF RosterInv
  <2>2. CASE ~Mints(a)
    <3>1. /\ hires' = hires /\ incarnation' = incarnation
          /\ registry' = [registry EXCEPT ![a] = "tmux"]
          /\ lead' = IF lead = None THEN a ELSE lead
      BY <1>2, <2>2 DEF Publish
    <3>2. MembershipTypeOK'
      BY <1>1, <3>1 DEF MembershipTypeOK
    <3>3. MembersBound'
      BY <1>1, <3>1 DEF MembersBound, Member, RosterInv
    <3> QED BY <1>1, <3>1, <3>2, <3>3 DEF RosterInv
  <2> QED BY <2>1, <2>2
<1>3. CASE Member(a) /\ Remove(a)
  <2>1. /\ hires' = hires
        /\ incarnation' = [incarnation EXCEPT ![a] = 0]
        /\ registry' = [registry EXCEPT ![a] = None]
        /\ lead' = IF lead = a THEN None ELSE lead
    BY <1>3 DEF Remove
  <2>2. MembershipTypeOK'
    BY <1>1, <2>1 DEF MembershipTypeOK
  <2>3. MembersBound'
    BY <1>1, <2>1 DEF MembersBound, Member, RosterInv
  <2> QED BY <1>1, <2>1, <2>2, <2>3 DEF RosterInv
<1> QED BY <1>2, <1>3

\* Names come and go while a message is on its way.
LEMMA HireStep ==
    ASSUME CorrInv, NEW a \in Agents, Hire(a) \/ LetGo(a)
    PROVE  CorrInv'
<1>1. /\ RosterInv' /\ hires' >= hires
      /\ \A b \in Agents : \/ incarnation'[b] = incarnation[b]
                           \/ incarnation'[b] = 0
                           \/ incarnation'[b] > hires
  BY RosterMoves DEF CorrInv, Hire, LetGo
<1>2. UNCHANGED corr
  BY DEF Hire, LetGo
<1>3. TypeOK'
  BY <1>1, <1>2 DEF CorrInv, DeliveryInv, RosterInv, TypeOK, corr
<1>4. hires \in Nat /\ hires' \in Nat /\ \A m \in Messages : pastedIn[m] \in Nat
  BY <1>1, MembershipAssumption DEF CorrInv, RosterInv, MembershipTypeOK, DeliveryInv, TypeOK
<1>5. ASSUME NEW m \in Messages
      PROVE  /\ port'[m].at = "queued" => pastedIn'[m] = 0
             /\ pastedIn'[m] <= hires'
             /\ port'[m].at = "pasted" =>
                  incarnation'[DestOf[m]] = 0 \/ pastedIn'[m] <= incarnation'[DestOf[m]]
             /\ port'[m].at = "found" => port'[m].inc > 0 /\ pastedIn'[m] <= port'[m].inc
  <2>1. DestOf[m] \in Agents
    BY CorrelationAssumption
  <2>2. incarnation[DestOf[m]] \in Nat /\ incarnation'[DestOf[m]] \in Nat
    BY <1>1, <2>1, MembershipAssumption DEF CorrInv, RosterInv, MembershipTypeOK
  <2> QED BY <1>1, <1>2, <1>4, <2>1, <2>2 DEF CorrInv, DeliveryInv, corr
<1>6. DeliveryInv'
  BY <1>2, <1>3, <1>5 DEF CorrInv, DeliveryInv, corr
<1>7. AnswerInv'
  BY <1>2 DEF CorrInv, AnswerInv, ReplyTrue, corr
<1> QED BY <1>1, <1>6, <1>7 DEF CorrInv

\* The port that delivers pastes, looks the incarnation up, and records it.
LEMMA PortStep ==
    ASSUME CorrInv, NEW m \in Messages, Paste(m) \/ Look(m) \/ Record(m)
    PROVE  CorrInv'
<1>1. /\ port \in [Messages -> [at : {"queued", "pasted", "found", "done"}, inc : 0 .. MaxHires]]
      /\ pastedIn \in [Messages -> 0 .. MaxHires]
      /\ delivered \subseteq [msg : Messages, inc : 1 .. MaxHires, source : Clients]
      /\ incarnation \in [Agents -> 0 .. MaxHires]
      /\ MaxHires \in Nat /\ DestOf[m] \in Agents
  BY MembershipAssumption, CorrelationAssumption
  DEF CorrInv, DeliveryInv, RosterInv, TypeOK, MembershipTypeOK
<1>2. RosterInv' /\ UNCHANGED <<roster, answer, answers, confirmed>>
  BY DEF Paste, Look, Record, CorrInv, RosterInv, MembershipTypeOK, MembersBound, Member,
         roster
<1>3. PICK at_ \in {"pasted", "found", "done"}, inc_ \in 0 .. MaxHires : Move(m, at_, inc_)
  BY <1>1 DEF Paste, Look, Record
<1>4. /\ port' \in [Messages -> [at : {"queued", "pasted", "found", "done"}, inc : 0 .. MaxHires]]
      /\ \A n \in Messages : n # m => port'[n] = port[n]
      /\ port'[m] = [at |-> at_, inc |-> inc_]
      /\ port[m].at # "done"
  BY <1>1, <1>3 DEF Move, Paste, Look, Record
<1>5. AnswerInv'
  <2>1. \A v \in confirmed : v.msg \in Messages /\ v.msg # m /\ port[v.msg].at = "done"
    BY <1>4 DEF CorrInv, AnswerInv, ReplyTrue
  <2>2. \A n \in Messages : n # m => pastedIn'[n] = pastedIn[n]
    BY <1>1 DEF Paste, Look, Record
  <2> QED BY <1>2, <1>4, <2>1, <2>2 DEF CorrInv, AnswerInv, ReplyTrue
<1>6. ASSUME NEW d \in delivered
      PROVE  /\ d.msg # m /\ d.source = SourceOf[d.msg]
             /\ port[d.msg] = [at |-> "done", inc |-> d.inc]
             /\ pastedIn[d.msg] <= d.inc /\ d.msg \in Messages
  <2>1. /\ port[d.msg] = [at |-> "done", inc |-> d.inc] /\ d.source = SourceOf[d.msg]
        /\ pastedIn[d.msg] <= d.inc
    BY DEF CorrInv, DeliveryInv
  <2>2. port[d.msg].at = "done" /\ d.msg \in Messages
    BY <1>1, <2>1
  <2> QED BY <1>4, <2>1, <2>2
<1>7. CASE Paste(m)
  <2>1. /\ UNCHANGED <<hires, incarnation, delivered>>
        /\ \/ at_ = "pasted" /\ pastedIn' = [pastedIn EXCEPT ![m] = incarnation[DestOf[m]]]
           \/ at_ = "done" /\ pastedIn' = pastedIn
    BY <1>1, <1>3, <1>4, <1>7 DEF Paste, Move, roster
  <2>2. TypeOK'
    BY <1>1, <1>2, <1>4, <2>1 DEF TypeOK, RosterInv
  <2> QED BY <1>1, <1>2, <1>4, <1>5, <1>6, <2>1, <2>2 DEF CorrInv, DeliveryInv, RosterInv
<1>8. CASE Look(m)
  <2>1. /\ UNCHANGED <<hires, incarnation, delivered, pastedIn>>
        /\ port[m].at = "pasted"
        /\ \/ at_ = "found" /\ inc_ = incarnation[DestOf[m]] /\ inc_ # 0
           \/ at_ = "done"
    BY <1>1, <1>3, <1>4, <1>8 DEF Look, Move, roster
  <2>2. TypeOK'
    BY <1>1, <1>2, <1>4, <2>1 DEF TypeOK, RosterInv
  <2> QED BY <1>1, <1>2, <1>4, <1>5, <1>6, <2>1, <2>2 DEF CorrInv, DeliveryInv
<1>9. CASE Record(m)
  <2> DEFINE d == [msg |-> m, inc |-> port[m].inc, source |-> SourceOf[m]]
  <2>1. /\ UNCHANGED <<hires, incarnation, pastedIn>>
        /\ port[m].at = "found" /\ at_ = "done" /\ inc_ = port[m].inc
        /\ delivered' \in {delivered, delivered \cup {d}}
    BY <1>1, <1>3, <1>4, <1>9 DEF Record, Move, roster
  <2>2. port[m].inc \in 1 .. MaxHires /\ pastedIn[m] <= port[m].inc /\ SourceOf[m] \in Clients
    BY <1>1, <2>1, CorrelationAssumption DEF CorrInv, DeliveryInv
  <2>3. TypeOK'
    BY <1>1, <1>2, <1>4, <2>1, <2>2 DEF TypeOK, RosterInv
  <2>4. ASSUME NEW e \in delivered'
        PROVE  /\ e.source = SourceOf[e.msg]
               /\ port'[e.msg] = [at |-> "done", inc |-> e.inc]
               /\ pastedIn'[e.msg] <= e.inc
    <3>1. CASE e \in delivered
      BY <1>4, <1>6, <2>1, <3>1
    <3>2. CASE e = d
      BY <1>4, <2>1, <2>2, <3>2
    <3> QED BY <2>1, <3>1, <3>2
  <2> QED BY <1>1, <1>2, <1>4, <1>5, <2>1, <2>3, <2>4 DEF CorrInv, DeliveryInv
<1> QED BY <1>7, <1>8, <1>9

\* A record expires.
LEMMA ExpireStep == CorrInv /\ Expire => CorrInv'
BY DEF CorrInv, Expire, roster, RosterInv, MembershipTypeOK, MembersBound, Member,
       DeliveryInv, TypeOK, AnswerInv, ReplyTrue

\* The API port asks who answers, and then whether the delivery is recorded and the
\* incarnation still the current one.
LEMMA AnswerStep ==
    ASSUME CorrInv, Ask \/ FindIncarnation \/ Verify
    PROVE  CorrInv'
<1>1. UNCHANGED <<roster, port, delivered, pastedIn>>
  BY DEF Ask, FindIncarnation, Verify
<1>2. RosterInv' /\ DeliveryInv'
  BY <1>1 DEF CorrInv, roster, RosterInv, MembershipTypeOK, MembersBound, Member,
              DeliveryInv, TypeOK
<1>3. CASE Ask \/ FindIncarnation
  <2>1. /\ confirmed' = confirmed
        /\ answer'.at \in {"none", "asked", "verify"}
        /\ answer'.at # "none" => answer'.msg \in Messages /\ answer'.from \in Agents
    BY <1>3 DEF Ask, FindIncarnation, NoAnswer, CorrInv, AnswerInv
  <2> QED BY <1>1, <1>2, <2>1 DEF CorrInv, AnswerInv, ReplyTrue
<1>4. CASE Verify
  <2> DEFINE v == [msg |-> answer.msg, from |-> answer.from, to |-> answer.to,
                   now |-> incarnation[answer.from]]
  <2>1. answer' = NoAnswer /\ answer.msg \in Messages
    BY <1>4 DEF Verify, CorrInv, AnswerInv
  <2>2. CASE confirmed' = confirmed
    BY <1>1, <1>2, <2>1, <2>2 DEF CorrInv, AnswerInv, ReplyTrue, NoAnswer
  <2>3. CASE VerifiedTrue /\ confirmed' = confirmed \cup {v}
    <3>1. PICK d \in delivered : /\ d.msg = answer.msg /\ d.source = answer.to
                                 /\ d.inc = incarnation[answer.from]
                                 /\ answer.from = DestOf[answer.msg]
      BY <2>3 DEF VerifiedTrue, Claim
    <3>2. /\ answer.to = SourceOf[answer.msg]
          /\ port[answer.msg] = [at |-> "done", inc |-> d.inc]
          /\ pastedIn[answer.msg] <= d.inc
      BY <3>1 DEF CorrInv, DeliveryInv
    <3>3. ReplyTrue'
      BY <1>1, <2>3, <3>1, <3>2 DEF CorrInv, AnswerInv, ReplyTrue
    <3> QED BY <1>2, <2>1, <2>3, <3>3 DEF CorrInv, AnswerInv, NoAnswer
  <2> QED BY <1>4, <2>2, <2>3 DEF Verify
<1> QED BY <1>3, <1>4

\* Every step keeps the invariant.
LEMMA CorrStep == CorrInv /\ [Next]_vars => CorrInv'
<1> SUFFICES ASSUME CorrInv, [Next]_vars PROVE CorrInv'
  OBVIOUS
<1>1. CASE UNCHANGED vars
  BY <1>1 DEF CorrInv, vars, roster, corr, RosterInv, MembershipTypeOK, MembersBound, Member,
              DeliveryInv, TypeOK, AnswerInv, ReplyTrue
<1>2. CASE Next
  BY <1>2, HireStep, PortStep, ExpireStep, AnswerStep DEF Next
<1> QED BY <1>1, <1>2

\* The invariant of the correlation, for every set of names, messages and clients.
THEOREM CorrelationSafe == Spec => []CorrInv
BY CorrInit, CorrStep, PTL DEF Spec

\* An answer that is filed as the answer to a message goes to who sent it and comes from
\* whom it was sent to, in the incarnation that was current when its delivery was recorded.
THEOREM RepliesCorrelated == Spec => []ReplyTrue
<1>1. CorrInv => ReplyTrue
  BY DEF CorrInv, AnswerInv
<1> QED BY <1>1, CorrelationSafe, PTL

\* Who leads is a member, and no two members share an incarnation.
THEOREM RosterSound == Spec => []MembersBound
<1>1. CorrInv => MembersBound
  BY DEF CorrInv, RosterInv
<1> QED BY <1>1, CorrelationSafe, PTL

-----------------------------------------------------------------------------
(* The behaviours that the run checks *)

\* A behaviour of the services is one of one component: it starts as that component
\* does, and takes its steps.
LEMMA OneService ==
    /\ InitServices /\ which = "correlation" => Init
    /\ [NextServices]_services => which' = which
    /\ [NextServices]_services /\ which = "correlation" => [Next]_vars
<1>1. InitServices /\ which = "correlation" => Init
  BY DEF InitServices, InitCorrelation, InitReconciler, InitActivity, InitLeadAlerts,
         InitStallMonitor, InitMailbox, InitApiDoor, InitHeadless, InitBotChat, InitBotPush,
         InitRelay, InitDaemons, InitRunWindows
<1>2. [NextServices]_services => which' = which
  BY DEF NextServices, services, CorrelationStep, ReconcilerStep, ActivityStep,
         LeadAlertsStep, StallMonitorStep, MailboxStep, ApiDoorStep, HeadlessStep,
         BotChatStep, BotPushStep, RelayStep, DaemonsStep, RunWindowsStep,
         OthersCorrelation, OthersReconciler, OthersActivity, OthersLeadAlerts,
         OthersStallMonitor, OthersMailbox, OthersApiDoor, OthersHeadless, OthersBotChat,
         OthersBotPush, OthersRelay, OthersDaemons, OthersRunWindows
<1>3. [NextServices]_services /\ which = "correlation" => [Next]_vars
  BY DEF NextServices, services, CorrelationStep, ReconcilerStep, ActivityStep,
         LeadAlertsStep, StallMonitorStep, MailboxStep, ApiDoorStep, HeadlessStep,
         BotChatStep, BotPushStep, RelayStep, DaemonsStep, RunWindowsStep,
         vars, roster, corr, ofCorrelation
<1> QED BY <1>1, <1>2, <1>3

\* RepliesTrue, in the behaviours of the run.
THEOREM RepliesTrueHolds == SpecServices => []RepliesTrue
<1> DEFINE I == which = "correlation" => CorrInv
<1>1. InitServices => I
  BY OneService, CorrInit
<1>2. I /\ [NextServices]_services => I'
  BY OneService, CorrStep
<1>3. I => RepliesTrue
  BY DEF RepliesTrue, CorrInv, RosterInv, AnswerInv
<1> HIDE DEF I
<1> QED BY <1>1, <1>2, <1>3, PTL DEF SpecServices

-----------------------------------------------------------------------------
(* The mailbox, in the run *)

\* The run's sizes are such as MailboxProofs asks for.
LEMMA SizesFit == Box!MailboxConstants
BY SMT DEF Box!MailboxConstants

\* The mailbox's invariant holds in every state of the run that is the mailbox's.
LEMMA MailboxInit == InitServices /\ which = "mailbox" => Box!MailInv
<1> SUFFICES ASSUME InitServices, which = "mailbox" PROVE Box!MailInv
  OBVIOUS
<1>1. Box!Init
  BY DEF InitServices, InitCorrelation, InitReconciler, InitActivity, InitLeadAlerts,
         InitStallMonitor, InitMailbox, InitApiDoor, InitHeadless, InitBotChat, InitBotPush,
         InitRelay, InitDaemons, InitRunWindows
<1> QED
  BY <1>1, SizesFit, Box!MailInit

\* A step of the run, where it is the mailbox that runs, is the mailbox's or changes nothing
\* of it, and keeps its invariant either way.
LEMMA MailboxKept ==
    [NextServices]_services /\ which = "mailbox" /\ Box!MailInv => Box!MailInv'
<1> SUFFICES ASSUME [NextServices]_services, which = "mailbox", Box!MailInv PROVE Box!MailInv'
  OBVIOUS
<1>1. NextServices => Box!Next
  BY DEF NextServices, CorrelationStep, ReconcilerStep, ActivityStep, LeadAlertsStep,
         StallMonitorStep, MailboxStep, ApiDoorStep, HeadlessStep, BotChatStep,
         BotPushStep, RelayStep, DaemonsStep, RunWindowsStep
<1>2. UNCHANGED services => UNCHANGED Box!mvars
  BY DEF services, ofMailbox, Box!mvars, Box!stream, Box!reader, Box!port
<1> QED
  BY <1>1, <1>2, SizesFit, Box!MailStep

\* MailKept, in the behaviours of the run: every frame that was admitted is in one place,
\* and the reader's mailbox misses what the cap dropped and nothing else
\* (_pop_loop_sync, _handle_wake and _read_stream_entries).
THEOREM MailKeptHolds == SpecServices => []MailKept
<1> DEFINE I == which = "mailbox" => Box!MailInv
<1>1. InitServices => I
  BY MailboxInit
<1>2. I /\ [NextServices]_services => I'
  BY OneService, MailboxKept
<1>3. I => MailKept
  BY SizesFit, Box!MailKeptFollows DEF MailKept
<1> HIDE DEF I
<1> QED
  BY <1>1, <1>2, <1>3, PTL DEF SpecServices

-----------------------------------------------------------------------------
(* The door, in the run *)

\* The run's names, tokens and requests are such as ApiDoorProofs asks for.
LEMMA NamesFit == Door!DoorConstants
BY DEF Door!DoorConstants, Door!Fixed, Door!NoOne, Post, Nobody

\* The door's invariant holds in every state of the run that is the door's.
LEMMA DoorInit == InitServices /\ which = "door" => Door!DoorInv
<1> SUFFICES ASSUME InitServices, which = "door" PROVE Door!DoorInv
  OBVIOUS
<1>1. Door!Init
  BY DEF InitServices, InitCorrelation, InitReconciler, InitActivity, InitLeadAlerts,
         InitStallMonitor, InitMailbox, InitApiDoor, InitHeadless, InitBotChat, InitBotPush,
         InitRelay, InitDaemons, InitRunWindows
<1> QED
  BY <1>1, NamesFit, Door!DoorInit

\* A step of the run, where it is the door that is open, is the door's or changes nothing of
\* it, and keeps its invariant either way.
LEMMA DoorKept == [NextServices]_services /\ which = "door" /\ Door!DoorInv => Door!DoorInv'
<1> SUFFICES ASSUME [NextServices]_services, which = "door", Door!DoorInv PROVE Door!DoorInv'
  OBVIOUS
<1>1. NextServices => Door!Next
  BY DEF NextServices, CorrelationStep, ReconcilerStep, ActivityStep, LeadAlertsStep,
         StallMonitorStep, MailboxStep, ApiDoorStep, HeadlessStep, BotChatStep,
         BotPushStep, RelayStep, DaemonsStep, RunWindowsStep
<1>2. UNCHANGED services => UNCHANGED Door!dvars
  BY DEF services, ofApiDoor, Door!dvars, Door!office, Door!post, Door!stream
<1> QED
  BY <1>1, <1>2, NamesFit, Door!DoorStep

\* CoopHeld, in the behaviours of the run: what is done on a cooperation token is done
\* while it holds (authorize, _enforce_coop_post, COOP_STREAM_RECHECK_INTERVAL_S).
THEOREM CoopHeldHolds == SpecServices => []CoopHeld
<1> DEFINE I == which = "door" => Door!DoorInv
<1>1. InitServices => I
  BY DoorInit
<1>2. I /\ [NextServices]_services => I'
  BY OneService, DoorKept
<1>3. I => CoopHeld
  BY Door!CoopHeldFollows DEF CoopHeld
<1> HIDE DEF I
<1> QED
  BY <1>1, <1>2, <1>3, PTL DEF SpecServices

-----------------------------------------------------------------------------
(* A port without a window, in the run                                      *)

\* The run's envelopes are numbered.
LEMMA EnvelopesFit == Door!HeadlessConstants
BY SMT DEF Door!HeadlessConstants

\* The invariant of the port without a window holds in every initial state of the run that
\* is its.
LEMMA HeadlessBegins == InitServices /\ which = "headless" => Door!HeadlessInv
<1> SUFFICES ASSUME InitServices, which = "headless" PROVE Door!HeadlessInv
  OBVIOUS
<1>1. Door!Run!Init
  BY DEF InitServices, InitCorrelation, InitReconciler, InitActivity, InitLeadAlerts,
         InitStallMonitor, InitMailbox, InitApiDoor, InitHeadless, InitBotChat, InitBotPush,
         InitRelay, InitDaemons, InitRunWindows
<1> QED
  BY <1>1, EnvelopesFit, Door!HeadlessInit

\* A step of the run, where it is the port without a window, is a step of it or changes
\* nothing of it.
LEMMA HeadlessKept == [NextServices]_services /\ which = "headless" /\ Door!HeadlessInv => Door!HeadlessInv'
<1> SUFFICES ASSUME [NextServices]_services, which = "headless", Door!HeadlessInv PROVE Door!HeadlessInv'
  OBVIOUS
<1>1. NextServices => Door!Run!Next
  BY DEF NextServices, CorrelationStep, ReconcilerStep, ActivityStep, LeadAlertsStep,
         StallMonitorStep, MailboxStep, ApiDoorStep, HeadlessStep, BotChatStep,
         BotPushStep, RelayStep, DaemonsStep, RunWindowsStep
<1>2. UNCHANGED services => UNCHANGED Door!Run!hvars
  BY DEF services, ofHeadless, Door!Run!hvars, Door!Run!opener, Door!Run!chat, Door!Run!shown
<1> QED
  BY <1>1, <1>2, EnvelopesFit, Door!HeadlessStep

\* RunOnce, in the behaviours of the run: a prompt is run once at most, and what its run
\* leaves in the chat, the records and the sandbox is accounted for (run_chat_cycle, and
\* the openers of the Claude SDK and openshell ports).
THEOREM RunOnceHolds == SpecServices => []RunOnce
<1> DEFINE I1 == which = "headless" => Door!HeadlessInv
<1>1. InitServices => I1
  BY HeadlessBegins
<1>2. I1 /\ [NextServices]_services => I1'
  BY OneService, HeadlessKept
<1>3. I1 => RunOnce
  BY EnvelopesFit, Door!RunOnceFollows DEF RunOnce
<1> HIDE DEF I1
<1> QED
  BY <1>1, <1>2, <1>3, PTL DEF SpecServices

-----------------------------------------------------------------------------
(* The stall monitor, in the run                                            *)

\* The run's members are such as the proof asks for.
LEMMA MembersFit == Box!StallConstants
BY SMT DEF Box!StallConstants, Box!Stl!NoOne

\* The invariant of the stall monitor holds in every initial state of the run that is its.
LEMMA StallBegins == InitServices /\ which = "stall" => Box!StallInv
<1> SUFFICES ASSUME InitServices, which = "stall" PROVE Box!StallInv
  OBVIOUS
<1>1. Box!Stl!Init
  BY DEF InitServices, InitCorrelation, InitReconciler, InitActivity, InitLeadAlerts,
         InitStallMonitor, InitMailbox, InitApiDoor, InitHeadless, InitBotChat, InitBotPush,
         InitRelay, InitDaemons, InitRunWindows
<1> QED
  BY <1>1, MembersFit, Box!StallInit

\* A step of the run, where it is the stall monitor, is a step of it or changes nothing of
\* it.
LEMMA StallKept == [NextServices]_services /\ which = "stall" /\ Box!StallInv => Box!StallInv'
<1> SUFFICES ASSUME [NextServices]_services, which = "stall", Box!StallInv PROVE Box!StallInv'
  OBVIOUS
<1>1. NextServices => Box!Stl!Next
  BY DEF NextServices, CorrelationStep, ReconcilerStep, ActivityStep, LeadAlertsStep,
         StallMonitorStep, MailboxStep, ApiDoorStep, HeadlessStep, BotChatStep,
         BotPushStep, RelayStep, DaemonsStep, RunWindowsStep
<1>2. UNCHANGED services => UNCHANGED Box!Stl!mvars
  BY DEF services, ofStallMonitor, Box!Stl!mvars, Box!Stl!queues, Box!Stl!monitor
<1> QED
  BY <1>1, <1>2, MembersFit, Box!StallStep

-----------------------------------------------------------------------------
(* The watchdog and the lead, in the run                                    *)

\* The run's thresholds and names are such as the proof asks for.
LEMMA ThresholdsFit == Door!LeadConstants
BY SMT DEF Door!LeadConstants

\* The invariant of the watchdog holds in every initial state of the run that is its.
LEMMA LeadBegins == InitServices /\ which = "alerts" => Door!LeadInv
<1> SUFFICES ASSUME InitServices, which = "alerts" PROVE Door!LeadInv
  OBVIOUS
<1>1. Door!Lead!Init
  BY DEF InitServices, InitCorrelation, InitReconciler, InitActivity, InitLeadAlerts,
         InitStallMonitor, InitMailbox, InitApiDoor, InitHeadless, InitBotChat, InitBotPush,
         InitRelay, InitDaemons, InitRunWindows
<1> QED
  BY <1>1, ThresholdsFit, Door!LeadInit

\* A step of the run, where it is the watchdog, is a step of it or changes nothing of it.
LEMMA LeadKept == [NextServices]_services /\ which = "alerts" /\ Door!LeadInv => Door!LeadInv'
<1> SUFFICES ASSUME [NextServices]_services, which = "alerts", Door!LeadInv PROVE Door!LeadInv'
  OBVIOUS
<1>1. NextServices => Door!Lead!Next
  BY DEF NextServices, CorrelationStep, ReconcilerStep, ActivityStep, LeadAlertsStep,
         StallMonitorStep, MailboxStep, ApiDoorStep, HeadlessStep, BotChatStep,
         BotPushStep, RelayStep, DaemonsStep, RunWindowsStep
<1>2. UNCHANGED services => UNCHANGED Door!Lead!lvars
  BY DEF services, ofLeadAlerts, Door!Lead!lvars, Door!Lead!world, Door!Lead!kept, Door!Lead!polling
<1> QED
  BY <1>1, <1>2, ThresholdsFit, Door!LeadStep

\* ReportsTrue, in the behaviours of the run: a stall is reported of a frame only that
\* stood still, no report outlives it but by a fault, and the lead is told of one thing
\* once, but what a fault lost (IngressHealthMonitor.poll, and the watchdog's rules).
THEOREM ReportsTrueHolds == SpecServices => []ReportsTrue
<1> DEFINE I1 == which = "stall" => Box!StallInv
           I2 == which = "alerts" => Door!LeadInv
<1>1. InitServices => I1
  BY StallBegins
<1>2. I1 /\ [NextServices]_services => I1'
  BY OneService, StallKept
<1>3. InitServices => I2
  BY LeadBegins
<1>4. I2 /\ [NextServices]_services => I2'
  BY OneService, LeadKept
<1>5. I1 /\ I2 => ReportsTrue
  BY Box!StallTrueFollows, Door!ToldOnceFollows DEF ReportsTrue
<1> HIDE DEF I1, I2
<1> QED
  BY <1>1, <1>2, <1>3, <1>4, <1>5, PTL DEF SpecServices

-----------------------------------------------------------------------------
(* The reconciler and the windows of agents, in the run                     *)

\* The names enrolled before are names, and the run's hires are counted.
LEMMA HiresFit == Box!ReconcilerConstants
BY MembershipAssumption DEF Box!ReconcilerConstants

\* The invariant of the reconciler holds in every initial state of the run that is its.
LEMMA RecBegins == InitServices /\ which = "reconciler" => Box!ReconcilerInv
<1> SUFFICES ASSUME InitServices, which = "reconciler" PROVE Box!ReconcilerInv
  OBVIOUS
<1>1. Box!Rec!Init
  BY DEF InitServices, InitCorrelation, InitReconciler, InitActivity, InitLeadAlerts,
         InitStallMonitor, InitMailbox, InitApiDoor, InitHeadless, InitBotChat, InitBotPush,
         InitRelay, InitDaemons, InitRunWindows
<1> QED
  BY <1>1, HiresFit, Box!ReconcilerInit

\* A step of the run, where it is the reconciler, is a step of it or changes nothing of
\* it.
LEMMA RecKept == [NextServices]_services /\ which = "reconciler" /\ Box!ReconcilerInv => Box!ReconcilerInv'
<1> SUFFICES ASSUME [NextServices]_services, which = "reconciler", Box!ReconcilerInv PROVE Box!ReconcilerInv'
  OBVIOUS
<1>1. NextServices => Box!Rec!Next
  BY DEF NextServices, CorrelationStep, ReconcilerStep, ActivityStep, LeadAlertsStep,
         StallMonitorStep, MailboxStep, ApiDoorStep, HeadlessStep, BotChatStep,
         BotPushStep, RelayStep, DaemonsStep, RunWindowsStep
<1>2. UNCHANGED services => UNCHANGED Box!Rec!vars
  BY DEF services, ofReconciler, Box!Rec!vars, Box!Rec!life, Box!Rec!actual, Box!Rec!look, Box!Rec!memory, Box!Rec!roster
<1> QED
  BY <1>1, <1>2, HiresFit, Box!ReconcilerStep

-----------------------------------------------------------------------------
(* Run windows, in the run                                                  *)

\* What is no window is not one in the run.
LEMMA OpenersFit == Door!WindowsConstants
BY SMT DEF Door!WindowsConstants

\* The invariant of the run windows holds in every initial state of the run that is its.
LEMMA WndBegins == InitServices /\ which = "runs" => Door!WindowsInv
<1> SUFFICES ASSUME InitServices, which = "runs" PROVE Door!WindowsInv
  OBVIOUS
<1>1. Door!Wnd!Init
  BY DEF InitServices, InitCorrelation, InitReconciler, InitActivity, InitLeadAlerts,
         InitStallMonitor, InitMailbox, InitApiDoor, InitHeadless, InitBotChat, InitBotPush,
         InitRelay, InitDaemons, InitRunWindows
<1> QED
  BY <1>1, OpenersFit, Door!WindowsInit

\* A step of the run, where it is the run windows, is a step of it or changes nothing of
\* it.
LEMMA WndKept == [NextServices]_services /\ which = "runs" /\ Door!WindowsInv => Door!WindowsInv'
<1> SUFFICES ASSUME [NextServices]_services, which = "runs", Door!WindowsInv PROVE Door!WindowsInv'
  OBVIOUS
<1>1. NextServices => Door!Wnd!Next
  BY DEF NextServices, CorrelationStep, ReconcilerStep, ActivityStep, LeadAlertsStep,
         StallMonitorStep, MailboxStep, ApiDoorStep, HeadlessStep, BotChatStep,
         BotPushStep, RelayStep, DaemonsStep, RunWindowsStep
<1>2. UNCHANGED services => UNCHANGED Door!Wnd!wvars
  BY DEF services, ofRunWindows, Door!Wnd!wvars, Door!Wnd!history
<1> QED
  BY <1>1, <1>2, OpenersFit, Door!WindowsStep

\* WindowsTrue, in the behaviours of the run: between operations the window of an agent
\* runs what its keys say; and of a label's run windows one runs, what run-rm calls
\* removed is gone, and what a pass publishes is so (start_agent, stop_agent and the
\* reconciler's passes).
THEOREM WindowsTrueHolds == SpecServices => []WindowsTrue
<1> DEFINE I1 == which = "reconciler" => Box!ReconcilerInv
           I2 == which = "runs" => Door!WindowsInv
<1>1. InitServices => I1
  BY RecBegins
<1>2. I1 /\ [NextServices]_services => I1'
  BY OneService, RecKept
<1>3. InitServices => I2
  BY WndBegins
<1>4. I2 /\ [NextServices]_services => I2'
  BY OneService, WndKept
<1>5. I1 /\ I2 => WindowsTrue
  BY HiresFit, Box!WindowCurrentFollows, Door!RunsTrueFollows DEF WindowsTrue
<1> HIDE DEF I1, I2
<1> QED
  BY <1>1, <1>2, <1>3, <1>4, <1>5, PTL DEF SpecServices

-----------------------------------------------------------------------------
(* The daemons of an install, in the run                                    *)

\* The run's installs are such as the proof asks for.
LEMMA InstallsFit == Box!DaemonsConstants
BY SMT DEF Box!DaemonsConstants, Box!Dmn!Names, Box!Dmn!ToSet

\* The invariant of the daemons holds in every initial state of the run that is its.
LEMMA DmnBegins == InitServices /\ which = "daemons" => Box!DaemonsInv
<1> SUFFICES ASSUME InitServices, which = "daemons" PROVE Box!DaemonsInv
  OBVIOUS
<1>1. Box!Dmn!Init
  BY DEF InitServices, InitCorrelation, InitReconciler, InitActivity, InitLeadAlerts,
         InitStallMonitor, InitMailbox, InitApiDoor, InitHeadless, InitBotChat, InitBotPush,
         InitRelay, InitDaemons, InitRunWindows
<1> QED
  BY <1>1, InstallsFit, Box!DaemonsInit

\* A step of the run, where it is the daemons, is a step of it or changes nothing of it.
LEMMA DmnKept == [NextServices]_services /\ which = "daemons" /\ Box!DaemonsInv => Box!DaemonsInv'
<1> SUFFICES ASSUME [NextServices]_services, which = "daemons", Box!DaemonsInv PROVE Box!DaemonsInv'
  OBVIOUS
<1>1. NextServices => Box!Dmn!Next
  BY DEF NextServices, CorrelationStep, ReconcilerStep, ActivityStep, LeadAlertsStep,
         StallMonitorStep, MailboxStep, ApiDoorStep, HeadlessStep, BotChatStep,
         BotPushStep, RelayStep, DaemonsStep, RunWindowsStep
<1>2. UNCHANGED services => UNCHANGED Box!Dmn!dvars
  BY DEF services, ofDaemons, Box!Dmn!dvars, Box!Dmn!files
<1> QED
  BY <1>1, <1>2, InstallsFit, Box!DaemonsStep

\* DaemonsTrue, in the behaviours of the run: no process is signalled but the daemon it is
\* taken for; and while no start overlaps another command and none is killed, the files
\* tell of every daemon that runs, and a start that fails leaves none (start_daemons,
\* stop_daemons and _stop_one).
THEOREM DaemonsTrueHolds == SpecServices => []DaemonsTrue
<1> DEFINE I1 == which = "daemons" => Box!DaemonsInv
<1>1. InitServices => I1
  BY DmnBegins
<1>2. I1 /\ [NextServices]_services => I1'
  BY OneService, DmnKept
<1>3. I1 => DaemonsTrue
  BY InstallsFit, Box!DaemonsTrueFollows DEF DaemonsTrue
<1> HIDE DEF I1
<1> QED
  BY <1>1, <1>2, <1>3, PTL DEF SpecServices

-----------------------------------------------------------------------------
(* The activity of an agent, in the run                                     *)

\* The run's times and bounds are numbers.
LEMMA TimesFit == Door!ActivityConstants
BY SMT DEF Door!ActivityConstants

\* The invariant of the tailer and the verifier holds in every initial state of the run
\* that is its.
LEMMA ActivityBegins == InitServices /\ which = "activity" => Door!ActivityInv
<1> SUFFICES ASSUME InitServices, which = "activity" PROVE Door!ActivityInv
  OBVIOUS
<1>1. Door!Act!Init
  BY DEF InitServices, InitCorrelation, InitReconciler, InitActivity, InitLeadAlerts,
         InitStallMonitor, InitMailbox, InitApiDoor, InitHeadless, InitBotChat, InitBotPush,
         InitRelay, InitDaemons, InitRunWindows
<1> QED
  BY <1>1, TimesFit, Door!ActivityInit

\* A step of the run, where it is the tailer and the verifier, is a step of it or changes
\* nothing of it.
LEMMA ActivityKept == [NextServices]_services /\ which = "activity" /\ Door!ActivityInv => Door!ActivityInv'
<1> SUFFICES ASSUME [NextServices]_services, which = "activity", Door!ActivityInv PROVE Door!ActivityInv'
  OBVIOUS
<1>1. NextServices => Door!Act!Next
  BY DEF NextServices, CorrelationStep, ReconcilerStep, ActivityStep, LeadAlertsStep,
         StallMonitorStep, MailboxStep, ApiDoorStep, HeadlessStep, BotChatStep,
         BotPushStep, RelayStep, DaemonsStep, RunWindowsStep
<1>2. UNCHANGED services => UNCHANGED Door!Act!avars
  BY DEF services, ofActivity, Door!Act!avars, Door!Act!cli, Door!Act!streams, Door!Act!verdicts, Door!Act!tailing, Door!Act!verify
<1> QED
  BY <1>1, <1>2, TimesFit, Door!ActivityStep

\* UsageAccounted, in the behaviours of the run: whatever fails or restarts, the usage of
\* a request is published once, under the model in effect and of one delivery, and no line
\* is passed over unless its failure was logged (ActivityTailer.poll, _EMIT_USAGE_LUA).
THEOREM UsageAccountedHolds == SpecServices => []UsageAccounted
<1> DEFINE I1 == which = "activity" => Door!ActivityInv
<1>1. InitServices => I1
  BY ActivityBegins
<1>2. I1 /\ [NextServices]_services => I1'
  BY OneService, ActivityKept
<1>3. I1 => UsageAccounted
  BY TimesFit, Door!ActivityFollows DEF UsageAccounted
<1> HIDE DEF I1
<1> QED
  BY <1>1, <1>2, <1>3, PTL DEF SpecServices

\* BlockedTrue, in the behaviours of the run: a pass of the verifier leaves an agent taken for
\* blocked only over a delivery after which nothing was seen of it, and clears it only after
\* something was (DeliveryVerifier.poll).
THEOREM BlockedTrueHolds == SpecServices => BlockedTrue
<1> DEFINE I == which = "activity" => Door!ActivityInv
<1>1. InitServices => I
  BY ActivityBegins
<1>2. I /\ [NextServices]_services => I'
  BY OneService, ActivityKept
<1>3. I /\ [NextServices]_services => [which = "activity" => Door!Act!Blocked]_services
  <2> SUFFICES ASSUME I, NextServices, which = "activity" PROVE Door!Act!Blocked
    OBVIOUS
  <2>1. Door!Act!Next
    BY DEF NextServices, CorrelationStep, ReconcilerStep, ActivityStep, LeadAlertsStep,
         StallMonitorStep, MailboxStep, ApiDoorStep, HeadlessStep, BotChatStep,
         BotPushStep, RelayStep, DaemonsStep, RunWindowsStep
  <2>2. [Door!Act!Blocked]_(Door!Act!avars)
    BY <2>1, TimesFit, Door!BlockedFollows
  <2>3. UNCHANGED Door!Act!avars => UNCHANGED <<at, blocked>>
    BY DEF Door!Act!avars, Door!Act!verdicts
  <2> QED
    BY <2>2, <2>3 DEF Door!Act!Blocked
<1> HIDE DEF I
<1> QED
  BY <1>1, <1>2, <1>3, PTL DEF SpecServices, BlockedTrue

-----------------------------------------------------------------------------
(* What the bot pushes into its chat, in the run                            *)

\* The run's bounds are numbers.
LEMMA EntriesFit == Box!PushConstants
BY SMT DEF Box!PushConstants

\* The invariant of the bot's pushers holds in every initial state of the run that is its.
LEMMA PushBegins == InitServices /\ which = "push" => Box!PushInv
<1> SUFFICES ASSUME InitServices, which = "push" PROVE Box!PushInv
  OBVIOUS
<1>1. Box!Bot!Init
  BY DEF InitServices, InitCorrelation, InitReconciler, InitActivity, InitLeadAlerts,
         InitStallMonitor, InitMailbox, InitApiDoor, InitHeadless, InitBotChat, InitBotPush,
         InitRelay, InitDaemons, InitRunWindows
<1> QED
  BY <1>1, EntriesFit, Box!PushInit

\* A step of the run, where it is the bot's pushers, is a step of it or changes nothing of
\* it.
LEMMA PushKept == [NextServices]_services /\ which = "push" /\ Box!PushInv => Box!PushInv'
<1> SUFFICES ASSUME [NextServices]_services, which = "push", Box!PushInv PROVE Box!PushInv'
  OBVIOUS
<1>1. NextServices => Box!Bot!Next
  BY DEF NextServices, CorrelationStep, ReconcilerStep, ActivityStep, LeadAlertsStep,
         StallMonitorStep, MailboxStep, ApiDoorStep, HeadlessStep, BotChatStep,
         BotPushStep, RelayStep, DaemonsStep, RunWindowsStep
<1>2. UNCHANGED services => UNCHANGED Box!Bot!pvars
  BY DEF services, ofBotPush, Box!Bot!pvars, Box!Bot!thread, Box!Bot!history
<1> QED
  BY <1>1, <1>2, EntriesFit, Box!PushesStep

-----------------------------------------------------------------------------
(* What is said in the chat of the bot, in the run                          *)

\* The run's sessions are of updates.
LEMMA SessionsFit == Door!ChatConstants
<1> DEFINE U == Door!Chat!Update
<1>1. \A n, set : Session(n, set).length = n /\ Session(n, set).of = set
  BY DEF Session
<1>2. \A how \in Door!Chat!Kinds, word \in Door!Chat!Words : Does(how, word) \in U
  BY DEF Does, Door!Chat!Update
<1>k. {"message"} \in SUBSET Door!Chat!Kinds /\ {"message", "callback_query"} \in SUBSET Door!Chat!Kinds /\ "message" \in Door!Chat!Kinds
      /\ "edited_message" \in Door!Chat!Kinds /\ "callback_query" \in Door!Chat!Kinds
  BY DEF Door!Chat!Kinds
<1>3. ASSUME NEW word \in Door!Chat!Words PROVE Types(word) \in U /\ Taps(word) \in U /\ Does("edited_message", word) \in U
  <2> HIDE DEF U
  <2>1. Types(word) = Does("message", word) /\ Taps(word) = Does("callback_query", word)
    BY DEF Types, Taps
  <2> QED BY <1>2, <1>k, <2>1
<1>w. "say" \in Door!Chat!Words
  BY DEF Door!Chat!Words
<1>4. Strange \in U /\ Double \in U
  BY <1>k, <1>w DEF Door!Chat!Update, Strange, Double
<1> DEFINE All == {Types("say"), Types("cancel"), Types("misnamed"), Types("broadcast"), Types("photo"),
                   Types("mention"), Types("run"), Types("watch"), Types("unwatch"), Types("voice"),
                   Types("menu"), Taps("hire"), Taps("ticket"), Taps("priority"), Taps("retire"),
                   Taps("talk"), Taps("stop"), Taps("control"), Does("edited_message", "say"), Strange, Double}
<1>6. \A e \in All : e \in U
  <2> HIDE DEF U
  <2>1. \A e \in All : e \in {Strange, Double, Does("edited_message", "say")} \/ \E w \in Door!Chat!Words : e = Types(w) \/ e = Taps(w)
    BY DEF Door!Chat!Words
  <2>2. Does("edited_message", "say") \in U
    BY <1>3, <1>w
  <2> HIDE DEF All
  <2> QED BY <1>3, <1>4, <2>1, <2>2
<1> DEFINE Fits(s) == s.length \in 0 .. 4 /\ s.of \subseteq U
<1>7. ASSUME NEW n \in {2, 3, 4}, NEW set \in SUBSET All PROVE Fits(Session(n, set))
  <2> HIDE DEF All, U
  <2> QED BY <1>1, <1>6
<1> HIDE DEF Fits, U
<1>8. /\ Fits(Session(4, {Taps("hire"), Types("say")}))
      /\ Fits(Session(3, {Taps("hire"), Types("say"), Types("cancel")}))
      /\ Fits(Session(4, {Taps("ticket"), Taps("priority"), Types("say")}))
      /\ Fits(Session(3, {Taps("retire"), Types("misnamed"), Types("say")}))
      /\ Fits(Session(3, {Types("broadcast"), Types("say"), Types("photo")}))
      /\ Fits(Session(2, {Types("say"), Types("mention"), Taps("talk")}))
      /\ Fits(Session(3, {Types("run")}))
      /\ Fits(Session(3, {Types("watch"), Types("unwatch"), Taps("stop")}))
      /\ Fits(Session(3, {Does("edited_message", "say"), Types("photo"), Strange, Double}))
      /\ Fits(Session(2, {Types("voice"), Types("menu"), Types("say"), Taps("control")}))
  <2> QED BY <1>7
<1>9. \A s \in MCSessions : Fits(s)
  BY <1>8, Zenon DEF MCSessions
<1> QED BY <1>9 DEF Fits, U, Door!ChatConstants

\* The invariant of the chat holds in every initial state of the run that is its.
LEMMA ChatBegins == InitServices /\ which = "chat" => Door!BotInv
<1> SUFFICES ASSUME InitServices, which = "chat" PROVE Door!BotInv
  OBVIOUS
<1>1. Door!Chat!Init
  BY DEF InitServices, InitCorrelation, InitReconciler, InitActivity, InitLeadAlerts,
         InitStallMonitor, InitMailbox, InitApiDoor, InitHeadless, InitBotChat, InitBotPush,
         InitRelay, InitDaemons, InitRunWindows
<1> QED
  BY <1>1, SessionsFit, Door!ChatInit

\* A step of the run, where it is the chat, is a step of it or changes nothing of it.
LEMMA ChatKept == [NextServices]_services /\ which = "chat" /\ Door!BotInv => Door!BotInv'
<1> SUFFICES ASSUME [NextServices]_services, which = "chat", Door!BotInv PROVE Door!BotInv'
  OBVIOUS
<1>1. NextServices => Door!Chat!Next
  BY DEF NextServices, CorrelationStep, ReconcilerStep, ActivityStep, LeadAlertsStep,
         StallMonitorStep, MailboxStep, ApiDoorStep, HeadlessStep, BotChatStep,
         BotPushStep, RelayStep, DaemonsStep, RunWindowsStep
<1>2. UNCHANGED services => UNCHANGED Door!Chat!bvars
  BY DEF services, ofBotChat, Door!Chat!bvars, Door!Chat!incoming, Door!Chat!state, Door!Chat!panes, Door!Chat!activity
<1> QED
  BY <1>1, <1>2, SessionsFit, Door!ChatStep

\* BotTrue, in the behaviours of the run: what the operator sends takes effect in order
\* and at most once, a flow is called for once and with the answers it asked for, and what
\* is shown can be stopped; and alerts and replies reach the chat in order, each once but
\* by a fault (ChatWorker, run_polling, AlertPusher and ReplyPusher).
THEOREM BotTrueHolds == SpecServices => []BotTrue
<1> DEFINE I1 == which = "push" => Box!PushInv
           I2 == which = "chat" => Door!BotInv
<1>1. InitServices => I1
  BY PushBegins
<1>2. I1 /\ [NextServices]_services => I1'
  BY OneService, PushKept
<1>3. InitServices => I2
  BY ChatBegins
<1>4. I2 /\ [NextServices]_services => I2'
  BY OneService, ChatKept
<1>5. I1 /\ I2 => BotTrue
  BY EntriesFit, Box!PushFollows, SessionsFit, Door!ChatFollows DEF BotTrue
<1> HIDE DEF I1, I2
<1> QED
  BY <1>1, <1>2, <1>3, <1>4, <1>5, PTL DEF SpecServices

-----------------------------------------------------------------------------
(* The inter-office relay, in the run                                       *)

\* The run's ledgers reach as far back as its mailboxes do.
LEMMA LedgersFit == Box!RelayConstants
<1> DEFINE M == [p \in {"A", "B"} |-> IF p = "A" THEN <<"m", "m", "n">> ELSE <<"n", "o">>]
<1>1. /\ M["A"] = <<"m", "m", "n">> /\ Len(M["A"]) = 3
      /\ M["B"] = <<"n", "o">> /\ Len(M["B"]) = 2
  OBVIOUS
<1>2. ASSUME NEW a \in Nat, NEW e \in Nat
      PROVE  /\ M["A"][a] = "n" => Box!OtherLetters("A", a, e) \subseteq {"m"}
             /\ M["A"][a] = "m" => Box!OtherLetters("A", a, e) \subseteq {"n"}
             /\ Box!OtherLetters("B", a, e) \subseteq {"n"}
  <2>1. \A f \in 1 .. 3 : M["A"][f] \in {"m", "n"}
    BY <1>1
  <2>2. \A f \in 1 .. 2 : M["B"][f] \in {"n", "o"}
    BY <1>1
  <2>3. \A x \in Box!OtherLetters("A", a, e) : x \in {"m", "n"} /\ x # M["A"][a]
    BY <1>1, <2>1 DEF Box!OtherLetters, Box!Between
  <2>4. \A x \in Box!OtherLetters("B", a, e) : x \in {"n", "o"} /\ x # "o"
    BY <1>1, <2>2 DEF Box!OtherLetters, Box!Between
  <2> QED BY <2>3, <2>4
<1>3. ASSUME NEW S, NEW x, S \subseteq {x} PROVE Box!Cardinality(S) < 2
  <2>1. S \in SUBSET {x} /\ Box!IsFiniteSet({x}) /\ Box!Cardinality({x}) = 1
    BY <1>3, Box!FS_Singleton
  <2>2. Box!Cardinality(S) <= 1 /\ Box!Cardinality(S) \in Nat
    BY <2>1, Box!FS_Subset, Box!FS_CardinalityType
  <2> QED BY <2>2
<1>4. Box!LedgerReaches
  <2>1. ASSUME NEW p \in {"A", "B"}, NEW a \in 1 .. Len(M[p]), NEW e \in 1 .. Len(M[p])
        PROVE  Box!Cardinality(Box!OtherLetters(p, a, e)) < 2
    <3>0. a \in Nat /\ e \in Nat
      BY <1>1
    <3>1. CASE p = "A"
      <4>1. M["A"][a] = "m" \/ M["A"][a] = "n"
        BY <1>1, <3>1
      <4> HIDE DEF M
      <4> QED BY <1>2, <1>3, <3>0, <3>1, <4>1
    <3>2. CASE p = "B"
      <4> HIDE DEF M
      <4> QED BY <1>2, <1>3, <3>0, <3>2
    <3> QED BY <3>1, <3>2
  <2> QED BY <2>1 DEF Box!LedgerReaches
<1> QED BY <1>1, <1>4 DEF Box!RelayConstants

\* The invariant of the relay holds in every initial state of the run that is its.
LEMMA RelayBegins == InitServices /\ which = "relay" => Box!RelayInv
<1> SUFFICES ASSUME InitServices, which = "relay" PROVE Box!RelayInv
  OBVIOUS
<1>1. Box!Rel!Init
  BY DEF InitServices, InitCorrelation, InitReconciler, InitActivity, InitLeadAlerts,
         InitStallMonitor, InitMailbox, InitApiDoor, InitHeadless, InitBotChat, InitBotPush,
         InitRelay, InitDaemons, InitRunWindows
<1> QED
  BY <1>1, LedgersFit, Box!RelayInit

\* A step of the run, where it is the relay, is a step of it or changes nothing of it.
LEMMA RelayKept == [NextServices]_services /\ which = "relay" /\ Box!RelayInv => Box!RelayInv'
<1> SUFFICES ASSUME [NextServices]_services, which = "relay", Box!RelayInv PROVE Box!RelayInv'
  OBVIOUS
<1>1. NextServices => Box!Rel!Next
  BY DEF NextServices, CorrelationStep, ReconcilerStep, ActivityStep, LeadAlertsStep,
         StallMonitorStep, MailboxStep, ApiDoorStep, HeadlessStep, BotChatStep,
         BotPushStep, RelayStep, DaemonsStep, RunWindowsStep
<1>2. UNCHANGED services => UNCHANGED Box!Rel!rvars
  BY DEF services, ofRelay, Box!Rel!rvars, Box!Rel!stored, Box!Rel!relay
<1> QED
  BY <1>1, <1>2, LedgersFit, Box!RelayMoves

\* RelayTrue, in the behaviours of the run: a message of the other office reaches the
\* egress once and in the order of its mailbox, and of what lies behind the cursor each
\* was admitted or left out for a reason (OfficeWorker.receive, _ADMIT_ONCE).
THEOREM RelayTrueHolds == SpecServices => []RelayTrue
<1> DEFINE I1 == which = "relay" => Box!RelayInv
<1>1. InitServices => I1
  BY RelayBegins
<1>2. I1 /\ [NextServices]_services => I1'
  BY OneService, RelayKept
<1>3. I1 => RelayTrue
  BY LedgersFit, Box!RelayFollows DEF RelayTrue
<1> HIDE DEF I1
<1> QED
  BY <1>1, <1>2, <1>3, PTL DEF SpecServices

-----------------------------------------------------------------------------
(* The types of all services, in the run                                   *)

\* The components a behaviour may be one of.
Components == {"correlation", "reconciler", "activity", "alerts", "stall", "mailbox",
               "door", "headless", "chat", "push", "relay", "daemons", "runs"}

\* Each component's invariant, in the behaviours that are its.
EveryInv ==
    /\ which \in Components
    /\ which = "correlation" => CorrInv
    /\ which = "reconciler" => Box!ReconcilerInv
    /\ which = "activity" => Door!ActivityInv
    /\ which = "alerts" => Door!LeadInv
    /\ which = "stall" => Box!StallInv
    /\ which = "mailbox" => Box!MailInv
    /\ which = "door" => Door!DoorInv
    /\ which = "headless" => Door!HeadlessInv
    /\ which = "chat" => Door!BotInv
    /\ which = "push" => Box!PushInv
    /\ which = "relay" => Box!RelayInv
    /\ which = "daemons" => Box!DaemonsInv
    /\ which = "runs" => Door!WindowsInv

\* AllTypesOK, in the behaviours of the run: whatever component it is of, its variables
\* are of their kinds.
THEOREM AllTypesOKHolds == SpecServices => []AllTypesOK
<1>1. InitServices => which \in Components
  BY DEF Components, InitServices, InitCorrelation, InitReconciler, InitActivity, InitLeadAlerts,
         InitStallMonitor, InitMailbox, InitApiDoor, InitHeadless, InitBotChat, InitBotPush,
         InitRelay, InitDaemons, InitRunWindows
<1>2. InitServices => EveryInv
  BY <1>1, OneService, CorrInit, RecBegins, ActivityBegins, LeadBegins, StallBegins,
     MailboxInit, DoorInit, HeadlessBegins, ChatBegins, PushBegins, RelayBegins, DmnBegins,
     WndBegins
  DEF EveryInv
<1>3. EveryInv /\ [NextServices]_services => EveryInv'
  BY OneService, CorrStep, RecKept, ActivityKept, LeadKept, StallKept, MailboxKept,
     DoorKept, HeadlessKept, ChatKept, PushKept, RelayKept, DmnKept, WndKept
  DEF EveryInv
<1>4. EveryInv => AllTypesOK
  <2> SUFFICES ASSUME EveryInv PROVE AllTypesOK
    OBVIOUS
  <2>1. CASE which = "correlation"
    <3>1. CorrInv
      BY <2>1 DEF EveryInv
    <3>2. TypeOK
      BY <3>1 DEF CorrInv, DeliveryInv
    <3> QED BY <2>1, <3>2 DEF AllTypesOK
  <2>2. CASE which = "reconciler"
    <3>1. Box!ReconcilerInv
      BY <2>2 DEF EveryInv
    <3>2. Box!Rec!TypeOK
      BY <3>1, HiresFit, Box!WindowCurrentFollows
    <3> QED BY <2>2, <3>2 DEF AllTypesOK
  <2>3. CASE which = "activity"
    <3>1. Door!ActivityInv
      BY <2>3 DEF EveryInv
    <3>2. Door!Act!TypeOK
      BY <3>1, TimesFit, Door!ActivityFollows
    <3> QED BY <2>3, <3>2 DEF AllTypesOK
  <2>4. CASE which = "alerts"
    <3>1. Door!LeadInv
      BY <2>4 DEF EveryInv
    <3>2. Door!Lead!TypeOK
      BY <3>1, Door!ToldOnceFollows
    <3> QED BY <2>4, <3>2 DEF AllTypesOK
  <2>5. CASE which = "stall"
    <3>1. Box!StallInv
      BY <2>5 DEF EveryInv
    <3>2. Box!Stl!TypeOK
      BY <3>1, Box!StallTrueFollows
    <3> QED BY <2>5, <3>2 DEF AllTypesOK
  <2>6. CASE which = "mailbox"
    <3>1. Box!MailInv
      BY <2>6 DEF EveryInv
    <3>2. Box!TypeOK
      BY <3>1, SizesFit, Box!TypesFollow
    <3> QED BY <2>6, <3>2 DEF AllTypesOK
  <2>7. CASE which = "door"
    <3>1. Door!DoorInv
      BY <2>7 DEF EveryInv
    <3>2. Door!TypeOK
      BY <3>1, Door!DoorTypesFollow
    <3> QED BY <2>7, <3>2 DEF AllTypesOK
  <2>8. CASE which = "headless"
    <3>1. Door!HeadlessInv
      BY <2>8 DEF EveryInv
    <3>2. Door!Run!TypeOK
      BY <3>1, Door!HeadlessTypes
    <3> QED BY <2>8, <3>2 DEF AllTypesOK
  <2>9. CASE which = "chat"
    <3>1. Door!BotInv
      BY <2>9 DEF EveryInv
    <3>2. Door!Chat!TypeOK
      BY <3>1, SessionsFit, Door!ChatFollows
    <3> QED BY <2>9, <3>2 DEF AllTypesOK
  <2>10. CASE which = "push"
    <3>1. Box!PushInv
      BY <2>10 DEF EveryInv
    <3>2. Box!Bot!TypeOK
      BY <3>1, EntriesFit, Box!PushFollows
    <3> QED BY <2>10, <3>2 DEF AllTypesOK
  <2>11. CASE which = "relay"
    <3>1. Box!RelayInv
      BY <2>11 DEF EveryInv
    <3>2. Box!Rel!TypeOK
      BY <3>1, LedgersFit, Box!RelayFollows
    <3> QED BY <2>11, <3>2 DEF AllTypesOK
  <2>12. CASE which = "daemons"
    <3>1. Box!DaemonsInv
      BY <2>12 DEF EveryInv
    <3>2. Box!Dmn!TypeOK
      BY <3>1, InstallsFit, Box!DaemonsTrueFollows
    <3> QED BY <2>12, <3>2 DEF AllTypesOK
  <2>13. CASE which = "runs"
    <3>1. Door!WindowsInv
      BY <2>13 DEF EveryInv
    <3>2. Door!Wnd!TypeOK
      BY <3>1, Door!RunsTrueFollows
    <3> QED BY <2>13, <3>2 DEF AllTypesOK
  <2> QED BY <2>1, <2>2, <2>3, <2>4, <2>5, <2>6, <2>7, <2>8, <2>9, <2>10, <2>11, <2>12, <2>13 DEF EveryInv, Components
<1> QED
  BY <1>2, <1>3, <1>4, PTL DEF SpecServices
=============================================================================
