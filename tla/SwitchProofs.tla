---------------------------- MODULE SwitchProofs ----------------------------
(***************************************************************************)
(* Proofs about Switch: its types, and that no frame is lost, placed twice *)
(* or misreported whatever Redis answers and whenever the switch dies, for *)
(* every set of participants and frames, every cap and number of attempts. *)
(* Then that the rotation passes no waiting queue over for longer than the *)
(* office has other members. And that the switch implements SwitchPromise: *)
(* the pop, the retries, the unknown outcomes and the crashes of one       *)
(* forwarding are one step of the promise, taken at the write.             *)
(***************************************************************************)
EXTENDS Switch, RedisListsProofs, FiniteSetTheorems

-----------------------------------------------------------------------------
(* The inductive invariant *)

\* Egress lists hold sent frames of their own participant, each once; the frame
\* in hand was sent.
QueueInv ==
    /\ \A a \in Agents : \A f \in Frames : In(egress[a], f) => f \in sent /\ Home[f] = a
    /\ \A a \in Agents : IsInjective(egress[a])
    /\ hand # Nobody => hand \in sent

\* What the switch knows about the frame in hand at each point.
HandInv ==
    /\ pc \in {"popped", "lookup"} => aimed[hand] = {}
    /\ pc \in {"admit", "placed", "notice"} => dests = aimed[hand]
    /\ pc \in {"placed", "notice"} => Delivered(hand)
    /\ pc = "buried" => hand \in buried
    /\ pc \in Holding \cup {"placed", "buried"} => said[hand] = "popped"
    /\ pc = "notice" => said[hand] = "forwarded"

\* f is in one place, spelled out.
Sole(f) ==
    /\ Waiting(f) \/ Held(f) \/ Delivered(f) \/ f \in buried \/ Lost(f)
    /\ Waiting(f)   => ~Held(f) /\ ~Delivered(f) /\ f \notin buried /\ ~Lost(f)
    /\ Held(f)      => ~Delivered(f) /\ f \notin buried /\ ~Lost(f)
    /\ Delivered(f) => f \notin buried /\ ~Lost(f)
    /\ f \in buried => ~Lost(f)

\* f has not been sent: it is nowhere and nothing is known of it.
Fresh(f) ==
    /\ ~Waiting(f) /\ ~Held(f) /\ ~Delivered(f) /\ f \notin buried /\ ~Lost(f)
    /\ said[f] = "none"
    /\ aimed[f] = {}

\* Everything that holds of one frame: its place; what the records say (the
\* conjuncts of AllOrNone and RecordTrue); a frame that waits has no record yet; a
\* notice is about a frame that was delivered before.
FrameInv(f) ==
    /\ IF f \in sent THEN Sole(f) ELSE Fresh(f)
    /\ Waiting(f) => said[f] = "none" /\ aimed[f] = {}
    /\ \A a \in Agents : In(placed[a], Notice(f)) => Delivered(f) /\ hand # f
    /\ Delivered(f) => \A a \in Agents : Gets(a, f) <=> a \in aimed[f]
    /\ Home[f] \in aimed[f] => Dest[f] = Home[f]
    /\ said[f] = "forwarded" => (\A a \in aimed[f] : Gets(a, f)) /\ f \notin buried
    /\ said[f] = "dead_lettered" => f \in buried /\ ~Delivered(f)
    /\ said[f] \in {"lost", "unknown"} => ~Waiting(f) /\ ~Held(f) /\ f \notin buried
    /\ said[f] = "none" => ~Delivered(f) /\ f \notin buried

Safe ==
    /\ QueueInv
    /\ HandInv
    /\ \A f \in Frames : FrameInv(f)
    /\ \A a \in Agents : IsInjective(placed[a])

Inv == TypeOK /\ Safe

-----------------------------------------------------------------------------
(* Items and lists *)

LEMMA ItemFacts ==
    ASSUME NEW f \in Frames, NEW g \in Frames
    PROVE  /\ Home[f] \in Agents
           /\ Raw(f) \in Item /\ Stamped(f) \in Item /\ Notice(f) \in Item
           /\ Stamped(f) = Stamped(g) <=> f = g
           /\ Notice(f) = Notice(g) <=> f = g
           /\ Stamped(f) # Notice(g)
BY NamesAssumption, HeadersAssumption DEF Raw, Stamped, Notice, Item

\* A sender's frame goes to the end of its own queue.
LEMMA SendMoves ==
    ASSUME TypeOK, QueueInv, NEW f \in Frames, Send(f)
    PROVE  /\ egress' \in [Agents -> Seq(Frames)]
           /\ \A g \in Frames : Waiting(g)' <=> Waiting(g) \/ g = f
           /\ \A a \in Agents, g \in Frames :
                In(egress'[a], g) <=> In(egress[a], g) \/ (a = Home[f] /\ g = f)
           /\ \A a \in Agents : IsInjective(egress'[a])
<1> DEFINE h == Home[f]
<1>1. h \in Agents /\ egress[h] \in Seq(Frames) /\ ~In(egress[h], f)
  BY ItemFacts DEF TypeOK, QueueInv, Send
<1>2. /\ Append(egress[h], f) \in Seq(Frames)
      /\ \A g : In(Append(egress[h], f), g) <=> In(egress[h], g) \/ g = f
      /\ IsInjective(Append(egress[h], f))
  BY <1>1, AppendIn DEF QueueInv
<1>3. /\ egress' \in [Agents -> Seq(Frames)]
      /\ \A a \in Agents : egress'[a] = IF a = h THEN Append(egress[h], f) ELSE egress[a]
  BY <1>1, <1>2 DEF Send, TypeOK
<1>4. \A a \in Agents, g \in Frames :
        In(egress'[a], g) <=> In(egress[a], g) \/ (a = h /\ g = f)
  BY <1>2, <1>3
<1>5. \A a \in Agents : IsInjective(egress'[a])
  BY <1>2, <1>3 DEF QueueInv
<1> QED BY <1>3, <1>4, <1>5, ItemFacts DEF Waiting

\* The head of a queue leaves it.
LEMMA UnqueueMoves ==
    ASSUME TypeOK, QueueInv, NEW a \in Agents, egress[a] # <<>>, Unqueue(a),
           NEW f, f = Head(egress[a])
    PROVE  /\ f \in Frames /\ f \in sent /\ Home[f] = a /\ Waiting(f)
           /\ egress' \in [Agents -> Seq(Frames)]
           /\ \A g \in Frames : Waiting(g)' <=> Waiting(g) /\ g # f
           /\ \A b \in Agents, g \in Frames : In(egress'[b], g) => In(egress[b], g)
           /\ \A b \in Agents : IsInjective(egress'[b])
<1>1. egress[a] \in Seq(Frames) /\ IsInjective(egress[a])
  BY DEF TypeOK, QueueInv
<1>2. /\ f \in Frames /\ In(egress[a], f)
      /\ Tail(egress[a]) \in Seq(Frames)
      /\ \A g : In(Tail(egress[a]), g) <=> In(egress[a], g) /\ g # f
      /\ IsInjective(Tail(egress[a]))
  BY <1>1, TailIn
<1>3. /\ egress' \in [Agents -> Seq(Frames)]
      /\ \A b \in Agents : egress'[b] = IF b = a THEN Tail(egress[a]) ELSE egress[b]
  BY <1>2 DEF Unqueue, TypeOK
<1>4. f \in sent /\ Home[f] = a
  BY <1>2 DEF QueueInv
<1>5. \A b \in Agents, g \in Frames : In(egress'[b], g) <=> In(egress[b], g) /\ (b = a => g # f)
  BY <1>2, <1>3
<1>6. \A b \in Agents : IsInjective(egress'[b])
  BY <1>2, <1>3 DEF QueueInv
<1>7. \A g \in Frames : Waiting(g)' <=> Waiting(g) /\ g # f
  BY <1>4, <1>5, ItemFacts DEF Waiting
<1> QED BY <1>2, <1>3, <1>4, <1>5, <1>6, <1>7 DEF Waiting

\* An admission appends one item to the ingress of every recipient.
LEMMA PlaceMoves ==
    ASSUME TypeOK, NEW S \in SUBSET Agents, NEW item \in Item, Place(S, item),
           \A a \in S : Len(ingress[a]) < IngressMax
    PROVE  /\ ingress' \in [Agents -> Seq(Item)]
           /\ \A a \in Agents : Len(ingress'[a]) <= IngressMax
           /\ placed' \in [Agents -> Seq(Item)]
           /\ \A a \in Agents : \A x :
                In(placed'[a], x) <=> In(placed[a], x) \/ (a \in S /\ x = item)
           /\ \A a \in Agents :
                IsInjective(placed[a]) /\ (a \in S => ~In(placed[a], item))
                    => IsInjective(placed'[a])
<1>1. \A a \in Agents : ingress[a] \in Seq(Item) /\ placed[a] \in Seq(Item)
                        /\ Len(ingress[a]) \in Nat
  BY DEF TypeOK
<1>2. \A a \in Agents :
        /\ Append(ingress[a], item) \in Seq(Item)
        /\ Len(Append(ingress[a], item)) = Len(ingress[a]) + 1
        /\ Append(placed[a], item) \in Seq(Item)
        /\ \A x : In(Append(placed[a], item), x) <=> In(placed[a], x) \/ x = item
        /\ IsInjective(placed[a]) /\ ~In(placed[a], item)
             => IsInjective(Append(placed[a], item))
  BY <1>1, AppendIn
<1>3. \A a \in Agents :
        /\ ingress'[a] = IF a \in S THEN Append(ingress[a], item) ELSE ingress[a]
        /\ placed'[a] = IF a \in S THEN Append(placed[a], item) ELSE placed[a]
  BY DEF Place, AppendTo
<1>4. ingress' \in [Agents -> Seq(Item)] /\ placed' \in [Agents -> Seq(Item)]
  BY <1>1, <1>2 DEF Place, AppendTo
<1>5. ASSUME NEW a \in Agents PROVE Len(ingress'[a]) <= IngressMax
  <2> DEFINE depth == Len(ingress[a])
  <2>1. depth \in Nat /\ depth <= IngressMax
    BY <1>1 DEF TypeOK
  <2>2. Len(ingress'[a]) = IF a \in S THEN depth + 1 ELSE depth
    BY <1>2, <1>3
  <2>3. a \in S => depth < IngressMax
    OBVIOUS
  <2> HIDE DEF depth
  <2> QED BY <2>1, <2>2, <2>3, BoundsAssumption
<1> QED BY <1>2, <1>3, <1>4, <1>5

\* What a dead-letter write adds.
LEMMA BuryMoves ==
    ASSUME TypeOK, pc = "bury", Bury
    PROVE  dead' \in [Agents -> Seq(Item)] /\ buried' \subseteq Frames /\ hand \in Frames
<1>1. hand \in Frames
  BY DEF TypeOK
<1>2. out \in Item
  BY <1>1, ItemFacts DEF TypeOK
<1>3. \A a \in Agents : Append(dead[a], out) \in Seq(Item)
  BY <1>2, AppendIn DEF TypeOK
<1> QED BY <1>1, <1>3 DEF Bury, TypeOK

\* The scan reads a finite, non-empty set of members.
LEMMA ScanTyped ==
    ASSUME TypeOK, Scan
    PROVE  offset' \in Nat /\ DOMAIN keys' \subseteq Agents
<1>1. IsFiniteSet(registry)
  BY NamesAssumption, FS_Subset DEF TypeOK
<1>2. Cardinality(registry) \in Nat /\ Cardinality(registry) # 0
  BY <1>1, FS_CardinalityType, FS_EmptySet DEF Scan
<1>3. \A k \in Nat : k % Cardinality(registry) \in Nat
  BY <1>2
<1>4. offset' \in Nat
  BY <1>3 DEF Scan, TypeOK
<1> QED BY <1>4 DEF Scan, Rotated, TypeOK

-----------------------------------------------------------------------------
(* Types *)

LEMMA InitTyped == Init => TypeOK
<1> SUFFICES ASSUME Init PROVE TypeOK
  OBVIOUS
<1>1. \A S : <<>> \in Seq(S) /\ Len(<<>>) = 0
  BY EmptySeq
<1>2. DOMAIN keys = {} /\ 0 \in 0 .. Attempts - 1 /\ 0 <= IngressMax
  BY BoundsAssumption DEF Init
<1> QED BY <1>1, <1>2 DEF Init, TypeOK, Label, Record

\* The environment: senders, ports, lifecycle.
LEMMA EnvironmentTyped ==
    ASSUME TypeOK, QueueInv, Environment
    PROVE  TypeOK'
<1>1. ASSUME NEW f \in Frames, Send(f) PROVE TypeOK'
  BY <1>1, SendMoves DEF Send, TypeOK, office, job
<1>2. ASSUME NEW a \in Agents, Drain(a) PROVE TypeOK'
  <2>1. /\ Tail(ingress[a]) \in Seq(Item)
        /\ Len(Tail(ingress[a])) = Len(ingress[a]) - 1
        /\ Len(ingress[a]) \in Nat
    BY <1>2, TailIn DEF Drain, TypeOK
  <2>2. Len(Tail(ingress[a])) <= IngressMax
    BY <2>1, BoundsAssumption DEF TypeOK
  <2>3. /\ ingress' \in [Agents -> Seq(Item)]
        /\ \A b \in Agents : Len(ingress'[b]) <= IngressMax
    BY <1>2, <2>1, <2>2 DEF Drain, TypeOK
  <2> QED BY <1>2, <2>3 DEF Drain, TypeOK, office, job, history
<1>3. ASSUME NEW a \in Agents, Hire(a) PROVE TypeOK'
  BY <1>3 DEF Hire, Unpassed, TypeOK, lists, job
<1>4. ASSUME NEW a \in Agents, Retire(a) PROVE TypeOK'
  <2>1. /\ ingress' \in [Agents -> Seq(Item)]
        /\ \A b \in Agents : Len(ingress'[b]) <= IngressMax
    BY <1>4, EmptySeq, BoundsAssumption DEF Retire, TypeOK
  <2> QED BY <1>4, <2>1 DEF Retire, Unpassed, TypeOK, job
<1> QED BY <1>1, <1>2, <1>3, <1>4 DEF Environment

\* The pop, and what may come instead of it.
LEMMA StepTyped ==
    ASSUME TypeOK, QueueInv, Step
    PROVE  TypeOK'
<1>1. CASE Scan
  BY <1>1, ScanTyped DEF Scan, TypeOK, Label, lists, office, job, history
<1>2. CASE PopNothing
  BY <1>2 DEF PopNothing, Unpassed, TypeOK, Label, lists, office, job
<1>3. ASSUME NEW a \in Agents, Pop(a) PROVE TypeOK'
  <2> DEFINE f == Head(egress[a])
  <2>1. f \in Frames /\ egress' \in [Agents -> Seq(Frames)]
    BY <1>3, UnqueueMoves DEF Pop, Served, Waits
  <2>2. said' \in [Frames -> Record]
    BY <1>3, <2>1 DEF Pop, Say, TypeOK, Record
  <2>3. passed' \in [Agents -> Nat]
    BY <1>3 DEF Pop, PassOver, TypeOK
  <2>4. f # Nobody
    BY <2>1, NamesAssumption
  <2> QED BY <1>3, <2>1, <2>2, <2>3, <2>4 DEF Pop, TypeOK, Label, office
<1>4. ASSUME NEW a \in Agents, PopLost(a) PROVE TypeOK'
  <2>1. Head(egress[a]) \in Frames /\ egress' \in [Agents -> Seq(Frames)]
    BY <1>4, UnqueueMoves DEF PopLost, Served, Waits
  <2> QED BY <1>4, <2>1 DEF PopLost, Unpassed, TypeOK, Label, office, job
<1> QED BY <1>1, <1>2, <1>3, <1>4 DEF Step

\* A step ends with nothing in hand.
LEMMA EndStepTyped ==
    ASSUME TypeOK, EndStep
    PROVE  /\ pc' = "idle" /\ pc' \in Label
           /\ hand' = Nobody
           /\ dests' \subseteq Agents
           /\ out' = Nobody
           /\ attempt' \in 0 .. Attempts - 1
BY BoundsAssumption DEF EndStep, Label

\* A frame on its way to the dead list.
LEMMA WillBuryTyped ==
    ASSUME TypeOK, hand # Nobody, NEW item \in {Raw(hand), Stamped(hand)}, WillBury(item)
    PROVE  /\ pc' = "bury" /\ hand' = hand /\ hand \in Frames
           /\ dests' \subseteq Agents
           /\ out' = item /\ out' \in Item
           /\ attempt' \in 0 .. Attempts - 1
BY BoundsAssumption, ItemFacts DEF WillBury, GoOn, TypeOK

LEMMA RawStamped == ASSUME hand' = hand PROVE Raw(hand)' = Raw(hand) /\ Stamped(hand)' = Stamped(hand)
BY DEF Raw, Stamped

LEMMA ForwardTyped ==
    ASSUME TypeOK, Forward
    PROVE  TypeOK'
<1>0. hand # Nobody /\ hand \in Frames
  BY DEF Forward, Examine, Lookup, NoSuchDestination, NoRecipients, Admit, Full,
         AdmitUnknown, TypeOK
<1>1. ASSUME NEW item \in {Raw(hand), Stamped(hand)}, WillBury(item),
             UNCHANGED <<lists, office, offset, keys, history>>
      PROVE  TypeOK'
  BY <1>0, <1>1, WillBuryTyped, RawStamped DEF TypeOK, Label, lists, office, history
<1>2. CASE Examine
  <2>1. CASE hand \in Garbled \cup Spent
    BY <1>1, <1>2, <2>1 DEF Examine
  <2>2. CASE hand \notin Garbled \cup Spent
    BY <1>0, <1>2, <2>2, BoundsAssumption
       DEF Examine, GoOn, TypeOK, Label, lists, office, history
  <2> QED BY <2>1, <2>2
<1>3. CASE Lookup
  <2>1. Recipients(hand) \subseteq Agents
    BY DEF Recipients, TypeOK
  <2> QED BY <1>0, <1>3, <2>1, BoundsAssumption
          DEF Lookup, GoOn, TypeOK, Label, lists, office
<1>4. CASE NoSuchDestination
  BY <1>1, <1>4 DEF NoSuchDestination
<1>5. CASE NoRecipients
  BY <1>0, <1>5, EndStepTyped DEF NoRecipients, Say, TypeOK, Record, lists, office
<1>6. ASSUME Room, Place(dests, Stamped(hand)), pc = "admit"
      PROVE  /\ ingress' \in [Agents -> Seq(Item)]
             /\ \A a \in Agents : Len(ingress'[a]) <= IngressMax
             /\ placed' \in [Agents -> Seq(Item)]
  <2>1. dests \in SUBSET Agents /\ Stamped(hand) \in Item
    BY <1>0, ItemFacts DEF TypeOK
  <2> QED BY <1>6, <2>1, PlaceMoves DEF Room
<1>7. CASE Admit
  BY <1>0, <1>6, <1>7, BoundsAssumption DEF Admit, GoOn, TypeOK, Label, office
<1>8. CASE Full
  BY <1>1, <1>8 DEF Full
<1>9. CASE AdmitUnknown
  <2>1. /\ ingress' \in [Agents -> Seq(Item)]
        /\ \A a \in Agents : Len(ingress'[a]) <= IngressMax
        /\ placed' \in [Agents -> Seq(Item)]
        /\ gone' \subseteq Frames
    BY <1>0, <1>6, <1>9 DEF AdmitUnknown, TypeOK
  <2>2. said' \in [Frames -> Record]
    BY <1>0, <1>9 DEF AdmitUnknown, Say, TypeOK, Record
  <2> QED BY <1>9, <2>1, <2>2, EndStepTyped DEF AdmitUnknown, TypeOK, office
<1> QED BY <1>2, <1>3, <1>4, <1>5, <1>7, <1>8, <1>9 DEF Forward

LEMMA RetryTyped ==
    ASSUME TypeOK, Retry
    PROVE  TypeOK'
<1>0. hand # Nobody /\ hand \in Frames
  BY DEF Retry, Rejected, Exhausted, Retrying, TypeOK
<1>1. CASE Rejected
  <2>1. attempt' \in 0 .. Attempts - 1
    BY <1>1, BoundsAssumption DEF Rejected, TypeOK
  <2> QED BY <1>1, <2>1, RawStamped DEF Rejected, TypeOK, lists, office, history
<1>2. CASE Exhausted
  BY <1>0, <1>2, WillBuryTyped, RawStamped
     DEF Exhausted, TypeOK, Label, lists, office, history
<1> QED BY <1>1, <1>2 DEF Retry

LEMMA DisposeTyped ==
    ASSUME TypeOK, Dispose
    PROVE  TypeOK'
<1>0. hand # Nobody /\ hand \in Frames /\ pc = "bury"
  BY DEF Dispose, DeadLetter, DeadLetterExhausted, DeadLetterUnknown, TypeOK
<1>1. CASE DeadLetter
  BY <1>0, <1>1, BuryMoves, BoundsAssumption DEF DeadLetter, GoOn, TypeOK, Label, office
<1>2. CASE DeadLetterExhausted
  <2>1. said' \in [Frames -> Record]
    BY <1>0, <1>2 DEF DeadLetterExhausted, Say, TypeOK, Record
  <2> QED BY <1>2, <2>1, EndStepTyped DEF DeadLetterExhausted, TypeOK, lists, office
<1>3. CASE DeadLetterUnknown
  <2>1. dead' \in [Agents -> Seq(Item)] /\ buried' \subseteq Frames /\ gone' \subseteq Frames
    BY <1>0, <1>3, BuryMoves DEF DeadLetterUnknown, TypeOK
  <2> QED BY <1>3, <2>1, EndStepTyped DEF DeadLetterUnknown, TypeOK, office
<1> QED BY <1>1, <1>2, <1>3 DEF Dispose

LEMMA ReportTyped ==
    ASSUME TypeOK, Report
    PROVE  TypeOK'
<1>0. hand # Nobody /\ hand \in Frames
  BY DEF Report, ReportForwarded, ReportDead, NotifySender, NotifyNobody, TypeOK
<1>1. CASE ReportForwarded
  <2>1. said' \in [Frames -> Record]
    BY <1>0, <1>1 DEF ReportForwarded, Say, TypeOK, Record
  <2>2. CASE Skipped = {}
    BY <1>1, <2>1, <2>2, EndStepTyped DEF ReportForwarded, TypeOK, lists, office
  <2>3. CASE Skipped # {}
    BY <1>0, <1>1, <2>1, <2>3, BoundsAssumption
       DEF ReportForwarded, GoOn, TypeOK, Label, lists, office
  <2> QED BY <2>2, <2>3
<1>2. CASE ReportDead
  <2>1. said' \in [Frames -> Record]
    BY <1>0, <1>2 DEF ReportDead, Say, TypeOK, Record
  <2> QED BY <1>2, <2>1, EndStepTyped DEF ReportDead, TypeOK, lists, office
<1>3. CASE NotifySender
  <2>1. /\ ingress' \in [Agents -> Seq(Item)]
        /\ \A a \in Agents : Len(ingress'[a]) <= IngressMax
        /\ placed' \in [Agents -> Seq(Item)]
    <3>1. {Home[hand]} \in SUBSET Agents /\ Notice(hand) \in Item
      BY <1>0, ItemFacts
    <3> QED BY <1>3, <3>1, PlaceMoves DEF NotifySender
  <2> QED BY <1>3, <2>1, EndStepTyped DEF NotifySender, TypeOK, office
<1>4. CASE NotifyNobody
  BY <1>4, EndStepTyped DEF NotifyNobody, TypeOK, lists, office, history
<1> QED BY <1>1, <1>2, <1>3, <1>4 DEF Report

\* Crash, restart and retention.
LEMMA ProcessTyped ==
    ASSUME TypeOK, Crash \/ Restart \/ \E a \in Agents : TrimDead(a)
    PROVE  TypeOK'
<1>1. CASE Crash
  <2>1. attempt' \in 0 .. Attempts - 1 /\ DOMAIN keys' = {}
    BY <1>1, BoundsAssumption DEF Crash
  <2>2. gone' \subseteq Frames /\ cut' \subseteq Frames
    BY <1>1 DEF Crash, TypeOK, Holding
  <2> QED BY <1>1, <2>1, <2>2 DEF Crash, Unpassed, TypeOK, Label, lists, office
<1>2. CASE Restart
  BY <1>2 DEF Restart, TypeOK, Label, lists, office, job, history
<1>3. ASSUME NEW a \in Agents, TrimDead(a) PROVE TypeOK'
  <2>1. LTrim(dead[a], DeadMax) \in Seq(Item)
    BY LTrimIn, BoundsAssumption DEF TypeOK
  <2> QED BY <1>3, <2>1 DEF TrimDead, TypeOK, office, job, history
<1> QED BY <1>1, <1>2, <1>3

\* Every step keeps the types.
LEMMA NextTyped == TypeOK /\ QueueInv /\ [Next]_vars => TypeOK'
<1> SUFFICES ASSUME TypeOK, QueueInv, [Next]_vars PROVE TypeOK'
  OBVIOUS
<1>1. CASE Environment
  BY <1>1, EnvironmentTyped
<1>2. CASE Work
  BY <1>2, StepTyped, ForwardTyped, RetryTyped, DisposeTyped, ReportTyped DEF Work
<1>3. CASE Crash \/ Restart \/ \E a \in Agents : TrimDead(a)
  BY <1>3, ProcessTyped
<1>4. CASE UNCHANGED vars
  BY <1>4, RawStamped DEF vars, lists, office, job, history, TypeOK
<1> QED BY <1>1, <1>2, <1>3, <1>4 DEF Next

-----------------------------------------------------------------------------
(* Safety: frames that a step does not touch *)

LEMMA SoleKept == \A f \in sent : Sole(f) => \E here \in Places : \A p \in Places : At(f, p) <=> p = here
<1> SUFFICES ASSUME NEW f \in sent, Sole(f)
             PROVE  \E here \in Places : \A p \in Places : At(f, p) <=> p = here
  OBVIOUS
<1>1. CASE Waiting(f)
  <2>1. \A p \in Places : At(f, p) <=> p = "egress"
    BY <1>1 DEF Sole, At, Places
  <2> QED BY <2>1 DEF Places
<1>2. CASE Held(f)
  <2>1. \A p \in Places : At(f, p) <=> p = "hand"
    BY <1>2 DEF Sole, At, Places
  <2> QED BY <2>1 DEF Places
<1>3. CASE Delivered(f)
  <2>1. \A p \in Places : At(f, p) <=> p = "ingress"
    BY <1>3 DEF Sole, At, Places
  <2> QED BY <2>1 DEF Places
<1>4. CASE f \in buried
  <2>1. \A p \in Places : At(f, p) <=> p = "dead"
    BY <1>4 DEF Sole, At, Places
  <2> QED BY <2>1 DEF Places
<1>5. CASE Lost(f)
  <2>1. \A p \in Places : At(f, p) <=> p = "lost"
    BY <1>5 DEF Sole, At, Places
  <2> QED BY <2>1 DEF Places
<1> QED BY <1>1, <1>2, <1>3, <1>4, <1>5 DEF Sole

\* A step leaves frame f as it is, but that the switch may let go of it.
Same(f) ==
    /\ Waiting(f)' <=> Waiting(f)
    /\ Held(f)' <=> Held(f)
    /\ \A a \in Agents : Gets(a, f)' <=> Gets(a, f)
    /\ \A a \in Agents : In(placed'[a], Notice(f)) => In(placed[a], Notice(f))
    /\ f \in buried' <=> f \in buried
    /\ f \in gone' <=> f \in gone
    /\ f \in sent' <=> f \in sent
    /\ said'[f] = said[f]
    /\ aimed'[f] = aimed[f]
    /\ hand' = f => hand = f

LEMMA SameStill ==
    ASSUME TypeOK, NEW f \in Frames, FrameInv(f), Same(f)
    PROVE  FrameInv(f)'
<1>1. Delivered(f)' <=> Delivered(f)
  BY DEF Same, Delivered
<1>2. Lost(f)' <=> Lost(f)
  BY DEF Same, Lost
<1>3. Sole(f) => Sole(f)'
  BY <1>1, <1>2 DEF Sole, Same
<1>4. Fresh(f) => Fresh(f)'
  BY <1>1, <1>2 DEF Fresh, Same
<1>5. aimed[f] \subseteq Agents
  BY DEF TypeOK
<1>6. (IF f \in sent THEN Sole(f) ELSE Fresh(f))'
  BY <1>3, <1>4 DEF FrameInv, Same
<1>7. (said[f] = "forwarded" => (\A a \in aimed[f] : Gets(a, f)) /\ f \notin buried)'
  BY <1>5 DEF FrameInv, Same
<1> QED BY <1>1, <1>6, <1>7 DEF FrameInv, Same

\* A step that moves no frame and records nothing.
LEMMA QuietSafe ==
    ASSUME Inv,
           UNCHANGED <<egress, placed, buried, gone, said, aimed, sent>>,
           \/ hand' = hand /\ (pc \in Holding <=> pc' \in Holding)
           \/ hand' = Nobody /\ pc \notin Holding /\ pc' \notin Holding,
           HandInv'
    PROVE  Safe'
<1>1. ASSUME NEW f \in Frames PROVE Same(f)
  <2>1. f # Nobody
    BY NamesAssumption
  <2> QED BY <2>1 DEF Same, Waiting, Held, Gets, Stamped
<1>2. \A f \in Frames : FrameInv(f)'
  BY <1>1, SameStill DEF Inv, Safe
<1>3. QueueInv'
  BY DEF QueueInv, Inv, Safe
<1>4. \A a \in Agents : IsInjective(placed'[a])
  BY DEF Inv, Safe
<1> QED BY <1>2, <1>3, <1>4 DEF Safe

\* The frame in hand and what follows from its being there.
LEMMA HandFacts ==
    ASSUME Inv, hand # Nobody
    PROVE  /\ hand \in Frames /\ hand \in sent /\ Sole(hand) /\ FrameInv(hand)
           /\ Home[hand] \in Agents
           /\ pc \in Holding => /\ Held(hand) /\ ~Waiting(hand) /\ ~Delivered(hand)
                                /\ hand \notin buried /\ ~Lost(hand)
                                /\ \A a \in Agents : ~Gets(a, hand)
                                /\ \A a \in Agents : ~In(placed[a], Notice(hand))
<1>1. hand \in Frames /\ hand \in sent
  BY DEF Inv, Safe, TypeOK, QueueInv
<1>2. FrameInv(hand) /\ Sole(hand) /\ Home[hand] \in Agents
  BY <1>1, ItemFacts DEF Inv, Safe, FrameInv
<1>3. ASSUME pc \in Holding
      PROVE  /\ Held(hand) /\ ~Waiting(hand) /\ ~Delivered(hand)
             /\ hand \notin buried /\ ~Lost(hand)
  BY <1>2, <1>3 DEF Held, Sole
<1> QED BY <1>1, <1>2, <1>3 DEF FrameInv, Delivered

\* Steps of others, and steps of the switch that only look or count.
LEMMA LookSafe ==
    ASSUME Inv,
           \/ \E a \in Agents : Drain(a) \/ Hire(a) \/ Retire(a) \/ TrimDead(a)
           \/ Scan \/ PopNothing \/ Restart \/ Rejected
           \/ Examine \/ NoSuchDestination \/ Full \/ Exhausted
           \/ NotifyNobody \/ UNCHANGED vars
    PROVE  Safe'
<1> USE DEF Inv, Safe
<1>1. CASE \/ \E a \in Agents : Drain(a) \/ Hire(a) \/ Retire(a) \/ TrimDead(a)
           \/ Rejected \/ UNCHANGED vars
  <2>1. UNCHANGED <<egress, placed, buried, gone, said, aimed, sent, hand, pc, dests>>
    BY <1>1 DEF Drain, Hire, Retire, TrimDead, Rejected, vars, lists, job, history
  <2>2. HandInv'
    BY <2>1 DEF HandInv, Delivered, Gets, Stamped
  <2> QED BY <2>1, <2>2, QuietSafe
<1>2. CASE Scan \/ PopNothing \/ Restart
  <2>1. /\ UNCHANGED <<egress, placed, buried, gone, said, aimed, sent, hand>>
        /\ pc \notin Holding /\ pc' \in {"idle", "pop"}
    BY <1>2 DEF Scan, PopNothing, Restart, lists, job, history, Holding
  <2>2. HandInv' /\ pc' \notin Holding
    BY <2>1 DEF HandInv, Holding
  <2> QED BY <2>1, <2>2, QuietSafe
<1>3. CASE Examine
  <2>1. /\ UNCHANGED <<egress, placed, buried, gone, said, aimed, sent, hand>>
        /\ pc = "popped" /\ pc' \in {"bury", "lookup"}
    BY <1>3 DEF Examine, WillBury, GoOn, lists, history
  <2>2. HandInv' /\ pc \in Holding /\ pc' \in Holding
    BY <2>1 DEF HandInv, Holding
  <2> QED BY <2>1, <2>2, QuietSafe
<1>4. CASE NoSuchDestination \/ Full \/ Exhausted
  <2>1. /\ UNCHANGED <<egress, placed, buried, gone, said, aimed, sent, hand>>
        /\ pc \in {"lookup", "admit"} /\ pc' = "bury"
    BY <1>4 DEF NoSuchDestination, Full, Exhausted, WillBury, GoOn, lists, history
  <2>2. HandInv' /\ pc \in Holding /\ pc' \in Holding
    BY <2>1 DEF HandInv, Holding
  <2> QED BY <2>1, <2>2, QuietSafe
<1>5. CASE NotifyNobody
  <2>1. /\ UNCHANGED <<egress, placed, buried, gone, said, aimed, sent>>
        /\ hand' = Nobody /\ pc = "notice" /\ pc' = "idle"
    BY <1>5 DEF NotifyNobody, EndStep, lists, history
  <2>2. HandInv' /\ pc \notin Holding /\ pc' \notin Holding
    BY <2>1 DEF HandInv, Holding
  <2> QED BY <2>1, <2>2, QuietSafe
<1> QED BY <1>1, <1>2, <1>3, <1>4, <1>5

-----------------------------------------------------------------------------
(* Safety: steps that put a frame into the queue or take one out *)

LEMMA SendSafe ==
    ASSUME Inv, NEW f \in Frames, Send(f)
    PROVE  Safe'
<1> USE DEF Inv, Safe
<1>1. /\ \A g \in Frames : Waiting(g)' <=> Waiting(g) \/ g = f
      /\ \A a \in Agents, g \in Frames :
           In(egress'[a], g) <=> In(egress[a], g) \/ (a = Home[f] /\ g = f)
      /\ \A a \in Agents : IsInjective(egress'[a])
  BY SendMoves
<1>2. /\ UNCHANGED <<placed, buried, gone, said, aimed, hand, pc, dests>>
      /\ f \notin sent /\ sent' = sent \cup {f}
  BY DEF Send, job
<1>3. hand # f /\ Fresh(f)
  BY <1>2, NamesAssumption DEF QueueInv, FrameInv
<1>4. \A g \in Frames : Held(g)' <=> Held(g)
  BY <1>2 DEF Held
<1>5. \A g \in Frames : Delivered(g)' <=> Delivered(g)
  BY <1>2 DEF Delivered, Gets, Stamped
<1>6. FrameInv(f)'
  <2>1. Waiting(f)' /\ ~Held(f)' /\ ~Delivered(f)' /\ f \notin buried' /\ ~Lost(f)'
    BY <1>1, <1>2, <1>3, <1>4, <1>5 DEF Fresh, Lost
  <2>2. \A a \in Agents : ~In(placed'[a], Notice(f))
    BY <1>2, <1>3 DEF FrameInv, Fresh
  <2>3. said'[f] = "none" /\ aimed'[f] = {} /\ f \in sent'
    BY <1>2, <1>3 DEF Fresh
  <2>4. Sole(f)'
    BY <2>1 DEF Sole
  <2> QED BY <2>1, <2>2, <2>3, <2>4 DEF FrameInv
<1>7. ASSUME NEW g \in Frames, g # f PROVE FrameInv(g)'
  <2>1. Same(g)
    BY <1>1, <1>2, <1>4, <1>7 DEF Same, Gets, Stamped
  <2> QED BY <2>1, SameStill
<1>8. QueueInv'
  BY <1>1, <1>2 DEF QueueInv
<1>9. HandInv' /\ \A a \in Agents : IsInjective(placed'[a])
  BY <1>2 DEF HandInv, Delivered, Gets, Stamped
<1> QED BY <1>6, <1>7, <1>8, <1>9

\* The pop moves the head of a queue into the hand; a lost reply loses it.
LEMMA PopSafe ==
    ASSUME Inv, NEW a \in Agents, Pop(a) \/ PopLost(a)
    PROVE  Safe'
<1> USE DEF Inv, Safe
<1>0. PICK f : f = Head(egress[a])
  OBVIOUS
<1>1. /\ f \in Frames /\ f \in sent /\ Home[f] = a /\ Waiting(f)
      /\ \A g \in Frames : Waiting(g)' <=> Waiting(g) /\ g # f
      /\ \A b \in Agents, g \in Frames : In(egress'[b], g) => In(egress[b], g)
      /\ \A b \in Agents : IsInjective(egress'[b])
  BY <1>0, UnqueueMoves DEF Pop, PopLost, Served, Waits
<1>2. /\ FrameInv(f) /\ Sole(f) /\ said[f] = "none" /\ aimed[f] = {}
      /\ ~Held(f) /\ ~Delivered(f) /\ f \notin buried /\ ~Lost(f)
      /\ \A b \in Agents : ~In(placed[b], Notice(f))
  BY <1>1 DEF FrameInv, Sole
<1>3. UNCHANGED <<placed, buried, aimed, sent>> /\ hand = Nobody /\ f # Nobody
  BY <1>1, NamesAssumption DEF Pop, PopLost, job, TypeOK
<1>4. /\ \A g \in Frames : Delivered(g)' <=> Delivered(g)
      /\ \A g \in Frames, b \in Agents : Gets(b, g)' <=> Gets(b, g)
  BY <1>3 DEF Delivered, Gets, Stamped
<1>5. /\ \A g \in Frames \ {f} : said'[g] = said[g] /\ (g \in gone' <=> g \in gone)
      /\ hand' \in {f, Nobody}
      /\ \A g \in Frames \ {f} : ~Held(g)' /\ ~Held(g)
  <2>1. CASE Pop(a)
    BY <1>0, <1>1, <1>3, <2>1, NamesAssumption DEF Pop, Say, Held, TypeOK
  <2>2. CASE PopLost(a)
    BY <1>0, <1>1, <1>3, <2>2, NamesAssumption DEF PopLost, job, Held, TypeOK
  <2> QED BY <2>1, <2>2
<1>6. ASSUME NEW g \in Frames, g # f PROVE FrameInv(g)'
  <2>1. Same(g)
    BY <1>1, <1>3, <1>4, <1>5, <1>6, NamesAssumption DEF Same
  <2> QED BY <2>1, SameStill
<1>7. QueueInv'
  BY <1>1, <1>3, <1>5 DEF QueueInv
<1>8. FrameInv(f)' /\ HandInv'
  <2>1. ~Waiting(f)' /\ ~Delivered(f)' /\ f \notin buried' /\ aimed'[f] = {} /\ f \in sent'
    BY <1>1, <1>2, <1>3, <1>4
  <2>2. \A b \in Agents : ~In(placed'[b], Notice(f))
    BY <1>2, <1>3
  <2>3. CASE Pop(a)
    <3>1. hand' = f /\ pc' = "popped" /\ said'[f] = "popped" /\ gone' = gone
      BY <1>0, <1>1, <2>3 DEF Pop, Say, TypeOK
    <3>2. Held(f)' /\ ~Lost(f)'
      BY <1>2, <3>1 DEF Held, Lost, Holding
    <3>3. Sole(f)'
      BY <2>1, <3>2 DEF Sole
    <3>4. FrameInv(f)'
      BY <2>1, <2>2, <3>1, <3>3 DEF FrameInv
    <3>5. HandInv'
      BY <2>1, <3>1 DEF HandInv, Holding
    <3> QED BY <3>4, <3>5
  <2>4. CASE PopLost(a)
    <3>1. hand' = Nobody /\ pc' = "idle" /\ said' = said /\ f \in gone'
      BY <1>0, <1>3, <2>4 DEF PopLost, job
    <3>2. ~Held(f)' /\ Lost(f)'
      BY <3>1 DEF Held, Lost, Holding
    <3>3. Sole(f)'
      BY <2>1, <3>2 DEF Sole
    <3>4. FrameInv(f)'
      BY <1>2, <2>1, <2>2, <3>1, <3>3 DEF FrameInv
    <3>5. HandInv'
      BY <3>1 DEF HandInv, Holding
    <3> QED BY <3>4, <3>5
  <2> QED BY <2>3, <2>4
<1>9. \A b \in Agents : IsInjective(placed'[b])
  BY <1>3
<1> QED BY <1>6, <1>7, <1>8, <1>9

-----------------------------------------------------------------------------
(* Safety: steps that decide the fate of the frame in hand *)

\* They disturb no other frame.
LEMMA HandSafe ==
    ASSUME Inv, NEW f \in Frames, f = hand, hand' \in {hand, Nobody},
           UNCHANGED <<egress, sent>>,
           \A g \in Frames \ {f} :
               /\ said'[g] = said[g] /\ aimed'[g] = aimed[g]
               /\ g \in gone' <=> g \in gone
               /\ g \in buried' <=> g \in buried,
           \A a \in Agents : \A x :
               In(placed'[a], x) /\ ~In(placed[a], x) => x \in {Stamped(f), Notice(f)},
           \A a \in Agents : \A x : In(placed[a], x) => In(placed'[a], x),
           \A a \in Agents : IsInjective(placed'[a]),
           FrameInv(f)', HandInv'
    PROVE  Safe'
<1> USE DEF Inv, Safe
<1>1. ASSUME NEW g \in Frames, g # f PROVE FrameInv(g)'
  <2>1. \A a \in Agents : /\ In(placed'[a], Stamped(g)) <=> In(placed[a], Stamped(g))
                          /\ In(placed'[a], Notice(g)) => In(placed[a], Notice(g))
    BY <1>1, ItemFacts
  <2>2. g # Nobody /\ f # Nobody
    BY NamesAssumption
  <2>3. Same(g)
    BY <1>1, <2>1, <2>2 DEF Same, Waiting, Held, Gets, Stamped
  <2> QED BY <2>3, SameStill
<1>2. QueueInv'
  BY DEF QueueInv
<1> QED BY <1>1, <1>2

\* The lookup fixes the recipients; a broadcast to nobody ends there.
LEMMA LookupSafe ==
    ASSUME Inv, TypeOK', Lookup \/ NoRecipients
    PROVE  Safe'
<1> USE DEF Inv, Safe
<1>1. PICK f : f = hand
  OBVIOUS
<1>2. pc = "lookup" /\ hand # Nobody /\ pc \in Holding /\ said[hand] = "popped"
      /\ aimed[hand] = {}
  BY DEF Lookup, NoRecipients, TypeOK, HandInv, Holding
<1>3. /\ f \in Frames /\ f \in sent /\ Home[f] \in Agents /\ FrameInv(f)
      /\ Held(f) /\ ~Waiting(f) /\ ~Delivered(f) /\ f \notin buried /\ ~Lost(f)
      /\ \A a \in Agents : ~Gets(a, f)
      /\ \A a \in Agents : ~In(placed[a], Notice(f))
  BY <1>1, <1>2, HandFacts
<1>4. UNCHANGED <<egress, sent, placed, buried>>
  BY DEF Lookup, NoRecipients, lists
<1>5. ~Waiting(f)' /\ ~Delivered(f)' /\ \A a \in Agents : ~Gets(a, f)'
  BY <1>3, <1>4 DEF Waiting, Delivered, Gets, Stamped
<1>6. /\ \A g \in Frames \ {f} : said'[g] = said[g] /\ aimed'[g] = aimed[g]
                                 /\ (g \in gone' <=> g \in gone)
      /\ hand' \in {hand, Nobody}
      /\ FrameInv(f)' /\ HandInv'
  <2>1. CASE Lookup
    <3>1. /\ UNCHANGED <<said, gone, hand>> /\ pc' = "admit"
          /\ dests' = Recipients(f) /\ aimed'[f] = Recipients(f)
          /\ \A g \in Frames \ {f} : aimed'[g] = aimed[g]
      BY <1>1, <1>3, <2>1 DEF Lookup, GoOn, TypeOK
    <3>2. Home[f] \in Recipients(f) => Dest[f] = Home[f]
      BY DEF Recipients
    <3>3. Held(f)' /\ ~Lost(f)'
      BY <1>1, <1>3, <3>1 DEF Held, Lost, Holding
    <3>4. Sole(f)'
      BY <1>3, <1>4, <1>5, <3>3 DEF Sole
    <3>5. FrameInv(f)'
      BY <1>1, <1>2, <1>3, <1>4, <1>5, <3>1, <3>2, <3>3, <3>4 DEF FrameInv
    <3>6. HandInv'
      BY <1>1, <1>2, <3>1 DEF HandInv, Holding
    <3> QED BY <3>1, <3>5, <3>6
  <2>2. CASE NoRecipients
    <3>1. /\ aimed' = aimed /\ hand' = Nobody /\ pc' = "idle"
          /\ said'[f] = "forwarded" /\ f \in gone'
          /\ \A g \in Frames \ {f} : said'[g] = said[g] /\ (g \in gone' <=> g \in gone)
      BY <1>1, <1>3, <2>2 DEF NoRecipients, EndStep, Say, TypeOK
    <3>2. ~Held(f)' /\ Lost(f)'
      BY <3>1 DEF Held, Lost, Holding
    <3>3. Sole(f)'
      BY <1>3, <1>4, <1>5, <3>2 DEF Sole
    <3>4. FrameInv(f)'
      BY <1>1, <1>2, <1>3, <1>4, <1>5, <3>1, <3>3 DEF FrameInv
    <3>5. HandInv'
      BY <3>1 DEF HandInv, Holding
    <3> QED BY <3>1, <3>4, <3>5
  <2> QED BY <2>1, <2>2
<1> QED BY <1>1, <1>3, <1>4, <1>6, HandSafe

\* The admission: every recipient is given the frame, or nobody knows.
LEMMA AdmitSafe ==
    ASSUME Inv, TypeOK', Admit \/ AdmitUnknown
    PROVE  Safe'
<1> USE DEF Inv, Safe
<1>1. PICK f : f = hand
  OBVIOUS
<1>2. /\ pc = "admit" /\ hand # Nobody /\ pc \in Holding /\ said[hand] = "popped"
      /\ aimed[hand] = dests /\ dests # {} /\ dests \subseteq Agents
  BY DEF Admit, AdmitUnknown, TypeOK, HandInv, Holding
<1>3. /\ f \in Frames /\ f \in sent /\ Home[f] \in Agents /\ FrameInv(f)
      /\ Held(f) /\ ~Waiting(f) /\ ~Delivered(f) /\ f \notin buried /\ ~Lost(f)
      /\ \A a \in Agents : ~Gets(a, f)
      /\ \A a \in Agents : ~In(placed[a], Notice(f))
  BY <1>1, <1>2, HandFacts
<1>4. UNCHANGED <<egress, sent, buried, aimed>> /\ hand' \in {hand, Nobody} /\ pc' \notin Holding
  BY DEF Admit, AdmitUnknown, GoOn, EndStep, Holding
<1>5. ~Waiting(f)' /\ ~Held(f)'
  BY <1>3, <1>4 DEF Waiting, Held
<1>6. \A g \in Frames \ {f} : said'[g] = said[g] /\ (g \in gone' <=> g \in gone)
  BY <1>1, <1>3 DEF Admit, AdmitUnknown, Say, TypeOK
<1>7. CASE Room /\ Place(dests, Stamped(hand)) /\ UNCHANGED gone
  <2>1. /\ \A a \in Agents : \A x :
             In(placed'[a], x) <=> In(placed[a], x) \/ (a \in dests /\ x = Stamped(f))
        /\ \A a \in Agents : IsInjective(placed'[a])
    <3>1. dests \in SUBSET Agents /\ Stamped(f) \in Item
      BY <1>2, <1>3, ItemFacts
    <3>2. \A a \in dests : Len(ingress[a]) < IngressMax
      BY <1>7 DEF Room
    <3>3. \A a \in Agents : ~In(placed[a], Stamped(f))
      BY <1>3 DEF Gets
    <3> QED BY <1>1, <1>7, <3>1, <3>2, <3>3, PlaceMoves
  <2>2. \A a \in Agents : Gets(a, f)' <=> a \in aimed'[f]
    BY <1>1, <1>2, <1>3, <1>4, <2>1 DEF Gets, Stamped
  <2>3. Delivered(f)'
    BY <1>1, <1>2, <1>4, <2>2 DEF Delivered
  <2>4. said'[f] \in {"popped", "unknown"}
    BY <1>1, <1>2, <1>3 DEF Admit, AdmitUnknown, Say, TypeOK
  <2>5. ~Lost(f)'
    BY <1>3, <1>7, <2>4 DEF Lost
  <2>6. \A a \in Agents : ~In(placed'[a], Notice(f))
    BY <1>3, <2>1, ItemFacts
  <2>7. Sole(f)'
    BY <1>3, <1>4, <1>5, <2>3, <2>5 DEF Sole
  <2>8. FrameInv(f)'
    BY <1>3, <1>4, <1>5, <2>2, <2>3, <2>4, <2>6, <2>7 DEF FrameInv
  <2>9. HandInv'
    <3>1. CASE Admit
      <4>1. pc' = "placed" /\ hand' = hand /\ said' = said /\ dests' = dests
        BY <3>1 DEF Admit, GoOn
      <4>2. Delivered(hand)'
        BY <1>1, <2>3, <4>1 DEF Delivered, Gets, Stamped
      <4> QED BY <1>2, <1>4, <4>1, <4>2 DEF HandInv, Holding
    <3>2. CASE AdmitUnknown
      BY <3>2 DEF AdmitUnknown, EndStep, HandInv, Holding
    <3> QED BY <3>1, <3>2
  <2> QED BY <1>1, <1>3, <1>4, <1>6, <2>1, <2>8, <2>9, HandSafe
<1>8. CASE AdmitUnknown /\ gone' = gone \cup {hand} /\ UNCHANGED <<ingress, placed>>
  <2>1. said'[f] = "unknown" /\ Lost(f)' /\ pc' = "idle" /\ hand' = Nobody
    BY <1>1, <1>3, <1>8 DEF AdmitUnknown, EndStep, Say, TypeOK, Lost
  <2>2. ~Delivered(f)' /\ \A a \in Agents : ~In(placed'[a], Notice(f))
    BY <1>3, <1>8 DEF Delivered, Gets, Stamped
  <2>3. Sole(f)'
    BY <1>3, <1>4, <1>5, <2>1, <2>2 DEF Sole
  <2>4. FrameInv(f)'
    BY <1>3, <1>4, <1>5, <2>1, <2>2, <2>3 DEF FrameInv
  <2>5. HandInv'
    BY <2>1 DEF HandInv, Holding
  <2> QED BY <1>1, <1>3, <1>4, <1>6, <1>8, <2>4, <2>5, HandSafe
<1> QED BY <1>7, <1>8 DEF Admit, AdmitUnknown

\* The dead-letter write: it happened, it was rejected to the end, or nobody knows.
LEMMA DisposeSafe ==
    ASSUME Inv, TypeOK', Dispose
    PROVE  Safe'
<1> USE DEF Inv, Safe
<1>1. PICK f : f = hand
  OBVIOUS
<1>2. pc = "bury" /\ hand # Nobody /\ pc \in Holding /\ said[hand] = "popped"
  BY DEF Dispose, DeadLetter, DeadLetterExhausted, DeadLetterUnknown, TypeOK,
         HandInv, Holding
<1>3. /\ f \in Frames /\ f \in sent /\ Home[f] \in Agents /\ FrameInv(f)
      /\ Held(f) /\ ~Waiting(f) /\ ~Delivered(f) /\ f \notin buried /\ ~Lost(f)
      /\ \A a \in Agents : ~Gets(a, f)
      /\ \A a \in Agents : ~In(placed[a], Notice(f))
  BY <1>1, <1>2, HandFacts
<1>4. UNCHANGED <<egress, sent, placed, aimed>> /\ hand' \in {hand, Nobody} /\ pc' \notin Holding
  BY DEF Dispose, DeadLetter, DeadLetterExhausted, DeadLetterUnknown, GoOn, EndStep,
         Holding, lists
<1>5. /\ ~Waiting(f)' /\ ~Held(f)' /\ ~Delivered(f)'
      /\ \A a \in Agents : ~In(placed'[a], Notice(f))
  BY <1>3, <1>4 DEF Waiting, Held, Delivered, Gets, Stamped
<1>6. \A g \in Frames \ {f} :
        /\ said'[g] = said[g]
        /\ g \in gone' <=> g \in gone
        /\ g \in buried' <=> g \in buried
  BY <1>1, <1>3
     DEF Dispose, DeadLetter, DeadLetterExhausted, DeadLetterUnknown, Bury, Say, TypeOK
<1>7. /\ Sole(f)'
      /\ said'[f] \in {"popped", "lost"}
      /\ said'[f] = "lost" => f \notin buried'
  <2>1. CASE Bury /\ UNCHANGED <<gone, said>>
    BY <1>1, <1>2, <1>3, <1>5, <2>1 DEF Bury, Lost, Sole
  <2>2. CASE gone' = gone \cup {hand} /\ UNCHANGED <<buried, said>>
    BY <1>1, <1>2, <1>3, <1>5, <2>2 DEF Lost, Sole
  <2>3. CASE DeadLetterExhausted
    <3>1. said'[f] = "lost" /\ buried' = buried
      BY <1>1, <1>3, <2>3 DEF DeadLetterExhausted, Say, TypeOK
    <3> QED BY <1>3, <1>5, <3>1 DEF Lost, Sole
  <2> QED BY <2>1, <2>2, <2>3 DEF Dispose, DeadLetter, DeadLetterUnknown
<1>8. FrameInv(f)'
  BY <1>3, <1>4, <1>5, <1>7 DEF FrameInv
<1>9. HandInv'
  <2>1. CASE DeadLetter
    BY <1>2, <2>1 DEF DeadLetter, GoOn, Bury, HandInv, Holding
  <2>2. CASE DeadLetterExhausted \/ DeadLetterUnknown
    BY <2>2 DEF DeadLetterExhausted, DeadLetterUnknown, EndStep, HandInv, Holding
  <2> QED BY <2>1, <2>2 DEF Dispose
<1> QED BY <1>1, <1>3, <1>4, <1>6, <1>8, <1>9, HandSafe

\* The records after a write, and the notice about skipped recipients.
LEMMA ReportSafe ==
    ASSUME Inv, TypeOK', ReportForwarded \/ ReportDead \/ NotifySender
    PROVE  Safe'
<1> USE DEF Inv, Safe
<1>1. PICK f : f = hand
  OBVIOUS
<1>2. hand # Nobody /\ pc \notin Holding
  BY DEF ReportForwarded, ReportDead, NotifySender, TypeOK, Holding
<1>3. f \in Frames /\ f \in sent /\ Home[f] \in Agents /\ FrameInv(f) /\ Sole(f)
  BY <1>1, <1>2, HandFacts
<1>4. /\ UNCHANGED <<egress, sent, buried, gone, aimed>> /\ hand' \in {hand, Nobody}
      /\ pc' \notin Holding
  BY DEF ReportForwarded, ReportDead, NotifySender, GoOn, EndStep, Holding, lists
<1>5. (Waiting(f)' <=> Waiting(f)) /\ ~Held(f)' /\ ~Held(f)
  BY <1>1, <1>2, <1>4 DEF Waiting, Held
<1>6. CASE ReportForwarded
  <2>1. /\ placed' = placed /\ said'[f] = "forwarded" /\ pc = "placed"
        /\ Delivered(f) /\ said[f] = "popped"
        /\ \A g \in Frames \ {f} : said'[g] = said[g]
    BY <1>1, <1>3, <1>6 DEF ReportForwarded, Say, TypeOK, HandInv
  <2>2. /\ Delivered(f)'
        /\ \A a \in Agents : Gets(a, f)' <=> Gets(a, f)
        /\ \A a \in Agents : ~In(placed[a], Notice(f))
    BY <1>1, <1>3, <2>1 DEF Delivered, Gets, Stamped, FrameInv
  <2>3. ~Lost(f)' /\ ~Waiting(f)' /\ f \notin buried'
    BY <1>3, <1>4, <1>5, <2>1 DEF Lost, Sole
  <2>4. Sole(f)'
    BY <1>5, <2>2, <2>3 DEF Sole
  <2>5. \A a \in aimed'[f] : Gets(a, f)'
    BY <1>3, <1>4, <2>1, <2>2 DEF FrameInv, TypeOK
  <2>6. FrameInv(f)'
    BY <1>3, <1>4, <1>5, <2>1, <2>2, <2>3, <2>4, <2>5 DEF FrameInv
  <2>7. HandInv'
    <3>1. CASE Skipped = {}
      BY <1>6, <3>1 DEF ReportForwarded, EndStep, HandInv, Holding
    <3>2. CASE Skipped # {}
      <4>1. pc' = "notice" /\ hand' = hand /\ dests' = dests
        BY <1>6, <3>2 DEF ReportForwarded, GoOn
      <4>2. Delivered(hand)' /\ said'[hand] = "forwarded"
        BY <1>1, <2>1, <2>2, <4>1 DEF Delivered, Gets, Stamped
      <4> QED BY <1>4, <2>1, <4>1, <4>2 DEF HandInv, Holding
    <3> QED BY <3>1, <3>2
  <2> QED BY <1>1, <1>3, <1>4, <2>1, <2>6, <2>7, HandSafe
<1>7. CASE ReportDead
  <2>1. /\ placed' = placed /\ said'[f] = "dead_lettered" /\ f \in buried
        /\ said[f] = "popped"
        /\ \A g \in Frames \ {f} : said'[g] = said[g]
        /\ pc' = "idle" /\ hand' = Nobody
    BY <1>1, <1>3, <1>7 DEF ReportDead, EndStep, Say, TypeOK, HandInv
  <2>2. ~Delivered(f) /\ ~Lost(f) /\ ~Waiting(f)
    BY <1>3, <2>1 DEF Sole
  <2>3. ~Delivered(f)' /\ ~Lost(f)' /\ ~Waiting(f)' /\ f \in buried'
    BY <1>4, <1>5, <2>1, <2>2 DEF Delivered, Gets, Stamped, Lost
  <2>4. Sole(f)'
    BY <1>5, <2>3 DEF Sole
  <2>5. FrameInv(f)'
    BY <1>3, <1>4, <1>5, <2>1, <2>2, <2>3, <2>4 DEF FrameInv
  <2>6. HandInv'
    BY <2>1 DEF HandInv, Holding
  <2> QED BY <1>1, <1>3, <1>4, <2>1, <2>5, <2>6, HandSafe
<1>8. CASE NotifySender
  <2>1. /\ said' = said /\ pc' = "idle" /\ hand' = Nobody /\ Delivered(f)
        /\ said[f] = "forwarded"
    BY <1>1, <1>8 DEF NotifySender, EndStep, HandInv
  <2>2. \A a \in Agents : ~In(placed[a], Notice(f))
    BY <1>1, <1>3 DEF FrameInv
  <2>3. /\ \A a \in Agents : \A x :
             In(placed'[a], x) <=> In(placed[a], x) \/ (a = Home[f] /\ x = Notice(f))
        /\ \A a \in Agents : IsInjective(placed'[a])
    <3>1. {Home[f]} \in SUBSET Agents /\ Notice(f) \in Item
      BY <1>3, ItemFacts
    <3>2. Place({Home[f]}, Notice(f)) /\ Len(ingress[Home[f]]) < IngressMax
      BY <1>1, <1>8 DEF NotifySender
    <3> QED BY <2>2, <3>1, <3>2, PlaceMoves
  <2>4. \A a \in Agents : Gets(a, f)' <=> Gets(a, f)
    BY <1>3, <2>3, ItemFacts DEF Gets, Stamped
  <2>5. Delivered(f)' /\ ~Lost(f)' /\ ~Waiting(f)' /\ f \notin buried'
    BY <1>3, <1>4, <1>5, <2>1, <2>4 DEF Delivered, Lost, Sole
  <2>6. Sole(f)'
    BY <1>5, <2>5 DEF Sole
  <2>7. hand' # f
    BY <1>3, <2>1, NamesAssumption
  <2>8. \A a \in aimed'[f] : Gets(a, f)'
    BY <1>3, <1>4, <2>1, <2>4 DEF FrameInv, TypeOK
  <2>9. FrameInv(f)'
    BY <1>3, <1>4, <1>5, <2>1, <2>4, <2>5, <2>6, <2>7, <2>8 DEF FrameInv
  <2>10. HandInv'
    BY <2>1 DEF HandInv, Holding
  <2> QED BY <1>1, <1>3, <1>4, <2>1, <2>3, <2>9, <2>10, HandSafe
<1> QED BY <1>6, <1>7, <1>8

\* A crash loses what was only in hand, and nothing else.
LEMMA CrashSafe ==
    ASSUME Inv, TypeOK', Crash
    PROVE  Safe'
<1> USE DEF Inv, Safe
<1>1. PICK f : f = hand
  OBVIOUS
<1>2. /\ UNCHANGED <<egress, sent, placed, buried, aimed, said>>
      /\ hand' = Nobody /\ pc' = "down" /\ pc' \notin Holding
  BY DEF Crash, lists, Holding
<1>3. HandInv'
  BY <1>2 DEF HandInv, Holding
<1>4. CASE pc \notin Holding
  <2>1. UNCHANGED gone
    BY <1>4 DEF Crash
  <2> QED BY <1>2, <1>3, <1>4, <2>1, QuietSafe
<1>5. CASE pc \in Holding
  <2>1. hand # Nobody /\ said[hand] = "popped" /\ gone' = gone \cup {hand}
    BY <1>5 DEF Crash, TypeOK, HandInv, Holding
  <2>2. /\ f \in Frames /\ f \in sent /\ FrameInv(f)
        /\ ~Waiting(f) /\ ~Delivered(f) /\ f \notin buried
        /\ \A a \in Agents : ~In(placed[a], Notice(f))
    BY <1>1, <1>5, <2>1, HandFacts
  <2>3. ~Waiting(f)' /\ ~Delivered(f)' /\ ~Held(f)' /\ Lost(f)'
    BY <1>1, <1>2, <2>1, <2>2 DEF Waiting, Delivered, Gets, Stamped, Held, Lost
  <2>4. Sole(f)'
    BY <1>2, <2>2, <2>3 DEF Sole
  <2>5. FrameInv(f)'
    BY <1>1, <1>2, <2>1, <2>2, <2>3, <2>4 DEF FrameInv
  <2> QED BY <1>1, <1>2, <1>3, <2>1, <2>2, <2>5, HandSafe
<1> QED BY <1>4, <1>5

-----------------------------------------------------------------------------
(* The theorems *)

LEMMA InitInv == Init => Inv
<1> SUFFICES ASSUME Init PROVE Inv
  OBVIOUS
<1>1. TypeOK
  BY InitTyped
<1>2. \A a \in Agents : egress[a] = <<>> /\ placed[a] = <<>>
  BY DEF Init
<1>3. \A a \in Agents : \A x : ~In(egress[a], x) /\ ~In(placed[a], x)
  BY <1>2 DEF In
<1>4. QueueInv /\ \A a \in Agents : IsInjective(placed[a])
  BY <1>2, <1>3 DEF QueueInv, IsInjective, Init
<1>5. HandInv
  BY DEF Init, HandInv, Holding
<1>6. ASSUME NEW f \in Frames PROVE FrameInv(f)
  <2>1. Home[f] \in Agents
    BY ItemFacts
  <2>2. said[f] = "none" /\ aimed[f] = {} /\ f \notin sent /\ f \notin buried /\ f \notin gone
    BY DEF Init
  <2>3. ~Waiting(f) /\ ~Held(f) /\ ~Delivered(f) /\ ~Lost(f)
    BY <1>3, <2>1, <2>2, NamesAssumption DEF Waiting, Held, Delivered, Gets, Lost, Init
  <2> QED BY <1>3, <2>2, <2>3 DEF FrameInv, Fresh
<1> QED BY <1>1, <1>4, <1>5, <1>6 DEF Inv, Safe

LEMMA StepInv == Inv /\ [Next]_vars => Inv'
<1> SUFFICES ASSUME Inv, [Next]_vars PROVE Inv'
  OBVIOUS
<1>1. TypeOK'
  BY NextTyped DEF Inv, Safe
<1>2. Environment => Safe'
  BY SendSafe, LookSafe DEF Environment
<1>3. Step \/ Forward => Safe'
  BY <1>1, PopSafe, LookSafe, LookupSafe, AdmitSafe DEF Step, Forward
<1>4. Retry \/ Dispose \/ Report => Safe'
  BY <1>1, LookSafe, DisposeSafe, ReportSafe DEF Retry, Report
<1>5. Crash \/ Restart \/ (\E a \in Agents : TrimDead(a)) \/ UNCHANGED vars => Safe'
  BY <1>1, CrashSafe, LookSafe
<1>6. Safe'
  BY <1>2, <1>3, <1>4, <1>5 DEF Next, Work
<1> QED BY <1>1, <1>6 DEF Inv

\* Everything below holds in every reachable state.
THEOREM Safety == Spec => []Inv
<1> QED BY InitInv, StepInv, PTL DEF Spec

\* Every variable of the switch keeps its type, and ingress its cap.
THEOREM TypeCorrect == Spec => []TypeOK
<1>1. Inv => TypeOK
  BY DEF Inv
<1> QED BY <1>1, Safety, PTL

\* No frame is lost but by a crash, an unknown outcome or the announced failure
\* of its dead letter, and none is in two places (core/service.py _forward).
THEOREM FramesKept == Spec => []FrameKept
<1>1. Inv => FrameKept
  <2> SUFFICES ASSUME Inv PROVE FrameKept
    OBVIOUS
  <2>1. \A f \in sent : Sole(f)
    BY DEF Inv, Safe, FrameInv, TypeOK
  <2> QED BY <2>1, SoleKept DEF FrameKept
<1> QED BY <1>1, Safety, PTL

\* A frame is admitted to all its recipients or to none, to each once
\* (core/queues.py _ADMIT_INGRESS).
THEOREM AdmittedWhole == Spec => []AllOrNone
<1>1. Inv => AllOrNone
  BY DEF Inv, Safe, FrameInv, AllOrNone
<1> QED BY <1>1, Safety, PTL

\* The custody records of the switch are true when written and stay so.
THEOREM RecordsTrue == Spec => []RecordTrue
<1>1. Inv => RecordTrue
  BY DEF Inv, Safe, FrameInv, RecordTrue
<1> QED BY <1>1, Safety, PTL

-----------------------------------------------------------------------------
(* Rotation: nobody is passed over more often than there are other members.  *)

\* The place of a among the members S, and its distance from the start of the
\* rotation: Index and Rotated of Switch, for any set of members.
Rank(S, a) == Cardinality({b \in S : b < a})

Turn(S, start, a) == (Rank(S, a) - start + Cardinality(S)) % Cardinality(S)

\* Between the scan and the pop the keys are the rotation of the members that the
\* scan saw, and the offset is one further.
ScanInv ==
    pc = "pop" =>
        /\ DOMAIN keys # {}
        /\ \E start \in 0 .. Cardinality(DOMAIN keys) - 1 :
             /\ \A a \in DOMAIN keys : keys[a] = Turn(DOMAIN keys, start, a)
             /\ offset = (start + 1) % Cardinality(DOMAIN keys)

\* How many queues the next pop, or the one after the next scan, looks at before a's.
Before(a) == IF pc = "pop" THEN keys[a]
             ELSE Turn(registry, offset % Cardinality(registry), a)

\* Each time a queue is passed over, one queue fewer is before it: the inductive
\* form of FairTurn.
TurnInv ==
    \A a \in Agents : passed[a] > 0 =>
        /\ a \in registry
        /\ pc # "down"
        /\ pc = "pop" => DOMAIN keys = registry
        /\ passed[a] + Before(a) < Cardinality(registry)

\* The rotation as arithmetic: a place from the start on counts from the start, one
\* before it from the end.
LEMMA Rotation ==
    ASSUME NEW n \in Nat \ {0}
    PROVE  \A i, s \in 0 .. n - 1 : (i - s + n) % n = IF i >= s THEN i - s ELSE i - s + n
<1> SUFFICES ASSUME NEW i \in 0 .. n - 1, NEW s \in 0 .. n - 1
             PROVE  (i - s + n) % n = IF i >= s THEN i - s ELSE i - s + n
  OBVIOUS
<1>1. ASSUME NEW x \in 0 .. n - 1 PROVE x % n = x
  BY <1>1
<1>2. ASSUME NEW x \in 0 .. n - 1 PROVE (x + n) % n = x
  BY <1>2
<1>3. CASE i >= s
  <2>1. i - s \in 0 .. n - 1 /\ i - s + n = (i - s) + n
    BY <1>3
  <2> QED BY <1>2, <1>3, <2>1
<1>4. CASE i < s
  <2>1. i - s + n \in 0 .. n - 1
    BY <1>4
  <2> QED BY <1>1, <1>4, <2>1
<1> QED BY <1>3, <1>4

\* The start itself goes round.
LEMMA NextStart ==
    ASSUME NEW n \in Nat \ {0}
    PROVE  \A s \in 0 .. n - 1 : /\ s % n = s
                                 /\ (s + 1) % n = IF s + 1 = n THEN 0 ELSE s + 1
OBVIOUS

\* Members have different places among the members, counted from 0.
LEMMA RankFacts ==
    ASSUME NEW S, S \subseteq Nat, IsFiniteSet(S)
    PROVE  /\ Cardinality(S) \in Nat
           /\ S # {} => Cardinality(S) > 0
           /\ \A a \in S : Rank(S, a) \in 0 .. Cardinality(S) - 1
           /\ \A a, b \in S : Rank(S, a) = Rank(S, b) => a = b
<1> DEFINE Below(a) == {b \in S : b < a}
<1>1. /\ Cardinality(S) \in Nat
      /\ S # {} => Cardinality(S) > 0
  <2>1. PICK n \in Nat : n = Cardinality(S)
    BY FS_CardinalityType
  <2>2. Cardinality(S) = 0 <=> S = {}
    BY FS_EmptySet
  <2>3. n # 0 => n > 0
    OBVIOUS
  <2> QED BY <2>1, <2>2, <2>3
<1>2. ASSUME NEW a \in S
      PROVE  /\ IsFiniteSet(Below(a))
             /\ Cardinality(Below(a)) \in Nat
             /\ Cardinality(Below(a)) < Cardinality(S)
  <2>1. Below(a) \in SUBSET S /\ Below(a) # S
    <3>1. a \in S /\ a \notin Below(a)
      BY <1>2
    <3> QED BY <3>1
  <2>2. IsFiniteSet(Below(a)) /\ Cardinality(Below(a)) <= Cardinality(S)
        /\ Cardinality(Below(a)) # Cardinality(S)
    BY <2>1, FS_Subset
  <2>3. Cardinality(Below(a)) \in Nat
    BY <2>2, FS_CardinalityType
  <2> QED BY <1>1, <2>2, <2>3
<1>3. ASSUME NEW a \in S, NEW b \in S, a < b
      PROVE  Cardinality(Below(a)) < Cardinality(Below(b))
  <2>1. Below(a) \in SUBSET Below(b) /\ Below(a) # Below(b)
    <3>1. a \in Below(b) /\ a \notin Below(a)
      BY <1>3
    <3>2. ASSUME NEW c \in Below(a) PROVE c \in Below(b)
      BY <1>3
    <3> QED BY <3>1, <3>2
  <2>2. Cardinality(Below(a)) <= Cardinality(Below(b))
        /\ Cardinality(Below(a)) # Cardinality(Below(b))
    BY <1>2, <2>1, FS_Subset
  <2> QED BY <1>2, <2>2
<1>4. \A a \in S : Rank(S, a) = Cardinality(Below(a))
  BY DEF Rank
<1> HIDE DEF Below
<1>5. \A a \in S : Rank(S, a) \in 0 .. Cardinality(S) - 1
  BY <1>1, <1>2, <1>4
<1>6. ASSUME NEW a \in S, NEW b \in S, Rank(S, a) = Rank(S, b) PROVE a = b
  <2>1. ~(a < b) /\ ~(b < a)
    BY <1>2, <1>3, <1>4, <1>6
  <2> QED BY <2>1
<1> QED BY <1>1, <1>5, <1>6

\* Members have different turns; when the rotation has gone on by one, every turn
\* but the first has come one nearer.
LEMMA TurnFacts ==
    ASSUME NEW S, S \subseteq Nat, IsFiniteSet(S),
           NEW start \in 0 .. Cardinality(S) - 1, NEW a \in S
    PROVE  /\ Turn(S, start, a) \in 0 .. Cardinality(S) - 1
           /\ \A b \in S : Turn(S, start, a) = Turn(S, start, b) => a = b
           /\ start % Cardinality(S) = start
           /\ (start + 1) % Cardinality(S) \in 0 .. Cardinality(S) - 1
           /\ Turn(S, start, a) > 0 =>
                Turn(S, (start + 1) % Cardinality(S), a) = Turn(S, start, a) - 1
<1>1. PICK n \in Nat \ {0} : n = Cardinality(S)
  <2>1. S # {}
    OBVIOUS
  <2>2. Cardinality(S) \in Nat /\ Cardinality(S) > 0
    BY <2>1, RankFacts
  <2> QED BY <2>2
<1>2. start \in 0 .. n - 1
  BY <1>1
<1>3. \A b \in S : Rank(S, b) \in 0 .. n - 1
  BY <1>1, RankFacts
<1>4. PICK next \in 0 .. n - 1 :
        next = (start + 1) % n /\ next = IF start + 1 = n THEN 0 ELSE start + 1
  <2>1. (start + 1) % n = IF start + 1 = n THEN 0 ELSE start + 1
    BY <1>2, NextStart
  <2> QED BY <1>2, <2>1
<1>5. \A i, s \in 0 .. n - 1 : (i - s + n) % n = IF i >= s THEN i - s ELSE i - s + n
  BY Rotation
<1>6. \A b \in S :
        /\ Turn(S, start, b) = IF Rank(S, b) >= start THEN Rank(S, b) - start
                                                      ELSE Rank(S, b) - start + n
        /\ Turn(S, next, b) = IF Rank(S, b) >= next THEN Rank(S, b) - next
                                                    ELSE Rank(S, b) - next + n
  <2> SUFFICES ASSUME NEW b \in S
               PROVE  /\ Turn(S, start, b) = IF Rank(S, b) >= start THEN Rank(S, b) - start
                                                          ELSE Rank(S, b) - start + n
                      /\ Turn(S, next, b) = IF Rank(S, b) >= next THEN Rank(S, b) - next
                                                        ELSE Rank(S, b) - next + n
    OBVIOUS
  <2>1. PICK i \in 0 .. n - 1 : i = Rank(S, b)
    BY <1>3
  <2>2. (i - start + n) % n = IF i >= start THEN i - start ELSE i - start + n
    BY <1>2, <1>5
  <2>3. (i - next + n) % n = IF i >= next THEN i - next ELSE i - next + n
    BY <1>5
  <2> QED BY <1>1, <2>1, <2>2, <2>3 DEF Turn
<1>7. \A b \in S : Rank(S, a) = Rank(S, b) => a = b
  BY RankFacts
<1>8. start % n = start
  BY <1>2, NextStart
<1>9. /\ Turn(S, start, a) \in 0 .. n - 1
      /\ \A b \in S : Turn(S, start, a) = Turn(S, start, b) => Rank(S, a) = Rank(S, b)
      /\ Turn(S, start, a) > 0 => Turn(S, next, a) = Turn(S, start, a) - 1
  BY <1>2, <1>3, <1>4, <1>6
<1> QED BY <1>1, <1>4, <1>7, <1>8, <1>9

\* What a step keeps that touches neither the rotation nor the counts.
LEMMA QuietTurn ==
    ASSUME ScanInv, TurnInv, UNCHANGED <<registry, offset, keys, passed>>,
           pc' = pc \/ (pc \notin {"pop", "down"} /\ pc' \notin {"pop", "down"})
    PROVE  (ScanInv /\ TurnInv)'
<1>1. /\ pc' = "pop" <=> pc = "pop"
      /\ pc' = "down" <=> pc = "down"
  OBVIOUS
<1>2. \A a : Before(a)' = Before(a)
  BY <1>1 DEF Before, Turn, Rank
<1>3. ScanInv'
  BY <1>1 DEF ScanInv, Turn, Rank
<1>4. TurnInv'
  BY <1>1, <1>2 DEF TurnInv
<1> QED BY <1>3, <1>4

\* Where counting starts again there is nothing to show.
LEMMA FreshTurn ==
    ASSUME ScanInv, \A a \in Agents : passed'[a] = 0,
           pc' # "pop" \/ UNCHANGED <<pc, offset, keys>>
    PROVE  (ScanInv /\ TurnInv)'
<1>1. ScanInv'
  BY DEF ScanInv, Turn, Rank
<1>2. TurnInv'
  BY DEF TurnInv
<1> QED BY <1>1, <1>2

\* The scan orders the members and moves the offset on.
LEMMA ScanTurn ==
    ASSUME TypeOK, ScanInv, TurnInv, Scan
    PROVE  (ScanInv /\ TurnInv)'
<1> DEFINE S == registry
           start == offset % Cardinality(S)
<1>1. /\ S \subseteq Nat /\ IsFiniteSet(S) /\ S # {}
      /\ offset \in Nat
  BY NamesAssumption, FS_Subset DEF TypeOK, Scan
<1>2. PICK n \in Nat \ {0} : n = Cardinality(S)
  <2>1. Cardinality(S) \in Nat /\ Cardinality(S) > 0
    BY <1>1, RankFacts
  <2> QED BY <2>1
<1>3. PICK s \in 0 .. n - 1 : s = offset % n
  BY <1>1
<1>4. /\ pc = "idle" /\ pc' = "pop"
      /\ keys' = Rotated(registry, start)
      /\ offset' = (start + 1) % Cardinality(S)
      /\ UNCHANGED <<registry, passed>>
  BY DEF Scan, office, history
<1>5. start = s
  BY <1>2, <1>3
<1>6. /\ DOMAIN keys' = S
      /\ \A a \in S : keys'[a] = Turn(S, s, a)
  BY <1>4, <1>5 DEF Rotated, Index, Turn, Rank
<1>7. offset' = (s + 1) % Cardinality(S) /\ s \in 0 .. Cardinality(S) - 1
  BY <1>2, <1>4, <1>5
<1>8. ScanInv'
  BY <1>1, <1>6, <1>7 DEF ScanInv, Turn, Rank
<1>9. TurnInv'
  <2> SUFFICES ASSUME NEW a \in Agents, passed[a] > 0
               PROVE  a \in S /\ passed[a] + keys'[a] < Cardinality(S)
    BY <1>4, <1>6 DEF TurnInv, Before
  <2>1. a \in S /\ passed[a] + Turn(S, s, a) < Cardinality(S)
    BY <1>4, <1>5 DEF TurnInv, Before
  <2> QED BY <1>6, <2>1
<1> QED BY <1>8, <1>9

\* The pop serves one queue; those that wait behind it come one nearer.
LEMMA PopTurn ==
    ASSUME TypeOK, ScanInv, TurnInv, NEW a \in Agents, Pop(a)
    PROVE  (ScanInv /\ TurnInv)'
<1> DEFINE S == DOMAIN keys
<1>1. /\ pc = "pop" /\ pc' = "popped"
      /\ UNCHANGED <<registry, offset>>
      /\ Served(a) /\ PassOver(a)
  BY DEF Pop, office
<1>2. /\ S \subseteq Nat /\ IsFiniteSet(S) /\ S # {}
      /\ a \in S
      /\ passed \in [Agents -> Nat]
  BY <1>1, NamesAssumption, FS_Subset DEF TypeOK, ScanInv, Served, Waits
<1>3. PICK s \in 0 .. Cardinality(S) - 1 :
        /\ \A b \in S : keys[b] = Turn(S, s, b)
        /\ offset = (s + 1) % Cardinality(S)
  BY <1>1 DEF ScanInv
<1>4. ScanInv'
  BY <1>1 DEF ScanInv
<1>5. ASSUME NEW b \in Agents, passed'[b] > 0
      PROVE  b \in registry /\ passed'[b] + Before(b)' < Cardinality(registry)
  <2>1. /\ Waits(b) /\ b # a /\ S = registry
        /\ passed'[b] = passed[b] + 1
    BY <1>1, <1>5 DEF PassOver
  <2>2. b \in S
    BY <2>1 DEF Waits
  <2>3. /\ Turn(S, s, a) \in 0 .. Cardinality(S) - 1
        /\ Turn(S, s, b) \in 0 .. Cardinality(S) - 1
        /\ Turn(S, s, a) # Turn(S, s, b)
    BY <1>2, <2>1, <2>2, TurnFacts
  <2>4. Turn(S, s, a) <= Turn(S, s, b)
    BY <1>1, <1>2, <1>3, <2>1, <2>2 DEF Served
  <2>5. Turn(S, s, b) > 0
    BY <2>3, <2>4
  <2>6. PICK next \in 0 .. Cardinality(S) - 1 :
          /\ next = offset
          /\ Turn(S, next, b) = Turn(S, s, b) - 1
    BY <1>2, <1>3, <2>2, <2>5, TurnFacts
  <2>7. next % Cardinality(S) = next
    BY <1>2, <2>2, TurnFacts
  <2>8. Before(b)' = Turn(S, s, b) - 1
    BY <1>1, <2>1, <2>6, <2>7 DEF Before, Turn, Rank
  <2>9. passed[b] + Turn(S, s, b) < Cardinality(S)
    <3>1. passed[b] \in Nat
      BY <1>2
    <3>2. CASE passed[b] > 0
      BY <1>1, <1>3, <2>1, <2>2, <3>2 DEF TurnInv, Before
    <3>3. CASE passed[b] = 0
      BY <1>2, <2>3, <3>3, RankFacts
    <3> QED BY <3>1, <3>2, <3>3
  <2>10. passed[b] \in Nat /\ Cardinality(S) \in Nat
    BY <1>2, RankFacts
  <2> QED BY <2>1, <2>2, <2>3, <2>8, <2>9, <2>10
<1>6. TurnInv'
  BY <1>1, <1>5 DEF TurnInv
<1> QED BY <1>4, <1>6

\* Every step keeps the turns.
LEMMA StepTurn ==
    ASSUME TypeOK, ScanInv, TurnInv, [Next]_vars
    PROVE  (ScanInv /\ TurnInv)'
<1>1. passed \in [Agents -> Nat]
  BY DEF TypeOK
<1>2. CASE \/ \E f \in Frames : Send(f)
           \/ \E a \in Agents : Drain(a) \/ TrimDead(a)
           \/ Rejected \/ UNCHANGED vars
  <2>1. UNCHANGED <<registry, offset, keys, passed>>
    BY <1>2 DEF Send, Drain, TrimDead, Rejected, vars, office, history
  <2>2. pc' = pc \/ (pc \notin {"pop", "down"} /\ pc' \notin {"pop", "down"})
    BY <1>2 DEF Send, Drain, TrimDead, Rejected, vars, office, history
  <2> QED BY <2>1, <2>2, QuietTurn
<1>3. CASE \E a \in Agents : Hire(a) \/ Retire(a)
  BY <1>3, FreshTurn DEF Hire, Retire, Unpassed
<1>4. CASE PopNothing \/ Crash \/ \E a \in Agents : PopLost(a)
  BY <1>4, FreshTurn DEF PopNothing, Crash, PopLost, Unpassed
<1>5. CASE Restart
  <2>1. \A a \in Agents : passed'[a] = 0
    BY <1>1, <1>5 DEF Restart, TurnInv, history
  <2> QED BY <1>5, <2>1, FreshTurn DEF Restart
<1>6. CASE Scan
  BY <1>6, ScanTurn
<1>7. CASE \E a \in Agents : Pop(a)
  BY <1>7, PopTurn
<1>8. CASE Forward \/ Exhausted
  <2>1. /\ UNCHANGED <<registry, offset, keys, passed>>
        /\ pc \notin {"pop", "down"} /\ pc' \notin {"pop", "down"}
    BY <1>8 DEF Forward, Examine, Lookup, NoSuchDestination, NoRecipients, Admit,
       Full, AdmitUnknown, Exhausted, EndStep, GoOn, WillBury, office, history
  <2> QED BY <2>1, QuietTurn
<1>9. CASE Dispose
  <2>1. /\ UNCHANGED <<registry, offset, keys, passed>>
        /\ pc \notin {"pop", "down"} /\ pc' \notin {"pop", "down"}
    BY <1>9 DEF Dispose, DeadLetter, DeadLetterExhausted, DeadLetterUnknown,
       EndStep, GoOn, office, history
  <2> QED BY <2>1, QuietTurn
<1>10. CASE Report
  <2>1. /\ UNCHANGED <<registry, offset, keys, passed>>
        /\ pc \notin {"pop", "down"} /\ pc' \notin {"pop", "down"}
    BY <1>10 DEF Report, ReportForwarded, ReportDead, NotifySender, NotifyNobody,
       EndStep, GoOn, office, history
  <2> QED BY <2>1, QuietTurn
<1> QED BY <1>2, <1>3, <1>4, <1>5, <1>6, <1>7, <1>8, <1>9,
          <1>10
        DEF Next, Environment, Work, Step, Retry

\* Rotation serves every sender: while members do not change and pops succeed, a
\* queue that waits is passed over less often than there are members.
THEOREM FairTurnHolds == Spec => []FairTurn
<1>1. Init => ScanInv /\ TurnInv
  BY DEF Init, ScanInv, TurnInv
<1>2. TypeOK /\ ScanInv /\ TurnInv /\ [Next]_vars => (ScanInv /\ TurnInv)'
  BY StepTurn
<1>3. TypeOK /\ ScanInv /\ TurnInv => FairTurn
  <2> SUFFICES ASSUME TypeOK, ScanInv, TurnInv, NEW a \in Agents, passed[a] > 0
               PROVE  passed[a] < Cardinality(registry)
    BY DEF FairTurn
  <2>1. /\ registry \subseteq Nat /\ IsFiniteSet(registry) /\ a \in registry
        /\ offset \in Nat /\ passed[a] \in Nat
        /\ passed[a] + Before(a) < Cardinality(registry)
    BY NamesAssumption, FS_Subset DEF TypeOK, TurnInv
  <2>2. PICK n \in Nat \ {0} : n = Cardinality(registry)
    <3>1. registry # {}
      BY <2>1
    <3>2. Cardinality(registry) \in Nat /\ Cardinality(registry) > 0
      BY <2>1, <3>1, RankFacts
    <3> QED BY <3>2
  <2>3. Before(a) \in Nat
    <3>1. CASE pc = "pop"
      <4>1. DOMAIN keys = registry
        BY <2>1, <3>1 DEF TurnInv
      <4>2. PICK s \in 0 .. Cardinality(registry) - 1 : keys[a] = Turn(registry, s, a)
        BY <2>1, <3>1, <4>1 DEF ScanInv
      <4>3. Turn(registry, s, a) \in 0 .. Cardinality(registry) - 1
        BY <2>1, <4>2, TurnFacts
      <4>4. Before(a) = Turn(registry, s, a)
        BY <3>1, <4>2 DEF Before
      <4> QED BY <2>2, <4>3, <4>4
    <3>2. CASE pc # "pop"
      <4>1. PICK s \in 0 .. n - 1 : s = offset % n
        BY <2>1, <2>2
      <4>2. s \in 0 .. Cardinality(registry) - 1
        BY <2>2, <4>1
      <4>3. Turn(registry, s, a) \in 0 .. Cardinality(registry) - 1
        BY <2>1, <4>2, TurnFacts
      <4>4. Before(a) = Turn(registry, s, a)
        BY <2>2, <3>2, <4>1 DEF Before
      <4> QED BY <2>2, <4>3, <4>4
    <3> QED BY <3>1, <3>2
  <2> QED BY <2>1, <2>2, <2>3
<1> QED BY <1>1, <1>2, <1>3, TypeCorrect, PTL DEF Spec

-----------------------------------------------------------------------------
(* What Switch's safety does not need and the refinement does: where the     *)
(* switch is on the way to an admission, the header has been read and the    *)
(* recipients are those the header names.                                    *)

\* A frame that is looked up or admitted is routable; a broadcast goes to no
\* copy of its sender, a unicast to its destination alone; only the sender of a
\* broadcast is told of a skipped recipient.
Routed ==
    /\ pc \in {"lookup", "admit"} => hand \notin Unroutable
    /\ pc \in {"admit", "placed", "notice"} =>
         IF Dest[hand] = All THEN Home[hand] \notin dests ELSE dests = {Dest[hand]}
    /\ pc = "notice" => Dest[hand] = All

\* Routed holds from the start.
LEMMA RoutedInit == Init => Routed
BY DEF Init, Routed

\* Every step keeps it: the lookup establishes it, and from there to the end of
\* the step neither the frame in hand nor its recipients change.
LEMMA RoutedStep == TypeOK /\ Routed /\ [Next]_vars => Routed'
<1> SUFFICES ASSUME TypeOK, Routed, [Next]_vars PROVE Routed'
  OBVIOUS
<1>1. ASSUME UNCHANGED <<pc, hand, dests>> PROVE Routed'
  BY <1>1 DEF Routed
<1>2. ASSUME pc' \notin {"lookup", "admit", "placed", "notice"} PROVE Routed'
  BY <1>2 DEF Routed
<1>3. CASE Environment \/ (\E a \in Agents : TrimDead(a)) \/ UNCHANGED vars
  <2>1. UNCHANGED <<pc, hand, dests>>
    BY <1>3 DEF Environment, Send, Drain, Hire, Retire, TrimDead, vars, job
  <2> QED BY <1>1, <2>1
<1>4. CASE Step \/ Dispose \/ Crash \/ Restart
  BY <1>2, <1>4 DEF Step, Scan, PopNothing, Pop, PopLost, Dispose, DeadLetter,
     DeadLetterExhausted, DeadLetterUnknown, EndStep, GoOn, Crash, Restart
<1>5. CASE Forward
  <2>1. CASE Examine
    BY <1>2, <2>1 DEF Examine, WillBury, GoOn, Routed, Unroutable
  <2>2. CASE Lookup
    <3>1. /\ pc = "lookup" /\ pc' = "admit"
          /\ hand' = hand
          /\ dests' = Recipients(hand) /\ Recipients(hand) # {}
      BY <2>2 DEF Lookup, GoOn
    <3>2. CASE Dest[hand] = All
      BY <3>1, <3>2 DEF Routed, Recipients, Broadcast
    <3>3. CASE Dest[hand] # All
      <4>1. dests' = {Dest[hand]}
        BY <3>1, <3>3 DEF Recipients, Broadcast
      <4> QED BY <3>1, <3>3, <4>1 DEF Routed
    <3> QED BY <3>2, <3>3
  <2>3. CASE NoSuchDestination \/ NoRecipients \/ Full \/ AdmitUnknown
    BY <1>2, <2>3 DEF NoSuchDestination, NoRecipients, Full, AdmitUnknown, WillBury,
       GoOn, EndStep
  <2>4. CASE Admit
    BY <2>4 DEF Admit, GoOn, Routed
  <2> QED BY <1>5, <2>1, <2>2, <2>3, <2>4 DEF Forward
<1>6. CASE Retry
  BY <1>1, <1>2, <1>6 DEF Retry, Rejected, Exhausted, WillBury, GoOn
<1>7. CASE Report
  <2>1. CASE ReportForwarded
    <3>1. CASE Skipped = {}
      BY <1>2, <2>1, <3>1 DEF ReportForwarded, EndStep
    <3>2. CASE Skipped # {}
      <4>1. pc = "placed" /\ pc' = "notice" /\ UNCHANGED <<hand, dests>>
        BY <2>1, <3>2 DEF ReportForwarded, GoOn
      <4>2. Dest[hand] = All
        BY <3>2 DEF Skipped, Broadcast
      <4> QED BY <4>1, <4>2 DEF Routed
    <3> QED BY <3>1, <3>2
  <2>2. CASE ReportDead \/ NotifySender \/ NotifyNobody
    BY <1>2, <2>2 DEF ReportDead, NotifySender, NotifyNobody, EndStep
  <2> QED BY <1>7, <2>1, <2>2 DEF Report
<1> QED BY <1>3, <1>4, <1>5, <1>6, <1>7 DEF Next, Work

-----------------------------------------------------------------------------
(* The refinement mapping: the frame in hand is still the oldest of its      *)
(* sender's queue.                                                           *)


\* What pending is.
LEMMA PendingIs ==
    ASSUME TypeOK, NEW a \in Agents
    PROVE  /\ pc \in Holding /\ Home[hand] = a => pending[a] = <<hand>> \o egress[a]
           /\ ~(pc \in Holding /\ Home[hand] = a) => pending[a] = egress[a]
           /\ pending = [b \in Agents |-> pending[b]]
BY DEF pending

\* The same after the step.
LEMMA PendingNext ==
    ASSUME NEW a \in Agents
    PROVE  /\ pc' \in Holding /\ Home[hand'] = a => pending'[a] = <<hand'>> \o egress'[a]
           /\ ~(pc' \in Holding /\ Home[hand'] = a) => pending'[a] = egress'[a]
           /\ pending' = [b \in Agents |-> pending'[b]]
BY DEF pending

\* The frame in hand is at the head of its sender's open frames.
LEMMA HandFirst ==
    ASSUME Inv, pc \in Holding
    PROVE  /\ hand \in Frames /\ Home[hand] \in Agents
           /\ pending[Home[hand]] # <<>>
           /\ Head(pending[Home[hand]]) = hand
           /\ Tail(pending[Home[hand]]) = egress[Home[hand]]
<1>1. hand # Nobody
  BY DEF Inv, TypeOK, Holding
<1>2. hand \in Frames /\ Home[hand] \in Agents
  BY <1>1, HandFacts
<1>3. egress[Home[hand]] \in Seq(Frames)
  BY <1>2 DEF Inv, TypeOK
<1>4. pending[Home[hand]] = <<hand>> \o egress[Home[hand]]
  BY <1>2, PendingIs DEF Inv
<1> QED BY <1>2, <1>3, <1>4, FrontFacts

\* A step after which the switch no longer holds the frame takes it from its
\* sender's open frames.
LEMMA HandLeaves ==
    ASSUME Inv, pc \in Holding, pc' \notin Holding, UNCHANGED <<egress, sent>>
    PROVE  Promise!Leaves(Home[hand], hand)
<1>1. /\ hand \in Frames /\ Home[hand] \in Agents
      /\ pending[Home[hand]] # <<>>
      /\ Head(pending[Home[hand]]) = hand
      /\ Tail(pending[Home[hand]]) = egress[Home[hand]]
  BY HandFirst
<1>2. \A a \in Agents : pending'[a] = egress[a]
  BY PendingNext
<1>3. \A a \in Agents : a # Home[hand] => pending[a] = egress[a]
  BY PendingIs DEF Inv
<1>4. /\ pending = [b \in Agents |-> pending[b]]
      /\ pending' = [b \in Agents |-> pending'[b]]
  BY DEF pending
<1>5. pending' = [pending EXCEPT ![Home[hand]] = Tail(@)]
  BY <1>1, <1>2, <1>3, <1>4
<1> QED BY <1>1, <1>5 DEF Promise!Leaves

\* A step in which the switch holds on to what it held, or to nothing.
LEMMA PendingStutter ==
    ASSUME UNCHANGED <<egress, sent, placed, buried>>,
           \/ hand' = hand /\ (pc \in Holding <=> pc' \in Holding)
           \/ pc \notin Holding /\ pc' \notin Holding
    PROVE  UNCHANGED <<sent, pending, placed, buried>>
<1>1. /\ pending = [a \in Agents |->
           IF pc \in Holding /\ Home[hand] = a THEN <<hand>> \o egress[a] ELSE egress[a]]
      /\ pending' = [a \in Agents |->
           IF pc' \in Holding /\ Home[hand'] = a THEN <<hand'>> \o egress'[a] ELSE egress'[a]]
  BY DEF pending
<1> QED BY <1>1

-----------------------------------------------------------------------------
(* Which step of the promise each step of the switch is.                     *)

\* A step of the promise, or none.
Kept == [Promise!Next]_<<sent, pending, placed, buried>>

\* Sending queues the frame behind the sender's open frames.
LEMMA SendStep ==
    ASSUME Inv, NEW f \in Frames, Send(f)
    PROVE  Kept
<1>1. /\ f \notin sent /\ sent' = sent \cup {f}
      /\ egress' = [egress EXCEPT ![Home[f]] = Append(@, f)]
      /\ UNCHANGED <<pc, hand, placed, buried>>
  BY DEF Send, job
<1>2. Home[f] \in Agents /\ egress \in [Agents -> Seq(Frames)]
  BY ItemFacts DEF Inv, TypeOK
<1>3. \A a \in Agents : egress'[a] = IF a = Home[f] THEN Append(egress[a], f) ELSE egress[a]
  BY <1>1, <1>2
<1>4. ASSUME NEW a \in Agents
      PROVE  pending'[a] = IF a = Home[f] THEN Append(pending[a], f) ELSE pending[a]
  <2>1. CASE pc \in Holding /\ Home[hand] = a
    <3>1. hand \in Frames
      BY <2>1, HandFirst
    <3>2. pending[a] = <<hand>> \o egress[a] /\ pending'[a] = <<hand>> \o egress'[a]
      BY <1>1, <2>1, PendingIs, PendingNext DEF Inv
    <3>3. Append(<<hand>> \o egress[a], f) = <<hand>> \o Append(egress[a], f)
      BY <1>2, <3>1, FrontFacts
    <3> QED BY <1>3, <3>2, <3>3
  <2>2. CASE ~(pc \in Holding /\ Home[hand] = a)
    <3>1. pending[a] = egress[a] /\ pending'[a] = egress'[a]
      BY <1>1, <2>2, PendingIs, PendingNext DEF Inv
    <3> QED BY <1>3, <3>1
  <2> QED BY <2>1, <2>2
<1>5. /\ pending = [b \in Agents |-> pending[b]]
      /\ pending' = [b \in Agents |-> pending'[b]]
  BY DEF pending
<1>6. pending' = [pending EXCEPT ![Home[f]] = Append(@, f)]
  BY <1>2, <1>4, <1>5
<1>7. Promise!Send(f)
  BY <1>1, <1>6 DEF Promise!Send
<1> QED BY <1>7 DEF Promise!Next, Kept

\* The pop moves the head of a queue into the hand, where it stays the sender's
\* oldest open frame.
LEMMA PopStep ==
    ASSUME Inv, NEW a \in Agents, Pop(a)
    PROVE  UNCHANGED <<sent, pending, placed, buried>>
<1>1. /\ pc = "pop" /\ pc' = "popped"
      /\ egress[a] # <<>>
      /\ egress' = [egress EXCEPT ![a] = Tail(@)]
      /\ hand' = Head(egress[a])
      /\ UNCHANGED <<sent, placed, buried>>
  BY DEF Pop, Served, Waits, Unqueue
<1>2. /\ egress \in [Agents -> Seq(Frames)]
      /\ Home[Head(egress[a])] = a
  BY UnqueueMoves DEF Pop, Served, Waits, Inv, Safe, TypeOK
<1>3. pc \notin Holding /\ pc' \in Holding
  BY <1>1 DEF Holding
<1>4. \A b \in Agents : pending[b] = egress[b]
  BY <1>3, PendingIs DEF Inv
<1>5. pending'[a] = egress[a]
  <2>1. pending'[a] = <<Head(egress[a])>> \o Tail(egress[a])
    BY <1>1, <1>2, <1>3, PendingNext
  <2> QED BY <1>1, <1>2, <2>1, FrontBack
<1>6. \A b \in Agents \ {a} : pending'[b] = egress[b]
  BY <1>1, <1>2, PendingNext
<1>7. /\ pending = [b \in Agents |-> pending[b]]
      /\ pending' = [b \in Agents |-> pending'[b]]
  BY DEF pending
<1> QED BY <1>1, <1>4, <1>5, <1>6, <1>7

\* A pop whose reply is lost loses the head of a queue.
LEMMA PopLostStep ==
    ASSUME Inv, NEW a \in Agents, PopLost(a)
    PROVE  Kept
<1> DEFINE f == Head(egress[a])
<1>1. /\ pc = "pop" /\ pc' = "idle"
      /\ egress[a] # <<>>
      /\ egress' = [egress EXCEPT ![a] = Tail(@)]
      /\ UNCHANGED <<sent, placed, buried>>
  BY DEF PopLost, Served, Waits, Unqueue
<1>2. /\ f \in Frames /\ Home[f] = a
      /\ egress \in [Agents -> Seq(Frames)]
  BY UnqueueMoves DEF PopLost, Served, Waits, Inv, Safe, TypeOK
<1>3. pc \notin Holding /\ pc' \notin Holding
  BY <1>1 DEF Holding
<1>4. \A b \in Agents : pending[b] = egress[b] /\ pending'[b] = egress'[b]
  BY <1>3, PendingIs, PendingNext DEF Inv
<1>5. /\ pending = [b \in Agents |-> pending[b]]
      /\ pending' = [b \in Agents |-> pending'[b]]
  BY DEF pending
<1>6. pending' = [pending EXCEPT ![a] = Tail(@)]
  BY <1>1, <1>2, <1>4, <1>5
<1>7. Promise!Lose(Home[f], f)
  BY <1>1, <1>2, <1>4, <1>6 DEF Promise!Lose, Promise!Leaves
<1> QED BY <1>2, <1>7 DEF Promise!Next, Kept

\* The frame leaves the hand for nowhere.
LEMMA LoseStep ==
    ASSUME Inv, pc \in Holding, pc' \notin Holding,
           UNCHANGED <<egress, sent, placed, buried>>
    PROVE  Kept
<1>1. Promise!Lose(Home[hand], hand)
  BY HandLeaves DEF Promise!Lose
<1> QED BY <1>1, HandFirst DEF Promise!Next, Kept

\* It becomes a dead letter.
LEMMA BuryStep ==
    ASSUME Inv, pc = "bury", pc' \notin Holding, Bury, UNCHANGED <<egress, sent, placed>>
    PROVE  Kept
<1>1. pc \in Holding
  BY DEF Holding
<1>2. Promise!Bury(Home[hand], hand)
  BY <1>1, HandLeaves DEF Promise!Bury, Bury
<1> QED BY <1>1, <1>2, HandFirst DEF Promise!Next, Kept

\* It is admitted at every recipient at once.
LEMMA AdmitStep ==
    ASSUME Inv, Routed, pc = "admit", pc' \notin Holding, Place(dests, Stamped(hand)),
           UNCHANGED <<egress, sent, buried>>
    PROVE  Kept
<1>1. pc \in Holding
  BY DEF Holding
<1>2. /\ Promise!Leaves(Home[hand], hand)
      /\ hand \in Frames
  BY <1>1, HandLeaves, HandFirst
<1>3. dests \in SUBSET Agents
  BY DEF Inv, TypeOK
<1>4. /\ hand \notin Unroutable
      /\ IF Dest[hand] = All THEN Home[hand] \notin dests ELSE dests = {Dest[hand]}
  BY DEF Routed
<1>5. placed' = [a \in Agents |->
        IF a \in dests THEN Append(placed[a], Promise!Copy(hand)) ELSE placed[a]]
  BY DEF Place, AppendTo, Stamped, Promise!Copy
<1>6. Promise!Deliver(Home[hand], hand, dests)
  BY <1>2, <1>4, <1>5 DEF Promise!Deliver
<1> QED BY <1>2, <1>3, <1>6 DEF Promise!Next, Kept

\* The sender of a broadcast is told of it once, after it was delivered.
LEMMA NotifyStep ==
    ASSUME Inv, Routed, NotifySender
    PROVE  Kept
<1>1. /\ pc = "notice" /\ pc' = "idle"
      /\ Place({Home[hand]}, Notice(hand))
      /\ UNCHANGED <<egress, sent, buried>>
  BY DEF NotifySender, EndStep
<1>2. pc \notin Holding /\ pc' \notin Holding /\ hand # Nobody
  BY <1>1 DEF Holding, Inv, TypeOK
<1>3. hand \in Frames /\ Home[hand] \in Agents /\ FrameInv(hand)
  BY <1>2, HandFacts
<1>4. UNCHANGED pending
  <2>1. /\ pending = [a \in Agents |-> egress[a]]
        /\ pending' = [a \in Agents |-> egress'[a]]
    BY <1>2 DEF pending
  <2> QED BY <1>1, <2>1
<1>5. \E a \in Agents : Promise!Carries(a, Promise!Copy(hand))
  <2>1. Delivered(hand)
    BY <1>1 DEF Inv, Safe, HandInv
  <2> QED BY <2>1 DEF Delivered, Gets, In, Stamped, Promise!Carries, Promise!Copy
<1>6. ~Promise!Carries(Home[hand], Promise!Notice(hand))
  <2>1. ~In(placed[Home[hand]], Notice(hand))
    BY <1>3 DEF FrameInv
  <2> QED BY <2>1 DEF In, Notice, Promise!Carries, Promise!Notice
<1>7. placed' = [placed EXCEPT ![Home[hand]] = Append(@, Promise!Notice(hand))]
  <2>1. placed = [a \in Agents |-> placed[a]]
    BY DEF Inv, TypeOK
  <2>2. placed' = [a \in Agents |->
          IF a = Home[hand] THEN Append(placed[a], Notice(hand)) ELSE placed[a]]
    BY <1>1 DEF Place, AppendTo
  <2> QED BY <1>3, <2>1, <2>2 DEF Notice, Promise!Notice
<1>8. Dest[hand] = All
  BY <1>1 DEF Routed
<1>9. Promise!Notify(hand)
  BY <1>1, <1>4, <1>5, <1>6, <1>7, <1>8 DEF Promise!Notify
<1> QED BY <1>3, <1>9 DEF Promise!Next, Kept

\* A step in which what is promised does not change.
LEMMA QuietStep ==
    ASSUME UNCHANGED <<egress, sent, placed, buried>>,
           \/ hand' = hand /\ (pc \in Holding <=> pc' \in Holding)
           \/ pc \notin Holding /\ pc' \notin Holding
    PROVE  Kept
BY PendingStutter DEF Kept

\* Taking the frame to its recipients, or to the dead list.
LEMMA ForwardStep ==
    ASSUME Inv, Routed, Forward
    PROVE  Kept
<1>1. CASE Examine \/ Lookup \/ NoSuchDestination \/ Full
  <2>1. /\ UNCHANGED <<egress, sent, placed, buried, hand>>
        /\ pc \in Holding /\ pc' \in Holding
    BY <1>1 DEF Examine, Lookup, NoSuchDestination, Full, WillBury, GoOn, lists, history,
       Holding
  <2> QED BY <2>1, QuietStep
<1>2. CASE NoRecipients
  <2>1. /\ UNCHANGED <<egress, sent, placed, buried>>
        /\ pc \in Holding /\ pc' \notin Holding
    BY <1>2 DEF NoRecipients, EndStep, lists, Holding
  <2> QED BY <2>1, LoseStep
<1>3. CASE Admit
  <2>1. /\ UNCHANGED <<egress, sent, buried>>
        /\ pc = "admit" /\ pc' \notin Holding
        /\ Place(dests, Stamped(hand))
    BY <1>3 DEF Admit, GoOn, Holding
  <2> QED BY <2>1, AdmitStep
<1>4. CASE AdmitUnknown
  <2>1. /\ UNCHANGED <<egress, sent, buried>>
        /\ pc = "admit" /\ pc' \notin Holding
        /\ Place(dests, Stamped(hand)) \/ UNCHANGED placed
    BY <1>4 DEF AdmitUnknown, EndStep, Holding
  <2>2. pc \in Holding
    BY <2>1 DEF Holding
  <2> QED BY <2>1, <2>2, AdmitStep, LoseStep
<1> QED BY <1>1, <1>2, <1>3, <1>4 DEF Forward

\* The dead-letter write.
LEMMA DisposeStep ==
    ASSUME Inv, Dispose
    PROVE  Kept
<1>1. /\ UNCHANGED <<egress, sent, placed>>
      /\ pc = "bury" /\ pc' \notin Holding
      /\ Bury \/ UNCHANGED buried
  BY DEF Dispose, DeadLetter, DeadLetterExhausted, DeadLetterUnknown, EndStep, GoOn,
     lists, Holding
<1>2. pc \in Holding
  BY <1>1 DEF Holding
<1> QED BY <1>1, <1>2, BuryStep, LoseStep

\* What follows the write.
LEMMA ReportStep ==
    ASSUME Inv, Routed, Report
    PROVE  Kept
<1>1. CASE ReportForwarded \/ ReportDead \/ NotifyNobody
  <2>1. /\ UNCHANGED <<egress, sent, placed, buried>>
        /\ pc \in {"placed", "buried", "notice"} /\ pc' \in {"idle", "notice"}
    BY <1>1 DEF ReportForwarded, ReportDead, NotifyNobody, EndStep, GoOn, lists, history
  <2>2. pc \notin Holding /\ pc' \notin Holding
    BY <2>1 DEF Holding
  <2> QED BY <2>1, <2>2, QuietStep
<1> QED BY <1>1, NotifyStep DEF Report

\* A crash loses what is in hand and not written, and nothing else.
LEMMA ProcessStep ==
    ASSUME Inv, Crash \/ Restart \/ \E a \in Agents : TrimDead(a)
    PROVE  Kept
<1>1. CASE Crash
  <2>1. UNCHANGED <<egress, sent, placed, buried>> /\ pc' \notin Holding
    BY <1>1 DEF Crash, lists, Holding
  <2>2. CASE pc \in Holding
    BY <2>1, <2>2, LoseStep
  <2>3. CASE pc \notin Holding
    BY <2>1, <2>3, QuietStep
  <2> QED BY <2>2, <2>3
<1>2. CASE Restart
  <2>1. UNCHANGED <<egress, sent, placed, buried>> /\ pc \notin Holding /\ pc' \notin Holding
    BY <1>2 DEF Restart, lists, history, Holding
  <2> QED BY <2>1, QuietStep
<1>3. CASE \E a \in Agents : TrimDead(a)
  <2>1. UNCHANGED <<egress, sent, placed, buried, hand, pc>>
    BY <1>3 DEF TrimDead, job, history
  <2> QED BY <2>1, QuietStep
<1> QED BY <1>1, <1>2, <1>3

\* Every step of the system is a step of the promise or changes nothing in it.
LEMMA PromiseStep == Inv /\ Routed /\ [Next]_vars => Kept
<1> SUFFICES ASSUME Inv, Routed, [Next]_vars PROVE Kept
  OBVIOUS
<1>1. CASE Environment
  <2>1. CASE \E f \in Frames : Send(f)
    BY <2>1, SendStep
  <2>2. CASE \E a \in Agents : Drain(a) \/ Hire(a) \/ Retire(a)
    <3>1. UNCHANGED <<egress, sent, placed, buried, hand, pc>>
      BY <2>2 DEF Drain, Hire, Retire, lists, job, history
    <3> QED BY <3>1, QuietStep
  <2> QED BY <1>1, <2>1, <2>2 DEF Environment
<1>2. CASE Step
  <2>1. CASE Scan \/ PopNothing
    <3>1. /\ UNCHANGED <<egress, sent, placed, buried>>
          /\ pc \notin Holding /\ pc' \notin Holding
      BY <2>1 DEF Scan, PopNothing, lists, history, Holding
    <3> QED BY <3>1, QuietStep
  <2>2. CASE \E a \in Agents : Pop(a)
    BY <2>2, PopStep DEF Kept
  <2>3. CASE \E a \in Agents : PopLost(a)
    BY <2>3, PopLostStep
  <2> QED BY <1>2, <2>1, <2>2, <2>3 DEF Step
<1>3. CASE Retry
  <2>1. /\ UNCHANGED <<egress, sent, placed, buried, hand>>
        /\ pc \in Holding /\ pc' \in Holding
    BY <1>3 DEF Retry, Rejected, Exhausted, WillBury, GoOn, lists, history, Holding,
       Retrying
  <2> QED BY <2>1, QuietStep
<1>4. CASE Forward \/ Dispose \/ Report
  BY <1>4, ForwardStep, DisposeStep, ReportStep
<1>5. CASE Crash \/ Restart \/ \E a \in Agents : TrimDead(a)
  BY <1>5, ProcessStep
<1>6. CASE UNCHANGED vars
  <2>1. UNCHANGED <<egress, sent, placed, buried, hand, pc>>
    BY <1>6 DEF vars, lists, job, history
  <2> QED BY <2>1, QuietStep
<1> QED BY <1>1, <1>2, <1>3, <1>4, <1>5, <1>6 DEF Next, Work

\* At the start nothing has been sent.
LEMMA PromiseInit == Init => Promise!Init
<1> SUFFICES ASSUME Init PROVE Promise!Init
  OBVIOUS
<1>1. pending = [a \in Agents |-> <<>>]
  BY DEF Init, pending, Holding
<1> QED BY <1>1 DEF Init, Promise!Init

\* Whatever Redis answers and whenever the switch dies, a sender's frames leave
\* its queue in the order in which they were sent, each by one indivisible step:
\* to all its recipients and attributed to that queue, to the dead, or away
\* (core/README.md:195-229).
THEOREM SwitchImplementsPromise == Spec => PromiseKept
<1>1. Init => Promise!Init
  BY PromiseInit
<1>2. Spec => []Routed
  <2>1. TypeOK /\ Routed /\ [Next]_vars => Routed'
    BY RoutedStep
  <2> QED BY <2>1, RoutedInit, TypeCorrect, PTL DEF Spec
<1>3. Inv /\ Routed /\ [Next]_vars => [Promise!Next]_<<sent, pending, placed, buried>>
  BY PromiseStep DEF Kept
<1> QED BY <1>1, <1>2, <1>3, Safety, PTL DEF Spec, PromiseKept, Promise!Spec, Promise!vars
=============================================================================
