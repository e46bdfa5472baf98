---------------------------- MODULE CustodyProofs ----------------------------
(***************************************************************************)
(* Custody's safety for every set of envelopes and port processes and for  *)
(* every bound: with any number of kills, aborts, lapsed leases, watchdog  *)
(* deliveries, retirements and re-hires. Then what the delivery lease adds *)
(* to it while it has one holder at a time, ownership and order. And that  *)
(* Custody implements CustodyPromise: every command to Redis is one step   *)
(* of the life of one envelope, one retirement, or no step at all.         *)
(***************************************************************************)
EXTENDS Custody, RedisListsProofs

\* The inductive invariant. No part is inductive alone: an effect happens at
\* most once because its opener is alone (OneOpener), which holds because the
\* claim is in one place (OneCustody), and what each place says of the effect
\* (TruthfulCustody) is what makes the next transfer truthful.
Inv == /\ TypeOK
       /\ OneCustody
       /\ OneOpener
       /\ AtMostOnce
       /\ TruthfulCustody
       /\ NoticeTruthful

\* The initial state satisfies the invariant.
LEMMA InitInv == Init => Inv
<1> SUFFICES ASSUME Init PROVE Inv
  OBVIOUS
<1> USE BoundsAssumption DEF Init
<1>1. \A q \in ListName : list[q] = <<>> /\ list[q] \in Seq(Env)
  BY EmptySeq
<1>2. \A q \in ListName : \A e : ~Holds(q, e)
  BY <1>1 DEF Holds, In
<1>3. TypeOK
  <2>1. list \in [ListName -> Seq(Env)] /\ <<>> \in Seq(Env)
    BY <1>1, EmptySeq DEF ListName
  <2>2. Len(list["ingress"]) = 0 /\ Len(list["opened"]) = 0
    BY <1>1 DEF ListName
  <2>3. /\ pc \in [Receivers -> Label]
        /\ raw \in [Receivers -> Env \cup {None}]
        /\ \A p \in Receivers : pc[p] \in Claiming => raw[p] \in Env
    BY DEF Label, Claiming, Opening
  <2>4. /\ sent \in [Env -> SentState]
        /\ effects \in [Env -> Nat]
        /\ placed \in Seq(Env) /\ begun \in Seq(Env)
        /\ notices \subseteq Env
    BY <2>1 DEF SentState
  <2>5. member \in BOOLEAN /\ paused \in BOOLEAN /\ retired \in BOOLEAN
    OBVIOUS
  <2>6. /\ Len(list["ingress"]) <= IngressMax /\ Len(list["opened"]) <= OpenedMax
        /\ lease \in Procs \cup {None, Orphan}
        /\ faults \in Nat /\ lapses \in Nat /\ hires \in Nat
    BY <2>2
  <2> HIDE DEF Init
  <2> QED BY <2>1, <2>3, <2>4, <2>5, <2>6, Zenon DEF TypeOK
<1>4. OneCustody
  BY <1>1, <1>2 DEF OneCustody, IsInjective
<1>5. OneOpener
  BY DEF OneOpener, Opening, Receivers
<1>6. AtMostOnce
  BY DEF AtMostOnce
<1>7. TruthfulCustody /\ NoticeTruthful
  BY <1>2 DEF TruthfulCustody, NoticeTruthful, ListName
<1> QED BY <1>3, <1>4, <1>5, <1>6, <1>7 DEF Inv

-----------------------------------------------------------------------------
(* What the commands do to custody as a whole.                               *)

\* The part of OneCustody that speaks of the lists alone.
Exclusive(l) ==
    /\ l \in [ListName -> Seq(Env)]
    /\ \A q \in ListName : IsInjective(l[q])
    /\ \A q1, q2 \in ListName : \A e \in Env :
         In(l[q1], e) /\ In(l[q2], e) => q1 = q2

\* A transfer moves one envelope and disturbs no other, but for the opened
\* receipts, where the cap may drop old ones once the list is full.
LEMMA TransferMoves ==
    ASSUME Exclusive(list), NEW e \in Env,
           NEW from \in ListName, NEW to \in ListName, from # to,
           from # "opened", from # "ingress", to # "ingress",
           Transfer(e, from, to)
    PROVE  /\ Exclusive(list')
           /\ Holds(from, e)
           /\ list'["ingress"] = list["ingress"]
           /\ \A f \in Env : Holds(from, f)' <=> Holds(from, f) /\ f # e
           /\ Holds(to, e)'
           /\ \A q \in ListName \ {from, to} : \A f \in Env :
                Holds(q, f)' <=> Holds(q, f)
           /\ to # "opened" =>
                /\ \A f \in Env : Holds(to, f)' <=> Holds(to, f) \/ f = e
                /\ list'["opened"] = list["opened"]
           /\ to = "opened" =>
                /\ \A f \in Env : Holds(to, f)' => Holds(to, f) \/ f = e
                /\ \A f \in Env : Holds(to, f) /\ ~Holds(to, f)'
                     => Len(list'["opened"]) = OpenedMax
                /\ Len(list'["opened"]) <= OpenedMax
                /\ Len(list["opened"]) = OpenedMax
                     => Len(list'["opened"]) = OpenedMax
<1> USE BoundsAssumption
<1>1. /\ list[from] \in Seq(Env) /\ IsInjective(list[from])
      /\ list[to] \in Seq(Env) /\ IsInjective(list[to])
      /\ In(list[from], e)
      /\ ~In(list[to], e)
  BY DEF Exclusive, Transfer, Holds
<1> DEFINE s == LRem(list[from], e)
           a == Append(list[to], e)
           t == IF to = "opened" THEN LTrim(a, OpenedMax) ELSE a
<1>2. /\ list' \in [ListName -> {list[q] : q \in ListName} \cup {s, t}]
      /\ list'[from] = s
      /\ list'[to] = t
      /\ \A q \in ListName \ {from, to} : list'[q] = list[q]
  BY DEF Transfer, Exclusive
<1>3. /\ s \in Seq(Env)
      /\ \A f : In(s, f) <=> In(list[from], f) /\ f # e
      /\ IsInjective(s)
  BY <1>1, LRemIn
<1>4. /\ a \in Seq(Env)
      /\ Len(a) = Len(list[to]) + 1
      /\ \A f : In(a, f) <=> In(list[to], f) \/ f = e
      /\ IsInjective(a)
  BY <1>1, AppendIn
<1>5. /\ a # <<>>
      /\ a[Len(a)] = e
  BY <1>1, AppendProperties
<1> HIDE DEF s, a
<1>6. /\ t \in Seq(Env)
      /\ IsInjective(t)
      /\ In(t, e)
      /\ \A f : In(t, f) => In(list[to], f) \/ f = e
      /\ to # "opened" => t = a
      /\ to = "opened" => t = LTrim(a, OpenedMax)
  BY <1>4, <1>5, LTrimIn
<1> HIDE DEF t
<1>7. Exclusive(list')
  <2>1. list' \in [ListName -> Seq(Env)]
    BY <1>2, <1>3, <1>6 DEF Exclusive
  <2>2. ASSUME NEW q \in ListName PROVE IsInjective(list'[q])
    BY <1>2, <1>3, <1>6 DEF Exclusive
  <2>3. ASSUME NEW q1 \in ListName, NEW q2 \in ListName, NEW f \in Env,
               In(list'[q1], f), In(list'[q2], f)
        PROVE  q1 = q2
    <3>1. CASE f = e
      <4>1. ASSUME NEW q \in ListName, In(list'[q], e) PROVE q = to
        BY <1>1, <1>2, <1>3, <4>1 DEF Exclusive
      <4> QED BY <2>3, <3>1, <4>1
    <3>2. CASE f # e
      <4>1. ASSUME NEW q \in ListName, In(list'[q], f) PROVE In(list[q], f)
        BY <1>2, <1>3, <1>6, <3>2, <4>1
      <4> QED BY <2>3, <4>1 DEF Exclusive
    <3> QED BY <3>1, <3>2
  <2> QED BY <2>1, <2>2, <2>3 DEF Exclusive
<1>8. ASSUME to = "opened"
      PROVE  /\ \A f \in Env : In(list[to], f) /\ ~In(t, f) => Len(t) = OpenedMax
             /\ Len(t) <= OpenedMax
             /\ Len(list[to]) = OpenedMax => Len(t) = OpenedMax
  <2>1. /\ Len(t) = IF Len(a) > OpenedMax THEN OpenedMax ELSE Len(a)
        /\ Len(a) <= OpenedMax => t = a
    BY <1>4, <1>6, <1>8, LTrimIn
  <2>2. Len(list[to]) \in Nat /\ Len(a) \in Nat
    BY <1>1, <1>4, LenProperties
  <2>3. CASE Len(a) > OpenedMax
    BY <2>1, <2>2, <2>3
  <2>4. CASE Len(a) <= OpenedMax
    <3>1. t = a /\ Len(t) = Len(a)
      BY <2>1, <2>2, <2>4
    <3> QED BY <1>4, <2>2, <2>4, <3>1
  <2> QED BY <2>2, <2>3, <2>4
<1>9. "ingress" \in ListName /\ "opened" \in ListName
  BY DEF ListName
<1> QED BY <1>1, <1>2, <1>3, <1>4, <1>6, <1>7, <1>8, <1>9 DEF Holds

\* Admission adds an envelope that no list held.
LEMMA PlaceMoves ==
    ASSUME TypeOK, OneCustody, NEW e \in Env, Place(e)
    PROVE  /\ Exclusive(list')
           /\ Len(list'["ingress"]) <= IngressMax
           /\ \A f \in Env : Holds("ingress", f)' <=> Holds("ingress", f) \/ f = e
           /\ \A q \in ListName \ {"ingress"} : list'[q] = list[q]
           /\ \A q \in ListName : ~Holds(q, e)
<1> USE BoundsAssumption
<1>0. "ingress" \in ListName
  BY DEF ListName
<1>1. \A q \in ListName : ~In(list[q], e)
  BY DEF Place, OneCustody, Holds
<1>2. list["ingress"] \in Seq(Env) /\ IsInjective(list["ingress"])
  BY <1>0 DEF TypeOK, OneCustody
<1> DEFINE s == list["ingress"]
           a == Append(s, e)
<1>3. /\ a \in Seq(Env)
      /\ Len(a) = Len(s) + 1
      /\ \A f : In(a, f) <=> In(s, f) \/ f = e
      /\ IsInjective(a)
  BY <1>0, <1>1, <1>2, AppendIn
<1>4. list' = [list EXCEPT !["ingress"] = a]
  BY DEF Place
<1>5. Len(a) <= IngressMax
  <2>1. Len(s) \in Nat /\ Len(s) < IngressMax
    BY <1>2, LenProperties DEF Place
  <2> QED BY <1>3, <2>1
<1> HIDE DEF a
<1>6. /\ list'["ingress"] = a
      /\ \A q \in ListName \ {"ingress"} : list'[q] = list[q]
      /\ list' \in [ListName -> Seq(Env)]
  BY <1>0, <1>3, <1>4 DEF TypeOK
<1>7. \A q \in ListName : IsInjective(list'[q])
  BY <1>3, <1>6 DEF OneCustody
<1>8. ASSUME NEW q1 \in ListName, NEW q2 \in ListName, NEW f \in Env,
             In(list'[q1], f), In(list'[q2], f)
      PROVE  q1 = q2
  <2>1. CASE f = e
    BY <1>1, <1>6, <1>8, <2>1
  <2>2. CASE f # e
    <3>1. Holds(q1, f) /\ Holds(q2, f)
      BY <1>3, <1>6, <1>8, <2>2 DEF Holds
    <3> QED BY <3>1 DEF OneCustody
  <2> QED BY <2>1, <2>2
<1>9. Exclusive(list')
  BY <1>6, <1>7, <1>8 DEF Exclusive
<1> QED BY <1>1, <1>3, <1>5, <1>6, <1>9 DEF Holds

\* A claim moves the head of ingress to processing.
LEMMA ClaimMoves ==
    ASSUME TypeOK, Exclusive(list), NEW p \in Receivers, Claim(p)
    PROVE  /\ Exclusive(list')
           /\ Head(list["ingress"]) \in Env
           /\ Holds("ingress", Head(list["ingress"]))
           /\ Len(list'["ingress"]) <= IngressMax
           /\ \A f \in Env : Holds("ingress", f)' <=>
                Holds("ingress", f) /\ f # Head(list["ingress"])
           /\ \A f \in Env : Holds("processing", f)' <=>
                Holds("processing", f) \/ f = Head(list["ingress"])
           /\ \A q \in ListName \ {"ingress", "processing"} : list'[q] = list[q]
<1> USE BoundsAssumption
<1>0. "ingress" \in ListName /\ "processing" \in ListName
  BY DEF ListName
<1> DEFINE s == list["ingress"]
           t == list["processing"]
           e == Head(s)
<1>1. /\ s \in Seq(Env) /\ IsInjective(s) /\ s # <<>>
      /\ t \in Seq(Env) /\ IsInjective(t)
  BY <1>0 DEF Exclusive, Claim
<1>2. /\ e \in Env
      /\ In(s, e)
      /\ Tail(s) \in Seq(Env)
      /\ Len(Tail(s)) = Len(s) - 1
      /\ \A f : In(Tail(s), f) <=> In(s, f) /\ f # e
      /\ IsInjective(Tail(s))
  BY <1>1, TailIn
<1>3. ~In(t, e)
  BY <1>0, <1>2 DEF Exclusive
<1>4. /\ Append(t, e) \in Seq(Env)
      /\ \A f : In(Append(t, e), f) <=> In(t, f) \/ f = e
      /\ IsInjective(Append(t, e))
  BY <1>1, <1>2, <1>3, AppendIn
<1>5. /\ list'["ingress"] = Tail(s)
      /\ list'["processing"] = Append(t, e)
      /\ \A q \in ListName \ {"ingress", "processing"} : list'[q] = list[q]
      /\ list' \in [ListName -> Seq(Env)]
  BY <1>0, <1>2, <1>4 DEF Claim, Exclusive
<1>6. Len(Tail(s)) <= IngressMax
  <2>1. Len(s) \in Nat /\ Len(s) <= IngressMax
    BY <1>1, LenProperties DEF TypeOK
  <2> QED BY <1>2, <2>1
<1>7. \A q \in ListName : IsInjective(list'[q])
  BY <1>2, <1>4, <1>5 DEF Exclusive
<1>8. ASSUME NEW q1 \in ListName, NEW q2 \in ListName, NEW f \in Env,
             In(list'[q1], f), In(list'[q2], f)
      PROVE  q1 = q2
  <2>1. CASE f = e
    <3>1. ASSUME NEW q \in ListName, In(list'[q], e) PROVE q = "processing"
      BY <1>0, <1>2, <1>5, <3>1 DEF Exclusive
    <3> QED BY <1>8, <2>1, <3>1
  <2>2. CASE f # e
    <3>1. ASSUME NEW q \in ListName, In(list'[q], f) PROVE In(list[q], f)
      BY <1>2, <1>4, <1>5, <2>2, <3>1
    <3> QED BY <1>8, <3>1 DEF Exclusive
  <2> QED BY <2>1, <2>2
<1>9. Exclusive(list')
  BY <1>5, <1>7, <1>8 DEF Exclusive
<1> QED BY <1>2, <1>4, <1>5, <1>6, <1>9 DEF Holds

\* Retirement moves what waits to undeliverable and what has begun to unresolved.
LEMMA StopMoves ==
    ASSUME Exclusive(list), StopAgent
    PROVE  /\ Exclusive(list')
           /\ list'["ingress"] = <<>>
           /\ \A q \in {"ingress", "processing", "opening"} : \A f \in Env : ~Holds(q, f)'
           /\ \A f \in Env : Holds("undeliverable", f)' <=>
                \/ Holds("undeliverable", f)
                \/ Holds("processing", f)
                \/ Holds("ingress", f)
           /\ \A f \in Env : Holds("unresolved", f)' <=>
                Holds("unresolved", f) \/ Holds("opening", f)
           /\ \A q \in {"opened", "dead"} : list'[q] = list[q]
<1>0. /\ ListName = {"ingress", "processing", "opening", "opened", "dead",
                     "unresolved", "undeliverable"}
      /\ list \in [ListName -> Seq(Env)]
  BY DEF ListName, Exclusive
<1> DEFINE u == list["undeliverable"] \o list["processing"]
           v == u \o list["ingress"]
           w == list["unresolved"] \o list["opening"]
<1>1. /\ \A q \in ListName : list[q] \in Seq(Env) /\ IsInjective(list[q])
      /\ \A q1, q2 \in ListName : \A e \in Env :
           In(list[q1], e) /\ In(list[q2], e) => q1 = q2
  BY DEF Exclusive
<1>2. \A q1, q2 \in ListName : q1 # q2 =>
        \A f : ~(In(list[q1], f) /\ In(list[q2], f))
  <2> SUFFICES ASSUME NEW q1 \in ListName, NEW q2 \in ListName, q1 # q2, NEW f,
                      In(list[q1], f), In(list[q2], f)
               PROVE  FALSE
    OBVIOUS
  <2>1. PICK i \in DOMAIN list[q1] : list[q1][i] = f
    BY DEF In
  <2>2. f \in Env
    <3>1. i \in 1 .. Len(list[q1])
      BY <1>1, <2>1, LenProperties
    <3> QED BY <1>1, <2>1, <3>1, ElementOfSeq
  <2> QED BY <1>1, <2>2
<1>3. /\ u \in Seq(Env)
      /\ \A f : In(u, f) <=> In(list["undeliverable"], f) \/ In(list["processing"], f)
      /\ IsInjective(u)
  BY <1>0, <1>1, <1>2, ConcatIn
<1> HIDE DEF u
<1>4. \A f : ~(In(u, f) /\ In(list["ingress"], f))
  BY <1>0, <1>2, <1>3
<1>5. /\ v \in Seq(Env)
      /\ \A f : In(v, f) <=> In(u, f) \/ In(list["ingress"], f)
      /\ IsInjective(v)
  BY <1>0, <1>1, <1>3, <1>4, ConcatIn
<1>6. /\ w \in Seq(Env)
      /\ \A f : In(w, f) <=> In(list["unresolved"], f) \/ In(list["opening"], f)
      /\ IsInjective(w)
  BY <1>0, <1>1, <1>2, ConcatIn
<1>7. /\ list'["undeliverable"] = v
      /\ list'["unresolved"] = w
      /\ \A q \in {"ingress", "processing", "opening"} : list'[q] = <<>>
      /\ \A q \in {"opened", "dead"} : list'[q] = list[q]
      /\ DOMAIN list' = ListName
      /\ list' = [q \in ListName |-> list'[q]]
  BY <1>0 DEF StopAgent, u
<1> HIDE DEF v, w
<1>8. /\ <<>> \in Seq(Env)
      /\ IsInjective(<<>>)
      /\ \A f : ~In(<<>>, f)
  BY EmptySeq DEF In, IsInjective
<1>9. \A q \in ListName : list'[q] \in Seq(Env) /\ IsInjective(list'[q])
  BY <1>0, <1>1, <1>5, <1>6, <1>7, <1>8
<1>10. ASSUME NEW q1 \in ListName, NEW q2 \in ListName, NEW f \in Env,
              In(list'[q1], f), In(list'[q2], f)
       PROVE  q1 = q2
  <2>1. /\ \A q \in {"ingress", "processing", "opening"} : ~In(list'[q], f)
        /\ In(list'["undeliverable"], f) =>
             \E q \in {"undeliverable", "processing", "ingress"} : In(list[q], f)
        /\ In(list'["unresolved"], f) =>
             \E q \in {"unresolved", "opening"} : In(list[q], f)
        /\ \A q \in {"opened", "dead"} : In(list'[q], f) => In(list[q], f)
    BY <1>3, <1>5, <1>6, <1>7, <1>8
  <2> QED BY <1>0, <1>1, <1>10, <2>1
<1>11. list' \in [ListName -> Seq(Env)]
  BY <1>7, <1>9
<1>12. Exclusive(list')
  BY <1>9, <1>10, <1>11 DEF Exclusive
<1> QED BY <1>3, <1>5, <1>6, <1>7, <1>8, <1>12 DEF Holds

\* OneCustody is what Exclusive says of the lists and what it says of sent.
LEMMA OneCustodyParts ==
    ASSUME TypeOK, OneCustody PROVE Exclusive(list)
BY DEF TypeOK, OneCustody, Exclusive, Holds

\* A receiver about to notify works on an envelope.
LEMMA NotifyEnv ==
    ASSUME TypeOK PROVE \A r \in Receivers : pc[r] = "notify" => raw[r] \in Env
BY DEF TypeOK, Claiming

\* A rejected envelope stays rejected as long as nothing picks it up or acts.
LEMMA SettledStays ==
    ASSUME NEW f \in Env, Settled(f), sent'[f] = sent[f], effects'[f] = effects[f],
           \A q \in ListName \ {"dead"} : Holds(q, f)' => Holds(q, f)
    PROVE  Settled(f)'
BY DEF Settled

-----------------------------------------------------------------------------
(* Steps that move no envelope: lease, pc, lifecycle flags.                  *)

Still == UNCHANGED <<list, sent, effects, notices>>

\* A step that leaves custody, effects and notices alone keeps what speaks of
\* nothing else.
LEMMA StillInv ==
    ASSUME Inv, Still
    PROVE  (OneCustody /\ AtMostOnce /\ TruthfulCustody /\ NoticeTruthful)'
BY DEF Inv, Still, OneCustody, AtMostOnce, TruthfulCustody, NoticeTruthful, Settled,
   Dropped, Holds

\* A step that moves no envelope keeps OneOpener if no receiver enters an
\* opener, changes the envelope it opens, or invents a verdict.
LEMMA StillOpener ==
    ASSUME Inv, Still,
           \A r \in Receivers : pc'[r] \in Opening =>
               /\ pc[r] \in Opening
               /\ raw'[r] = raw[r]
               /\ pc'[r] \in {"begun", "rejected"} => pc[r] \in {"begun", "rejected"}
               /\ pc'[r] = "done" => pc[r] = "done",
           \A r \in Receivers : pc'[r] = "notify" => pc[r] = "notify" /\ raw'[r] = raw[r]
    PROVE  OneOpener'
<1>1. UNCHANGED <<list, effects, sent>> /\ OneOpener
  BY DEF Inv, Still
<1>2. \A q, e : Holds(q, e)' <=> Holds(q, e)
  BY <1>1 DEF Holds
<1>3. {"begun", "rejected", "done"} \subseteq Opening
  BY DEF Opening
<1> QED BY <1>1, <1>2, <1>3 DEF OneOpener, Settled

\* A kick changes the label of idle processes only.
LEMMA KickedLabels ==
    ASSUME TypeOK, NEW S \in SUBSET Idle, Kicked(S)
    PROVE  /\ pc' \in [Receivers -> Label]
           /\ \A r \in Receivers : pc'[r] \in Claiming \cup Opening => pc'[r] = pc[r]
BY DEF TypeOK, Idle, Kicked, Label, Claiming, Opening, Receivers

\* Steps of the lease.
LEMMA LeaseInv ==
    ASSUME Inv, NEW p \in Receivers,
           \/ p \in Procs /\ Acquire(p)
           \/ AcquireTimeout(p) \/ Release(p) \/ OrphanExpires \/ LeaseLapses
    PROVE  Inv'
<1> USE DEF Inv
<1>1. Still /\ UNCHANGED <<raw, member, paused, hires, placed, begun, retired, faults>>
  BY DEF Acquire, AcquireTimeout, Release, OrphanExpires, LeaseLapses, Still,
         queues, agent, bounds, history
<1>2. /\ pc' \in [Receivers -> Label]
      /\ \A r \in Receivers : pc'[r] \in Claiming \cup Opening => pc'[r] = pc[r]
  BY DEF TypeOK, Acquire, AcquireTimeout, Release, OrphanExpires, LeaseLapses, Goto,
         Label, Receiving, Claiming, Opening
<1>3. lease' \in Procs \cup {None, Orphan} /\ lapses' \in Nat
  BY DEF TypeOK, Acquire, AcquireTimeout, Release, OrphanExpires, LeaseLapses,
         queues, bounds
<1>4. TypeOK'
  BY <1>1, <1>2, <1>3 DEF TypeOK, Still
<1>5. OneOpener'
  BY <1>1, <1>2, StillOpener DEF Claiming
<1> QED BY <1>1, <1>4, <1>5, StillInv

\* Steps of a receiver that read, decide or leave.
LEMMA ReadInv ==
    ASSUME Inv, NEW p \in Receivers,
           \/ CheckPaused(p) \/ SurfaceRead(p) \/ Recover(p) \/ Drained(p)
           \/ OpenerRejects(p) \/ OpenerFails(p) \/ LoseOwnership(p)
           \/ Kill(p) \/ Abort(p)
    PROVE  Inv'
<1> USE DEF Inv
<1>1. Still /\ UNCHANGED <<member, paused, hires, placed, begun, retired, lapses>>
  BY DEF CheckPaused, SurfaceRead, Recover, Drained, OpenerRejects, OpenerFails,
         LoseOwnership, Kill, Abort, Still, queues, agent, bounds, history
<1>2. PICK l \in Label, e \in Env \cup {None} :
        /\ pc' = [pc EXCEPT ![p] = l]
        /\ raw' = [raw EXCEPT ![p] = e]
        /\ l \in Claiming => e \in Env
        /\ l # "notify"
        /\ l \in Opening => /\ pc[p] = "begun"
                            /\ e = raw[p]
                            /\ l \in {"rejected", "raised"}
  <2>0. /\ Label = {"idle", "waiting", "check", "release", "surface", "surfacing",
                    "recover", "hold", "notify", "claim", "begun", "done",
                    "rejected", "raised"}
        /\ raw \in [Receivers -> Env \cup {None}]
        /\ pc \in [Receivers -> Label]
        /\ raw = [raw EXCEPT ![p] = raw[p]]
        /\ raw[p] \in Env \cup {None}
        /\ \A r \in Receivers : pc[r] \in Claiming => raw[r] \in Env
    BY DEF TypeOK, Label, Receiving, Opening
  <2>1. \A q \in {"opening", "processing"} : list[q] # <<>> => Head(list[q]) \in Env
    BY TailIn DEF TypeOK, ListName
  <2>2. CASE CheckPaused(p)
    BY <2>0, <2>2 DEF CheckPaused, Goto, Claiming, Opening
  <2>3. CASE SurfaceRead(p)
    BY <2>0, <2>1, <2>3 DEF SurfaceRead, Goto, Claiming, Opening
  <2>4. CASE Recover(p)
    BY <2>0, <2>1, <2>4 DEF Recover, Goto, Claiming, Opening
  <2>5. CASE Drained(p) \/ LoseOwnership(p) \/ Abort(p)
    BY <2>0, <2>5 DEF Drained, LoseOwnership, Abort, Leave, Goto, Claiming, Opening
  <2>6. CASE Kill(p)
    BY <2>0, <2>6 DEF Kill, Goto, Claiming, Opening
  <2>7. CASE OpenerRejects(p) \/ OpenerFails(p)
    BY <2>0, <2>7 DEF OpenerRejects, OpenerFails, Goto, Claiming, Opening
  <2> QED BY <2>2, <2>3, <2>4, <2>5, <2>6, <2>7
<1>3. lease' \in Procs \cup {None, Orphan} /\ faults' \in Nat
  BY DEF TypeOK, CheckPaused, SurfaceRead, Recover, Drained, OpenerRejects,
         OpenerFails, LoseOwnership, Kill, Abort, queues, bounds
<1>4. /\ pc' \in [Receivers -> Label]
      /\ raw' \in [Receivers -> Env \cup {None}]
      /\ \A r \in Receivers : pc'[r] \in Claiming => raw'[r] \in Env
  BY <1>2 DEF TypeOK
<1>5. TypeOK'
  BY <1>1, <1>3, <1>4 DEF TypeOK, Still
<1>6. OneOpener'
  <2>1. \A r \in Receivers \ {p} : pc'[r] = pc[r] /\ raw'[r] = raw[r]
    BY <1>2 DEF TypeOK
  <2>2. /\ pc'[p] # "notify"
        /\ pc'[p] \in Opening => /\ pc[p] = "begun"
                                 /\ raw'[p] = raw[p]
                                 /\ pc'[p] \in {"rejected", "raised"}
    BY <1>2 DEF TypeOK
  <2> QED BY <1>1, <2>1, <2>2, StillOpener DEF Opening
<1> QED BY <1>1, <1>5, <1>6, StillInv

\* Hiring, pausing and resuming, and the switch's maintenance kick.
LEMMA AgentInv ==
    ASSUME Inv,
           \/ StartAgent \/ PauseAgent \/ ResumeAgent
           \/ \E p \in Procs : Reconcile(p)
    PROVE  Inv'
<1> USE DEF Inv
<1>1. Still /\ UNCHANGED <<lease, raw, faults, lapses, placed, begun, retired>>
  BY DEF StartAgent, PauseAgent, ResumeAgent, Reconcile, Still, queues, agent, bounds,
         history
<1>2. /\ pc' \in [Receivers -> Label]
      /\ \A r \in Receivers : pc'[r] \in Claiming \cup Opening => pc'[r] = pc[r]
  <2>1. CASE UNCHANGED pc
    BY <2>1 DEF TypeOK
  <2>2. CASE \E S \in SUBSET Idle : Kicked(S)
    BY <2>2, KickedLabels
  <2>3. CASE \E p \in Procs : Reconcile(p)
    <3>1. PICK p \in Idle : Kicked({p})
      BY <2>3 DEF Reconcile
    <3> QED BY <3>1, KickedLabels
  <2> QED BY <2>1, <2>2, <2>3 DEF StartAgent, PauseAgent, ResumeAgent
<1>3. member' \in BOOLEAN /\ paused' \in BOOLEAN /\ hires' \in Nat
  <2>1. member \in BOOLEAN /\ paused \in BOOLEAN /\ hires \in Nat
    BY DEF TypeOK
  <2>2. CASE StartAgent
    BY <2>1, <2>2 DEF StartAgent
  <2>3. CASE PauseAgent
    BY <2>1, <2>3 DEF PauseAgent
  <2>4. CASE ResumeAgent
    BY <2>1, <2>4 DEF ResumeAgent
  <2>5. CASE \E p \in Procs : Reconcile(p)
    BY <2>1, <2>5 DEF Reconcile, agent
  <2> QED BY <2>2, <2>3, <2>4, <2>5
<1>4. TypeOK'
  BY <1>1, <1>2, <1>3 DEF TypeOK, Still
<1>5. OneOpener'
  BY <1>1, <1>2, StillOpener DEF Claiming
<1> QED BY <1>1, <1>4, <1>5, StillInv

-----------------------------------------------------------------------------
(* Steps of the senders.                                                     *)

\* Looking a destination up and refusing a frame touch only sent.
LEMMA RefuseInv ==
    ASSUME Inv, NEW e \in Env, Lookup(e) \/ Refuse(e)
    PROVE  Inv'
<1> USE DEF Inv
<1>1. UNCHANGED <<list, lease, member, paused, hires, pc, raw, faults, lapses,
                  effects, placed, begun, notices, retired>>
  BY DEF Lookup, Refuse, queues, agent, bounds, history
<1>2. PICK v \in SentState \ {"placed"} : sent' = [sent EXCEPT ![e] = v]
  BY DEF Lookup, Refuse, SentState
<1>3. sent[e] # "placed"
  BY DEF Lookup, Refuse
<1>4. TypeOK'
  BY <1>1, <1>2 DEF TypeOK
<1>5. \A q, f : Holds(q, f)' <=> Holds(q, f)
  BY <1>1 DEF Holds
<1>9. \A f \in Env : sent'[f] = "placed" <=> sent[f] = "placed"
  BY <1>2, <1>3 DEF TypeOK
<1>6. OneCustody'
  BY <1>1, <1>5, <1>9 DEF OneCustody, Dropped
<1>10. \A f \in Env : Settled(f) => Settled(f)'
  BY <1>1, <1>5, <1>9 DEF Settled
<1>7. OneOpener'
  BY <1>1, <1>5, <1>10, NotifyEnv DEF OneOpener
<1>8. (AtMostOnce /\ TruthfulCustody)'
  BY <1>1, <1>5, <1>9 DEF AtMostOnce, TruthfulCustody
<1>11. NoticeTruthful'
  BY <1>1, <1>10 DEF NoticeTruthful, TypeOK
<1> QED BY <1>4, <1>6, <1>7, <1>8, <1>11

\* Admission, by the switch with its kick or by the watchdog with its own call.
LEMMA PlaceInv ==
    ASSUME Inv, NEW e \in Env, Admit(e) \/ NotifyLead(e)
    PROVE  Inv'
<1> USE DEF Inv
<1>1. Place(e) /\ Exclusive(list)
  BY OneCustodyParts DEF Admit, NotifyLead
<1>2. /\ Exclusive(list')
      /\ Len(list'["ingress"]) <= IngressMax
      /\ \A f \in Env : Holds("ingress", f)' <=> Holds("ingress", f) \/ f = e
      /\ \A q \in ListName \ {"ingress"} : list'[q] = list[q]
      /\ \A q \in ListName : ~Holds(q, e)
  BY <1>1, PlaceMoves
<1>3. /\ UNCHANGED <<lease, member, paused, hires, raw, faults, lapses, effects,
                     begun, notices, retired>>
      /\ sent' = [sent EXCEPT ![e] = "placed"]
      /\ placed' = Append(placed, e)
      /\ sent[e] = "routed"
  BY <1>1 DEF Place, agent, bounds
<1>4. /\ pc' \in [Receivers -> Label]
      /\ \A r \in Receivers : pc'[r] \in Claiming \cup Opening => pc'[r] = pc[r]
  <2>1. CASE Admit(e)
    BY <2>1, KickedLabels DEF Admit
  <2>2. CASE NotifyLead(e)
    BY <2>2 DEF NotifyLead, Goto, TypeOK, Label, Receiving, Claiming, Opening
  <2> QED BY <2>1, <2>2
<1>5. /\ "ingress" \in ListName /\ "opened" \in ListName /\ "dead" \in ListName
      /\ "opening" \in ListName /\ "unresolved" \in ListName
      /\ "processing" \in ListName /\ "undeliverable" \in ListName
  BY DEF ListName
<1>6. TypeOK'
  <2>1. placed' \in Seq(Env)
    BY <1>3, AppendProperties DEF TypeOK
  <2>2. list' \in [ListName -> Seq(Env)] /\ list'["opened"] = list["opened"]
    BY <1>2, <1>5 DEF Exclusive
  <2>3. sent' \in [Env -> SentState]
    BY <1>3 DEF TypeOK, SentState
  <2>4. \A r \in Receivers : pc'[r] \in Claiming => raw'[r] \in Env
    BY <1>3, <1>4 DEF TypeOK
  <2> QED BY <1>2, <1>3, <1>4, <2>1, <2>2, <2>3, <2>4 DEF TypeOK
<1>7. \A q \in ListName : \A f \in Env :
        Holds(q, f)' <=> Holds(q, f) \/ (q = "ingress" /\ f = e)
  BY <1>2 DEF Holds
<1>8. OneCustody'
  <2>1. \A f \in Env : sent'[f] = "placed" <=> sent[f] = "placed" \/ f = e
    BY <1>3 DEF TypeOK
  <2>2. \A f \in Env : (\E q \in ListName : Holds(q, f))' => sent'[f] = "placed"
    BY <1>7, <2>1 DEF OneCustody
  <2>3. list'["opened"] = list["opened"] /\ list'["dead"] = list["dead"]
    BY <1>2, <1>5
  <2>4. ASSUME NEW f \in Env, sent'[f] = "placed", \A q \in ListName : ~Holds(q, f)'
        PROVE  Dropped(f)'
    BY <1>3, <1>5, <1>7, <2>1, <2>3, <2>4 DEF OneCustody, Dropped
  <2> QED BY <1>2, <2>2, <2>4 DEF OneCustody, Exclusive, Holds
<1>12. \A f \in Env : Settled(f) => Settled(f)'
  BY <1>3, <1>7 DEF Settled, TypeOK
<1>9. OneOpener'
  <2>1. \A q \in {"opening", "unresolved"} : list'[q] = list[q]
    BY <1>2, <1>5
  <2>2. \A q \in {"opening", "unresolved"} : \A r \in Receivers :
          Holds(q, raw[r])' <=> Holds(q, raw[r])
    BY <1>3, <2>1 DEF Holds
  <2>3. \A r \in Receivers : pc'[r] \in Opening \/ pc'[r] = "notify" => pc'[r] = pc[r]
    BY <1>4 DEF Claiming
  <2>4. {"begun", "rejected", "done"} \subseteq Opening
    BY DEF Opening
  <2> QED BY <1>3, <1>12, <2>2, <2>3, <2>4, NotifyEnv DEF OneOpener
<1>10. TruthfulCustody'
  <2>1. effects[e] = 0
    BY <1>3 DEF TruthfulCustody
  <2>2. \A f \in Env : sent'[f] # "placed" => sent[f] # "placed"
    BY <1>3 DEF TypeOK
  <2> QED BY <1>3, <1>5, <1>7, <2>1, <2>2 DEF TruthfulCustody
<1>11. (AtMostOnce /\ NoticeTruthful)'
  BY <1>3, <1>12 DEF AtMostOnce, NoticeTruthful, TypeOK
<1> QED BY <1>6, <1>8, <1>9, <1>10, <1>11

-----------------------------------------------------------------------------
(* Steps of a receiver that move an envelope.                                *)

\* The custody part of every transfer: what goes to opened has had its effect,
\* what goes to dead has not.
LEMMA TransferCustody ==
    ASSUME Inv, NEW e \in Env,
           NEW from \in {"processing", "opening"},
           NEW to \in {"opening", "opened", "dead", "unresolved"},
           from # to, Transfer(e, from, to),
           UNCHANGED <<sent, effects, notices>>,
           to = "opened" => effects[e] = 1,
           to = "dead" => effects[e] = 0
    PROVE  /\ (OneCustody /\ AtMostOnce /\ TruthfulCustody /\ NoticeTruthful)'
           /\ list' \in [ListName -> Seq(Env)]
           /\ list'["ingress"] = list["ingress"]
           /\ Len(list'["opened"]) <= OpenedMax
           /\ Holds(from, e)
           /\ Holds(to, e)'
           /\ \A q \in {"opening", "unresolved"} : \A f \in Env :
                f # e /\ Holds(q, f) => Holds(q, f)'
           /\ \A f \in Env : Settled(f) => Settled(f)'
           /\ to = "dead" => Settled(e)'
<1> USE DEF Inv
<1>1. /\ ListName = {"ingress", "processing", "opening", "opened", "dead",
                     "unresolved", "undeliverable"}
      /\ from \in ListName /\ to \in ListName
      /\ from # "opened" /\ from # "ingress" /\ from # "dead" /\ to # "ingress"
      /\ from # "unresolved" /\ from # "undeliverable"
  BY DEF ListName
<1>2. Exclusive(list)
  BY OneCustodyParts
<1>3. /\ Exclusive(list')
      /\ Holds(from, e)
      /\ list'["ingress"] = list["ingress"]
      /\ \A f \in Env : Holds(from, f)' <=> Holds(from, f) /\ f # e
      /\ Holds(to, e)'
      /\ \A q \in ListName \ {from, to} : \A f \in Env : Holds(q, f)' <=> Holds(q, f)
      /\ to # "opened" =>
           /\ \A f \in Env : Holds(to, f)' <=> Holds(to, f) \/ f = e
           /\ list'["opened"] = list["opened"]
      /\ to = "opened" =>
           /\ \A f \in Env : Holds(to, f)' => Holds(to, f) \/ f = e
           /\ \A f \in Env : Holds(to, f) /\ ~Holds(to, f)'
                => Len(list'["opened"]) = OpenedMax
           /\ Len(list'["opened"]) <= OpenedMax
           /\ Len(list["opened"]) = OpenedMax => Len(list'["opened"]) = OpenedMax
  BY <1>1, <1>2, TransferMoves
<1>5. \A q \in ListName : \A f \in Env : Holds(q, f)' =>
        \/ Holds(q, f) /\ (q = from => f # e)
        \/ q = to /\ f = e
  BY <1>1, <1>3
\* The two lists that retention trims do not shrink below their caps.
<1>12. /\ OpenedMax \in Nat /\ DeadMax \in Nat
       /\ Len(list["opened"]) \in Nat /\ Len(list["opened"]) <= OpenedMax
       /\ Len(list'["opened"]) \in Nat
       /\ Len(list["opened"]) >= OpenedMax => Len(list'["opened"]) >= OpenedMax
       /\ Len(list["dead"]) >= DeadMax => Len(list'["dead"]) >= DeadMax
  <2>1. \A q \in {"opened", "dead"} : Len(list[q]) \in Nat /\ Len(list'[q]) \in Nat
    BY <1>1, <1>3, LenProperties DEF Exclusive, TypeOK
  <2>2. OpenedMax \in Nat /\ DeadMax \in Nat /\ Len(list["opened"]) <= OpenedMax
    BY BoundsAssumption DEF TypeOK
  <2>3. Len(list["opened"]) = OpenedMax => Len(list'["opened"]) = OpenedMax
    BY <1>1, <1>3
  <2>4. Len(list["dead"]) <= Len(list'["dead"])
    <3>1. CASE to = "dead"
      <4>1. list'["dead"] = Append(list["dead"], e) /\ list["dead"] \in Seq(Env)
        BY <1>1, <3>1 DEF Transfer, TypeOK
      <4> QED BY <2>1, <4>1, AppendProperties
    <3>2. CASE to # "dead"
      <4>1. list'["dead"] = list["dead"]
        BY <1>1, <3>2 DEF Transfer, TypeOK
      <4> QED BY <2>1, <4>1
    <3> QED BY <3>1, <3>2
  <2> QED BY <2>1, <2>2, <2>3, <2>4
<1>6. OneCustody'
  <2>1. \A f \in Env : (\E q \in ListName : Holds(q, f))' => sent'[f] = "placed"
    BY <1>1, <1>3, <1>5 DEF OneCustody
  <2>2. ASSUME NEW f \in Env, sent'[f] = "placed", \A q \in ListName : ~Holds(q, f)'
        PROVE  Dropped(f)'
    <3>1. f # e
      BY <1>1, <1>3, <2>2
    <3>2. CASE \A q \in ListName : ~Holds(q, f)
      <4>1. Dropped(f)
        BY <2>2, <3>2 DEF OneCustody
      <4> QED BY <1>12, <4>1 DEF Dropped
    <3>3. CASE \E q \in ListName : Holds(q, f)
      <4>1. PICK q \in ListName : Holds(q, f)
        BY <3>3
      <4>2. q = to /\ to = "opened"
        BY <1>1, <1>3, <2>2, <3>1, <4>1
      <4>3. Len(list'["opened"]) = OpenedMax
        BY <1>3, <2>2, <4>1, <4>2
      <4>4. effects[f] = 1
        BY <4>1, <4>2 DEF TruthfulCustody
      <4> QED BY <1>12, <4>3, <4>4 DEF Dropped
    <3> QED BY <3>2, <3>3
  <2> QED BY <1>3, <2>1, <2>2 DEF OneCustody, Exclusive, Holds
<1>7. TruthfulCustody'
  <2> SUFFICES ASSUME NEW f \in Env
               PROVE  /\ sent'[f] # "placed" => effects'[f] = 0
                      /\ \A q \in {"ingress", "processing", "dead", "undeliverable"} :
                           Holds(q, f)' => effects'[f] = 0
                      /\ Holds("opened", f)' => effects'[f] = 1
    BY DEF TruthfulCustody
  <2>1. ASSUME NEW q \in {"ingress", "processing", "dead", "undeliverable"}, Holds(q, f)'
        PROVE  effects[f] = 0
    <3>1. CASE Holds(q, f)
      BY <3>1 DEF TruthfulCustody
    <3>2. CASE q = to /\ f = e
      BY <3>2
    <3> QED BY <1>1, <1>5, <2>1, <3>1, <3>2
  <2>2. ASSUME Holds("opened", f)' PROVE effects[f] = 1
    <3>1. CASE Holds("opened", f)
      BY <3>1 DEF TruthfulCustody
    <3>2. CASE "opened" = to /\ f = e
      BY <3>2
    <3> QED BY <1>1, <1>5, <2>2, <3>1, <3>2
  <2> QED BY <2>1, <2>2 DEF TruthfulCustody
<1>8. \A q \in {"opening", "unresolved"} : \A f \in Env :
        f # e /\ Holds(q, f) => Holds(q, f)'
  BY <1>1, <1>3
<1>13. /\ \A f \in Env : Settled(f) => Settled(f)'
       /\ to = "dead" => Settled(e)'
  <2>1. ~Settled(e)
    BY <1>1, <1>3 DEF Settled
  <2>2. ASSUME NEW f \in Env, Settled(f) PROVE Settled(f)'
    BY <1>5, <2>1, <2>2, SettledStays
  <2>3. ASSUME to = "dead" PROVE Settled(e)'
    <3>1. sent[e] = "placed" /\ effects[e] = 0
      BY <1>1, <1>3, <2>3 DEF OneCustody
    <3>2. \A q \in ListName \ {"dead"} : ~Holds(q, e)'
      BY <1>1, <1>3, <2>3 DEF Exclusive, Holds
    <3> QED BY <3>1, <3>2 DEF Settled
  <2> QED BY <2>2, <2>3
<1>9. NoticeTruthful'
  BY <1>13 DEF NoticeTruthful, TypeOK
<1>10. AtMostOnce'
  BY DEF AtMostOnce
<1>11. Len(list'["opened"]) <= OpenedMax
  BY <1>3 DEF TypeOK
<1> QED BY <1>3, <1>6, <1>7, <1>8, <1>9, <1>10, <1>11, <1>13 DEF Exclusive

\* The transfers: surfacing an abandoned claim, discarding, beginning, and the
\* three verdicts.
LEMMA MoveInv ==
    ASSUME Inv, NEW p \in Receivers,
           \/ Surface(p) \/ Discard(p) \/ Begin(p)
           \/ Opened(p) \/ Unresolved(p) \/ Rejected(p)
    PROVE  Inv'
<1> USE DEF Inv
<1>2. pc[p] \in Claiming /\ raw[p] \in Env
  BY DEF Surface, Discard, Begin, Opened, Unresolved, Rejected, TypeOK, Claiming, Opening
<1>e. PICK e \in Env : e = raw[p]
  BY <1>2
<1>1. /\ UNCHANGED <<lease, member, paused, hires, sent, faults, lapses,
                     effects, placed, notices, retired>>
      /\ begun' \in {begun, Append(begun, e)}
  BY <1>e DEF Surface, Discard, Begin, Opened, Unresolved, Rejected, agent, bounds, history
<1>3. PICK from \in {"processing", "opening"},
           to \in {"opening", "opened", "dead", "unresolved"},
           l \in {"surface", "notify", "begun", "claim"} :
        /\ from # to
        /\ Transfer(e, from, to)
        /\ to = "opened" => pc[p] = "done"
        /\ to = "dead" => from = "processing" \/ pc[p] = "rejected"
        /\ pc' = [pc EXCEPT ![p] = l]
        /\ raw' \in {raw, [raw EXCEPT ![p] = None]}
        /\ l \in {"notify", "begun"} => raw' = raw
        /\ l = "notify" => to = "dead"
        /\ l = "begun" => from = "processing" /\ to = "opening"
        /\ to = "opening" => l = "begun"
        /\ from = "opening" => pc[p] \in Opening \/ to = "unresolved"
  <2>1. CASE Surface(p)
    BY <1>e, <2>1 DEF Surface, Goto
  <2>2. CASE Discard(p)
    BY <1>e, <2>2 DEF Discard, Goto
  <2>3. CASE Begin(p)
    BY <1>e, <2>3 DEF Begin, Goto
  <2>4. CASE Opened(p)
    BY <1>e, <2>4 DEF Opened, Goto, Opening
  <2>5. CASE Unresolved(p)
    BY <1>e, <2>5 DEF Unresolved, Goto
  <2>6. CASE Rejected(p)
    BY <1>e, <2>6 DEF Rejected, Goto, Opening
  <2> QED BY <2>1, <2>2, <2>3, <2>4, <2>5, <2>6
<1>4. /\ to = "opened" => effects[e] = 1
      /\ to = "dead" => effects[e] = 0
  <2>1. Holds(from, e)
    BY <1>3 DEF Transfer
  <2>2. from = "processing" => effects[e] = 0
    BY <1>2, <2>1 DEF TruthfulCustody
  <2> QED BY <1>e, <1>3, <2>2 DEF OneOpener
<1>5. /\ (OneCustody /\ AtMostOnce /\ TruthfulCustody /\ NoticeTruthful)'
      /\ list' \in [ListName -> Seq(Env)]
      /\ list'["ingress"] = list["ingress"]
      /\ Len(list'["opened"]) <= OpenedMax
      /\ Holds(from, e)
      /\ Holds(to, e)'
      /\ \A q \in {"opening", "unresolved"} : \A f \in Env :
           f # e /\ Holds(q, f) => Holds(q, f)'
      /\ \A f \in Env : Settled(f) => Settled(f)'
      /\ to = "dead" => Settled(e)'
  BY <1>1, <1>2, <1>3, <1>4, TransferCustody
<1>6. /\ pc' \in [Receivers -> Label]
      /\ raw' \in [Receivers -> Env \cup {None}]
      /\ \A r \in Receivers : pc'[r] \in Claiming => raw'[r] \in Env
  <2>1. /\ pc \in [Receivers -> Label]
        /\ raw \in [Receivers -> Env \cup {None}]
        /\ \A r \in Receivers : pc[r] \in Claiming => raw[r] \in Env
    BY DEF TypeOK
  <2>2. l \in Label /\ (l \in Claiming => l \in {"notify", "begun"})
    BY DEF Label, Receiving, Claiming, Opening
  <2>3. pc' \in [Receivers -> Label]
    BY <1>3, <2>1, <2>2
  <2>4. raw' \in [Receivers -> Env \cup {None}]
    BY <1>3, <2>1
  <2>5. ASSUME NEW r \in Receivers, pc'[r] \in Claiming PROVE raw'[r] \in Env
    <3>1. CASE r = p
      BY <1>e, <1>2, <1>3, <2>1, <2>2, <2>5, <3>1
    <3>2. CASE r # p
      BY <1>3, <2>1, <2>5, <3>2
    <3> QED BY <3>1, <3>2
  <2> QED BY <2>3, <2>4, <2>5
<1>7. TypeOK'
  <2>1. begun' \in Seq(Env)
    <3>1. begun \in Seq(Env)
      BY DEF TypeOK
    <3>2. Append(begun, e) \in Seq(Env)
      BY <1>2, <3>1, AppendProperties
    <3> QED BY <1>1, <3>1, <3>2
  <2> QED BY <1>1, <1>5, <1>6, <2>1 DEF TypeOK
<1>8. OneOpener'
  <2>1. \A r \in Receivers \ {p} : pc'[r] = pc[r] /\ raw'[r] = raw[r]
    BY <1>3 DEF TypeOK
  <2>2. /\ pc'[p] = l
        /\ l \in Opening => l = "begun" /\ raw'[p] = e
        /\ l = "notify" => raw'[p] = e
    BY <1>e, <1>3 DEF TypeOK, Opening
  \* No other receiver is opening the envelope: it would be in opening or
  \* unresolved, and Begin finds it in processing.
  <2>3. ASSUME NEW r \in Receivers \ {p}, pc[r] \in Opening, raw[r] = e
        PROVE  l # "begun" /\ pc[p] \notin Opening
    <3>1. Holds("opening", e) \/ Holds("unresolved", e)
      BY <2>3 DEF OneOpener
    <3>2. from # "processing"
      BY <1>2, <1>5, <3>1 DEF OneCustody, ListName
    <3> QED BY <1>e, <1>3, <2>3, <3>2 DEF OneOpener
  <2>4. ASSUME NEW r \in Receivers \ {p}, pc[r] \in Opening
        PROVE  Holds("opening", raw[r])' \/ Holds("unresolved", raw[r])'
    <3>1. raw[r] \in Env /\ raw'[r] = raw[r]
      BY <2>1, <2>4 DEF TypeOK, Claiming
    <3>2. Holds("opening", raw[r]) \/ Holds("unresolved", raw[r])
      BY <2>4 DEF OneOpener
    <3>3. CASE raw[r] # e
      BY <1>5, <3>1, <3>2, <3>3 DEF Holds
    <3>4. CASE raw[r] = e
      \* Then p does not open it: p surfaces it, and it is unresolved.
      <4>1. from = "opening"
        BY <1>2, <1>5, <3>2, <3>4 DEF OneCustody, ListName
      <4>2. to = "unresolved"
        BY <1>3, <2>3, <2>4, <3>4, <4>1
      <4>3. Holds("unresolved", e)'
        BY <1>5, <4>2
      <4> QED BY <1>e, <1>2, <3>1, <3>4, <4>3 DEF Holds
    <3> QED BY <3>3, <3>4
  <2>5. \A r \in Receivers \ {p} : pc[r] = "notify" => Settled(raw[r])'
    <3> SUFFICES ASSUME NEW r \in Receivers \ {p}, pc[r] = "notify"
                 PROVE  Settled(raw[r])'
      OBVIOUS
    <3>1. PICK f \in Env : f = raw[r] /\ f = raw'[r]
      BY <2>1, NotifyEnv
    <3>2. Settled(f)'
      BY <1>5, <3>1 DEF OneOpener
    <3> QED BY <3>1, <3>2 DEF Settled, Holds
  <2>6. l = "begun" => effects[e] = 0
    BY <1>2, <1>3, <1>5 DEF TruthfulCustody
  <2>7. pc'[p] \in Opening => Holds("opening", e)'
    BY <1>3, <1>5, <2>2
  <2>8. pc'[p] = "notify" => Settled(e)'
    BY <1>3, <1>5, <2>2
  <2> DEFINE One(r) ==
        /\ pc'[r] \in Opening => Holds("opening", raw[r])' \/ Holds("unresolved", raw[r])'
        /\ pc'[r] \in {"begun", "rejected"} => effects'[raw'[r]] = 0
        /\ pc'[r] = "done" => effects'[raw'[r]] = 1
        /\ pc'[r] = "notify" => Settled(raw[r])'
  <2>9. ASSUME NEW r \in Receivers PROVE One(r)
    <3>1. CASE r = p
      <4>1. pc'[p] \in Opening => Holds("opening", raw[p])'
        BY <1>e, <2>2, <2>7 DEF Holds, Opening
      <4>2. pc'[p] = "notify" => Settled(raw[p])'
        BY <2>2, <2>8 DEF Settled, Holds, Opening
      <4>3. pc'[p] \in {"begun", "rejected", "done"} => l = "begun" /\ raw'[p] = e
        BY <2>2 DEF Opening
      <4>4. l = "begun" => pc'[p] = "begun"
        BY <2>2
      <4> QED BY <1>1, <2>6, <3>1, <4>1, <4>2, <4>3, <4>4
    <3>2. CASE r # p
      BY <1>1, <2>1, <2>4, <2>5, <3>2 DEF OneOpener
    <3> QED BY <3>1, <3>2
  <2>10. ASSUME NEW p1 \in Receivers, NEW p2 \in Receivers,
                pc'[p1] \in Opening, pc'[p2] \in Opening, raw'[p1] = raw'[p2]
         PROVE  p1 = p2
    <3>1. CASE p1 # p /\ p2 # p
      BY <2>1, <2>10, <3>1 DEF OneOpener
    <3>2. CASE p1 = p /\ p2 # p
      BY <2>1, <2>2, <2>3, <2>10, <3>2
    <3>3. CASE p1 # p /\ p2 = p
      BY <2>1, <2>2, <2>3, <2>10, <3>3
    <3> QED BY <3>1, <3>2, <3>3
  <2> QED BY <2>9, <2>10 DEF OneOpener
<1> QED BY <1>5, <1>7, <1>8

\* Claiming the head of ingress.
LEMMA ClaimInv ==
    ASSUME Inv, NEW p \in Receivers, Claim(p)
    PROVE  Inv'
<1> USE DEF Inv
<1>1. Exclusive(list)
  BY OneCustodyParts
<1>e. PICK e \in Env : e = Head(list["ingress"])
  BY <1>1, ClaimMoves
<1>2. /\ Exclusive(list')
      /\ Holds("ingress", e)
      /\ Len(list'["ingress"]) <= IngressMax
      /\ \A f \in Env : Holds("ingress", f)' <=> Holds("ingress", f) /\ f # e
      /\ \A f \in Env : Holds("processing", f)' <=> Holds("processing", f) \/ f = e
      /\ \A q \in ListName \ {"ingress", "processing"} : list'[q] = list[q]
  BY <1>e, <1>1, ClaimMoves
<1>3. /\ UNCHANGED <<lease, member, paused, hires, sent, faults, lapses, effects,
                     placed, begun, notices, retired>>
      /\ pc' = [pc EXCEPT ![p] = "hold"]
      /\ raw' = [raw EXCEPT ![p] = e]
  BY <1>e DEF Claim, Goto, agent, bounds, history
<1>4. ListName = {"ingress", "processing", "opening", "opened", "dead",
                  "unresolved", "undeliverable"}
  BY DEF ListName
<1>5. TypeOK'
  <2>1. /\ pc' \in [Receivers -> Label]
        /\ raw' \in [Receivers -> Env \cup {None}]
        /\ \A r \in Receivers : pc'[r] \in Claiming => raw'[r] \in Env
    BY <1>3 DEF TypeOK, Label, Receiving
  <2>2. list' \in [ListName -> Seq(Env)] /\ list'["opened"] = list["opened"]
    BY <1>2, <1>4 DEF Exclusive
  <2> QED BY <1>2, <1>3, <2>1, <2>2 DEF TypeOK
<1>6. OneCustody'
  <2>1. \A f \in Env :
          (\E q \in ListName : Holds(q, f)') <=> (\E q \in ListName : Holds(q, f))
    BY <1>2, <1>4 DEF Holds
  <2>2. list'["opened"] = list["opened"] /\ list'["dead"] = list["dead"]
    BY <1>2, <1>4
  <2>3. \A f \in Env : (\E q \in ListName : Holds(q, f)') => sent'[f] = "placed"
    BY <1>3, <2>1 DEF OneCustody
  <2>4. \A f \in Env : sent'[f] = "placed" /\ (\A q \in ListName : ~Holds(q, f)')
          => Dropped(f)'
    BY <1>3, <2>1, <2>2 DEF OneCustody, Dropped
  <2> QED BY <1>2, <2>3, <2>4 DEF OneCustody, Exclusive, Holds
<1>7. \A q \in {"opening", "unresolved", "dead", "opened", "undeliverable"} :
        list'[q] = list[q]
  BY <1>2, <1>4
<1>11. ASSUME NEW f \in Env, Settled(f) PROVE Settled(f)'
  <2>1. f # e
    BY <1>2, <1>4, <1>11 DEF Settled
  <2>2. \A q \in ListName \ {"dead"} : Holds(q, f)' => Holds(q, f)
    BY <1>2, <1>4, <2>1 DEF Holds
  <2> QED BY <1>3, <1>11, <2>2, SettledStays
<1>8. OneOpener'
  <2>1. \A r \in Receivers : pc'[r] \in Opening \cup {"notify"} =>
          pc'[r] = pc[r] /\ raw'[r] = raw[r]
    BY <1>3 DEF TypeOK, Opening
  <2>2. {"begun", "rejected", "done"} \subseteq Opening
    BY DEF Opening
  <2>3. \A r \in Receivers : pc'[r] = "notify" => Settled(raw[r])'
    <3> SUFFICES ASSUME NEW r \in Receivers, pc'[r] = "notify"
                 PROVE  Settled(raw[r])'
      OBVIOUS
    <3>1. PICK f \in Env : f = raw[r] /\ f = raw'[r] /\ Settled(f)
      BY <2>1, NotifyEnv DEF OneOpener
    <3>2. Settled(f)'
      BY <1>11, <3>1
    <3> QED BY <3>1, <3>2 DEF Settled, Holds
  <2> QED BY <1>3, <1>7, <2>1, <2>2, <2>3 DEF OneOpener, Holds
<1>9. TruthfulCustody'
  <2>1. effects[e] = 0
    BY <1>2 DEF TruthfulCustody
  <2>2. \A f \in Env : /\ Holds("dead", f)' <=> Holds("dead", f)
                       /\ Holds("undeliverable", f)' <=> Holds("undeliverable", f)
                       /\ Holds("opened", f)' <=> Holds("opened", f)
    BY <1>7 DEF Holds
  <2> QED BY <1>2, <1>3, <2>1, <2>2 DEF TruthfulCustody
<1>10. (AtMostOnce /\ NoticeTruthful)'
  BY <1>3, <1>11 DEF AtMostOnce, NoticeTruthful, TypeOK
<1> QED BY <1>5, <1>6, <1>8, <1>9, <1>10

\* The opener's effect: the one step that counts.
LEMMA ActInv ==
    ASSUME Inv, NEW p \in Receivers, OpenerActs(p)
    PROVE  Inv'
<1> USE DEF Inv
<1>e. PICK e \in Env : e = raw[p]
  BY DEF OpenerActs, TypeOK, Claiming, Opening
<1>1. /\ UNCHANGED <<list, lease, member, paused, hires, raw, sent, faults, lapses,
                     placed, begun, notices, retired>>
      /\ pc[p] = "begun"
      /\ effects' = [effects EXCEPT ![e] = @ + 1]
      /\ \E l \in {"done", "raised"} : pc' = [pc EXCEPT ![p] = l]
  BY <1>e DEF OpenerActs, Goto, queues, agent, bounds
<1>2. /\ effects[e] = 0
      /\ Holds("opening", e) \/ Holds("unresolved", e)
  BY <1>e, <1>1 DEF OneOpener, Opening
<1>3. /\ effects'[e] = 1
      /\ \A f \in Env \ {e} : effects'[f] = effects[f]
      /\ effects' \in [Env -> Nat]
  BY <1>1, <1>2 DEF TypeOK
<1>4. \A q, f : Holds(q, f)' <=> In(list[q], f)
  BY <1>1 DEF Holds
<1>5. TypeOK'
  <2>1. /\ pc' \in [Receivers -> Label]
        /\ \A r \in Receivers : pc'[r] \in Claiming => raw'[r] \in Env
    BY <1>1 DEF TypeOK, Label, Receiving, Opening, Claiming
  <2> QED BY <1>1, <1>3, <2>1 DEF TypeOK
<1>6. \A q \in {"ingress", "processing", "dead", "undeliverable", "opened"} :
        ~Holds(q, e)
  BY <1>2 DEF OneCustody, ListName
<1>7. sent[e] = "placed"
  BY <1>2 DEF OneCustody, ListName
<1>8. OneCustody'
  <2>1. \A f \in Env : sent'[f] = "placed" /\ (\A q \in ListName : ~Holds(q, f)')
          => Dropped(f)'
    <3>1. \E q \in ListName : Holds(q, e)
      BY <1>2 DEF ListName
    <3> QED BY <1>1, <1>3, <1>4, <3>1 DEF OneCustody, Dropped, Holds
  <2> QED BY <1>1, <1>4, <2>1 DEF OneCustody, Holds
<1>12. ASSUME NEW f \in Env, Settled(f) PROVE f # e /\ Settled(f)'
  <2>1. f # e
    BY <1>2, <1>12 DEF Settled, ListName
  <2> QED BY <1>1, <1>3, <1>4, <1>12, <2>1 DEF Settled, Holds
<1>9. OneOpener'
  <2>1. \A r \in Receivers \ {p} : pc'[r] = pc[r]
    BY <1>1 DEF TypeOK
  <2>2. pc'[p] \in {"done", "raised"}
    BY <1>1 DEF TypeOK
  <2>3. ASSUME NEW r \in Receivers \ {p}, pc[r] \in Opening PROVE raw[r] # e
    BY <1>e, <1>1, <2>3 DEF OneOpener, Opening
  <2>4. \A r \in Receivers : pc[r] \in Opening => raw[r] \in Env
    BY DEF TypeOK, Claiming
  <2>5. ASSUME NEW r \in Receivers
        PROVE  /\ pc'[r] \in Opening => pc[r] \in Opening
               /\ pc'[r] \in {"begun", "rejected"} => effects'[raw[r]] = 0
               /\ pc'[r] = "done" => effects'[raw[r]] = 1
               /\ pc'[r] = "notify" => Settled(raw[r])'
    <3>1. CASE r = p
      BY <1>e, <1>1, <1>3, <2>2, <3>1 DEF Opening
    <3>2. CASE r # p
      <4>1. ASSUME pc'[r] = "notify" PROVE Settled(raw[r])'
        <5>1. PICK f \in Env : f = raw[r] /\ f = raw'[r] /\ Settled(f)
          BY <1>1, <2>1, <3>2, <4>1, NotifyEnv DEF OneOpener
        <5>2. Settled(f)'
          BY <1>12, <5>1
        <5> QED BY <5>1, <5>2 DEF Settled, Holds
      <4> QED BY <1>3, <2>1, <2>3, <2>4, <3>2, <4>1 DEF OneOpener, Opening
    <3> QED BY <3>1, <3>2
  <2> QED BY <1>1, <2>5 DEF OneOpener, Holds
<1>10. (AtMostOnce /\ TruthfulCustody)'
  BY <1>1, <1>3, <1>4, <1>6, <1>7 DEF AtMostOnce, TruthfulCustody, Holds
<1>11. NoticeTruthful'
  BY <1>1, <1>12 DEF NoticeTruthful, TypeOK
<1> QED BY <1>5, <1>8, <1>9, <1>10, <1>11

\* Telling the sender.
LEMMA NotifyInv ==
    ASSUME Inv, NEW p \in Receivers, Notify(p)
    PROVE  Inv'
<1> USE DEF Inv
<1>e. PICK e \in Env : e = raw[p]
  BY DEF Notify, TypeOK, Claiming
<1>1. /\ UNCHANGED <<list, lease, member, paused, hires, sent, faults, lapses, effects,
                     placed, begun, retired>>
      /\ pc[p] = "notify"
      /\ pc' = [pc EXCEPT ![p] = "claim"]
      /\ raw' = [raw EXCEPT ![p] = None]
      /\ notices' \subseteq notices \cup {e}
  BY <1>e DEF Notify, Goto, queues, agent, bounds
<1>2. Settled(e)
  BY <1>e, <1>1 DEF OneOpener
<1>3. TypeOK'
  <2>1. /\ pc' \in [Receivers -> Label]
        /\ raw' \in [Receivers -> Env \cup {None}]
        /\ \A r \in Receivers : pc'[r] \in Claiming => raw'[r] \in Env
    BY <1>1 DEF TypeOK, Label, Receiving, Claiming, Opening
  <2>2. notices' \subseteq Env
    BY <1>1 DEF TypeOK
  <2> QED BY <1>1, <2>1, <2>2 DEF TypeOK
<1>4. (OneCustody /\ AtMostOnce /\ TruthfulCustody)'
  BY <1>1 DEF OneCustody, Dropped, AtMostOnce, TruthfulCustody, Holds
<1>7. \A f : Settled(f)' <=> Settled(f)
  BY <1>1 DEF Settled, Holds
<1>5. NoticeTruthful'
  BY <1>1, <1>2, <1>7 DEF NoticeTruthful
<1>6. OneOpener'
  <2>1. \A r \in Receivers : pc'[r] \in Opening \cup {"notify"} =>
          pc'[r] = pc[r] /\ raw'[r] = raw[r]
    BY <1>1 DEF TypeOK, Opening
  <2>2. {"begun", "rejected", "done"} \subseteq Opening
    BY DEF Opening
  <2>3. \A r \in Receivers : pc'[r] = "notify" => Settled(raw[r])'
    <3> SUFFICES ASSUME NEW r \in Receivers, pc'[r] = "notify"
                 PROVE  Settled(raw[r])'
      OBVIOUS
    <3>1. PICK f \in Env : f = raw[r] /\ f = raw'[r] /\ Settled(f)
      BY <2>1, NotifyEnv DEF OneOpener
    <3> QED BY <1>7, <3>1 DEF Settled, Holds
  <2> QED BY <1>1, <2>1, <2>2, <2>3 DEF OneOpener, Holds
<1> QED BY <1>3, <1>4, <1>5, <1>6

\* Retirement, whatever runs.
LEMMA StopInv ==
    ASSUME Inv, StopAgent
    PROVE  Inv'
<1> USE BoundsAssumption DEF Inv
<1>1. /\ UNCHANGED <<hires, pc, raw, sent, faults, lapses, effects, placed, begun, notices>>
      /\ member' = FALSE /\ paused' = FALSE /\ lease' = None
      /\ retired' = (retired \/ lease \in Procs)
  BY DEF StopAgent, bounds
<1>2. /\ Exclusive(list')
      /\ list'["ingress"] = <<>>
      /\ \A q \in {"ingress", "processing", "opening"} : \A f \in Env : ~Holds(q, f)'
      /\ \A f \in Env : Holds("undeliverable", f)' <=>
           \/ Holds("undeliverable", f) \/ Holds("processing", f) \/ Holds("ingress", f)
      /\ \A f \in Env : Holds("unresolved", f)' <=>
           Holds("unresolved", f) \/ Holds("opening", f)
      /\ \A q \in {"opened", "dead"} : list'[q] = list[q]
  BY OneCustodyParts, StopMoves
<1>3. ListName = {"ingress", "processing", "opening", "opened", "dead",
                  "unresolved", "undeliverable"}
  BY DEF ListName
<1>4. TypeOK'
  <2>1. Len(list'["ingress"]) = 0
    BY <1>2
  <2>2. list' \in [ListName -> Seq(Env)] /\ list'["opened"] = list["opened"]
    BY <1>2 DEF Exclusive
  <2>3. member' \in BOOLEAN /\ paused' \in BOOLEAN /\ retired' \in BOOLEAN
    BY <1>1
  <2>4. lease' \in Procs \cup {None, Orphan}
    BY <1>1
  <2>5. Len(list'["ingress"]) <= IngressMax
    BY <2>1
  <2>6. /\ Len(list'["opened"]) <= OpenedMax
        /\ pc' \in [Receivers -> Label]
        /\ raw' \in [Receivers -> Env \cup {None}]
        /\ \A r \in Receivers : pc'[r] \in Claiming => raw'[r] \in Env
        /\ sent' \in [Env -> SentState]
        /\ faults' \in Nat /\ lapses' \in Nat /\ hires' \in Nat
        /\ effects' \in [Env -> Nat]
        /\ placed' \in Seq(Env)
        /\ begun' \in Seq(Env)
        /\ notices' \subseteq Env
    BY <1>1, <2>2 DEF TypeOK
  <2> QED BY <2>2, <2>3, <2>4, <2>5, <2>6 DEF TypeOK
<1>5. \A f \in Env : /\ Holds("dead", f)' <=> Holds("dead", f)
                     /\ Holds("opened", f)' <=> Holds("opened", f)
  BY <1>2 DEF Holds
<1>6. OneCustody'
  <2>1. \A f \in Env :
          (\E q \in ListName : Holds(q, f)') <=> (\E q \in ListName : Holds(q, f))
    BY <1>2, <1>3, <1>5
  <2>2. \A f \in Env : (\E q \in ListName : Holds(q, f)') => sent'[f] = "placed"
    BY <1>1, <2>1 DEF OneCustody
  <2>3. \A f \in Env : sent'[f] = "placed" /\ (\A q \in ListName : ~Holds(q, f)')
          => Dropped(f)'
    BY <1>1, <1>2, <2>1 DEF OneCustody, Dropped
  <2> QED BY <1>2, <2>2, <2>3 DEF OneCustody, Exclusive, Holds
<1>10. ASSUME NEW f \in Env, Settled(f) PROVE Settled(f)'
  <2>1. \A q \in ListName \ {"dead"} : Holds(q, f)' => \E q1 \in ListName \ {"dead"} :
          Holds(q1, f)
    BY <1>2, <1>3, <1>5
  <2> QED BY <1>1, <1>10, <2>1 DEF Settled
<1>7. OneOpener'
  <2>1. ASSUME NEW r \in Receivers
        PROVE  /\ pc[r] \in Opening => Holds("unresolved", raw[r])'
               /\ pc[r] = "notify" => Settled(raw[r])'
    <3>1. CASE pc[r] \in Opening \cup {"notify"}
      <4>1. PICK f \in Env : f = raw[r] /\ f = raw'[r]
        BY <1>1, <3>1 DEF TypeOK, Claiming
      <4>2. /\ pc[r] \in Opening => Holds("unresolved", f)'
            /\ pc[r] = "notify" => Settled(f)'
        BY <1>2, <1>10, <4>1 DEF OneOpener
      <4> QED BY <4>1, <4>2 DEF Holds, Settled
    <3> QED BY <3>1
  <2> QED BY <1>1, <2>1 DEF OneOpener
<1>8. (AtMostOnce /\ TruthfulCustody)'
  BY <1>1, <1>2, <1>5 DEF AtMostOnce, TruthfulCustody
<1>9. NoticeTruthful'
  BY <1>1, <1>10 DEF NoticeTruthful, TypeOK
<1> QED BY <1>4, <1>6, <1>7, <1>8, <1>9

\* Retention drops dead envelopes; what it drops had no effect.
LEMMA TrimInv ==
    ASSUME Inv, TrimDead
    PROVE  Inv'
<1> USE BoundsAssumption DEF Inv
<1> DEFINE s == list["dead"]
           t == LTrim(s, DeadMax)
<1>1. /\ UNCHANGED <<lease, member, paused, hires, pc, raw, sent, faults, lapses,
                     effects, placed, begun, notices, retired>>
      /\ list' = [list EXCEPT !["dead"] = t]
      /\ Len(s) > DeadMax
  BY DEF TrimDead, agent, bounds, history
<1>2. /\ "dead" \in ListName /\ "ingress" \in ListName /\ "opened" \in ListName
      /\ s \in Seq(Env) /\ IsInjective(s)
      /\ list \in [ListName -> Seq(Env)]
  BY DEF ListName, TypeOK, OneCustody
<1>3. /\ t \in Seq(Env)
      /\ IsInjective(t)
      /\ \A f : In(t, f) => In(s, f)
      /\ Len(t) = DeadMax
  <2>1. s # <<>> /\ Len(s) \in Nat
    BY <1>1, <1>2, LenProperties
  <2> QED BY <1>1, <1>2, <2>1, LTrimIn
<1> HIDE DEF t
<1>4. /\ list' \in [ListName -> Seq(Env)]
      /\ list'["dead"] = t
      /\ \A q \in ListName \ {"dead"} : list'[q] = list[q]
  BY <1>1, <1>2, <1>3
<1>5. /\ \A q \in ListName : \A f \in Env : Holds(q, f)' => Holds(q, f)
      /\ \A q \in ListName \ {"dead"} : \A f \in Env : Holds(q, f)' <=> Holds(q, f)
  BY <1>3, <1>4 DEF Holds
<1>6. TypeOK'
  BY <1>1, <1>2, <1>4 DEF TypeOK
<1>7. OneCustody'
  <2>1. \A q \in ListName : IsInjective(list'[q])
    BY <1>3, <1>4 DEF OneCustody
  <2>2. ASSUME NEW f \in Env, sent'[f] = "placed", \A q \in ListName : ~Holds(q, f)'
        PROVE  Dropped(f)'
    <3>1. CASE Holds("dead", f)
      <4>1. effects[f] = 0
        BY <3>1 DEF TruthfulCustody
      <4> QED BY <1>1, <1>3, <1>4, <4>1 DEF Dropped
    <3>2. CASE ~Holds("dead", f)
      <4>1. Dropped(f)
        BY <1>1, <1>5, <2>2, <3>2 DEF OneCustody
      <4> QED BY <1>1, <1>2, <1>3, <1>4, <4>1 DEF Dropped
    <3> QED BY <3>1, <3>2
  <2>3. \A q1, q2 \in ListName : \A f \in Env :
          Holds(q1, f)' /\ Holds(q2, f)' => q1 = q2
    BY <1>5 DEF OneCustody
  <2>4. \A f \in Env : (\E q \in ListName : Holds(q, f)') => sent'[f] = "placed"
    BY <1>1, <1>5 DEF OneCustody
  <2> QED BY <2>1, <2>2, <2>3, <2>4 DEF OneCustody
<1>8. \A f \in Env : Settled(f) => Settled(f)'
  BY <1>1, <1>5 DEF Settled
<1>9. OneOpener'
  <2>1. \A r \in Receivers : pc[r] \in Opening =>
          (Holds("opening", raw[r])' <=> Holds("opening", raw[r]))
          /\ (Holds("unresolved", raw[r])' <=> Holds("unresolved", raw[r]))
    BY <1>1, <1>4 DEF Holds, ListName
  <2>2. \A r \in Receivers : pc[r] = "notify" => Settled(raw[r])'
    <3> SUFFICES ASSUME NEW r \in Receivers, pc[r] = "notify"
                 PROVE  Settled(raw[r])'
      OBVIOUS
    <3>1. PICK f \in Env : f = raw[r] /\ f = raw'[r] /\ Settled(f)
      BY <1>1, NotifyEnv DEF OneOpener
    <3>2. Settled(f)'
      BY <1>8, <3>1
    <3> QED BY <3>1, <3>2 DEF Settled, Holds
  <2> QED BY <1>1, <2>1, <2>2 DEF OneOpener
<1>10. TruthfulCustody'
  BY <1>1, <1>5 DEF TruthfulCustody, ListName
<1>11. (AtMostOnce /\ NoticeTruthful)'
  BY <1>1, <1>8 DEF AtMostOnce, NoticeTruthful, TypeOK
<1> QED BY <1>6, <1>7, <1>9, <1>10, <1>11

-----------------------------------------------------------------------------
(* The theorems                                                              *)

\* Every step of the system, or none, preserves the invariant.
LEMMA StepInv == Inv /\ [Next]_vars => Inv'
<1> SUFFICES ASSUME Inv, [Next]_vars PROVE Inv'
  OBVIOUS
<1>1. CASE UNCHANGED vars
  <2>1. /\ Still
        /\ UNCHANGED <<lease, member, paused, hires, pc, raw, faults, lapses,
                       placed, begun, retired>>
    BY <1>1 DEF vars, queues, agent, bounds, history, Still
  <2>2. TypeOK'
    BY <2>1 DEF Inv, Still, TypeOK
  <2>3. OneOpener'
    BY <2>1, StillOpener
  <2> QED BY <2>1, <2>2, <2>3, StillInv DEF Inv
<1>2. CASE \E e \in Env : Send(e)
  BY <1>2, PlaceInv, RefuseInv DEF Send
<1>3. ASSUME NEW p \in Receivers, Receive(p) PROVE Inv'
  <2>1. CASE Open(p)
    BY <2>1, MoveInv, ReadInv, ActInv, NotifyInv DEF Open
  <2>2. CASE ~Open(p)
    BY <1>3, <2>2, MoveInv, ReadInv, ClaimInv DEF Receive
  <2> QED BY <2>1, <2>2
<1>4. CASE \E p \in Procs : Port(p) \/ Reconcile(p)
  <2>1. PICK p \in Procs : Port(p) \/ Reconcile(p)
    BY <1>4
  <2>2. p \in Receivers
    BY DEF Receivers
  <2>3. CASE Acquire(p) \/ AcquireTimeout(p) \/ Release(p)
    BY <2>2, <2>3, LeaseInv
  <2>4. CASE CheckPaused(p)
    BY <2>2, <2>4, ReadInv
  <2>5. CASE Receive(p)
    BY <1>3, <2>2, <2>5
  <2>6. CASE Reconcile(p)
    BY <2>6, AgentInv
  <2> QED BY <2>1, <2>3, <2>4, <2>5, <2>6 DEF Port
<1>5. CASE Deliver \/ OrphanExpires \/ LeaseLapses
  <2>1. Watchdog \in Receivers
    BY DEF Receivers
  <2>2. CASE Receive(Watchdog)
    BY <1>3, <2>1, <2>2
  <2>3. CASE Release(Watchdog) \/ OrphanExpires \/ LeaseLapses
    BY <2>1, <2>3, LeaseInv
  <2> QED BY <1>5, <2>2, <2>3 DEF Deliver
<1>6. CASE Lifecycle
  BY <1>6, AgentInv, StopInv DEF Lifecycle
<1>7. CASE \E p \in Receivers : Kill(p) \/ Abort(p)
  BY <1>7, ReadInv
<1>8. CASE TrimDead
  BY <1>8, TrimInv
<1> QED BY <1>1, <1>2, <1>4, <1>5, <1>6, <1>7, <1>8 DEF Next

\* All of custody's safety, in every reachable state.
THEOREM Safety == Spec => []Inv
<1> QED BY InitInv, StepInv, PTL DEF Spec

\* Type correctness.
THEOREM TypeCorrect == Spec => []TypeOK
<1>1. Inv => TypeOK
  BY DEF Inv
<1> QED BY <1>1, Safety, PTL

\* No envelope is lost or held twice, for any number of crashes, lapsed leases,
\* concurrent receivers and retirements.
THEOREM CustodyConserved == Spec => []OneCustody
<1>1. Inv => OneCustody
  BY DEF Inv
<1> QED BY <1>1, Safety, PTL

\* No envelope's effect happens twice, under the same conditions: the transfer
\* scripts alone ensure it, the delivery lease is not needed for it.
THEOREM EffectAtMostOnce == Spec => []AtMostOnce
<1>1. Inv => AtMostOnce
  BY DEF Inv
<1> QED BY <1>1, Safety, PTL

\* What the operator's surfaces say of an envelope's effect is true.
THEOREM SurfacesTruthful == Spec => []TruthfulCustody
<1>1. Inv => TruthfulCustody
  BY DEF Inv
<1> QED BY <1>1, Safety, PTL

\* A sender told of a failed delivery can rely on it.
THEOREM NoticesTruthful == Spec => []NoticeTruthful
<1>1. Inv => NoticeTruthful
  BY DEF Inv
<1> QED BY <1>1, Safety, PTL

\* An envelope has at most one opener, however many receivers run.
THEOREM OpenerUnique == Spec => []OneOpener
<1>1. Inv => OneOpener
  BY DEF Inv
<1> QED BY <1>1, Safety, PTL

-----------------------------------------------------------------------------
(* The undisturbed regime: one receiver at a time, and envelopes in order.   *)

\* The points at which a port process holds the lease.
Busy == Receiving \cup {"check"}

\* Whoever is in receive() is the port process that the lease names.
LeaseHeld == \A r \in Receivers : pc[r] \in Busy => r \in Procs /\ lease = r

\* processing holds one claim at most, and what the one receiver knows of it.
ClaimHeld ==
    /\ Len(list["processing"]) <= 1
    /\ \A r \in Receivers :
         /\ pc[r] = "hold" => list["processing"] = <<raw[r]>>
         /\ pc[r] \in Opening \cup {"notify", "claim"} => list["processing"] = <<>>
         /\ pc[r] \in Opening \cup {"surfacing"} => Holds("opening", raw[r])

\* Ingress admitted e before f.
Ahead(e, f) == \E i, j \in DOMAIN placed : i < j /\ placed[i] = e /\ placed[j] = f

Waits(f) == Holds("processing", f) \/ Holds("ingress", f)

\* What waits is in the order of its admission, the claim before the rest.
QueueOrdered ==
    /\ \A i, j \in DOMAIN list["ingress"] :
         i < j => Ahead(list["ingress"][i], list["ingress"][j])
    /\ \A e, f \in Env : Holds("processing", e) /\ Holds("ingress", f) => Ahead(e, f)

\* What has crossed into opening did so in that order, and before what waits.
BegunOrdered ==
    /\ \A i, j \in DOMAIN begun : i < j => Ahead(begun[i], begun[j])
    /\ \A e, f \in Env : In(begun, e) /\ Waits(f) => Ahead(e, f)

Calm == LeaseHeld /\ ClaimHeld /\ QueueOrdered /\ BegunOrdered

\* The history of admissions: each envelope once, and whatever has begun.
PlacedOnce ==
    /\ IsInjective(placed)
    /\ \A e \in Env : In(placed, e) <=> sent[e] = "placed"
    /\ \A e \in Env : In(begun, e) => sent[e] = "placed"

\* The inductive invariant of the regime.
CalmInv == Inv /\ PlacedOnce /\ (Undisturbed => Calm)

\* Nobody else is in receive().
LEMMA OnlyOne ==
    ASSUME LeaseHeld, NEW p \in Receivers, pc[p] \in Busy
    PROVE  /\ p \in Procs /\ lease = p
           /\ \A r \in Receivers \ {p} : pc[r] \notin Busy
BY DEF LeaseHeld

\* A step that leaves ingress and the history alone, and adds no claim, keeps the
\* order.
LEMMA SameOrder ==
    ASSUME QueueOrdered, BegunOrdered, UNCHANGED <<placed, begun>>,
           list'["ingress"] = list["ingress"],
           \A f \in Env : Holds("processing", f)' => Holds("processing", f)
    PROVE  (QueueOrdered /\ BegunOrdered)'
BY DEF QueueOrdered, BegunOrdered, Ahead, Waits, Holds

\* What is known of a receiver that is in receive().
Knows(r) ==
    /\ pc[r] = "hold" => list["processing"] = <<raw[r]>>
    /\ pc[r] \in Opening \cup {"notify", "claim"} => list["processing"] = <<>>
    /\ pc[r] \in Opening \cup {"surfacing"} => Holds("opening", raw[r])

\* A step of one receiver that keeps the lists: the others are not in receive()
\* or are as they were.
LEMMA StillCalm ==
    ASSUME Calm, UNCHANGED <<list, placed, begun>>,
           \A r \in Receivers : pc'[r] \in Busy => r \in Procs /\ lease' = r /\ Knows(r)'
    PROVE  Calm'
<1>1. LeaseHeld'
  BY DEF LeaseHeld
<1>2. ClaimHeld'
  <2>1. Opening \cup {"notify", "claim", "hold", "surfacing"} \subseteq Busy
    BY DEF Opening, Busy, Receiving
  <2> QED BY <2>1 DEF Calm, ClaimHeld, Knows
<1>3. (QueueOrdered /\ BegunOrdered)'
  BY SameOrder DEF Calm, Holds
<1> QED BY <1>1, <1>2, <1>3 DEF Calm

\* Steps of the lease: it is taken when nobody has it.
LEMMA LeaseCalm ==
    ASSUME Inv, Calm, NEW p \in Receivers,
           \/ p \in Procs /\ Acquire(p)
           \/ AcquireTimeout(p) \/ Release(p) \/ OrphanExpires
    PROVE  Calm'
<1>1. UNCHANGED <<list, placed, begun, raw>>
  BY DEF Acquire, AcquireTimeout, Release, OrphanExpires, queues, agent, bounds, history
<1>2. /\ pc \in [Receivers -> Label]
      /\ Orphan \notin Procs /\ None \notin Procs
  BY SetsAssumption DEF Inv, TypeOK
<1>3. \A r \in Receivers : Knows(r)
  BY DEF Calm, ClaimHeld, Knows
<1>4. \A r \in Receivers : pc[r] \in Busy => r \in Procs /\ lease = r
  BY DEF Calm, LeaseHeld
<1>5. \A r \in Receivers : pc'[r] = pc[r] => Knows(r)'
  BY <1>1, <1>3 DEF Knows, Holds
<1>6. "idle" \notin Busy /\ "waiting" \notin Busy /\ "release" \notin Busy
  BY DEF Busy, Receiving, Opening
<1>7. CASE p \in Procs /\ Acquire(p)
  <2>1. /\ lease = None /\ lease' = p
        /\ pc' = [pc EXCEPT ![p] = "check"]
    BY <1>7 DEF Acquire, Goto
  <2>2. \A r \in Receivers : pc[r] \notin Busy
    BY <1>2, <1>4, <2>1
  <2>3. \A r \in Receivers \ {p} : pc'[r] = pc[r]
    BY <2>1
  <2>4. pc'[p] = "check"
    BY <1>2, <2>1
  <2>5. Knows(p)'
    BY <2>4 DEF Knows, Opening
  <2> QED BY <1>1, <1>7, <2>1, <2>2, <2>3, <2>5, StillCalm
<1>8. CASE AcquireTimeout(p) \/ Release(p)
  <2>1. /\ pc' = [pc EXCEPT ![p] = "idle"]
        /\ pc[p] \notin Busy
        /\ lease' \in {lease, None}
        /\ lease # p => lease' = lease
    BY <1>6, <1>8 DEF AcquireTimeout, Release, Goto, queues
  <2>2. \A r \in Receivers \ {p} : pc'[r] = pc[r]
    BY <2>1
  <2>3. pc'[p] \notin Busy
    BY <1>2, <1>6, <2>1
  <2>4. \A r \in Receivers : pc'[r] \in Busy => r # p /\ pc[r] \in Busy /\ pc'[r] = pc[r]
    BY <2>2, <2>3
  <2>5. \A r \in Receivers : pc'[r] \in Busy => r \in Procs /\ lease' = r /\ Knows(r)'
    BY <1>4, <1>5, <2>1, <2>4
  <2> QED BY <1>1, <2>5, StillCalm
<1>9. CASE OrphanExpires
  <2>1. pc' = pc /\ lease = Orphan
    BY <1>9 DEF OrphanExpires
  <2>2. \A r \in Receivers : pc'[r] \notin Busy
    BY <1>2, <1>4, <2>1
  <2> QED BY <1>1, <2>2, StillCalm
<1> QED BY <1>7, <1>8, <1>9

\* Steps of a receiver that move no envelope.
LEMMA ReadCalm ==
    ASSUME Inv, Calm, NEW p \in Receivers,
           \/ CheckPaused(p) \/ SurfaceRead(p) \/ Recover(p) \/ Drained(p)
           \/ OpenerRejects(p) \/ OpenerActs(p) \/ OpenerFails(p) \/ Notify(p)
           \/ LoseOwnership(p) \/ Abort(p)
    PROVE  Calm'
<1>1. UNCHANGED <<list, lease, placed, begun>>
  BY DEF CheckPaused, SurfaceRead, Recover, Drained, OpenerRejects, OpenerActs,
         OpenerFails, Notify, LoseOwnership, Abort, queues, agent, bounds, history
<1>2. /\ pc \in [Receivers -> Label]
      /\ raw \in [Receivers -> Env \cup {None}]
      /\ list["processing"] \in Seq(Env) /\ list["opening"] \in Seq(Env)
  BY DEF Inv, TypeOK, ListName
<1>3. /\ pc[p] \in Busy
      /\ "release" \notin Busy
      /\ Opening = {"begun", "done", "rejected", "raised"}
  BY DEF CheckPaused, SurfaceRead, Recover, Drained, OpenerRejects, OpenerActs,
         OpenerFails, Notify, LoseOwnership, Abort, Busy, Receiving, Opening
<1>4. /\ p \in Procs /\ lease = p
      /\ \A r \in Receivers \ {p} : pc[r] \notin Busy
  BY <1>3, OnlyOne DEF Calm
<1>5. PICK l \in Label, e \in Env \cup {None} :
        /\ pc' = [pc EXCEPT ![p] = l]
        /\ raw' = [raw EXCEPT ![p] = e]
        /\ l \notin {"idle", "waiting", "release", "check", "surface", "recover"} =>
             \/ l = "surfacing" /\ list["opening"] # <<>> /\ e = Head(list["opening"])
             \/ l = "hold" /\ list["processing"] # <<>> /\ e = Head(list["processing"])
             \/ l = "claim" /\ list["processing"] = <<>>
             \/ l = "claim" /\ pc[p] = "notify"
             \/ l \in Opening /\ pc[p] = "begun" /\ e = raw[p]
  <2>0. /\ Label = {"idle", "waiting", "check", "release", "surface", "surfacing",
                    "recover", "hold", "notify", "claim", "begun", "done",
                    "rejected", "raised"}
        /\ raw = [raw EXCEPT ![p] = raw[p]]
        /\ raw[p] \in Env \cup {None}
    BY <1>2 DEF Label, Receiving, Opening
  <2>1. \A q \in {"opening", "processing"} : list[q] # <<>> => Head(list[q]) \in Env
    BY <1>2, TailIn
  <2>2. CASE CheckPaused(p)
    BY <2>0, <2>2 DEF CheckPaused, Goto
  <2>3. CASE SurfaceRead(p)
    BY <2>0, <2>1, <2>3 DEF SurfaceRead, Goto
  <2>4. CASE Recover(p)
    BY <2>0, <2>1, <2>4 DEF Recover, Goto
  <2>5. CASE Drained(p) \/ LoseOwnership(p) \/ Abort(p)
    BY <2>0, <2>5 DEF Drained, LoseOwnership, Abort, Leave, Goto
  <2>6. CASE OpenerRejects(p) \/ OpenerFails(p)
    BY <1>3, <2>0, <2>6 DEF OpenerRejects, OpenerFails, Goto
  <2>7. CASE OpenerActs(p)
    BY <1>3, <2>0, <2>7 DEF OpenerActs, Goto
  <2>8. CASE Notify(p)
    BY <2>0, <2>8 DEF Notify, Goto
  <2> QED BY <2>2, <2>3, <2>4, <2>5, <2>6, <2>7, <2>8
<1>6. /\ pc'[p] = l /\ raw'[p] = e
      /\ \A r \in Receivers \ {p} : pc'[r] = pc[r]
  BY <1>2, <1>5
<1>7. Knows(p)'
  <2>1. Knows(p) /\ Len(list["processing"]) <= 1
    BY DEF Calm, ClaimHeld, Knows
  <2>2. CASE l \in {"idle", "waiting", "release", "check", "surface", "recover"}
    BY <1>3, <1>6, <2>2 DEF Knows
  <2>3. CASE l = "surfacing" /\ list["opening"] # <<>> /\ e = Head(list["opening"])
    <3>1. In(list["opening"], e)
      BY <1>2, <2>3, TailIn
    <3> QED BY <1>1, <1>3, <1>6, <2>3, <3>1 DEF Knows, Holds
  <2>4. CASE l = "hold" /\ list["processing"] # <<>> /\ e = Head(list["processing"])
    <3>1. list["processing"] = <<Head(list["processing"])>>
      BY <1>2, <2>1, <2>4
    <3> QED BY <1>1, <1>3, <1>6, <2>4, <3>1 DEF Knows
  <2>5. CASE l = "claim" /\ (list["processing"] = <<>> \/ pc[p] = "notify")
    <3>1. list["processing"] = <<>>
      BY <2>1, <2>5 DEF Knows
    <3> QED BY <1>1, <1>3, <1>6, <2>5, <3>1 DEF Knows
  <2>6. CASE l \in Opening /\ pc[p] = "begun" /\ e = raw[p]
    <3>1. list["processing"] = <<>> /\ Holds("opening", raw[p])
      BY <1>3, <2>1, <2>6 DEF Knows
    <3> QED BY <1>1, <1>3, <1>6, <2>6, <3>1 DEF Knows, Holds
  <2> QED BY <1>5, <2>2, <2>3, <2>4, <2>5, <2>6
<1> QED BY <1>1, <1>4, <1>6, <1>7, StillCalm

\* A receiver that dies leaves its lease to nobody.
LEMMA KillCalm ==
    ASSUME Inv, Calm, NEW p \in Receivers, Kill(p)
    PROVE  Calm'
<1>1. /\ UNCHANGED <<list, placed, begun>>
      /\ pc' = [pc EXCEPT ![p] = "idle"]
      /\ raw' = [raw EXCEPT ![p] = None]
      /\ lease # p => lease' = lease
  BY DEF Kill, Goto, agent, history
<1>2. /\ pc \in [Receivers -> Label]
      /\ raw \in [Receivers -> Env \cup {None}]
  BY DEF Inv, TypeOK
<1>3. /\ pc'[p] \notin Busy
      /\ \A r \in Receivers \ {p} : pc'[r] = pc[r] /\ raw'[r] = raw[r]
  BY <1>1, <1>2 DEF Busy, Receiving, Opening
<1>4. ASSUME NEW r \in Receivers, pc'[r] \in Busy
      PROVE  r \in Procs /\ lease' = r /\ Knows(r)'
  <2>1. r # p /\ pc'[r] = pc[r] /\ raw'[r] = raw[r]
    BY <1>3, <1>4
  <2>2. r \in Procs /\ lease = r /\ Knows(r)
    BY <1>4, <2>1 DEF Calm, LeaseHeld, ClaimHeld, Knows
  <2> QED BY <1>1, <2>1, <2>2 DEF Knows, Holds
<1> QED BY <1>1, <1>4, StillCalm

\* Hiring, pausing, resuming, kicks, and the senders' looks and refusals.
LEMMA AgentCalm ==
    ASSUME Inv, Calm,
           \/ StartAgent \/ PauseAgent \/ ResumeAgent
           \/ \E p \in Procs : Reconcile(p)
           \/ \E e \in Env : Lookup(e) \/ Refuse(e)
    PROVE  Calm'
<1>1. UNCHANGED <<list, placed, begun, raw, lease>>
  BY DEF StartAgent, PauseAgent, ResumeAgent, Reconcile, Lookup, Refuse, queues, agent,
         bounds, history
<1>2. \A r \in Receivers : pc'[r] \in Busy => pc'[r] = pc[r]
  <2>1. CASE UNCHANGED pc
    BY <2>1
  <2>2. CASE \E S \in SUBSET Idle : Kicked(S)
    BY <2>2 DEF Kicked, Busy, Receiving, Opening
  <2>3. CASE \E p \in Procs : Reconcile(p)
    BY <2>2, <2>3 DEF Reconcile
  <2> QED BY <2>1, <2>2, <2>3 DEF StartAgent, PauseAgent, ResumeAgent, Lookup, Refuse
<1>3. ASSUME NEW r \in Receivers, pc'[r] \in Busy
      PROVE  r \in Procs /\ lease' = r /\ Knows(r)'
  <2>1. r \in Procs /\ lease = r /\ Knows(r) /\ pc'[r] = pc[r]
    BY <1>2, <1>3 DEF Calm, LeaseHeld, ClaimHeld, Knows
  <2> QED BY <1>1, <2>1 DEF Knows, Holds
<1> QED BY <1>1, <1>3, StillCalm

\* The order of admissions is kept by later ones, and each comes last.
LEMMA AheadGrows ==
    ASSUME placed \in Seq(Env), NEW e \in Env, placed' = Append(placed, e)
    PROVE  /\ \A f, g : Ahead(f, g) => Ahead(f, g)'
           /\ \A f : In(placed, f) => Ahead(f, e)'
<1>1. /\ DOMAIN placed = 1 .. Len(placed)
      /\ Len(placed) \in Nat
      /\ DOMAIN placed' = 1 .. Len(placed) + 1
      /\ \A i \in 1 .. Len(placed) : placed'[i] = placed[i]
      /\ placed'[Len(placed) + 1] = e
  BY LenProperties, AppendProperties
<1>2. ASSUME NEW f, NEW g, Ahead(f, g) PROVE Ahead(f, g)'
  <2>1. PICK i, j \in DOMAIN placed : i < j /\ placed[i] = f /\ placed[j] = g
    BY <1>2 DEF Ahead
  <2>2. /\ i \in DOMAIN placed' /\ j \in DOMAIN placed'
        /\ placed'[i] = f /\ placed'[j] = g
    BY <1>1, <2>1
  <2> QED BY <2>1, <2>2 DEF Ahead
<1>3. ASSUME NEW f, In(placed, f) PROVE Ahead(f, e)'
  <2>1. PICK i \in DOMAIN placed : placed[i] = f
    BY <1>3 DEF In
  <2>2. /\ i \in DOMAIN placed' /\ Len(placed) + 1 \in DOMAIN placed'
        /\ i < Len(placed) + 1
        /\ placed'[i] = f /\ placed'[Len(placed) + 1] = e
    BY <1>1, <2>1
  <2> QED BY <2>2 DEF Ahead
<1> QED BY <1>2, <1>3

\* What waits has been admitted.
LEMMA WaitingPlaced ==
    ASSUME Inv, PlacedOnce
    PROVE  /\ \A f \in Env : Waits(f) \/ In(begun, f) => In(placed, f)
           /\ \A i \in DOMAIN list["ingress"] :
                list["ingress"][i] \in Env /\ Holds("ingress", list["ingress"][i])
           /\ \A i \in DOMAIN begun : begun[i] \in Env /\ In(begun, begun[i])
<1>1. "ingress" \in ListName /\ "processing" \in ListName
  BY DEF ListName
<1>2. \A f \in Env : Waits(f) => sent[f] = "placed"
  BY <1>1 DEF Inv, OneCustody, Waits
<1>3. list["ingress"] \in Seq(Env) /\ begun \in Seq(Env)
  BY <1>1 DEF Inv, TypeOK
<1>4. \A i \in DOMAIN list["ingress"] : list["ingress"][i] \in Env
  BY <1>3, ElementOfSeq, LenProperties
<1>5. \A i \in DOMAIN begun : begun[i] \in Env
  BY <1>3, ElementOfSeq, LenProperties
<1> QED BY <1>2, <1>4, <1>5 DEF PlacedOnce, In, Holds

\* Admission puts an envelope behind everything that waits or has begun.
LEMMA PlaceCalm ==
    ASSUME Inv, PlacedOnce, Calm, NEW e \in Env, Admit(e)
    PROVE  Calm'
<1>1. Place(e) /\ TypeOK /\ OneCustody
  BY DEF Admit, Inv
<1>2. /\ \A f \in Env : Holds("ingress", f)' <=> Holds("ingress", f) \/ f = e
      /\ \A q \in ListName \ {"ingress"} : list'[q] = list[q]
      /\ \A q \in ListName : ~Holds(q, e)
  BY <1>1, PlaceMoves
<1>3. /\ UNCHANGED <<lease, raw, begun>>
      /\ placed' = Append(placed, e)
      /\ list'["ingress"] = Append(list["ingress"], e)
      /\ list["ingress"] \in Seq(Env)
      /\ placed \in Seq(Env)
      /\ list'["processing"] = list["processing"] /\ list'["opening"] = list["opening"]
  BY <1>1, <1>2 DEF Place, TypeOK, ListName
<1>4. /\ \A f, g : Ahead(f, g) => Ahead(f, g)'
      /\ \A f : In(placed, f) => Ahead(f, e)'
  BY <1>3, AheadGrows
<1>5. /\ \A f \in Env : Waits(f) \/ In(begun, f) => In(placed, f)
      /\ \A i \in DOMAIN list["ingress"] :
           list["ingress"][i] \in Env /\ Holds("ingress", list["ingress"][i])
  BY WaitingPlaced
<1>6. \A r \in Receivers : pc'[r] \in Busy => pc'[r] = pc[r]
  <2>1. PICK S \in SUBSET Idle : Kicked(S)
    BY DEF Admit
  <2> QED BY <2>1 DEF Kicked, Busy, Receiving, Opening
<1>7. LeaseHeld'
  BY <1>3, <1>6 DEF Calm, LeaseHeld
<1>8. ClaimHeld'
  <2>1. Opening \cup {"notify", "claim", "hold", "surfacing"} \subseteq Busy
    BY DEF Opening, Busy, Receiving
  <2> QED BY <1>3, <1>6, <2>1 DEF Calm, ClaimHeld, Holds
<1>9. QueueOrdered'
  <2> DEFINE s == list["ingress"]
  <2>1. /\ DOMAIN s = 1 .. Len(s)
        /\ Len(s) \in Nat
        /\ DOMAIN s' = 1 .. Len(s) + 1
        /\ \A i \in 1 .. Len(s) : s'[i] = s[i]
        /\ s'[Len(s) + 1] = e
    BY <1>3, LenProperties, AppendProperties
  <2>2. ASSUME NEW i \in DOMAIN s', NEW j \in DOMAIN s', i < j PROVE Ahead(s[i], s[j])'
    <3>1. i \in DOMAIN s /\ s'[i] = s[i]
      BY <2>1, <2>2
    <3>2. CASE j = Len(s) + 1
      <4>1. In(placed, s[i])
        BY <1>5, <3>1 DEF Waits
      <4> QED BY <1>4, <2>1, <3>1, <3>2, <4>1
    <3>3. CASE j # Len(s) + 1
      <4>1. j \in DOMAIN s /\ s'[j] = s[j]
        BY <2>1, <3>3
      <4> QED BY <1>4, <2>2, <3>1, <4>1 DEF Calm, QueueOrdered
    <3> QED BY <3>2, <3>3
  <2>3. ASSUME NEW f \in Env, NEW g \in Env, Holds("processing", f)', Holds("ingress", g)'
        PROVE  Ahead(f, g)'
    <3>1. Holds("processing", f)
      BY <1>3, <2>3 DEF Holds
    <3>2. CASE g = e
      BY <1>4, <1>5, <3>1, <3>2 DEF Waits
    <3>3. CASE g # e
      BY <1>2, <1>4, <2>3, <3>1, <3>3 DEF Calm, QueueOrdered
    <3> QED BY <3>2, <3>3
  <2> QED BY <2>2, <2>3 DEF QueueOrdered
<1>10. BegunOrdered'
  <2>1. ASSUME NEW f \in Env, NEW g \in Env, In(begun, f), Waits(g)' PROVE Ahead(f, g)'
    <3>1. CASE g = e
      BY <1>4, <1>5, <2>1, <3>1
    <3>2. CASE g # e
      <4>1. Waits(g)
        BY <1>2, <1>3, <2>1, <3>2 DEF Waits, Holds
      <4> QED BY <1>4, <2>1, <4>1 DEF Calm, BegunOrdered
    <3> QED BY <3>1, <3>2
  <2> QED BY <1>3, <1>4, <2>1 DEF Calm, BegunOrdered
<1> QED BY <1>7, <1>8, <1>9, <1>10 DEF Calm

\* A transfer by the one receiver: it works on the claim, and nothing else waits
\* in processing.
LEMMA MoveCalm ==
    ASSUME Inv, PlacedOnce, Calm, NEW p \in Receivers,
           \/ Surface(p) \/ Discard(p) \/ Begin(p)
           \/ Opened(p) \/ Unresolved(p) \/ Rejected(p)
    PROVE  Calm'
<1>1. /\ pc[p] \in Claiming /\ pc[p] \in Busy
      /\ UNCHANGED <<lease, placed>>
      /\ Opening = {"begun", "done", "rejected", "raised"}
  BY DEF Surface, Discard, Begin, Opened, Unresolved, Rejected, Claiming, Busy, Receiving,
         Opening, history
<1>e. PICK e \in Env : e = raw[p]
  BY <1>1 DEF Inv, TypeOK
<1>2. /\ p \in Procs /\ lease = p
      /\ \A r \in Receivers \ {p} : pc[r] \notin Busy
  BY <1>1, OnlyOne DEF Calm
<1>3. /\ Knows(p)
      /\ TypeOK /\ Exclusive(list)
      /\ pc \in [Receivers -> Label]
      /\ raw \in [Receivers -> Env \cup {None}]
      /\ list \in [ListName -> Seq(Env)]
      /\ list["processing"] \in Seq(Env) /\ IsInjective(list["processing"])
  BY OneCustodyParts DEF Calm, ClaimHeld, Knows, Inv, TypeOK, OneCustody, ListName
<1>4. PICK from \in {"processing", "opening"},
           to \in {"opening", "opened", "dead", "unresolved"},
           l \in {"surface", "notify", "begun", "claim"} :
        /\ from # to
        /\ Transfer(e, from, to)
        /\ pc' = [pc EXCEPT ![p] = l]
        /\ from = "processing" <=> pc[p] = "hold"
        /\ l # "surface" /\ from = "opening" => pc[p] \in Opening
        /\ l = "begun" =>
             /\ from = "processing" /\ to = "opening"
             /\ raw' = raw
             /\ begun' = Append(begun, e)
        /\ l # "begun" => begun' = begun
  <2>1. CASE Surface(p)
    BY <1>e, <2>1 DEF Surface, Goto, history
  <2>2. CASE Discard(p)
    BY <1>e, <2>2 DEF Discard, Goto, history
  <2>3. CASE Begin(p)
    BY <1>e, <2>3 DEF Begin, Goto
  <2>4. CASE Opened(p)
    BY <1>1, <1>e, <2>4 DEF Opened, Goto, history
  <2>5. CASE Unresolved(p)
    BY <1>1, <1>e, <2>5 DEF Unresolved, Goto, history
  <2>6. CASE Rejected(p)
    BY <1>1, <1>e, <2>6 DEF Rejected, Goto, history
  <2> QED BY <2>1, <2>2, <2>3, <2>4, <2>5, <2>6
<1>5. /\ list'["ingress"] = list["ingress"]
      /\ Holds(to, e)'
  BY <1>3, <1>4, TransferMoves DEF ListName
<1>6. from = "opening" => list'["processing"] = list["processing"]
  BY <1>3, <1>4 DEF Transfer, ListName
<1>7. from = "processing" =>
        /\ Holds("processing", e)
        /\ list'["processing"] = <<>>
  <2> SUFFICES ASSUME from = "processing"
               PROVE  Holds("processing", e) /\ list'["processing"] = <<>>
    OBVIOUS
  <2>1. list["processing"] = <<e>> /\ Len(<<e>>) = 1
    BY <1>e, <1>3, <1>4 DEF Knows
  <2>2. In(list["processing"], e)
    BY <1>4 DEF Transfer, Holds
  <2>3. list'["processing"] = LRem(list["processing"], e)
    BY <1>3, <1>4 DEF Transfer, ListName
  <2>4. /\ LRem(list["processing"], e) \in Seq(Env)
        /\ Len(LRem(list["processing"], e)) = Len(list["processing"]) - 1
    BY <1>3, <2>2, LRemIn
  <2>5. LRem(list["processing"], e) = <<>>
    BY <2>1, <2>4, EmptySeq
  <2> QED BY <2>2, <2>3, <2>5 DEF Holds
<1>8. /\ pc'[p] = l
      /\ \A r \in Receivers \ {p} : pc'[r] \notin Busy
  BY <1>2, <1>3, <1>4
<1>9. LeaseHeld'
  BY <1>1, <1>2, <1>8 DEF LeaseHeld
<1>10. l # "surface" => list'["processing"] = <<>>
  BY <1>3, <1>4, <1>6, <1>7 DEF Knows
<1>11. ClaimHeld'
  <2>1. Len(list'["processing"]) <= 1
    BY <1>6, <1>7 DEF Calm, ClaimHeld
  <2>2. Opening \cup {"notify", "claim", "hold", "surfacing"} \subseteq Busy
    BY DEF Opening, Busy, Receiving
  <2>3. l = "begun" => Holds("opening", raw[p])'
    BY <1>e, <1>4, <1>5 DEF Holds
  <2> QED BY <1>1, <1>8, <1>10, <2>1, <2>2, <2>3 DEF ClaimHeld
<1>12. \A f \in Env : Holds("processing", f)' => Holds("processing", f)
  <2>1. \A f : ~In(<<>>, f)
    BY DEF In
  <2> QED BY <1>6, <1>7, <2>1 DEF Holds
<1>13. CASE l # "begun"
  <2>1. (QueueOrdered /\ BegunOrdered)'
    BY <1>1, <1>4, <1>5, <1>12, <1>13, SameOrder DEF Calm
  <2> QED BY <1>9, <1>11, <2>1 DEF Calm
<1>14. CASE l = "begun"
  <2>1. QueueOrdered'
    BY <1>1, <1>5, <1>12 DEF Calm, QueueOrdered, Ahead, Holds
  <2>2. /\ begun' = Append(begun, e)
        /\ begun \in Seq(Env)
        /\ Waits(e)
    BY <1>4, <1>7, <1>14 DEF Waits, Inv, TypeOK
  <2>3. /\ DOMAIN begun = 1 .. Len(begun)
        /\ Len(begun) \in Nat
        /\ DOMAIN begun' = 1 .. Len(begun) + 1
        /\ \A i \in 1 .. Len(begun) : begun'[i] = begun[i]
        /\ begun'[Len(begun) + 1] = e
    BY <2>2, LenProperties, AppendProperties
  <2>4. \A f, g : Ahead(f, g)' <=> Ahead(f, g)
    BY <1>1 DEF Ahead
  <2>5. ASSUME NEW i \in DOMAIN begun', NEW j \in DOMAIN begun', i < j
        PROVE  Ahead(begun'[i], begun'[j])
    <3>1. i \in DOMAIN begun /\ begun'[i] = begun[i] /\ begun[i] \in Env /\ In(begun, begun[i])
      BY <2>3, <2>5, WaitingPlaced
    <3>2. CASE j = Len(begun) + 1
      BY <2>2, <2>3, <3>1, <3>2 DEF Calm, BegunOrdered
    <3>3. CASE j # Len(begun) + 1
      <4>1. j \in DOMAIN begun /\ begun'[j] = begun[j]
        BY <2>3, <3>3
      <4> QED BY <2>5, <3>1, <4>1 DEF Calm, BegunOrdered
    <3> QED BY <3>2, <3>3
  <2>6. ASSUME NEW f \in Env, NEW g \in Env, In(begun, f)', Waits(g)'
        PROVE  Ahead(f, g)
    <3>1. Holds("ingress", g)
      <4>1. \A h : ~In(<<>>, h)
        BY DEF In
      <4> QED BY <1>4, <1>5, <1>7, <1>14, <2>6, <4>1 DEF Waits, Holds
    <3>2. In(begun, f) \/ f = e
      BY <2>2, <2>6, AppendIn
    <3>3. CASE In(begun, f)
      BY <3>1, <3>3 DEF Calm, BegunOrdered, Waits
    <3>4. CASE f = e
      BY <1>4, <1>7, <1>14, <3>1, <3>4 DEF Calm, QueueOrdered
    <3> QED BY <3>2, <3>3, <3>4
  <2>7. BegunOrdered'
    BY <2>4, <2>5, <2>6 DEF BegunOrdered
  <2> QED BY <1>9, <1>11, <2>1, <2>7 DEF Calm
<1> QED BY <1>13, <1>14

\* Claiming: processing is empty, and the oldest of ingress comes first.
LEMMA ClaimCalm ==
    ASSUME Inv, PlacedOnce, Calm, NEW p \in Receivers, Claim(p)
    PROVE  Calm'
<1>1. /\ pc[p] = "claim" /\ pc[p] \in Busy
      /\ UNCHANGED <<lease, placed, begun>>
      /\ pc' = [pc EXCEPT ![p] = "hold"]
      /\ list["ingress"] # <<>>
  BY DEF Claim, Busy, Receiving, Goto, history
<1>2. /\ p \in Procs /\ lease = p
      /\ \A r \in Receivers \ {p} : pc[r] \notin Busy
  BY <1>1, OnlyOne DEF Calm
<1>3. /\ TypeOK /\ Exclusive(list)
      /\ pc \in [Receivers -> Label]
      /\ raw \in [Receivers -> Env \cup {None}]
      /\ list \in [ListName -> Seq(Env)]
      /\ list["ingress"] \in Seq(Env) /\ IsInjective(list["ingress"])
      /\ list["processing"] = <<>>
  BY <1>1, OneCustodyParts DEF Calm, ClaimHeld, Inv, TypeOK, OneCustody, ListName
<1>e. PICK e \in Env : e = Head(list["ingress"])
  BY <1>3, ClaimMoves
<1>4. /\ list'["ingress"] = Tail(list["ingress"])
      /\ list'["processing"] = Append(<<>>, e)
      /\ list'["opening"] = list["opening"]
      /\ raw' = [raw EXCEPT ![p] = e]
  BY <1>e, <1>3 DEF Claim, ListName
<1>5. /\ Append(<<>>, e) = <<e>>
      /\ Len(<<e>>) = 1
      /\ \A f : In(<<e>>, f) <=> f = e
  BY DEF In
<1>6. /\ pc'[p] = "hold" /\ raw'[p] = e
      /\ \A r \in Receivers \ {p} : pc'[r] \notin Busy
  BY <1>1, <1>2, <1>3, <1>4
<1>7. LeaseHeld'
  BY <1>1, <1>2, <1>6 DEF LeaseHeld
<1>8. ClaimHeld'
  <2>1. Opening \cup {"notify", "claim", "hold", "surfacing"} \subseteq Busy
    BY DEF Opening, Busy, Receiving
  <2>2. "hold" \notin Opening \cup {"notify", "claim", "surfacing"}
    BY DEF Opening
  <2> QED BY <1>4, <1>5, <1>6, <2>1, <2>2 DEF ClaimHeld
<1>9. \A f, g : Ahead(f, g)' <=> Ahead(f, g)
  BY <1>1 DEF Ahead
<1> DEFINE s == list["ingress"]
<1>10. /\ DOMAIN s = 1 .. Len(s)
       /\ Len(s) \in Nat /\ Len(s) > 0
       /\ s[1] = e
       /\ DOMAIN s' = 1 .. Len(s) - 1
       /\ \A i \in DOMAIN s' : s'[i] = s[i + 1]
  <2>1. s' = Tail(s) /\ s \in Seq(Env) /\ s # <<>>
    BY <1>1, <1>3, <1>4
  <2>2. /\ Tail(s) \in Seq(Env)
        /\ Len(Tail(s)) = Len(s) - 1
        /\ \A i \in 1 .. Len(Tail(s)) : Tail(s)[i] = s[i + 1]
    BY <2>1, HeadTailProperties
  <2> QED BY <1>e, <2>1, <2>2, LenProperties, EmptySeq, HeadTailProperties
<1>11. \A f \in Env : Holds("ingress", f)' => Holds("ingress", f)
  BY <1>3, ClaimMoves
<1>12. QueueOrdered'
  <2>1. ASSUME NEW i \in DOMAIN s', NEW j \in DOMAIN s', i < j
        PROVE  Ahead(s'[i], s'[j])
    <3>1. i + 1 \in DOMAIN s /\ j + 1 \in DOMAIN s /\ i + 1 < j + 1
      BY <1>10, <2>1
    <3> QED BY <1>10, <3>1 DEF Calm, QueueOrdered
  <2>2. ASSUME NEW f \in Env, NEW g \in Env, Holds("processing", f)', Holds("ingress", g)'
        PROVE  Ahead(f, g)
    <3>1. f = e
      BY <1>4, <1>5, <2>2 DEF Holds
    <3>2. PICK i \in DOMAIN s' : s'[i] = g
      BY <2>2 DEF Holds, In
    <3>3. 1 \in DOMAIN s /\ i + 1 \in DOMAIN s /\ 1 < i + 1
      BY <1>10, <3>2
    <3> QED BY <1>10, <3>1, <3>2, <3>3 DEF Calm, QueueOrdered
  <2> QED BY <1>9, <2>1, <2>2 DEF QueueOrdered
<1>13. BegunOrdered'
  <2>1. Holds("ingress", e)
    BY <1>e, <1>3, ClaimMoves
  <2>2. \A f \in Env : Waits(f)' => Waits(f)
    BY <1>4, <1>5, <1>11, <2>1 DEF Waits, Holds
  <2> QED BY <1>1, <1>9, <2>2 DEF Calm, BegunOrdered
<1> QED BY <1>7, <1>8, <1>12, <1>13 DEF Calm

\* Retirement with no lease held finds nobody in receive() and leaves nothing
\* that waits.
LEMMA StopCalm ==
    ASSUME Inv, Calm, StopAgent, ~retired'
    PROVE  Calm'
<1>1. /\ UNCHANGED <<pc, raw, placed, begun>>
      /\ lease \notin Procs
      /\ list \in [ListName -> Seq(Env)]
  BY DEF StopAgent, Inv, TypeOK
<1>2. \A r \in Receivers : pc'[r] \notin Busy
  BY <1>1 DEF Calm, LeaseHeld
<1>3. LeaseHeld'
  BY <1>2 DEF LeaseHeld
<1>4. list'["processing"] = <<>> /\ list'["ingress"] = <<>>
  BY <1>1 DEF StopAgent, ListName
<1>5. /\ Len(<<>>) = 0
      /\ DOMAIN <<>> = {}
      /\ \A f : ~Holds("processing", f)' /\ ~Holds("ingress", f)'
  BY <1>4 DEF Holds, In
<1>6. ClaimHeld'
  <2>1. Opening \cup {"notify", "claim", "hold", "surfacing"} \subseteq Busy
    BY DEF Opening, Busy, Receiving
  <2> QED BY <1>2, <1>4, <1>5, <2>1 DEF ClaimHeld
<1>7. QueueOrdered'
  BY <1>4, <1>5 DEF QueueOrdered
<1>8. BegunOrdered'
  BY <1>1, <1>5 DEF Calm, BegunOrdered, Ahead, Waits
<1> QED BY <1>3, <1>6, <1>7, <1>8 DEF Calm

\* Retention touches neither what waits nor what is being opened.
LEMMA TrimCalm ==
    ASSUME Inv, Calm, TrimDead
    PROVE  Calm'
<1>1. /\ UNCHANGED <<pc, raw, lease, placed, begun>>
      /\ list'["processing"] = list["processing"]
      /\ list'["ingress"] = list["ingress"]
      /\ list'["opening"] = list["opening"]
  BY DEF TrimDead, history, Inv, TypeOK, ListName
<1>2. LeaseHeld' /\ ClaimHeld'
  BY <1>1 DEF Calm, LeaseHeld, ClaimHeld, Holds
<1>3. (QueueOrdered /\ BegunOrdered)'
  BY <1>1, SameOrder DEF Calm, Holds
<1> QED BY <1>2, <1>3 DEF Calm

\* The history of admissions agrees with what the senders know.
LEMMA PlacedStep ==
    ASSUME Inv, PlacedOnce, [Next]_vars
    PROVE  PlacedOnce'
<1>1. CASE UNCHANGED <<sent, placed, begun>>
  BY <1>1 DEF PlacedOnce
<1>2. ASSUME NEW e \in Env, Lookup(e) \/ Refuse(e)
      PROVE  PlacedOnce'
  <2>1. /\ UNCHANGED <<placed, begun>>
        /\ sent[e] # "placed"
        /\ \E v \in {"routed", "refused"} : sent' = [sent EXCEPT ![e] = v]
        /\ sent \in [Env -> SentState]
    BY <1>2 DEF Lookup, Refuse, history, Inv, TypeOK
  <2>2. \A f \in Env : sent'[f] = "placed" <=> sent[f] = "placed"
    BY <2>1
  <2> QED BY <2>1, <2>2 DEF PlacedOnce
<1>3. ASSUME NEW e \in Env, Place(e)
      PROVE  PlacedOnce'
  <2>1. /\ begun' = begun
        /\ placed' = Append(placed, e)
        /\ sent[e] # "placed"
        /\ sent' = [sent EXCEPT ![e] = "placed"]
        /\ placed \in Seq(Env)
        /\ sent \in [Env -> SentState]
    BY <1>3 DEF Place, Inv, TypeOK
  <2>2. \A f \in Env : sent'[f] = "placed" <=> sent[f] = "placed" \/ f = e
    BY <2>1
  <2>3. /\ \A f : In(placed', f) <=> In(placed, f) \/ f = e
        /\ ~In(placed, e) /\ IsInjective(placed) => IsInjective(placed')
    BY <2>1, AppendIn
  <2> QED BY <2>1, <2>2, <2>3 DEF PlacedOnce
<1>4. ASSUME NEW p \in Receivers, Begin(p)
      PROVE  PlacedOnce'
  <2>1. PICK e \in Env : e = raw[p]
    BY <1>4 DEF Begin, Inv, TypeOK, Claiming
  <2>2. /\ UNCHANGED <<placed, sent>>
        /\ begun' = Append(begun, e)
        /\ begun \in Seq(Env)
        /\ Holds("processing", e)
        /\ "processing" \in ListName
    BY <1>4, <2>1 DEF Begin, Transfer, ListName, Inv, TypeOK
  <2>3. \A f : In(begun', f) <=> In(begun, f) \/ f = e
    BY <2>2, AppendIn
  <2>4. sent[e] = "placed"
    BY <2>2 DEF Inv, OneCustody
  <2> QED BY <2>2, <2>3, <2>4 DEF PlacedOnce
<1>5. ASSUME NEW p \in Receivers, Receive(p)
      PROVE  PlacedOnce'
  <2>1. CASE Begin(p)
    BY <1>4, <2>1
  <2>2. CASE ~Begin(p)
    <3>1. UNCHANGED <<sent, placed, begun>>
      BY <1>5, <2>2 DEF Receive, Open, SurfaceRead, Surface, Recover, Claim, Drained,
         Discard, OpenerRejects, OpenerActs, OpenerFails, Opened, Unresolved, Rejected,
         Notify, LoseOwnership, history
    <3> QED BY <1>1, <3>1
  <2> QED BY <2>1, <2>2
<1>6. CASE \E e \in Env : Send(e)
  BY <1>2, <1>3, <1>6 DEF Send, Admit, NotifyLead
<1>7. CASE \E p \in Procs : Port(p) \/ Reconcile(p)
  <2>1. PICK p \in Procs : Port(p) \/ Reconcile(p)
    BY <1>7
  <2>2. CASE Receive(p)
    BY <1>5, <2>2 DEF Receivers
  <2>3. CASE ~Receive(p)
    <3>1. UNCHANGED <<sent, placed, begun>>
      BY <2>1, <2>3 DEF Port, Acquire, AcquireTimeout, CheckPaused, Release, Reconcile,
         history
    <3> QED BY <1>1, <3>1
  <2> QED BY <2>2, <2>3
<1>8. CASE Deliver
  <2>1. CASE Receive(Watchdog)
    BY <1>5, <2>1 DEF Receivers
  <2>2. CASE Release(Watchdog)
    <3>1. UNCHANGED <<sent, placed, begun>>
      BY <2>2 DEF Release, history
    <3> QED BY <1>1, <3>1
  <2> QED BY <1>8, <2>1, <2>2 DEF Deliver
<1>9. CASE \/ \E p \in Receivers : Kill(p) \/ Abort(p)
           \/ OrphanExpires \/ LeaseLapses \/ TrimDead \/ Lifecycle
  <2>1. UNCHANGED <<sent, placed, begun>>
    BY <1>9 DEF Kill, Abort, OrphanExpires, LeaseLapses, TrimDead, Lifecycle, StartAgent,
       StopAgent, PauseAgent, ResumeAgent, history
  <2> QED BY <1>1, <2>1
<1>10. CASE UNCHANGED vars
  BY <1>1, <1>10 DEF vars, history
<1> QED BY <1>6, <1>7, <1>8, <1>9, <1>10 DEF Next

\* Every step that does not end the regime keeps it calm.
LEMMA CalmStep ==
    ASSUME Inv, PlacedOnce, Calm, Undisturbed, [Next]_vars, Undisturbed'
    PROVE  Calm'
<1>1. ASSUME NEW p \in Receivers, Receive(p) PROVE Calm'
  <2>1. CASE Open(p)
    BY <2>1, MoveCalm, ReadCalm DEF Open
  <2>2. CASE ~Open(p)
    BY <1>1, <2>2, MoveCalm, ReadCalm, ClaimCalm DEF Receive
  <2> QED BY <2>1, <2>2
<1>2. CASE \E e \in Env : Send(e)
  <2>1. \A e \in Env : ~NotifyLead(e)
    BY DEF Undisturbed, NotifyLead
  <2> QED BY <1>2, <2>1, PlaceCalm, AgentCalm DEF Send
<1>3. CASE \E p \in Procs : Port(p) \/ Reconcile(p)
  <2>1. PICK p \in Procs : Port(p) \/ Reconcile(p)
    BY <1>3
  <2>2. p \in Receivers
    BY DEF Receivers
  <2>3. CASE Acquire(p) \/ AcquireTimeout(p) \/ Release(p)
    BY <2>2, <2>3, LeaseCalm
  <2>4. CASE CheckPaused(p)
    BY <2>2, <2>4, ReadCalm
  <2>5. CASE Receive(p)
    BY <1>1, <2>2, <2>5
  <2>6. CASE Reconcile(p)
    BY <2>6, AgentCalm
  <2> QED BY <2>1, <2>3, <2>4, <2>5, <2>6 DEF Port
<1>4. CASE Deliver \/ OrphanExpires
  <2>1. Watchdog \in Receivers
    BY DEF Receivers
  <2>2. CASE Receive(Watchdog)
    BY <1>1, <2>1, <2>2
  <2>3. CASE Release(Watchdog) \/ OrphanExpires
    BY <2>1, <2>3, LeaseCalm
  <2> QED BY <1>4, <2>2, <2>3 DEF Deliver
<1>5. ~LeaseLapses
  <2>1. lapses = 0 /\ lapses' = 0
    BY DEF Undisturbed
  <2> QED BY <2>1 DEF LeaseLapses
<1>6. CASE Lifecycle
  <2>1. ~retired'
    BY DEF Undisturbed
  <2> QED BY <1>6, <2>1, AgentCalm, StopCalm DEF Lifecycle
<1>7. CASE \E p \in Receivers : Kill(p) \/ Abort(p)
  BY <1>7, KillCalm, ReadCalm
<1>8. CASE TrimDead
  BY <1>8, TrimCalm
<1>9. CASE UNCHANGED vars
  <2>1. UNCHANGED <<list, lease, pc, raw, placed, begun>>
    BY <1>9 DEF vars, queues, history
  <2> QED BY <2>1 DEF Calm, LeaseHeld, ClaimHeld, QueueOrdered, BegunOrdered, Ahead,
             Waits, Holds
<1> QED BY <1>2, <1>3, <1>4, <1>5, <1>6, <1>7, <1>8, <1>9 DEF Next

\* The regime never comes back once it has ended.
LEMMA StaysDisturbed ==
    ASSUME Inv, [Next]_vars, Undisturbed'
    PROVE  Undisturbed
<1>1. lapses \in Nat /\ retired \in BOOLEAN
  BY DEF Inv, TypeOK
<1>2. (lapses' = lapses \/ lapses' = lapses + 1) /\ (retired => retired')
  <2>1. CASE UNCHANGED <<lapses, retired>>
    BY <2>1
  <2>2. CASE LeaseLapses
    BY <2>2 DEF LeaseLapses, history
  <2>3. CASE StopAgent
    BY <2>3 DEF StopAgent, bounds
  <2>4. ASSUME NEW p \in Receivers, Receive(p) PROVE UNCHANGED <<lapses, retired>>
    <3>1. CASE Open(p)
      BY <3>1 DEF Open, Discard, Begin, OpenerRejects, OpenerActs, OpenerFails, Opened,
         Unresolved, Rejected, Notify, LoseOwnership, bounds, history
    <3>2. CASE ~Open(p)
      BY <2>4, <3>2 DEF Receive, SurfaceRead, Surface, Recover, Claim, Drained, bounds,
         history
    <3> QED BY <3>1, <3>2
  <2>5. CASE \E e \in Env : Send(e)
    <3>1. UNCHANGED <<lapses, retired>>
      BY <2>5 DEF Send, Lookup, Admit, NotifyLead, Refuse, Place, bounds, history
    <3> QED BY <2>1, <3>1
  <2>6. CASE \E p \in Procs : Port(p) \/ Reconcile(p)
    <3>1. PICK p \in Procs : Port(p) \/ Reconcile(p)
      BY <2>6
    <3>2. UNCHANGED <<lapses, retired>>
      BY <2>4, <3>1 DEF Port, Acquire, AcquireTimeout, CheckPaused, Release, Reconcile,
         Receivers, bounds, history
    <3> QED BY <2>1, <3>2
  <2>7. CASE Deliver
    <3>1. UNCHANGED <<lapses, retired>>
      BY <2>4, <2>7 DEF Deliver, Release, Receivers, bounds, history
    <3> QED BY <2>1, <3>1
  <2>8. CASE \/ \E p \in Receivers : Kill(p) \/ Abort(p)
             \/ OrphanExpires \/ TrimDead \/ StartAgent \/ PauseAgent \/ ResumeAgent
    <3>1. UNCHANGED <<lapses, retired>>
      BY <2>8 DEF Kill, Abort, OrphanExpires, TrimDead, StartAgent, PauseAgent,
         ResumeAgent, bounds, history
    <3> QED BY <2>1, <3>1
  <2>9. CASE UNCHANGED vars
    BY <2>1, <2>9 DEF vars, bounds, history
  <2> QED BY <2>2, <2>3, <2>5, <2>6, <2>7, <2>8, <2>9 DEF Next, Lifecycle
<1> QED BY <1>1, <1>2 DEF Undisturbed

\* The regime's invariant holds in every reachable state.
THEOREM Calmness == Spec => []CalmInv
<1>1. Init => CalmInv
  <2> SUFFICES ASSUME Init PROVE CalmInv
    OBVIOUS
  <2>1. /\ \A r \in Receivers : pc[r] = "idle"
        /\ list["processing"] = <<>> /\ list["ingress"] = <<>>
        /\ placed = <<>> /\ begun = <<>>
        /\ \A e \in Env : sent[e] = "unsent"
    BY DEF Init, ListName
  <2>2. /\ Len(<<>>) = 0
        /\ DOMAIN <<>> = {}
        /\ \A f : ~In(<<>>, f)
        /\ IsInjective(<<>>)
    BY DEF In, IsInjective
  <2>3. PlacedOnce
    BY <2>1, <2>2 DEF PlacedOnce
  <2>4. LeaseHeld
    BY <2>1 DEF LeaseHeld, Busy, Receiving, Opening
  <2>5. ClaimHeld
    BY <2>1, <2>2 DEF ClaimHeld, Opening
  <2>6. QueueOrdered /\ BegunOrdered
    BY <2>1, <2>2 DEF QueueOrdered, BegunOrdered, Holds
  <2> QED BY <2>3, <2>4, <2>5, <2>6, InitInv DEF CalmInv, Calm
<1>2. CalmInv /\ [Next]_vars => CalmInv'
  <2> SUFFICES ASSUME CalmInv, [Next]_vars PROVE CalmInv'
    OBVIOUS
  <2>1. Inv' /\ PlacedOnce'
    BY StepInv, PlacedStep DEF CalmInv
  <2>2. ASSUME Undisturbed' PROVE Calm'
    BY <2>2, CalmStep, StaysDisturbed DEF CalmInv
  <2> QED BY <2>1, <2>2 DEF CalmInv
<1> QED BY <1>1, <1>2, PTL DEF Spec

\* While no lease has lapsed or been deleted and the watchdog delivers nothing, the
\* lease serializes the port processes, and the receiver that works on a claim
\* still has it: "receive lost ownership" is never raised.
THEOREM OwnershipKeptHolds == Spec => []OwnershipKept
<1>1. CalmInv => OwnershipKept
  <2> SUFFICES ASSUME CalmInv, Undisturbed
               PROVE  /\ \A p1, p2 \in Receivers :
                           pc[p1] \in Receiving /\ pc[p2] \in Receiving => p1 = p2
                      /\ \A p \in Receivers :
                           pc[p] \in {"surfacing", "hold"} \cup Opening
                               => Holds(Source(pc[p]), raw[p])
    BY DEF OwnershipKept
  <2>1. LeaseHeld /\ ClaimHeld
    BY DEF CalmInv, Calm
  <2>2. \A p1, p2 \in Receivers : pc[p1] \in Receiving /\ pc[p2] \in Receiving => p1 = p2
    BY <2>1 DEF LeaseHeld, Busy
  <2>3. ASSUME NEW p \in Receivers, pc[p] \in {"surfacing", "hold"} \cup Opening
        PROVE  Holds(Source(pc[p]), raw[p])
    <3>1. CASE pc[p] = "hold"
      <4>1. list["processing"] = <<raw[p]>>
        BY <2>1, <3>1 DEF ClaimHeld
      <4>2. In(<<raw[p]>>, raw[p])
        BY DEF In
      <4> QED BY <3>1, <4>1, <4>2 DEF Source, Holds
    <3>2. CASE pc[p] # "hold"
      BY <2>1, <2>3, <3>2 DEF ClaimHeld, Source
    <3> QED BY <3>1, <3>2
  <2> QED BY <2>2, <2>3
<1> QED BY <1>1, Calmness, PTL

\* Under the same conditions envelopes cross into opening in the order in which
\* ingress admitted them, whatever is killed and recovered in between.
THEOREM InOrderHolds == Spec => []InOrder
<1>1. CalmInv => InOrder
  <2> SUFFICES ASSUME CalmInv, Undisturbed, NEW i \in DOMAIN begun, NEW j \in DOMAIN begun,
                      i < j
               PROVE  Position(placed, begun[i]) < Position(placed, begun[j])
    BY DEF InOrder
  <2>1. PICK m, n \in DOMAIN placed : m < n /\ placed[m] = begun[i] /\ placed[n] = begun[j]
    BY DEF CalmInv, Calm, BegunOrdered, Ahead
  <2>2. IsInjective(placed)
    BY DEF CalmInv, PlacedOnce
  <2>3. \A k \in DOMAIN placed : Position(placed, placed[k]) = k
    BY <2>2 DEF Position, IsInjective
  <2> QED BY <2>1, <2>3
<1> QED BY <1>1, Calmness, PTL

-----------------------------------------------------------------------------
(* The refinement mapping.                                                   *)

\* The lists that decide an envelope's status. The other two, opened and dead,
\* are told apart by the effect, so that retention does not change a status.
Live == {"ingress", "processing", "opening", "unresolved", "undeliverable"}

\* The status of an admitted envelope that one live list holds.
StatusIn(q) ==
    CASE q \in {"ingress", "processing"} -> "queued"
      [] q = "opening"       -> "begun"
      [] q = "unresolved"    -> "unresolved"
      [] q = "undeliverable" -> "undeliverable"

\* What the status of an envelope is in a state that satisfies the invariant.
LEMMA StatusCases ==
    ASSUME Inv, NEW e \in Env
    PROVE  /\ sent[e] = "refused" => status[e] = "refused"
           /\ sent[e] \in {"unsent", "routed"} => status[e] = "offered"
           /\ \A q \in Live : Holds(q, e) => status[e] = StatusIn(q)
           /\ sent[e] = "placed" /\ (\A q \in Live : ~Holds(q, e)) =>
                /\ effects[e] = 0 => status[e] = "dead"
                /\ effects[e] = 1 => status[e] = "opened"
<1> USE DEF Inv
<1>1. /\ \A q \in Live : Holds(q, e) => sent[e] = "placed"
      /\ \A q1, q2 \in Live : Holds(q1, e) /\ Holds(q2, e) => q1 = q2
  BY DEF OneCustody, Live, ListName
<1>2. Holds("dead", e) => effects[e] = 0
  BY DEF TruthfulCustody
<1> DEFINE st == IF sent[e] = "refused" THEN "refused"
                 ELSE IF sent[e] # "placed" THEN "offered"
                 ELSE IF Holds("ingress", e) \/ Holds("processing", e) THEN "queued"
                 ELSE IF Holds("opening", e) THEN "begun"
                 ELSE IF Holds("unresolved", e) THEN "unresolved"
                 ELSE IF Holds("undeliverable", e) THEN "undeliverable"
                 ELSE IF Holds("dead", e) \/ effects[e] = 0 THEN "dead"
                 ELSE "opened"
<1>3. status[e] = st
  BY DEF status
<1> HIDE DEF Inv
<1>4. ASSUME NEW q \in Live, Holds(q, e) PROVE st = StatusIn(q)
  BY <1>1, <1>4 DEF Live, StatusIn
<1>5. ASSUME sent[e] = "placed", \A q \in Live : ~Holds(q, e)
      PROVE  st = IF effects[e] = 0 THEN "dead" ELSE "opened"
  BY <1>2, <1>5 DEF Live
<1> QED BY <1>3, <1>4, <1>5

\* An envelope that no step sends, acts on or moves between live lists keeps its
\* status, even when retention drops it.
LEMMA StatusSame ==
    ASSUME Inv, Inv', NEW e \in Env,
           sent'[e] = sent[e], effects'[e] = effects[e],
           \A q \in Live : Holds(q, e)' <=> Holds(q, e)
    PROVE  status'[e] = status[e]
<1>1. /\ Holds("dead", e) => effects[e] = 0
      /\ Holds("dead", e)' => effects'[e] = 0
  BY DEF Inv, TruthfulCustody
<1>2. status[e] =
        IF sent[e] = "refused" THEN "refused"
        ELSE IF sent[e] # "placed" THEN "offered"
        ELSE IF Holds("ingress", e) \/ Holds("processing", e) THEN "queued"
        ELSE IF Holds("opening", e) THEN "begun"
        ELSE IF Holds("unresolved", e) THEN "unresolved"
        ELSE IF Holds("undeliverable", e) THEN "undeliverable"
        ELSE IF Holds("dead", e) \/ effects[e] = 0 THEN "dead" ELSE "opened"
  BY DEF status
<1>3. status'[e] =
        IF sent'[e] = "refused" THEN "refused"
        ELSE IF sent'[e] # "placed" THEN "offered"
        ELSE IF Holds("ingress", e)' \/ Holds("processing", e)' THEN "queued"
        ELSE IF Holds("opening", e)' THEN "begun"
        ELSE IF Holds("unresolved", e)' THEN "unresolved"
        ELSE IF Holds("undeliverable", e)' THEN "undeliverable"
        ELSE IF Holds("dead", e)' \/ effects'[e] = 0 THEN "dead" ELSE "opened"
  BY DEF status
<1> QED BY <1>1, <1>2, <1>3 DEF Live

\* A step that does so for every envelope is no step of the promise.
LEMMA StatusStutter ==
    ASSUME Inv, Inv', UNCHANGED <<sent, effects>>,
           \A e \in Env : \A q \in Live : Holds(q, e)' <=> Holds(q, e)
    PROVE  UNCHANGED <<status, effects>>
<1>1. \A e \in Env : status'[e] = status[e]
  BY StatusSame
<1>2. /\ status = [e \in Env |-> status[e]]
      /\ status' = [e \in Env |-> status'[e]]
  BY DEF status
<1> QED BY <1>1, <1>2

\* A step that changes the status of one envelope only.
LEMMA StatusMove ==
    ASSUME Inv, Inv', NEW e \in Env, UNCHANGED effects,
           \A f \in Env \ {e} : sent'[f] = sent[f],
           \A f \in Env \ {e} : \A q \in Live : Holds(q, f)' <=> Holds(q, f)
    PROVE  Promise!Move(e, status'[e])
<1>1. \A f \in Env \ {e} : status'[f] = status[f]
  BY StatusSame
<1>2. /\ status = [f \in Env |-> status[f]]
      /\ status' = [f \in Env |-> status'[f]]
  BY DEF status
<1>3. status' = [status EXCEPT ![e] = status'[e]]
  BY <1>1, <1>2
<1> QED BY <1>3 DEF Promise!Move

-----------------------------------------------------------------------------
(* Which step of the promise each step of the system is.                     *)

\* A transfer takes its envelope out of one live list and, unless it goes to
\* opened or dead, into another; no other live list changes.
LEMMA TransferLive ==
    ASSUME Inv, NEW e \in Env,
           NEW from \in {"processing", "opening"},
           NEW to \in {"opening", "opened", "dead", "unresolved"},
           from # to, Transfer(e, from, to)
    PROVE  /\ Holds(from, e)
           /\ \A f \in Env \ {e} : \A q \in Live : Holds(q, f)' <=> Holds(q, f)
           /\ to \in Live => Holds(to, e)'
           /\ to \notin Live => \A q \in Live : ~Holds(q, e)'
<1>1. /\ ListName = Live \cup {"opened", "dead"}
      /\ from \in ListName /\ to \in ListName
      /\ from \in Live /\ from # "opened" /\ from # "ingress" /\ to # "ingress"
  BY DEF ListName, Live
<1>2. Exclusive(list)
  BY OneCustodyParts DEF Inv
<1>3. /\ Exclusive(list')
      /\ Holds(from, e)
      /\ \A f \in Env : Holds(from, f)' <=> Holds(from, f) /\ f # e
      /\ Holds(to, e)'
      /\ \A q \in ListName \ {from, to} : \A f \in Env : Holds(q, f)' <=> Holds(q, f)
      /\ to # "opened" => \A f \in Env : Holds(to, f)' <=> Holds(to, f) \/ f = e
  BY <1>1, <1>2, TransferMoves
<1>4. \A q \in ListName \ {to} : ~Holds(q, e)'
  BY <1>1, <1>3 DEF Exclusive, Holds
<1> QED BY <1>1, <1>3, <1>4 DEF Live

\* Looking a destination up and refusing a frame: the envelope is refused, or
\* nothing happens to it.
LEMMA RefuseStep ==
    ASSUME Inv, Inv', NEW e \in Env, Lookup(e) \/ Refuse(e)
    PROVE  [Promise!Next]_<<status, effects>>
<1>1. /\ UNCHANGED <<list, effects>>
      /\ sent[e] \in {"unsent", "routed"}
      /\ \E v \in {"routed", "refused"} : sent' = [sent EXCEPT ![e] = v]
  BY DEF Lookup, Refuse, queues, history
<1>2. /\ \A f \in Env \ {e} : sent'[f] = sent[f]
      /\ sent'[e] \in {"routed", "refused"}
      /\ \A q, f : Holds(q, f)' <=> Holds(q, f)
  BY <1>1 DEF Inv, TypeOK, Holds
<1>3. status[e] = "offered" /\ status'[e] \in {"offered", "refused"}
  <2>1. status[e] = "offered"
    BY <1>1, StatusCases
  <2>2. status'[e] = IF sent'[e] = "refused" THEN "refused" ELSE "offered"
    BY <1>2 DEF status, Holds
  <2> QED BY <1>2, <2>1, <2>2
<1>4. Promise!Move(e, status'[e])
  BY <1>1, <1>2, StatusMove
<1>5. CASE status'[e] = "refused"
  <2>1. Promise!Refuse(e)
    BY <1>3, <1>4, <1>5 DEF Promise!Refuse
  <2> QED BY <2>1 DEF Promise!Next
<1>6. CASE status'[e] = "offered"
  <2>1. status \in [Env -> Promise!Status \cup {status[f] : f \in Env}]
    BY DEF status, Holds
  <2>2. status' = status
    BY <1>3, <1>4, <1>6, <2>1 DEF Promise!Move
  <2> QED BY <1>1, <2>2
<1> QED BY <1>3, <1>5, <1>6

\* Admission queues the envelope.
LEMMA PlaceStep ==
    ASSUME Inv, Inv', NEW e \in Env, Admit(e) \/ NotifyLead(e)
    PROVE  Promise!Next
<1>1. Place(e)
  BY DEF Admit, NotifyLead
<1>2. /\ \A f \in Env : Holds("ingress", f)' <=> Holds("ingress", f) \/ f = e
      /\ \A q \in ListName \ {"ingress"} : list'[q] = list[q]
  BY <1>1, PlaceMoves DEF Inv
<1>3. \A f \in Env \ {e} : \A q \in Live : Holds(q, f)' <=> Holds(q, f)
  BY <1>2 DEF Live, ListName, Holds
<1>4. /\ UNCHANGED effects
      /\ sent[e] = "routed"
      /\ \A f \in Env \ {e} : sent'[f] = sent[f]
      /\ sent'[e] = "placed"
  BY <1>1 DEF Place, Inv, TypeOK
<1>5. status[e] = "offered"
  BY <1>4, StatusCases
<1>6. status'[e] = "queued"
  BY <1>2, <1>4 DEF status, Holds
<1>7. Promise!Move(e, status'[e])
  BY <1>3, <1>4, StatusMove
<1>8. Promise!Queue(e)
  BY <1>5, <1>6, <1>7 DEF Promise!Queue
<1> QED BY <1>8 DEF Promise!Next

\* A claim moves the envelope from one list to another, and it stays queued.
LEMMA ClaimStep ==
    ASSUME Inv, Inv', NEW p \in Receivers, Claim(p)
    PROVE  UNCHANGED <<status, effects>>
<1> DEFINE e == Head(list["ingress"])
<1>1. /\ e \in Env
      /\ Holds("ingress", e)
      /\ \A f \in Env : Holds("ingress", f)' <=> Holds("ingress", f) /\ f # e
      /\ \A f \in Env : Holds("processing", f)' <=> Holds("processing", f) \/ f = e
      /\ \A q \in ListName \ {"ingress", "processing"} : list'[q] = list[q]
  BY OneCustodyParts, ClaimMoves DEF Inv
<1> HIDE DEF e
<1>2. UNCHANGED <<sent, effects>>
  BY DEF Claim, history
<1>3. \A f \in Env \ {e} : \A q \in Live : Holds(q, f)' <=> Holds(q, f)
  BY <1>1 DEF Live, ListName, Holds
<1>4. Promise!Move(e, status'[e])
  BY <1>1, <1>2, <1>3, StatusMove
<1>5. status[e] = "queued" /\ sent[e] = "placed"
  <2>1. "ingress" \in Live /\ "ingress" \in ListName
    BY DEF Live, ListName
  <2>2. status[e] = StatusIn("ingress")
    BY <1>1, <2>1, StatusCases
  <2> QED BY <1>1, <2>1, <2>2 DEF StatusIn, Inv, OneCustody
<1>6. status'[e] = "queued"
  BY <1>1, <1>2, <1>5 DEF status, Holds
<1>7. status = [f \in Env |-> status[f]]
  BY DEF status, Holds
<1> QED BY <1>2, <1>4, <1>5, <1>6, <1>7 DEF Promise!Move

\* A transfer is the step of its envelope that its two ends say it is.
LEMMA MoveStep ==
    ASSUME Inv, Inv', NEW p \in Receivers,
           \/ Surface(p) \/ Discard(p) \/ Begin(p)
           \/ Opened(p) \/ Unresolved(p) \/ Rejected(p)
    PROVE  Promise!Next
<1>1. PICK e \in Env : e = raw[p]
  BY DEF Inv, TypeOK, Claiming, Opening, Surface, Discard, Begin, Opened, Unresolved,
         Rejected
<1>2. PICK from \in {"processing", "opening"},
           to \in {"opening", "opened", "dead", "unresolved"} :
        /\ Transfer(e, from, to)
        /\ <<from, to>> \in {<<"opening", "unresolved">>, <<"processing", "dead">>,
             <<"processing", "opening">>, <<"opening", "opened">>, <<"opening", "dead">>}
        /\ to = "opened" => pc[p] = "done"
        /\ from = "opening" /\ to = "dead" => pc[p] = "rejected"
  BY <1>1 DEF Surface, Discard, Begin, Opened, Unresolved, Rejected
<1>3. UNCHANGED <<sent, effects>>
  BY DEF Surface, Discard, Begin, Opened, Unresolved, Rejected, history
<1>4. /\ Holds(from, e)
      /\ \A f \in Env \ {e} : \A q \in Live : Holds(q, f)' <=> Holds(q, f)
      /\ to \in Live => Holds(to, e)'
      /\ to \notin Live => \A q \in Live : ~Holds(q, e)'
  BY <1>1, <1>2, TransferLive
<1>5. /\ to = "opened" => effects[e] = 1
      /\ from = "opening" /\ to = "dead" => effects[e] = 0
      /\ from = "processing" => effects[e] = 0
      /\ sent[e] = "placed"
      /\ status[e] = IF from = "processing" THEN "queued" ELSE "begun"
  <2>1. \A q \in {"processing", "opening"} : q \in Live /\ q \in ListName
    BY DEF Live, ListName
  <2>2. status[e] = StatusIn(from)
    BY <1>1, <1>4, <2>1, StatusCases
  <2>3. sent[e] = "placed"
    BY <1>1, <1>4, <2>1 DEF Inv, OneCustody
  <2>4. from = "processing" => effects[e] = 0
    BY <1>1, <1>4 DEF Inv, TruthfulCustody
  <2>5. /\ pc[p] = "done" => effects[e] = 1
        /\ pc[p] = "rejected" => effects[e] = 0
    BY <1>1 DEF Inv, OneOpener
  <2> QED BY <1>2, <2>2, <2>3, <2>4, <2>5 DEF StatusIn
<1>6. /\ to = "opening" => status'[e] = "begun"
      /\ to = "unresolved" => status'[e] = "unresolved"
      /\ to \in {"opened", "dead"} =>
           status'[e] = IF effects[e] = 0 THEN "dead" ELSE "opened"
  <2>1. sent'[e] = "placed" /\ effects'[e] = effects[e]
    BY <1>3, <1>5
  <2>2. \A q1, q2 \in ListName : Holds(q1, e)' /\ Holds(q2, e)' => q1 = q2
    BY <1>1 DEF Inv, OneCustody
  <2>3. Holds("dead", e)' => effects[e] = 0
    BY <1>1, <2>1 DEF Inv, TruthfulCustody
  <2>4. CASE to \in Live
    <3>1. \A q \in ListName : Holds(q, e)' <=> q = to
      BY <1>4, <2>2, <2>4 DEF Live, ListName
    <3>2. to \in {"opening", "unresolved"}
      BY <1>2, <2>4 DEF Live
    <3> QED BY <1>1, <2>1, <3>1, <3>2 DEF status, Holds, ListName
  <2>5. CASE to \notin Live
    <3>1. \A q \in Live : ~Holds(q, e)'
      BY <1>4, <2>5
    <3>2. to \notin {"opening", "unresolved"}
      BY <2>5 DEF Live
    <3> QED BY <1>1, <2>1, <2>3, <3>1, <3>2 DEF status, Holds, Live
  <2> QED BY <2>4, <2>5
<1>7. Promise!Move(e, status'[e])
  BY <1>1, <1>3, <1>4, StatusMove
<1>8. CASE from = "processing" /\ to = "opening"
  BY <1>1, <1>5, <1>6, <1>7, <1>8 DEF Promise!Next, Promise!Begin
<1>9. CASE to = "opened"
  BY <1>1, <1>2, <1>5, <1>6, <1>7, <1>9 DEF Promise!Next, Promise!Open
<1>10. CASE to = "dead"
  BY <1>1, <1>2, <1>5, <1>6, <1>7, <1>10 DEF Promise!Next, Promise!Reject
<1>11. CASE to = "unresolved"
  BY <1>1, <1>2, <1>5, <1>6, <1>7, <1>11 DEF Promise!Next, Promise!Doubt
<1> QED BY <1>2, <1>8, <1>9, <1>10, <1>11

\* The opener's effect: in opening, or in unresolved when another receiver or a
\* retirement surfaced the claim while the opener ran.
LEMMA ActStep ==
    ASSUME Inv, Inv', NEW p \in Receivers, OpenerActs(p)
    PROVE  Promise!Next
<1>e. PICK e \in Env : e = raw[p]
  BY DEF OpenerActs, Inv, TypeOK, Claiming, Opening
<1>1. /\ effects[e] = 0
      /\ Holds("opening", e) \/ Holds("unresolved", e)
  BY <1>e DEF OpenerActs, Inv, OneOpener, Opening
<1>2. /\ UNCHANGED <<list, sent>>
      /\ effects' = [effects EXCEPT ![e] = @ + 1]
  BY <1>e DEF OpenerActs, queues
<1>3. /\ effects' = [effects EXCEPT ![e] = 1]
      /\ \A f \in Env \ {e} : effects'[f] = effects[f]
  BY <1>1, <1>2 DEF Inv, TypeOK
<1>4. \A q, f : Holds(q, f)' <=> Holds(q, f)
  BY <1>2 DEF Holds
<1>5. status[e] \in {"begun", "unresolved"}
  <2>1. "opening" \in Live /\ "unresolved" \in Live
    BY DEF Live
  <2> QED BY <1>1, <2>1, StatusCases DEF StatusIn
<1>6. status' = status
  <2>1. \A f \in Env \ {e} : status'[f] = status[f]
    BY <1>2, <1>3, <1>4, StatusSame
  <2>2. status'[e] = status[e]
    BY <1>1, <1>2 DEF status, Holds
  <2>3. /\ status = [f \in Env |-> status[f]]
        /\ status' = [f \in Env |-> status'[f]]
    BY DEF status, Holds
  <2> QED BY <2>1, <2>2, <2>3
<1>7. Promise!Act(e)
  BY <1>1, <1>3, <1>5, <1>6 DEF Promise!Act
<1> QED BY <1>1, <1>7 DEF Promise!Next

\* Retirement settles every envelope that waits or has begun, in one step.
LEMMA StopStep ==
    ASSUME Inv, Inv', StopAgent
    PROVE  Promise!Next
<1>1. UNCHANGED <<sent, effects>>
  BY DEF StopAgent
<1>2. /\ \A q \in {"ingress", "processing", "opening"} : \A f \in Env : ~Holds(q, f)'
      /\ \A f \in Env : Holds("undeliverable", f)' <=>
           \/ Holds("undeliverable", f) \/ Holds("processing", f) \/ Holds("ingress", f)
      /\ \A f \in Env : Holds("unresolved", f)' <=>
           Holds("unresolved", f) \/ Holds("opening", f)
  BY OneCustodyParts, StopMoves DEF Inv
<1>3. ASSUME NEW f \in Env
      PROVE  status'[f] = CASE status[f] = "queued" -> "undeliverable"
                            [] status[f] = "begun"  -> "unresolved"
                            [] OTHER -> status[f]
  <2>1. /\ \A q \in Live : Holds(q, f) => sent[f] = "placed"
        /\ \A q1, q2 \in Live : Holds(q1, f) /\ Holds(q2, f) => q1 = q2
    BY DEF Inv, OneCustody, Live, ListName
  <2>2. sent[f] \in {"unsent", "routed", "placed", "refused"}
    BY DEF Inv, TypeOK, SentState
  <2>3. CASE \A q \in Live : ~Holds(q, f)
    <3>1. status'[f] = status[f]
      BY <1>1, <1>2, <2>3, StatusSame DEF Live
    <3>2. status[f] \notin {"queued", "begun"}
      BY <2>3 DEF status, Holds, Live
    <3> QED BY <3>1, <3>2
  <2>4. ASSUME NEW q \in Live, Holds(q, f)
        PROVE  status'[f] = CASE status[f] = "queued" -> "undeliverable"
                            [] status[f] = "begun"  -> "unresolved"
                            [] OTHER -> status[f]
    <3>1. status[f] = StatusIn(q)
      BY <2>4, StatusCases
    <3>2. sent'[f] = "placed"
      BY <1>1, <2>1, <2>4
    <3>3. CASE q \in {"ingress", "processing", "undeliverable"}
      <4>1. Holds("undeliverable", f)' /\ ~Holds("unresolved", f)'
        BY <1>2, <2>1, <2>4, <3>3 DEF Live
      <4>2. status'[f] = "undeliverable"
        BY <1>2, <3>2, <4>1 DEF status, Holds
      <4> QED BY <3>1, <3>3, <4>2 DEF StatusIn
    <3>4. CASE q \in {"opening", "unresolved"}
      <4>1. Holds("unresolved", f)'
        BY <1>2, <2>4, <3>4
      <4>2. status'[f] = "unresolved"
        BY <1>2, <3>2, <4>1 DEF status, Holds
      <4> QED BY <3>1, <3>4, <4>2 DEF StatusIn
    <3> QED BY <3>3, <3>4 DEF Live
  <2> QED BY <2>3, <2>4
<1>4. status' = [f \in Env |-> status'[f]]
  BY DEF status, Holds
<1>5. Promise!Retire
  BY <1>1, <1>3, <1>4 DEF Promise!Retire
<1> QED BY <1>5 DEF Promise!Next

\* Retention changes no status: what it drops is dead and had no effect.
LEMMA TrimStep ==
    ASSUME Inv, Inv', TrimDead
    PROVE  UNCHANGED <<status, effects>>
<1>1. /\ UNCHANGED <<sent, effects>>
      /\ list' = [list EXCEPT !["dead"] = LTrim(@, DeadMax)]
  BY DEF TrimDead, history
<1>2. \A f \in Env : \A q \in Live : Holds(q, f)' <=> Holds(q, f)
  BY <1>1 DEF Live, Holds, ListName, Inv, TypeOK
<1> QED BY <1>1, <1>2, StatusStutter

\* Neither does a step that moves no envelope.
LEMMA StillStep ==
    ASSUME Inv, Inv', UNCHANGED <<list, sent, effects>>
    PROVE  UNCHANGED <<status, effects>>
<1>1. \A f \in Env : \A q \in Live : Holds(q, f)' <=> Holds(q, f)
  BY DEF Holds
<1> QED BY <1>1, StatusStutter

\* The steps of one receiver.
LEMMA ReceiveStep ==
    ASSUME Inv, Inv', NEW p \in Receivers, Receive(p)
    PROVE  [Promise!Next]_<<status, effects>>
<1>1. CASE \/ Surface(p) \/ Discard(p) \/ Begin(p)
           \/ Opened(p) \/ Unresolved(p) \/ Rejected(p)
  BY <1>1, MoveStep
<1>2. CASE OpenerActs(p)
  BY <1>2, ActStep
<1>3. CASE Claim(p)
  BY <1>3, ClaimStep
<1>4. CASE \/ SurfaceRead(p) \/ Recover(p) \/ Drained(p) \/ OpenerRejects(p)
           \/ OpenerFails(p) \/ Notify(p) \/ LoseOwnership(p)
  <2>1. UNCHANGED <<list, sent, effects>>
    BY <1>4 DEF SurfaceRead, Recover, Drained, OpenerRejects, OpenerFails, Notify,
       LoseOwnership, queues, history
  <2> QED BY <2>1, StillStep
<1> QED BY <1>1, <1>2, <1>3, <1>4 DEF Receive, Open

\* Every step of the system is a step of the promise or changes nothing in it.
LEMMA PromiseStep ==
    Inv /\ Inv' /\ [Next]_vars => [Promise!Next]_<<status, effects>>
<1> SUFFICES ASSUME Inv, Inv', [Next]_vars
             PROVE  [Promise!Next]_<<status, effects>>
  OBVIOUS
<1>1. ASSUME UNCHANGED <<list, sent, effects>>
      PROVE  [Promise!Next]_<<status, effects>>
  BY <1>1, StillStep
<1>2. CASE UNCHANGED vars
  BY <1>1, <1>2 DEF vars, queues, history
<1>3. ASSUME NEW e \in Env, Send(e) PROVE [Promise!Next]_<<status, effects>>
  BY <1>3, RefuseStep, PlaceStep DEF Send
<1>4. ASSUME NEW p \in Procs, Port(p) \/ Reconcile(p)
      PROVE  [Promise!Next]_<<status, effects>>
  <2>1. CASE Receive(p)
    <3>1. p \in Receivers
      BY DEF Receivers
    <3> QED BY <2>1, <3>1, ReceiveStep
  <2>2. CASE Acquire(p) \/ AcquireTimeout(p) \/ CheckPaused(p) \/ Release(p)
             \/ Reconcile(p)
    BY <1>1, <2>2 DEF Acquire, AcquireTimeout, CheckPaused, Release, Reconcile, queues,
       history
  <2> QED BY <1>4, <2>1, <2>2 DEF Port
<1>5. CASE Deliver
  <2>1. CASE Receive(Watchdog)
    <3>1. Watchdog \in Receivers
      BY DEF Receivers
    <3> QED BY <2>1, <3>1, ReceiveStep
  <2>2. CASE Release(Watchdog)
    BY <1>1, <2>2 DEF Release, history
  <2> QED BY <1>5, <2>1, <2>2 DEF Deliver
<1>6. ASSUME NEW p \in Receivers, Kill(p) \/ Abort(p)
      PROVE  [Promise!Next]_<<status, effects>>
  BY <1>1, <1>6 DEF Kill, Abort, queues, history
<1>7. CASE OrphanExpires \/ LeaseLapses
  BY <1>1, <1>7 DEF OrphanExpires, LeaseLapses, history
<1>8. CASE TrimDead
  BY <1>8, TrimStep
<1>9. CASE Lifecycle
  <2>1. CASE StopAgent
    BY <2>1, StopStep
  <2>2. CASE StartAgent \/ PauseAgent \/ ResumeAgent
    BY <1>1, <2>2 DEF StartAgent, PauseAgent, ResumeAgent, queues, history
  <2> QED BY <1>9, <2>1, <2>2 DEF Lifecycle
<1> QED BY <1>2, <1>3, <1>4, <1>5, <1>6, <1>7, <1>8, <1>9 DEF Next

\* At the start every envelope is offered and nothing has happened.
LEMMA PromiseInit == Init => Promise!Init
<1> SUFFICES ASSUME Init PROVE Promise!Init
  OBVIOUS
<1>1. \A e \in Env : sent[e] = "unsent"
  BY DEF Init
<1>2. status = [e \in Env |-> "offered"]
  BY <1>1 DEF status, Holds
<1>3. effects = [e \in Env |-> 0]
  BY DEF Init
<1> QED BY <1>2, <1>3 DEF Promise!Init

\* Whatever the lists, the lease and the receivers do -- with any number of
\* kills, lapses, watchdog deliveries, retirements and re-hires -- an envelope
\* lives the life that core/README.md:36-64 tells: it waits without effect,
\* begins at most once, takes effect at most once, and its end says which.
THEOREM CustodyImplementsPromise == Spec => PromiseKept
<1>1. Init => Promise!Init
  BY PromiseInit
<1>2. Inv /\ Inv' /\ [Next]_vars => [Promise!Next]_<<status, effects>>
  BY PromiseStep
<1> QED BY <1>1, <1>2, Safety, PTL DEF Spec, PromiseKept, Promise!Spec, Promise!vars
=============================================================================
