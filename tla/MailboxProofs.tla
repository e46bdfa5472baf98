---------------------------- MODULE MailboxProofs ---------------------------
(***************************************************************************)
(* The mailbox keeps its mail, for every set of ports and of malformed     *)
(* frames, every cap and page size, and any number of faults: no frame is  *)
(* in two places or in none, and the reader misses what the cap dropped and*)
(* nothing else. And the stall monitor, which watches such lists, reports  *)
(* what has not moved and nothing else, for every set of members; and the  *)
(* reconciler, beside hires and stops, leaves an agent the window its keys *)
(* describe; and no start or stop of the daemons takes another process for *)
(* one of them or leaves one untold of; and what comes for the bot's chat  *)
(* is shown there in order and once; and what another office sends is      *)
(* admitted once, and nothing of it is passed over.                        *)
(***************************************************************************)
EXTENDS Mailbox, RedisListsProofs, FiniteSetTheorems

\* Of the constants: the free lock is no port's, and the stream keeps an entry at least.
MailboxConstants ==
    /\ "free" \notin Ports
    /\ MaxFrames \in Nat /\ Cap \in Nat \ {0} /\ Limit \in Nat /\ MaxFaults \in Nat

-----------------------------------------------------------------------------
(* The inductive invariant *)

Entry == [id : Nat, frame : Nat]

Types ==
    /\ admitted \in 0 .. MaxFrames /\ faults \in Nat /\ lapsed \in BOOLEAN
    /\ lock \in Ports \cup {"free"}
    /\ phase \in [Ports -> {"rest", "snapshot", "pop", "open"}]
    /\ ingress \in Seq(Nat) /\ hand \in [Ports -> Seq(Nat)] /\ appended \in Seq(Nat)
    /\ inbox \in Seq(Entry) /\ wire \in Seq(Entry) /\ seen \in Seq(Entry)
    /\ cursor \in Nat /\ pushed \in Nat

Rising(s) == \A i, j \in 1 .. Len(s) : i < j => s[i] < s[j]
Before(s, t) == \A i \in 1 .. Len(s), j \in 1 .. Len(t) : s[i] < t[j]

\* What is no longer waiting.
Taken == InHand \cup ToSet(appended) \cup dead \cup lost

\* Every frame is in one place; and what waits came after all that does not, so that
\* a port takes the frames in their order.
Placed ==
    /\ 1 .. admitted = ToSet(ingress) \cup Taken
    /\ \A x \in Taken : \A i \in 1 .. Len(ingress) : x < ingress[i]
    /\ InHand \cap (ToSet(appended) \cup dead \cup lost) = {}
    /\ ToSet(appended) \cap (dead \cup lost) = {}
    /\ dead \cap lost = {}
    /\ Rising(ingress)
    /\ \A p \in Ports : Rising(hand[p])
    /\ \A p, q \in Ports : p # q => ToSet(hand[p]) \cap ToSet(hand[q]) = {}
    /\ \A i, j \in 1 .. Len(appended) : i < j => appended[i] # appended[j]
    /\ lost # {} => faults > 0

\* Until a lease lapses, one port is at work, and what it holds comes after the mail.
Alone ==
    /\ \A p \in Ports : phase[p] \in {"rest", "snapshot"} => hand[p] = <<>>
    /\ ~lapsed =>
         /\ \A p \in Ports : phase[p] # "rest" => lock = p
         /\ \A p \in Ports : Before(appended, hand[p])
         /\ Rising(appended)

\* Entries up to here are no longer in the inbox.
Trimmed == Len(appended) - Len(inbox)

\* An entry's id is its place among all that was ever appended.
True(e, s) == e.id \in 1 .. Len(s) /\ e.frame = s[e.id]

\* The inbox is the end of what was appended; what is on the wire is consecutive, and
\* goes on where the reader is or where the inbox began.
Stream ==
    /\ Len(inbox) <= Len(appended)
    /\ \A i \in 1 .. Len(inbox) : inbox[i].id = Trimmed + i /\ True(inbox[i], appended)
    /\ \A i \in 1 .. Len(wire) : wire[i].id = wire[1].id + i - 1 /\ True(wire[i], appended)
    /\ wire # <<>> =>
         /\ cursor < wire[1].id
         /\ wire[1].id = cursor + 1 \/ wire[1].id <= Trimmed + 1
         /\ pushed = wire[Len(wire)].id
    /\ wire = <<>> => pushed \in {cursor, Closed}

\* The reader has read or missed everything up to its cursor; beyond it, everything is
\* retained, on the wire, or missed.
Read ==
    /\ cursor <= Len(appended)
    /\ missed \subseteq 1 .. Len(appended)
    /\ \A i \in 1 .. Len(seen) : True(seen[i], appended) /\ seen[i].id <= cursor
    /\ \A i, j \in 1 .. Len(seen) : i < j => seen[i].id < seen[j].id
    /\ \A n \in 1 .. cursor : n \in missed \/ \E i \in 1 .. Len(seen) : seen[i].id = n
    /\ \A n \in cursor + 1 .. Len(appended) :
         n > Trimmed \/ n \in missed \/ \E i \in 1 .. Len(wire) : wire[i].id = n

\* A closed connection is not mistaken for one that has sent everything.
Short == Len(appended) <= MaxFrames

MailInv == Types /\ Placed /\ Alone /\ Stream /\ Read

-----------------------------------------------------------------------------
(* Sequences *)

\* What a sequence holds, as it grows at its end and shrinks at its head.
LEMMA ToSetFacts ==
    ASSUME NEW S, NEW s \in Seq(S)
    PROVE  /\ ToSet(s) = {s[i] : i \in 1 .. Len(s)} /\ ToSet(s) \subseteq S
           /\ \A x \in S : /\ Append(s, x) \in Seq(S)
                           /\ ToSet(Append(s, x)) = ToSet(s) \cup {x}
           /\ s # <<>> => /\ Head(s) \in S /\ Head(s) = s[1] /\ Tail(s) \in Seq(S)
                          /\ ToSet(s) = {Head(s)} \cup ToSet(Tail(s))
                          /\ Len(Tail(s)) = Len(s) - 1
                          /\ \A i \in 1 .. Len(Tail(s)) : Tail(s)[i] = s[i + 1]
<1>1. ToSet(s) = {s[i] : i \in 1 .. Len(s)} /\ ToSet(s) \subseteq S
  BY DEF ToSet
<1>2. ASSUME NEW x \in S
      PROVE  Append(s, x) \in Seq(S) /\ ToSet(Append(s, x)) = ToSet(s) \cup {x}
  <2>1. /\ Append(s, x) \in Seq(S)
        /\ DOMAIN Append(s, x) = 1 .. Len(s) + 1
        /\ \A i \in 1 .. Len(s) : Append(s, x)[i] = s[i]
        /\ Append(s, x)[Len(s) + 1] = x
        /\ DOMAIN s = 1 .. Len(s) /\ Len(s) \in Nat
    OBVIOUS
  <2> QED BY <2>1 DEF ToSet
<1>3. ASSUME s # <<>>
      PROVE  /\ Head(s) \in S /\ Head(s) = s[1] /\ Tail(s) \in Seq(S)
             /\ Len(Tail(s)) = Len(s) - 1
             /\ \A i \in 1 .. Len(Tail(s)) : Tail(s)[i] = s[i + 1]
             /\ Len(s) \in Nat \ {0}
  BY <1>3, HeadTailProperties, EmptySeq, LenProperties
<1>4. ASSUME s # <<>>
      PROVE  ToSet(s) = {Head(s)} \cup ToSet(Tail(s))
  <2> DEFINE t == Tail(s)
  <2>1. /\ DOMAIN s = 1 .. Len(s) /\ DOMAIN t = 1 .. Len(t) /\ Len(t) = Len(s) - 1
        /\ Head(s) = s[1] /\ Len(s) \in Nat \ {0}
        /\ \A i \in 1 .. Len(t) : t[i] = s[i + 1]
    BY <1>3, <1>4, LenProperties
  <2> HIDE DEF t
  <2>2. \A i \in 1 .. Len(s) : s[i] = Head(s) \/ \E j \in 1 .. Len(t) : s[i] = t[j]
    <3> SUFFICES ASSUME NEW i \in 1 .. Len(s), i # 1 PROVE \E j \in 1 .. Len(t) : s[i] = t[j]
      BY <2>1
    <3>1. i - 1 \in 1 .. Len(t) /\ t[i - 1] = s[i]
      BY <2>1
    <3> QED BY <3>1
  <2>3. ASSUME NEW i \in 1 .. Len(s)
        PROVE  s[i] \in {Head(s)} \cup {t[j] : j \in 1 .. Len(t)}
    BY <2>2
  <2>4. \A j \in 1 .. Len(t) : t[j] = s[j + 1] /\ j + 1 \in 1 .. Len(s) /\ 1 \in 1 .. Len(s)
    BY <2>1
  <2>5. {s[i] : i \in 1 .. Len(s)} = {Head(s)} \cup {t[j] : j \in 1 .. Len(t)}
    <3>1. 1 \in 1 .. Len(s)
      BY <2>1
    <3> QED BY <2>1, <2>3, <2>4, <3>1
  <2>6. ToSet(s) = {s[i] : i \in 1 .. Len(s)} /\ ToSet(t) = {t[j] : j \in 1 .. Len(t)}
    BY <2>1 DEF ToSet
  <2> QED BY <2>5, <2>6 DEF t
<1> QED BY <1>1, <1>2, <1>3, <1>4

\* A sequence of distinct elements is no longer than the set they are from is large.
LEMMA Distinct ==
    ASSUME NEW S, IsFiniteSet(S), NEW s \in Seq(S),
           \A i, j \in 1 .. Len(s) : i < j => s[i] # s[j]
    PROVE  Len(s) <= Cardinality(S)
<1>1. Len(s) \in Nat /\ s \in [1 .. Len(s) -> S]
  OBVIOUS
<1>2. \A i, j \in 1 .. Len(s) : s[i] = s[j] => i = j
  BY <1>1
<1>3. s \in Injection(1 .. Len(s), S)
  BY <1>1, <1>2 DEF Injection, IsInjective
<1>4. Cardinality(1 .. Len(s)) <= Cardinality(S)
  BY <1>3, FS_Injection
<1>5. Cardinality(1 .. Len(s)) = Len(s)
  BY <1>1, FS_Interval
<1> QED BY <1>4, <1>5

-----------------------------------------------------------------------------
(* The inbox and its reader *)

\* An entry behind another id is the next one, or the first of the inbox.
Start(after) == IF after < Trimmed THEN Trimmed ELSE after

\* A page goes on behind the cursor, or where the inbox begins, without a gap.
LEMMA EntriesFacts ==
    ASSUME MailboxConstants, Types, Stream, NEW after \in Nat, after <= Len(appended)
    PROVE  /\ Entries(after) \in Seq(Entry)
           /\ \A i \in 1 .. Len(Entries(after)) :
                /\ Entries(after)[i].id = Start(after) + i
                /\ True(Entries(after)[i], appended)
<1> DEFINE L == Len(inbox)
           n == Len(appended)
           b == Start(after) - Trimmed + 1
<1>1. /\ L \in Nat /\ n \in Nat /\ L <= n /\ Trimmed = n - L /\ Trimmed \in Nat
      /\ \A i \in 1 .. L : inbox[i].id = Trimmed + i /\ True(inbox[i], appended) /\ inbox[i] \in Entry
  BY DEF Types, Stream, Trimmed
<1>2. b \in 1 .. L + 1 /\ Start(after) = Trimmed + b - 1
  BY <1>1 DEF Start
<1> HIDE DEF b
<1>3. \A i \in 1 .. L + 1 :
        (\A j \in 1 .. L : inbox[j].id > after <=> j >= i) <=> i = b
  <2>1. \A j \in 1 .. L : inbox[j].id > after <=> j >= b
    BY <1>1 DEF b, Start
  <2>2. ASSUME NEW i \in 1 .. L + 1, \A j \in 1 .. L : inbox[j].id > after <=> j >= i
        PROVE  i = b
    <3>1. \A j \in 1 .. L : j >= i <=> j >= b
      BY <2>1, <2>2
    <3> QED BY <3>1, <1>1, <1>2
  <2> QED BY <2>1, <2>2
<1>4. Behind(after) = b
  BY <1>2, <1>3 DEF Behind
<1>5. PICK k \in 0 .. L : Entries(after) = SubSeq(inbox, b, k)
  <2>1. Limit \in Nat
    BY DEF MailboxConstants
  <2>2. Entries(after) = SubSeq(inbox, b, IF L - b >= Limit THEN b + Limit - 1 ELSE L)
    BY <1>4 DEF Entries
  <2>3. (IF L - b >= Limit THEN b + Limit - 1 ELSE L) \in 0 .. L
    <3>1. L \in Nat /\ b \in 1 .. L + 1
      BY <1>1, <1>2
    <3>2. L - b >= Limit => b + Limit - 1 \in 0 .. L
      BY <2>1, <3>1
    <3> QED BY <3>1, <3>2
  <2> QED BY <2>2, <2>3
<1>6. \A i \in b .. k : inbox[i] \in Entry
  BY <1>1, <1>2
<1>7. /\ SubSeq(inbox, b, k) \in Seq(Entry)
      /\ Len(SubSeq(inbox, b, k)) = IF b <= k THEN k - b + 1 ELSE 0
      /\ \A i \in 1 .. k - b + 1 : SubSeq(inbox, b, k)[i] = inbox[b + i - 1]
  BY <1>2, <1>6, SubSeqProperties
<1> HIDE DEF L, n
<1>8. ASSUME NEW i \in 1 .. Len(SubSeq(inbox, b, k))
      PROVE  inbox[b + i - 1].id = Start(after) + i /\ True(inbox[b + i - 1], appended)
             /\ SubSeq(inbox, b, k)[i] = inbox[b + i - 1]
  <2>1. b <= k /\ i \in 1 .. k - b + 1 /\ b + i - 1 \in 1 .. L
    BY <1>1, <1>2, <1>7
  <2> QED BY <1>1, <1>2, <1>7, <2>1
<1> QED BY <1>5, <1>7, <1>8

\* A frame becomes an entry. What the cap drops, the reader has read, or it is on the
\* wire, or it counts as missed.
LEMMA AddStep ==
    ASSUME MailboxConstants, Types, Stream, Read, NEW f \in Nat, Add(f), UNCHANGED reader
    PROVE  appended' = Append(appended, f) /\ inbox' \in Seq(Entry) /\ Stream' /\ Read'
<1> DEFINE L == Len(inbox)
           n == Len(appended)
           e == [id |-> n + 1, frame |-> f]
           longer == Append(inbox, e)
           now == Append(appended, f)
<1>1. /\ L \in Nat /\ n \in Nat /\ L <= n /\ Trimmed = n - L /\ Trimmed \in Nat
      /\ \A i \in 1 .. L : inbox[i].id = Trimmed + i /\ True(inbox[i], appended) /\ inbox[i] \in Entry
      /\ cursor \in Nat /\ pushed \in Nat
  BY DEF Types, Stream, Trimmed
<1>2. /\ appended' = now /\ now \in Seq(Nat) /\ Len(now) = n + 1 /\ now[n + 1] = f
      /\ \A i \in 1 .. n : now[i] = appended[i]
  BY <1>1 DEF Add, Types
<1>3. /\ e \in Entry /\ longer \in Seq(Entry) /\ Len(longer) = L + 1 /\ longer[L + 1] = e
      /\ \A i \in 1 .. L : longer[i] = inbox[i]
  BY <1>1 DEF Types, Entry
<1>4. inbox' = longer \/ inbox' = Recent(longer)
  BY DEF Add
<1>5. UNCHANGED <<cursor, pushed, wire, seen>>
  BY DEF reader
<1> HIDE DEF longer, now, L, n
<1>6. /\ inbox' \in Seq(Entry) /\ Len(inbox') \in 1 .. L + 1
      /\ \A i \in 1 .. Len(inbox') : inbox'[i] = longer[i + (L + 1 - Len(inbox'))]
  <2>1. CASE inbox' = longer
    BY <1>1, <1>3, <2>1
  <2>2. CASE inbox' = Recent(longer)
    <3> DEFINE m == IF L + 1 > Cap THEN L + 1 - Cap + 1 ELSE 1
    <3>1. inbox' = SubSeq(longer, m, L + 1) /\ Cap \in Nat \ {0}
      BY <1>1, <1>3, <2>2 DEF Recent, MailboxConstants
    <3>2. m \in 1 .. L + 1
      BY <1>1, <3>1
    <3> HIDE DEF m
    <3>3. \A i \in m .. L + 1 : longer[i] \in Entry
      BY <1>1, <1>3, <3>2
    <3>4. /\ SubSeq(longer, m, L + 1) \in Seq(Entry)
          /\ Len(SubSeq(longer, m, L + 1)) = IF m <= L + 1 THEN L + 1 - m + 1 ELSE 0
          /\ \A i \in 1 .. L + 1 - m + 1 : SubSeq(longer, m, L + 1)[i] = longer[m + i - 1]
      BY <1>1, <3>2, <3>3, SubSeqProperties
    <3>5. Len(inbox') = L + 2 - m
      BY <1>1, <3>1, <3>2, <3>4
    <3>6. ASSUME NEW i \in 1 .. Len(inbox')
          PROVE  inbox'[i] = longer[i + (L + 1 - Len(inbox'))]
      <4>1. i \in 1 .. L + 1 - m + 1 /\ m + i - 1 = i + (L + 1 - Len(inbox'))
        BY <1>1, <3>2, <3>5
      <4> QED BY <3>1, <3>4, <4>1
    <3>7. Len(inbox') \in 1 .. L + 1
      BY <1>1, <3>2, <3>5
    <3>8. inbox' \in Seq(Entry)
      BY <3>1, <3>4
    <3> QED BY <3>6, <3>7, <3>8
  <2> QED BY <1>4, <2>1, <2>2
<1>7. Trimmed' = n + 1 - Len(inbox') /\ Trimmed' \in Nat /\ Trimmed <= Trimmed'
  BY <1>1, <1>2, <1>6 DEF Trimmed
<1>8. ASSUME NEW d, True(d, appended) PROVE True(d, now)
  BY <1>1, <1>2, <1>8 DEF True, n
<1>9. ASSUME NEW i \in 1 .. Len(inbox')
      PROVE  inbox'[i].id = Trimmed' + i /\ True(inbox'[i], now)
  <2> DEFINE j == i + (L + 1 - Len(inbox'))
  <2>1. j \in 1 .. L + 1 /\ Trimmed + j = Trimmed' + i
    BY <1>1, <1>6, <1>7
  <2>2. inbox'[i] = longer[j]
    BY <1>6
  <2> HIDE DEF j
  <2>3. CASE j = L + 1
    <3>1. longer[j].id = n + 1 /\ longer[j].frame = f
      BY <1>3, <2>3
    <3>2. True(longer[j], now)
      BY <1>1, <1>2, <3>1 DEF True
    <3> QED BY <1>1, <1>2, <2>1, <2>2, <2>3, <3>1, <3>2
  <2>4. CASE j \in 1 .. L
    <3>1. inbox[j].id = Trimmed + j /\ True(inbox[j], appended) /\ inbox[j] \in Entry
      BY <1>1, <2>4
    <3>2. True(inbox[j], now)
      BY <1>8, <3>1
    <3> QED BY <1>3, <2>1, <2>2, <2>4, <3>1, <3>2
  <2> QED BY <1>1, <2>1, <2>3, <2>4
<1>10. \A i \in 1 .. Len(wire) : wire[i].id = wire[1].id + i - 1 /\ True(wire[i], now)
  BY <1>8 DEF Stream, Types
<1>11. Stream'
  <2>1. wire # <<>> => /\ cursor < wire[1].id
                       /\ wire[1].id = cursor + 1 \/ wire[1].id <= Trimmed' + 1
                       /\ pushed = wire[Len(wire)].id
    <3>1. wire # <<>> => wire[1].id \in Nat
      <4>1. wire # <<>> => wire[1] \in Entry
        BY DEF Types
      <4> QED BY <4>1 DEF Entry
    <3>2. Trimmed \in Nat /\ Trimmed' \in Nat /\ Trimmed <= Trimmed' /\ cursor \in Nat
      BY <1>1, <1>7
    <3> QED BY <3>1, <3>2 DEF Stream
  <2>2. wire = <<>> => pushed \in {cursor, Closed}
    BY DEF Stream
  <2>3. Len(inbox') <= Len(appended')
    BY <1>1, <1>2, <1>6
  <2>4. Closed' = Closed /\ appended' = now /\ UNCHANGED <<cursor, pushed, wire>>
    BY <1>2, <1>5 DEF Closed
  <2>5. \A i \in 1 .. Len(inbox') : inbox'[i].id = Trimmed' + i /\ True(inbox'[i], appended')
    BY <1>9, <2>4
  <2>6. \A i \in 1 .. Len(wire') : wire'[i].id = wire'[1].id + i - 1 /\ True(wire'[i], appended')
    BY <1>10, <2>4
  <2> QED BY <2>1, <2>2, <2>3, <2>4, <2>5, <2>6 DEF Stream
<1>12. missed' = missed \cup {m \in 1 .. n : /\ m \notin {d.id : d \in ToSet(inbox')}
                                             /\ m > cursor
                                             /\ m \notin {d.id : d \in ToSet(wire)}}
  BY DEF Add, n
<1>13. missed' \subseteq 1 .. n + 1
  <2>1. missed \subseteq 1 .. n
    BY DEF Read, n
  <2>2. missed' \subseteq missed \cup 1 .. n
    <3> HIDE DEF e
    <3> QED BY <1>12, Zenon
  <2>3. 1 .. n \subseteq 1 .. n + 1
    BY <1>1
  <2> QED BY <2>1, <2>2, <2>3
<1>14. \A m \in cursor + 1 .. n + 1 :
         m > Trimmed' \/ m \in missed' \/ \E i \in 1 .. Len(wire) : wire[i].id = m
  <2> SUFFICES ASSUME NEW m \in cursor + 1 .. n + 1, m <= Trimmed',
                      ~ \E i \in 1 .. Len(wire) : wire[i].id = m
               PROVE  m \in missed'
    BY <1>1, <1>7
  <2>1. m \in 1 .. n /\ m > cursor
    BY <1>1, <1>6, <1>7
  <2>2. m \notin {d.id : d \in ToSet(inbox')}
    <3>1. \A i \in 1 .. Len(inbox') : inbox'[i].id # m
      BY <1>7, <1>9, <2>1
    <3>2. ToSet(inbox') = {inbox'[i] : i \in 1 .. Len(inbox')}
      BY <1>6, ToSetFacts
    <3> QED BY <3>1, <3>2
  <2>3. m \notin {d.id : d \in ToSet(wire)}
    <3>1. ToSet(wire) = {wire[i] : i \in 1 .. Len(wire)}
      BY ToSetFacts DEF Types
    <3> QED BY <3>1
  <2> QED BY <1>12, <2>1, <2>2, <2>3
<1>15. \A i \in 1 .. Len(seen) : True(seen[i], now) /\ seen[i].id <= cursor
  BY <1>8 DEF Read, Types
<1>16. Read'
  <2>1. missed \subseteq missed' /\ cursor <= n + 1
    BY <1>1, <1>12 DEF Read, n
  <2> QED BY <1>2, <1>5, <1>13, <1>14, <1>15, <2>1 DEF Read
<1> QED BY <1>2, <1>6, <1>11, <1>16 DEF now

\* What is on the wire ends at an entry.
LEMMA OpenIsBehind ==
    ASSUME Types, Stream, wire # <<>>
    PROVE  /\ wire[1].id \in 1 .. Len(appended) /\ Len(wire) \in Nat \ {0}
           /\ pushed \in 1 .. Len(appended)
<1>1. Len(wire) \in Nat \ {0}
  BY EmptySeq, LenProperties DEF Types
<1>2. True(wire[1], appended) /\ True(wire[Len(wire)], appended) /\ pushed = wire[Len(wire)].id
  BY <1>1 DEF Stream
<1> QED BY <1>1, <1>2 DEF True

\* A page is read, and the cursor goes to its last entry.
LEMMA PageStep ==
    ASSUME MailboxConstants, Types, Stream, Read, Short, ReadPage
    PROVE  seen' \in Seq(Entry) /\ cursor' \in Nat /\ Stream' /\ Read'
<1> DEFINE E == Entries(cursor)
           n == Len(appended)
           k == Len(E)
<1>1. /\ n \in Nat /\ Len(inbox) \in Nat /\ Len(inbox) <= n /\ cursor \in 0 .. n
      /\ Trimmed \in 0 .. n /\ seen \in Seq(Entry)
  BY DEF Types, Stream, Read, Trimmed
<1>2. /\ E \in Seq(Entry) /\ E # <<>>
      /\ \A i \in 1 .. k : E[i].id = Start(cursor) + i /\ True(E[i], appended)
  BY <1>1, EntriesFacts DEF ReadPage
<1>3. /\ seen' = seen \o E /\ cursor' = Last(E).id /\ pushed = Closed
      /\ UNCHANGED <<appended, inbox, missed, pushed, wire>>
  BY DEF ReadPage, stream
<1> HIDE DEF E, n
<1>4. k \in Nat \ {0} /\ cursor' = Start(cursor) + k /\ cursor' <= n /\ Last(E) = E[k]
  <2>1. k \in Nat \ {0} /\ Last(E) = E[k]
    BY <1>2, EmptySeq, LenProperties DEF Last
  <2>2. E[k].id = Start(cursor) + k /\ E[k].id \in 1 .. n
    BY <1>2, <2>1 DEF True, n
  <2> QED BY <1>3, <2>1, <2>2
<1>5. /\ seen' \in Seq(Entry) /\ Len(seen') = Len(seen) + k
      /\ \A i \in 1 .. Len(seen) : seen'[i] = seen[i]
      /\ \A i \in 1 .. k : seen'[Len(seen) + i] = E[i]
      /\ Len(seen) \in Nat
  BY <1>1, <1>2, <1>3, <1>4
<1>6. Start(cursor) \in cursor .. n /\ (Start(cursor) = cursor \/ Start(cursor) = Trimmed)
  BY <1>1 DEF Start, n
<1>7. ASSUME NEW i \in 1 .. Len(seen')
      PROVE  /\ i \in 1 .. Len(seen) /\ seen'[i] = seen[i] /\ seen'[i].id <= cursor
                  /\ True(seen'[i], appended)
             \/ \E j \in 1 .. k : /\ i = Len(seen) + j /\ seen'[i].id = Start(cursor) + j
                                  /\ True(seen'[i], appended)
  <2>1. CASE i \in 1 .. Len(seen)
    BY <1>5, <2>1 DEF Read
  <2>2. CASE i \notin 1 .. Len(seen)
    <3>1. i - Len(seen) \in 1 .. k /\ i = Len(seen) + (i - Len(seen))
      BY <1>4, <1>5, <2>2
    <3>2. seen'[i] = E[i - Len(seen)]
      BY <1>5, <3>1
    <3> QED BY <1>2, <3>1, <3>2
  <2> QED BY <2>1, <2>2
<1>8. \A i \in 1 .. Len(seen') : True(seen'[i], appended) /\ seen'[i].id <= cursor'
  <2> SUFFICES ASSUME NEW i \in 1 .. Len(seen')
               PROVE  True(seen'[i], appended) /\ seen'[i].id <= cursor'
    OBVIOUS
  <2>1. True(seen'[i], appended) /\ seen'[i].id \in Nat
    BY <1>1, <1>7 DEF True, n
  <2>2. seen'[i].id <= cursor \/ \E j \in 1 .. k : seen'[i].id = Start(cursor) + j
    BY <1>7
  <2> QED BY <1>1, <1>4, <1>6, <2>1, <2>2
<1>9. \A i, j \in 1 .. Len(seen') : i < j => seen'[i].id < seen'[j].id
  <2> SUFFICES ASSUME NEW i \in 1 .. Len(seen'), NEW j \in 1 .. Len(seen'), i < j
               PROVE  seen'[i].id < seen'[j].id
    OBVIOUS
  <2>1. seen'[i].id \in Nat /\ seen'[j].id \in Nat
    BY <1>1, <1>8 DEF True, n
  <2>4. Start(cursor) \in Nat /\ cursor \in Nat /\ cursor <= Start(cursor) /\ Len(seen) \in Nat
    BY <1>1, <1>5, <1>6
  <2>5. k \in Nat
    BY <1>4
  <2>2. CASE j \in 1 .. Len(seen)
    <3>1. i \in 1 .. Len(seen)
      BY <1>5, <2>2
    <3> QED BY <1>5, <2>2, <3>1 DEF Read
  <2>3. CASE j \notin 1 .. Len(seen)
    <3>1. PICK m \in 1 .. k : j = Len(seen) + m /\ seen'[j].id = Start(cursor) + m
      BY <1>7, <2>3
    <3>2. CASE i \in 1 .. Len(seen)
      <4>1. seen'[i].id <= cursor
        BY <1>5, <3>2 DEF Read
      <4> QED BY <2>1, <2>4, <2>5, <3>1, <4>1
    <3>3. CASE i \notin 1 .. Len(seen)
      <4>1. PICK l \in 1 .. k : i = Len(seen) + l /\ seen'[i].id = Start(cursor) + l
        BY <1>7, <3>3
      <4> QED BY <2>4, <2>5, <3>1, <4>1
    <3> QED BY <3>2, <3>3
  <2> QED BY <2>2, <2>3
<1>10. wire = <<>>
  <2>1. ASSUME wire # <<>> PROVE FALSE
    <3>1. pushed = wire[Len(wire)].id
      BY <2>1 DEF Stream
    <3>2. pushed \in 1 .. n
      BY <2>1, <3>1, OpenIsBehind DEF n
    <3> QED BY <1>1, <1>3, <3>2 DEF Closed, Short, MailboxConstants, n
  <2> QED BY <2>1
<1>11. \A m \in 1 .. cursor' : m \in missed \/ \E i \in 1 .. Len(seen') : seen'[i].id = m
  <2> SUFFICES ASSUME NEW m \in 1 .. cursor', m \notin missed
               PROVE  \E i \in 1 .. Len(seen') : seen'[i].id = m
    OBVIOUS
  <2>1. CASE m <= cursor
    <3>1. PICK i \in 1 .. Len(seen) : seen[i].id = m
      BY <1>1, <2>1 DEF Read
    <3>2. i \in 1 .. Len(seen') /\ seen'[i].id = m
      BY <1>4, <1>5, <3>1
    <3> QED BY <3>2
  <2>2. CASE m > Start(cursor)
    <3>1. m - Start(cursor) \in 1 .. k
      BY <1>1, <1>4, <1>6, <2>2
    <3>2. /\ Len(seen) + (m - Start(cursor)) \in 1 .. Len(seen')
          /\ seen'[Len(seen) + (m - Start(cursor))] = E[m - Start(cursor)]
      BY <1>4, <1>5, <3>1
    <3>3. E[m - Start(cursor)].id = m
      BY <1>1, <1>2, <1>6, <3>1
    <3> QED BY <3>2, <3>3
  <2>3. CASE m > cursor /\ m <= Start(cursor)
    <3>1. m \in cursor + 1 .. n /\ m <= Trimmed
      BY <1>1, <1>4, <1>6, <2>3
    <3>2. m \in missed \/ \E i \in 1 .. Len(wire) : wire[i].id = m
      BY <1>1, <3>1 DEF Read, n
    <3> QED BY <1>10, <3>2
  <2> QED BY <1>1, <1>4, <1>6, <2>1, <2>2, <2>3
<1>12. \A m \in cursor' + 1 .. n :
         m > Trimmed \/ m \in missed \/ \E i \in 1 .. Len(wire) : wire[i].id = m
  <2>1. \A m \in cursor' + 1 .. n : m \in cursor + 1 .. n
    BY <1>1, <1>4, <1>6
  <2> QED BY <2>1 DEF Read, n
<1>13. Trimmed' = Trimmed /\ Closed' = Closed
  BY <1>3 DEF Trimmed, Closed
<1>14. Stream'
  BY <1>3, <1>10, <1>13 DEF Stream
<1>15. Read'
  BY <1>3, <1>4, <1>8, <1>9, <1>11, <1>12, <1>13 DEF Read, n
<1>16. cursor' \in Nat
  BY <1>1, <1>4, <1>6
<1> QED BY <1>5, <1>14, <1>15, <1>16

\* A connection goes on behind the cursor.
LEMMA ConnectStep ==
    ASSUME MailboxConstants, Types, Stream, Read, Short, Connect
    PROVE  wire' = <<>> /\ pushed' \in Nat /\ Stream' /\ Read'
<1>1. /\ pushed = Closed /\ pushed' = cursor /\ wire' = <<>>
      /\ UNCHANGED <<appended, inbox, missed, cursor, seen>>
  BY DEF Connect, stream
<1>2. wire = <<>>
  <2>1. ASSUME wire # <<>> PROVE FALSE
    <3>1. pushed \in 1 .. Len(appended) /\ Len(appended) \in Nat
      BY <2>1, OpenIsBehind DEF Types
    <3> QED BY <1>1, <3>1 DEF Closed, Short, MailboxConstants
  <2> QED BY <2>1
<1>3. Trimmed' = Trimmed
  BY <1>1 DEF Trimmed
<1>4. Stream'
  BY <1>1, <1>2, <1>3 DEF Stream
<1>5. Read'
  BY <1>1, <1>2, <1>3 DEF Read
<1> QED BY <1>1, <1>4, <1>5 DEF Types

\* A connection sends the entries behind the last it sent.
LEMMA PushStep ==
    ASSUME MailboxConstants, Types, Stream, Read, Short, Push
    PROVE  wire' \in Seq(Entry) /\ pushed' \in Nat /\ Stream' /\ Read'
<1> DEFINE E == Entries(pushed)
           n == Len(appended)
           k == Len(E)
<1>1. /\ n \in Nat /\ Len(inbox) \in Nat /\ Len(inbox) <= n /\ cursor \in 0 .. n
      /\ Trimmed \in 0 .. n
  BY DEF Types, Stream, Read, Trimmed
<1>2. /\ wire = <<>> /\ pushed = cursor /\ E # <<>>
      /\ wire' = E /\ pushed' = Last(E).id
      /\ UNCHANGED <<appended, inbox, missed, cursor, seen>>
  BY DEF Push, stream, Stream
<1>3. /\ E \in Seq(Entry)
      /\ \A i \in 1 .. k : E[i].id = Start(cursor) + i /\ True(E[i], appended)
  BY <1>1, <1>2, EntriesFacts
<1> HIDE DEF E, n
<1>4. k \in Nat \ {0} /\ Last(E) = E[k] /\ E[k].id \in 1 .. n
  <2>1. k \in Nat \ {0} /\ Last(E) = E[k]
    BY <1>2, <1>3, EmptySeq, LenProperties DEF Last
  <2> QED BY <1>3, <2>1 DEF True, n
<1>5. Start(cursor) \in cursor .. n /\ (Start(cursor) = cursor \/ Start(cursor) = Trimmed)
  BY <1>1 DEF Start, n
<1>6. Trimmed' = Trimmed
  BY <1>2 DEF Trimmed
<1>7. /\ \A i \in 1 .. k : E[i].id = E[1].id + i - 1 /\ True(E[i], appended)
      /\ cursor < E[1].id /\ (E[1].id = cursor + 1 \/ E[1].id <= Trimmed + 1)
  <2>1. E[1].id = Start(cursor) + 1
    BY <1>3, <1>4
  <2> QED BY <1>1, <1>3, <1>5, <2>1
<1>8. Stream'
  BY <1>2, <1>4, <1>6, <1>7 DEF Stream
<1>9. Read'
  BY <1>2, <1>6 DEF Read
<1> QED BY <1>2, <1>3, <1>4, <1>8, <1>9

\* The reader takes the next entry from the wire. What it never got was trimmed by then.
LEMMA ReceiveStep ==
    ASSUME MailboxConstants, Types, Stream, Read, Short, Receive
    PROVE  /\ seen' \in Seq(Entry) /\ wire' \in Seq(Entry) /\ cursor' \in Nat
           /\ Stream' /\ Read'
<1> DEFINE e == Head(wire)
           n == Len(appended)
           k == Len(wire)
<1>1. /\ n \in Nat /\ Len(inbox) \in Nat /\ Len(inbox) <= n /\ cursor \in 0 .. n
      /\ Trimmed \in 0 .. n /\ seen \in Seq(Entry) /\ Len(seen) \in Nat
  BY DEF Types, Stream, Read, Trimmed
<1>2. /\ wire # <<>> /\ wire \in Seq(Entry) /\ pushed # Closed
      /\ seen' = Append(seen, e) /\ cursor' = e.id /\ wire' = Tail(wire)
      /\ UNCHANGED <<appended, inbox, missed, pushed>>
  BY DEF Receive, stream, Types
<1>3. /\ e \in Entry /\ e = wire[1] /\ Tail(wire) \in Seq(Entry)
      /\ Len(Tail(wire)) = k - 1
      /\ \A i \in 1 .. k - 1 : Tail(wire)[i] = wire[i + 1]
      /\ k \in Nat \ {0}
  BY <1>2, HeadTailProperties, EmptySeq, LenProperties
<1>4. /\ \A i \in 1 .. k : wire[i].id = e.id + i - 1 /\ True(wire[i], appended)
      /\ cursor < e.id /\ (e.id = cursor + 1 \/ e.id <= Trimmed + 1)
      /\ pushed = wire[k].id
      /\ True(e, appended) /\ e.id \in 1 .. n
  BY <1>2, <1>3 DEF Stream, True
<1> HIDE DEF e, n, k
<1>5. /\ seen' \in Seq(Entry) /\ Len(seen') = Len(seen) + 1 /\ seen'[Len(seen) + 1] = e
      /\ \A i \in 1 .. Len(seen) : seen'[i] = seen[i]
  BY <1>1, <1>2, <1>3
<1>6. Trimmed' = Trimmed /\ Closed' = Closed
  BY <1>2 DEF Trimmed, Closed
<1>7. Stream'
  <2>1. \A i \in 1 .. Len(wire') : wire'[i].id = e.id + i /\ True(wire'[i], appended)
    <3> SUFFICES ASSUME NEW i \in 1 .. k - 1
                 PROVE  wire[i + 1].id = e.id + i /\ True(wire[i + 1], appended)
      BY <1>2, <1>3
    <3>1. i + 1 \in 1 .. k
      BY <1>3
    <3>2. wire[i + 1].id = e.id + (i + 1) - 1 /\ True(wire[i + 1], appended)
      BY <1>4, <3>1
    <3> QED BY <1>4, <3>2
  <2>2. CASE k = 1
    <3>1. wire' = <<>> /\ pushed = cursor'
      BY <1>2, <1>3, <1>4, <2>2, EmptySeq
    <3> QED BY <1>2, <1>6, <3>1 DEF Stream
  <2>3. CASE k # 1
    <3>1. /\ wire' # <<>> /\ Len(wire') = k - 1 /\ k - 1 \in Nat \ {0}
          /\ wire'[1].id = e.id + 1 /\ wire'[Len(wire')] = wire[k]
      BY <1>2, <1>3, <2>1, <2>3, EmptySeq
    <3>2. \A i \in 1 .. Len(wire') : wire'[i].id = wire'[1].id + i - 1 /\ True(wire'[i], appended)
      BY <1>4, <2>1, <3>1
    <3>3. cursor' < wire'[1].id /\ wire'[1].id = cursor' + 1
      BY <1>2, <1>4, <3>1
    <3> QED BY <1>2, <1>4, <1>6, <3>1, <3>2, <3>3 DEF Stream
  <2> QED BY <2>2, <2>3
<1>8. \A i \in 1 .. Len(seen') : True(seen'[i], appended) /\ seen'[i].id <= cursor'
  <2> SUFFICES ASSUME NEW i \in 1 .. Len(seen')
               PROVE  True(seen'[i], appended) /\ seen'[i].id <= cursor'
    OBVIOUS
  <2>1. CASE i = Len(seen) + 1
    BY <1>2, <1>4, <1>5, <2>1
  <2>2. CASE i \in 1 .. Len(seen)
    <3>1. True(seen[i], appended) /\ seen[i].id <= cursor
      BY <2>2 DEF Read
    <3> QED BY <1>1, <1>2, <1>4, <1>5, <2>2, <3>1 DEF True, n
  <2> QED BY <1>1, <1>5, <2>1, <2>2
<1>9. \A i, j \in 1 .. Len(seen') : i < j => seen'[i].id < seen'[j].id
  <2> SUFFICES ASSUME NEW i \in 1 .. Len(seen'), NEW j \in 1 .. Len(seen'), i < j
               PROVE  seen'[i].id < seen'[j].id
    OBVIOUS
  <2>1. i \in 1 .. Len(seen)
    BY <1>1, <1>5
  <2>2. CASE j = Len(seen) + 1
    <3>1. True(seen[i], appended) /\ seen[i].id <= cursor
      BY <2>1 DEF Read
    <3> QED BY <1>1, <1>4, <1>5, <2>1, <2>2, <3>1 DEF True, n
  <2>3. CASE j \in 1 .. Len(seen)
    BY <1>5, <2>1, <2>3 DEF Read
  <2> QED BY <1>1, <1>5, <2>2, <2>3
<1>10. \A m \in 1 .. cursor' : m \in missed \/ \E i \in 1 .. Len(seen') : seen'[i].id = m
  <2> SUFFICES ASSUME NEW m \in 1 .. cursor', m \notin missed
               PROVE  \E i \in 1 .. Len(seen') : seen'[i].id = m
    OBVIOUS
  <2>1. CASE m <= cursor
    <3>1. PICK i \in 1 .. Len(seen) : seen[i].id = m
      BY <1>1, <2>1 DEF Read
    <3>2. i \in 1 .. Len(seen') /\ seen'[i].id = m
      BY <1>1, <1>5, <3>1
    <3> QED BY <3>2
  <2>2. CASE m = e.id
    <3>1. Len(seen) + 1 \in 1 .. Len(seen') /\ seen'[Len(seen) + 1].id = m
      BY <1>1, <1>5, <2>2
    <3> QED BY <3>1
  <2>3. CASE m > cursor /\ m < e.id
    <3>1. m \in cursor + 1 .. n /\ m <= Trimmed
      BY <1>1, <1>4, <2>3
    <3>2. PICK i \in 1 .. Len(wire) : wire[i].id = m
      BY <1>1, <3>1 DEF Read, n
    <3>3. wire[i].id = e.id + i - 1
      BY <1>4 DEF k
    <3> QED BY <1>3, <1>4, <2>3, <3>2, <3>3 DEF k
  <2>4. cursor \in Nat /\ e.id \in Nat /\ m \in 1 .. e.id
    BY <1>1, <1>2, <1>4
  <2>5. m <= cursor \/ m = e.id \/ (m > cursor /\ m < e.id)
    BY <2>4
  <2> QED BY <2>1, <2>2, <2>3, <2>5
<1>11. \A m \in cursor' + 1 .. n :
         m > Trimmed \/ m \in missed \/ \E i \in 1 .. Len(wire') : wire'[i].id = m
  <2> SUFFICES ASSUME NEW m \in cursor' + 1 .. n, m <= Trimmed, m \notin missed
               PROVE  \E i \in 1 .. Len(wire') : wire'[i].id = m
    BY <1>1
  <2>1. m \in cursor + 1 .. n /\ m > e.id
    <3>1. cursor \in Nat /\ e.id \in Nat /\ cursor < e.id /\ cursor' = e.id
      BY <1>1, <1>2, <1>4
    <3> QED BY <1>1, <3>1
  <2>2. PICK i \in 1 .. Len(wire) : wire[i].id = m
    BY <1>1, <2>1 DEF Read, n
  <2>3. i # 1
    <3>1. wire[1].id = e.id /\ e.id \in Nat
      BY <1>3, <1>4
    <3>2. m # e.id
      BY <2>1, <3>1
    <3> QED BY <2>2, <3>1, <3>2
  <2>4. i - 1 \in 1 .. k - 1 /\ Tail(wire)[i - 1] = wire[i]
    <3>1. i - 1 \in 1 .. k - 1
      BY <1>3, <2>3 DEF k
    <3>2. Tail(wire)[i - 1] = wire[i - 1 + 1]
      BY <1>3, <3>1
    <3> QED BY <3>1, <3>2 DEF k
  <2> QED BY <1>2, <1>3, <2>2, <2>4
<1>12. Read'
  <2>1. cursor' <= Len(appended') /\ missed' \subseteq 1 .. Len(appended')
    BY <1>1, <1>2, <1>4 DEF Read, n
  <2>2. appended' = appended /\ missed' = missed /\ Trimmed' = Trimmed
    BY <1>2, <1>6
  <2>3. \A i \in 1 .. Len(seen') : True(seen'[i], appended') /\ seen'[i].id <= cursor'
    BY <1>8, <2>2
  <2>4. \A m \in 1 .. cursor' : m \in missed' \/ \E i \in 1 .. Len(seen') : seen'[i].id = m
    BY <1>10, <2>2
  <2>5. \A m \in cursor' + 1 .. Len(appended') :
          m > Trimmed' \/ m \in missed' \/ \E i \in 1 .. Len(wire') : wire'[i].id = m
    BY <1>11, <2>2 DEF n
  <2> QED BY <1>9, <2>1, <2>3, <2>4, <2>5 DEF Read
<1> QED BY <1>2, <1>3, <1>4, <1>5, <1>7, <1>12

\* The connection is lost: what was on the wire is sent again, if it is retained.
LEMMA DisconnectStep ==
    ASSUME MailboxConstants, Types, Stream, Read, Short, Disconnect
    PROVE  wire' = <<>> /\ pushed' \in Nat /\ Stream' /\ Read'
<1>1. /\ wire' = <<>> /\ pushed' = Closed
      /\ missed' = missed \cup ({d.id : d \in ToSet(wire)} \ {d.id : d \in ToSet(inbox)})
      /\ UNCHANGED <<appended, inbox, cursor, seen>>
  BY DEF Disconnect
<1>2. Trimmed' = Trimmed /\ Closed' = Closed /\ Closed \in Nat
  BY <1>1 DEF Trimmed, Closed, MailboxConstants
<1>3. /\ ToSet(wire) = {wire[i] : i \in 1 .. Len(wire)}
      /\ ToSet(inbox) = {inbox[i] : i \in 1 .. Len(inbox)}
      /\ Len(appended) \in Nat /\ Len(inbox) \in Nat /\ Len(wire) \in Nat /\ cursor \in Nat
  BY ToSetFacts DEF Types
<1>4. Stream'
  <2>1. wire' = <<>> /\ Len(wire') = 0
    BY <1>1
  <2> QED BY <1>1, <1>2, <2>1 DEF Stream
<1>5. missed' \subseteq 1 .. Len(appended)
  <2>1. \A d \in ToSet(wire) : d.id \in 1 .. Len(appended)
    BY <1>3 DEF Stream, True
  <2>2. missed \subseteq 1 .. Len(appended)
    BY DEF Read
  <2> QED BY <1>1, <2>1, <2>2
<1>6. ASSUME NEW m \in cursor + 1 .. Len(appended), m <= Trimmed
      PROVE  m \in missed'
  <2>1. m \in missed \/ \E i \in 1 .. Len(wire) : wire[i].id = m
    BY <1>3, <1>6 DEF Read, Trimmed
  <2>2. \A i \in 1 .. Len(inbox) : inbox[i].id # m
    BY <1>3, <1>6 DEF Stream, Trimmed
  <2>3. m \notin {d.id : d \in ToSet(inbox)}
    BY <1>3, <2>2
  <2>4. (\E i \in 1 .. Len(wire) : wire[i].id = m) => m \in {d.id : d \in ToSet(wire)}
    BY <1>3
  <2> QED BY <1>1, <2>1, <2>3, <2>4
<1>7. Read'
  <2>1. \A m \in cursor + 1 .. Len(appended) : m > Trimmed \/ m \in missed'
    BY <1>3, <1>6 DEF Trimmed
  <2>2. missed \subseteq missed'
    BY <1>1
  <2> QED BY <1>1, <1>2, <1>5, <2>1, <2>2 DEF Read
<1> QED BY <1>1, <1>2, <1>4, <1>7

-----------------------------------------------------------------------------
(* The frames *)

\* There are no more entries than frames.
LEMMA ShortFollows ==
    ASSUME MailboxConstants, Types, Placed
    PROVE  Short
<1>1. appended \in Seq(Nat) /\ admitted \in 0 .. MaxFrames /\ MaxFrames \in Nat
  BY DEF Types, MailboxConstants
<1>2. ToSet(appended) = {appended[i] : i \in 1 .. Len(appended)}
  BY <1>1, ToSetFacts
<1>3. \A i \in 1 .. Len(appended) : appended[i] \in 1 .. admitted
  BY <1>2 DEF Placed, Taken
<1>4. appended \in Seq(1 .. admitted)
  BY <1>1, <1>3
<1>5. IsFiniteSet(1 .. admitted) /\ Cardinality(1 .. admitted) = admitted
  BY <1>1, FS_Interval
<1>6. Len(appended) <= Cardinality(1 .. admitted)
  BY <1>4, <1>5, Distinct DEF Placed
<1> QED BY <1>1, <1>5, <1>6 DEF Short

\* What the other ports hold.
Others(p) == UNION {ToSet(hand[q]) : q \in Ports \ {p}}

\* What a port holds the others do not, and what it comes to hold is its own affair.
LEMMA HandFacts ==
    ASSUME Types, Placed, NEW p \in Ports
    PROVE  /\ InHand = Others(p) \cup ToSet(hand[p])
           /\ Others(p) \cap ToSet(hand[p]) = {}
           /\ \A s \in Seq(Nat) : hand' = [hand EXCEPT ![p] = s] =>
                /\ hand' \in [Ports -> Seq(Nat)]
                /\ InHand' = Others(p) \cup ToSet(s)
                /\ hand'[p] = s /\ \A q \in Ports : q # p => hand'[q] = hand[q]
<1>1. hand \in [Ports -> Seq(Nat)]
  BY DEF Types
<1>2. InHand = Others(p) \cup ToSet(hand[p])
  BY DEF InHand, Others
<1>3. Others(p) \cap ToSet(hand[p]) = {}
  BY DEF Others, Placed
<1>4. ASSUME NEW s \in Seq(Nat), hand' = [hand EXCEPT ![p] = s]
      PROVE  /\ hand' \in [Ports -> Seq(Nat)]
             /\ InHand' = Others(p) \cup ToSet(s)
             /\ hand'[p] = s /\ \A q \in Ports : q # p => hand'[q] = hand[q]
  <2>1. /\ hand' \in [Ports -> Seq(Nat)] /\ hand'[p] = s
        /\ \A q \in Ports : q # p => hand'[q] = hand[q]
    BY <1>1, <1>4
  <2>2. InHand' = UNION {ToSet(hand'[q]) : q \in Ports}
    BY DEF InHand
  <2> QED BY <2>1, <2>2 DEF Others
<1> QED BY <1>2, <1>3, <1>4

\* What waits is not taken yet.
LEMMA Waiting ==
    ASSUME Types, Placed
    PROVE  /\ ToSet(ingress) = {ingress[i] : i \in 1 .. Len(ingress)}
           /\ ToSet(ingress) \cap Taken = {}
           /\ Taken \subseteq Nat
<1>1. ToSet(ingress) = {ingress[i] : i \in 1 .. Len(ingress)} /\ ToSet(ingress) \subseteq Nat
  BY ToSetFacts DEF Types
<1>2. Taken \subseteq 1 .. admitted
  BY DEF Placed
<1>3. ASSUME NEW x \in Taken, NEW i \in 1 .. Len(ingress), x = ingress[i] PROVE FALSE
  <2>1. x < x /\ x \in 1 .. admitted /\ admitted \in Nat
    BY <1>2, <1>3 DEF Placed, Types
  <2> QED BY <2>1
<1> QED BY <1>1, <1>2, <1>3 DEF Types

\* A port lets go of frames: they become mail, dead letters, or are lost.
LEMMA Release ==
    ASSUME Types, Placed, NEW p \in Ports,
           NEW s \in Seq(Nat), Rising(s), NEW mail, NEW letters, NEW gone,
           hand' = [hand EXCEPT ![p] = s],
           ToSet(hand[p]) = ToSet(s) \cup mail \cup letters \cup gone,
           ToSet(s) \cap (mail \cup letters \cup gone) = {},
           mail \cap (letters \cup gone) = {}, letters \cap gone = {},
           ToSet(appended') = ToSet(appended) \cup mail,
           \A i, j \in 1 .. Len(appended') : i < j => appended'[i] # appended'[j],
           dead' = dead \cup letters, lost' = lost \cup gone,
           lost' # {} => faults' > 0,
           admitted' = admitted, ingress' = ingress
    PROVE  Placed'
<1>1. /\ InHand = Others(p) \cup ToSet(hand[p]) /\ Others(p) \cap ToSet(hand[p]) = {}
      /\ InHand' = Others(p) \cup ToSet(s)
      /\ hand'[p] = s /\ \A q \in Ports : q # p => hand'[q] = hand[q]
  BY HandFacts
<1>2. Taken' = InHand' \cup ToSet(appended') \cup dead' \cup lost'
  BY DEF Taken
<1>3. Taken' = Taken
  BY <1>1, <1>2 DEF Taken
<1>4. 1 .. admitted' = ToSet(ingress') \cup Taken'
  BY <1>3 DEF Placed
<1>5. \A x \in Taken' : \A i \in 1 .. Len(ingress') : x < ingress'[i]
  BY <1>3 DEF Placed
<1>6. /\ InHand' \cap (ToSet(appended') \cup dead' \cup lost') = {}
      /\ ToSet(appended') \cap (dead' \cup lost') = {}
      /\ dead' \cap lost' = {}
  BY <1>1 DEF Placed
<1>7. Rising(ingress') /\ \A q \in Ports : Rising(hand'[q])
  <2>1. \A q \in Ports : Rising(hand'[q])
    BY <1>1 DEF Placed
  <2> QED BY <2>1 DEF Placed
<1>8. \A q, r \in Ports : q # r => ToSet(hand'[q]) \cap ToSet(hand'[r]) = {}
  <2> SUFFICES ASSUME NEW q \in Ports, NEW r \in Ports, q # r
               PROVE  ToSet(hand'[q]) \cap ToSet(hand'[r]) = {}
    OBVIOUS
  <2>1. ToSet(hand[q]) \cap ToSet(hand[r]) = {}
    BY DEF Placed
  <2>2. ToSet(hand'[q]) \subseteq ToSet(hand[q]) /\ ToSet(hand'[r]) \subseteq ToSet(hand[r])
    BY <1>1
  <2> QED BY <2>1, <2>2
<1> QED BY <1>4, <1>5, <1>6, <1>7, <1>8 DEF Placed

\* Where no frame moves, every frame stays in its place.
LEMMA PlacedSame ==
    ASSUME Placed, UNCHANGED <<admitted, ingress, hand, appended, dead, lost>>,
           faults > 0 => faults' > 0
    PROVE  Placed'
<1>1. InHand' = InHand /\ Taken' = Taken
  BY DEF InHand, Taken
<1>2. /\ 1 .. admitted' = ToSet(ingress') \cup Taken'
      /\ \A x \in Taken' : \A i \in 1 .. Len(ingress') : x < ingress'[i]
      /\ Rising(ingress') /\ \A p \in Ports : Rising(hand'[p])
  BY <1>1 DEF Placed
<1>3. /\ InHand' \cap (ToSet(appended') \cup dead' \cup lost') = {}
      /\ ToSet(appended') \cap (dead' \cup lost') = {}
      /\ dead' \cap lost' = {}
  BY <1>1 DEF Placed
<1>4. /\ \A p, q \in Ports : p # q => ToSet(hand'[p]) \cap ToSet(hand'[q]) = {}
      /\ \A i, j \in 1 .. Len(appended') : i < j => appended'[i] # appended'[j]
      /\ lost' # {} => faults' > 0
  BY DEF Placed
<1> QED BY <1>2, <1>3, <1>4 DEF Placed

\* A frame is admitted behind all others.
LEMMA AdmitStep ==
    ASSUME MailboxConstants, Types, Placed, Admit
    PROVE  admitted' \in 0 .. MaxFrames /\ ingress' \in Seq(Nat) /\ Placed'
<1> DEFINE f == admitted + 1
<1>1. /\ admitted \in 0 .. MaxFrames /\ admitted < MaxFrames /\ admitted' = f
      /\ ingress \in Seq(Nat) /\ ingress' = Append(ingress, f)
      /\ UNCHANGED <<hand, dead, appended, lost, faults>>
      /\ f \in Nat /\ MaxFrames \in Nat
  BY DEF Admit, Types, MailboxConstants, stream
<1>2. /\ ingress' \in Seq(Nat) /\ ToSet(ingress') = ToSet(ingress) \cup {f}
      /\ Len(ingress) \in Nat /\ Len(ingress') = Len(ingress) + 1
      /\ ingress'[Len(ingress) + 1] = f
      /\ \A i \in 1 .. Len(ingress) : ingress'[i] = ingress[i]
  BY <1>1, ToSetFacts
<1>3. Taken' = Taken /\ InHand' = InHand
  BY <1>1 DEF Taken, InHand
<1>4. /\ \A x \in Taken : x \in 1 .. admitted
      /\ \A i \in 1 .. Len(ingress) : ingress[i] \in 1 .. admitted
  BY Waiting DEF Placed
<1>5. 1 .. admitted' = ToSet(ingress') \cup Taken'
  <2>1. 1 .. f = 1 .. admitted \cup {f}
    BY <1>1
  <2> QED BY <1>1, <1>2, <1>3, <2>1 DEF Placed
<1>6. \A x \in Taken' : \A i \in 1 .. Len(ingress') : x < ingress'[i]
  <2> SUFFICES ASSUME NEW x \in Taken, NEW i \in 1 .. Len(ingress') PROVE x < ingress'[i]
    BY <1>3
  <2>1. CASE i = Len(ingress) + 1
    BY <1>1, <1>2, <1>4, <2>1
  <2>2. CASE i \in 1 .. Len(ingress)
    BY <1>2, <2>2 DEF Placed
  <2> QED BY <1>2, <2>1, <2>2
<1>7. Rising(ingress')
  <2> SUFFICES ASSUME NEW i \in 1 .. Len(ingress'), NEW j \in 1 .. Len(ingress'), i < j
               PROVE  ingress'[i] < ingress'[j]
    BY DEF Rising
  <2>1. i \in 1 .. Len(ingress)
    BY <1>2
  <2>2. CASE j = Len(ingress) + 1
    BY <1>1, <1>2, <1>4, <2>1, <2>2
  <2>3. CASE j \in 1 .. Len(ingress)
    BY <1>2, <2>1, <2>3 DEF Placed, Rising
  <2> QED BY <1>2, <2>2, <2>3
<1>8. f \in 0 .. MaxFrames
  BY <1>1
<1> HIDE DEF f
<1>9. /\ InHand' \cap (ToSet(appended') \cup dead' \cup lost') = {}
      /\ ToSet(appended') \cap (dead' \cup lost') = {}
      /\ dead' \cap lost' = {}
      /\ \A p \in Ports : Rising(hand'[p])
      /\ \A p, q \in Ports : p # q => ToSet(hand'[p]) \cap ToSet(hand'[q]) = {}
      /\ \A i, j \in 1 .. Len(appended') : i < j => appended'[i] # appended'[j]
      /\ lost' # {} => faults' > 0
  BY <1>1, <1>3 DEF Placed
<1>10. Placed'
  BY <1>5, <1>6, <1>7, <1>9 DEF Placed
<1> QED BY <1>1, <1>2, <1>8, <1>10

\* A port takes the frames that wait: all, or the first.
LEMMA TakeStep ==
    ASSUME Types, Placed, NEW p \in Ports, NEW s \in Seq(Nat), NEW rest \in Seq(Nat), NEW took,
           ToSet(ingress) = took \cup ToSet(rest), took \cap ToSet(rest) = {},
           ToSet(s) = ToSet(hand[p]) \cup took, Rising(s), Rising(rest),
           \A x \in took : \A i \in 1 .. Len(rest) : x < rest[i],
           hand' = [hand EXCEPT ![p] = s], ingress' = rest,
           UNCHANGED <<admitted, appended, dead, lost, faults>>
    PROVE  Placed'
<1>1. /\ InHand = Others(p) \cup ToSet(hand[p]) /\ Others(p) \cap ToSet(hand[p]) = {}
      /\ InHand' = Others(p) \cup ToSet(s)
      /\ hand'[p] = s /\ \A q \in Ports : q # p => hand'[q] = hand[q]
  BY HandFacts
<1>2. Taken' = Taken \cup took /\ InHand' = InHand \cup took
  BY <1>1 DEF Taken
<1>3. ToSet(ingress) \cap Taken = {} /\ InHand \subseteq Taken
  BY Waiting DEF Taken
<1>4. 1 .. admitted' = ToSet(ingress') \cup Taken'
  BY <1>2 DEF Placed
<1>5. \A x \in Taken' : \A i \in 1 .. Len(ingress') : x < ingress'[i]
  <2> SUFFICES ASSUME NEW x \in Taken, NEW i \in 1 .. Len(rest) PROVE x < rest[i]
    BY <1>2
  <2>1. rest[i] \in ToSet(rest)
    BY ToSetFacts
  <2>2. rest[i] \in {ingress[j] : j \in 1 .. Len(ingress)}
    BY <2>1, Waiting
  <2> QED BY <2>2 DEF Placed
<1>6. InHand' \cap (ToSet(appended') \cup dead' \cup lost') = {}
  BY <1>2, <1>3 DEF Placed, Taken
<1>7. \A q, r \in Ports : q # r => ToSet(hand'[q]) \cap ToSet(hand'[r]) = {}
  <2>1. \A q \in Ports : ToSet(hand[q]) \subseteq InHand
    BY DEF InHand
  <2> QED BY <1>1, <1>3, <2>1 DEF Placed
<1>8. \A q \in Ports : Rising(hand'[q])
  BY <1>1 DEF Placed
<1> QED BY <1>4, <1>5, <1>6, <1>7, <1>8 DEF Placed

\* The snapshot takes all, into empty hands.
LEMMA SnapshotStep ==
    ASSUME Types, Placed, Alone, NEW p \in Ports, Snapshot(p)
    PROVE  Placed'
<1>1. /\ hand' = [hand EXCEPT ![p] = ingress] /\ ingress' = <<>> /\ phase[p] = "snapshot"
      /\ UNCHANGED <<admitted, appended, dead, lost, faults>>
      /\ ingress \in Seq(Nat)
  BY DEF Snapshot, stream, Types
<1>2. hand[p] = <<>> /\ ToSet(<<>>) = {} /\ <<>> \in Seq(Nat) /\ Rising(<<>>)
  BY <1>1 DEF Alone, ToSet, Rising
<1>3. Rising(ingress)
  BY DEF Placed
<1>4. \A x \in ToSet(ingress) : \A i \in 1 .. Len(<<>>) : FALSE
  OBVIOUS
<1> QED BY <1>1, <1>2, <1>3, <1>4, TakeStep

\* A frame is popped from the ingress onto what is in hand.
LEMMA PopStep ==
    ASSUME Types, Placed, NEW p \in Ports, Pop(p)
    PROVE  /\ Placed' /\ ingress' \in Seq(Nat) /\ hand' \in [Ports -> Seq(Nat)]
<1>1. ingress \in Seq(Nat) /\ hand \in [Ports -> Seq(Nat)] /\ hand[p] \in Seq(Nat)
  BY DEF Types
<1>2. CASE ingress = <<>>
  <2>1. UNCHANGED <<admitted, ingress, hand, appended, dead, lost, faults>>
    BY <1>2 DEF Pop, stream
  <2>2. InHand' = InHand /\ Taken' = Taken
    BY <2>1 DEF InHand, Taken
  <2>3. Placed'
    BY <2>1, <2>2 DEF Placed
  <2> QED BY <1>1, <2>1, <2>3
<1>3. CASE ingress # <<>>
  <2> DEFINE f == Head(ingress)
             rest == Tail(ingress)
             s == Append(hand[p], f)
  <2>1. /\ hand' = [hand EXCEPT ![p] = s] /\ ingress' = rest
        /\ UNCHANGED <<admitted, appended, dead, lost, faults>>
    BY <1>3 DEF Pop, stream
  <2>2. /\ f \in Nat /\ f = ingress[1] /\ rest \in Seq(Nat) /\ s \in Seq(Nat)
        /\ ToSet(ingress) = {f} \cup ToSet(rest)
        /\ ToSet(s) = ToSet(hand[p]) \cup {f}
        /\ Len(rest) = Len(ingress) - 1 /\ Len(ingress) \in Nat \ {0}
        /\ \A i \in 1 .. Len(rest) : rest[i] = ingress[i + 1]
    BY <1>1, <1>3, ToSetFacts, EmptySeq, LenProperties
  <2>3. /\ Len(s) = Len(hand[p]) + 1 /\ s[Len(hand[p]) + 1] = f /\ Len(hand[p]) \in Nat
        /\ \A i \in 1 .. Len(hand[p]) : s[i] = hand[p][i]
    BY <1>1, <2>2
  <2> HIDE DEF f, rest, s
  <2>4. \A i \in 1 .. Len(rest) : f < rest[i]
    <3> SUFFICES ASSUME NEW i \in 1 .. Len(rest) PROVE f < rest[i]
      OBVIOUS
    <3>1. 1 \in 1 .. Len(ingress) /\ i + 1 \in 1 .. Len(ingress) /\ 1 < i + 1
      BY <2>2
    <3> QED BY <2>2, <3>1 DEF Placed, Rising
  <2>5. Rising(rest)
    <3> SUFFICES ASSUME NEW i \in 1 .. Len(rest), NEW j \in 1 .. Len(rest), i < j
                 PROVE  rest[i] < rest[j]
      BY DEF Rising
    <3>1. i + 1 \in 1 .. Len(ingress) /\ j + 1 \in 1 .. Len(ingress) /\ i + 1 < j + 1
      BY <2>2
    <3> QED BY <2>2, <3>1 DEF Placed, Rising
  <2>6. \A i \in 1 .. Len(hand[p]) : hand[p][i] < f
    <3> SUFFICES ASSUME NEW i \in 1 .. Len(hand[p]) PROVE hand[p][i] < f
      OBVIOUS
    <3>1. hand[p][i] \in ToSet(hand[p])
      BY <1>1, ToSetFacts
    <3>2. hand[p][i] \in Taken
      BY <3>1 DEF Taken, InHand
    <3>3. 1 \in 1 .. Len(ingress)
      BY <2>2
    <3> QED BY <2>2, <3>2, <3>3 DEF Placed
  <2>7. Rising(s)
    <3> SUFFICES ASSUME NEW i \in 1 .. Len(s), NEW j \in 1 .. Len(s), i < j
                 PROVE  s[i] < s[j]
      BY DEF Rising
    <3>1. i \in 1 .. Len(hand[p])
      BY <2>3
    <3>2. CASE j = Len(hand[p]) + 1
      BY <2>3, <2>6, <3>1, <3>2
    <3>3. CASE j \in 1 .. Len(hand[p])
      BY <2>3, <3>1, <3>3 DEF Placed, Rising
    <3> QED BY <2>3, <3>2, <3>3
  <2>8. f \notin ToSet(rest)
    <3>1. ToSet(rest) = {rest[i] : i \in 1 .. Len(rest)}
      BY <2>2, ToSetFacts
    <3> QED BY <2>2, <2>4, <3>1
  <2>9. \A x \in {f} : \A i \in 1 .. Len(rest) : x < rest[i]
    BY <2>4
  <2>10. {f} \cap ToSet(rest) = {}
    BY <2>8
  <2>11. Placed'
    BY <2>1, <2>2, <2>5, <2>7, <2>9, <2>10, TakeStep
  <2> QED BY <1>1, <2>1, <2>2, <2>11
<1> QED BY <1>2, <1>3

\* The script took the frames, and its answer never came.
LEMMA LoseStep ==
    ASSUME Types, Placed, NEW p \in Ports, SnapshotFails(p)
    PROVE  Placed' /\ ingress' \in Seq(Nat)
<1>1. /\ faults' = faults + 1 /\ faults \in Nat /\ ingress \in Seq(Nat)
      /\ UNCHANGED <<admitted, hand, appended, dead>>
      /\ \/ UNCHANGED <<ingress, lost>>
         \/ ingress' = <<>> /\ lost' = lost \cup ToSet(ingress)
  BY DEF SnapshotFails, Fault, stream, Types
<1>2. InHand' = InHand /\ faults' > 0
  BY <1>1 DEF InHand
<1>3. CASE UNCHANGED <<ingress, lost>>
  BY <1>1, <1>2, <1>3 DEF Placed, Taken
<1>4. CASE ingress' = <<>> /\ lost' = lost \cup ToSet(ingress)
  <2>1. ToSet(<<>>) = {} /\ Rising(<<>>) /\ <<>> \in Seq(Nat) /\ Len(<<>>) = 0
    BY DEF ToSet, Rising
  <2>2. ToSet(ingress) \cap Taken = {}
    BY Waiting
  <2>3. Taken' = Taken \cup ToSet(ingress)
    BY <1>1, <1>2, <1>4 DEF Taken
  <2>4. /\ InHand \cap (ToSet(appended) \cup dead \cup lost') = {}
        /\ ToSet(appended) \cap (dead \cup lost') = {} /\ dead \cap lost' = {}
    BY <1>4, <2>2 DEF Placed, Taken
  <2>5. 1 .. admitted' = ToSet(ingress') \cup Taken'
    BY <1>1, <1>4, <2>1, <2>3 DEF Placed
  <2>6. /\ \A x \in Taken' : \A i \in 1 .. Len(ingress') : x < ingress'[i]
        /\ Rising(ingress')
    BY <1>4, <2>1
  <2>7. /\ InHand' \cap (ToSet(appended') \cup dead' \cup lost') = {}
        /\ ToSet(appended') \cap (dead' \cup lost') = {} /\ dead' \cap lost' = {}
        /\ lost' # {} => faults' > 0
    BY <1>1, <1>2, <2>4
  <2>8. /\ \A q \in Ports : Rising(hand'[q])
        /\ \A q, r \in Ports : q # r => ToSet(hand'[q]) \cap ToSet(hand'[r]) = {}
        /\ \A i, j \in 1 .. Len(appended') : i < j => appended'[i] # appended'[j]
    BY <1>1 DEF Placed
  <2>9. Placed'
    BY <2>5, <2>6, <2>7, <2>8 DEF Placed
  <2> QED BY <1>4, <2>1, <2>9
<1> QED BY <1>1, <1>3, <1>4

\* What a port holds, without the first.
LEMMA HandTail ==
    ASSUME Types, Placed, NEW p \in Ports, hand[p] # <<>>
    PROVE  LET f == Head(hand[p])
               t == Tail(hand[p])
           IN  /\ f \in Nat /\ t \in Seq(Nat) /\ Rising(t) /\ f = hand[p][1]
               /\ ToSet(hand[p]) = {f} \cup ToSet(t) /\ f \notin ToSet(t)
               /\ \A i \in 1 .. Len(t) : f < t[i]
               /\ f \notin ToSet(appended) \cup dead \cup lost
               /\ Len(hand[p]) \in Nat \ {0} /\ Len(t) = Len(hand[p]) - 1
               /\ \A i \in 1 .. Len(t) : t[i] = hand[p][i + 1]
<1> DEFINE f == Head(hand[p])
           t == Tail(hand[p])
           n == Len(hand[p])
<1>1. hand[p] \in Seq(Nat)
  BY DEF Types
<1>2. /\ f \in Nat /\ f = hand[p][1] /\ t \in Seq(Nat) /\ n \in Nat \ {0}
      /\ ToSet(hand[p]) = {f} \cup ToSet(t) /\ Len(t) = n - 1
      /\ \A i \in 1 .. Len(t) : t[i] = hand[p][i + 1]
  BY <1>1, ToSetFacts, EmptySeq, LenProperties
<1> HIDE DEF f, t, n
<1>3. Rising(hand[p])
  BY DEF Placed
<1>4. \A i \in 1 .. Len(t) : f < t[i]
  <2> SUFFICES ASSUME NEW i \in 1 .. Len(t) PROVE f < t[i]
    OBVIOUS
  <2>1. 1 \in 1 .. n /\ i + 1 \in 1 .. n /\ 1 < i + 1
    BY <1>2
  <2> QED BY <1>2, <1>3, <2>1 DEF Rising, n
<1>5. Rising(t)
  <2> SUFFICES ASSUME NEW i \in 1 .. Len(t), NEW j \in 1 .. Len(t), i < j PROVE t[i] < t[j]
    BY DEF Rising
  <2>1. i + 1 \in 1 .. n /\ j + 1 \in 1 .. n /\ i + 1 < j + 1
    BY <1>2
  <2> QED BY <1>2, <1>3, <2>1 DEF Rising, n
<1>6. f \notin ToSet(t)
  <2>1. ToSet(t) = {t[i] : i \in 1 .. Len(t)}
    BY <1>2, ToSetFacts
  <2> QED BY <1>2, <1>4, <2>1
<1>7. f \notin ToSet(appended) \cup dead \cup lost
  <2>1. f \in InHand
    BY <1>2 DEF InHand
  <2> QED BY <2>1 DEF Placed
<1> QED BY <1>2, <1>4, <1>5, <1>6, <1>7 DEF f, t, n

\* The first frame in hand becomes mail.
LEMMA Growth ==
    ASSUME Types, Placed, Alone, NEW p \in Ports, hand[p] # <<>>,
           appended' = Append(appended, Head(hand[p]))
    PROVE  /\ appended' \in Seq(Nat)
           /\ ToSet(appended') = ToSet(appended) \cup {Head(hand[p])}
           /\ \A i, j \in 1 .. Len(appended') : i < j => appended'[i] # appended'[j]
           /\ ~lapsed => Rising(appended') /\ Before(appended', Tail(hand[p]))
<1> DEFINE f == Head(hand[p])
           t == Tail(hand[p])
           n == Len(appended)
           m == Len(hand[p])
<1>1. /\ f \in Nat /\ f = hand[p][1] /\ f \notin ToSet(appended)
      /\ \A i \in 1 .. Len(t) : f < t[i]
      /\ \A i \in 1 .. Len(t) : t[i] = hand[p][i + 1]
      /\ m \in Nat \ {0} /\ Len(t) = m - 1
  BY HandTail
<1>2. /\ appended' \in Seq(Nat) /\ ToSet(appended') = ToSet(appended) \cup {f}
      /\ n \in Nat /\ Len(appended') = n + 1 /\ appended'[n + 1] = f
      /\ \A i \in 1 .. n : appended'[i] = appended[i] /\ appended[i] \in ToSet(appended)
  <2>1. appended \in Seq(Nat) /\ appended' = Append(appended, f)
    BY DEF Types
  <2> HIDE DEF f, t, m
  <2>2. appended' \in Seq(Nat) /\ ToSet(appended') = ToSet(appended) \cup {f}
    BY <1>1, <2>1, ToSetFacts
  <2>3. /\ n \in Nat /\ Len(appended') = n + 1 /\ appended'[n + 1] = f
        /\ \A i \in 1 .. n : appended'[i] = appended[i]
    BY <1>1, <2>1
  <2>4. \A i \in 1 .. n : appended[i] \in ToSet(appended)
    BY <2>1, ToSetFacts
  <2> QED BY <2>2, <2>3, <2>4
<1> HIDE DEF f, t, n, m
<1>3. ASSUME NEW i \in 1 .. n + 1, NEW j \in 1 .. n + 1, i < j
      PROVE  appended'[i] # appended'[j]
  <2>1. i \in 1 .. n
    BY <1>2, <1>3
  <2>2. CASE j = n + 1
    BY <1>1, <1>2, <2>1, <2>2
  <2>3. CASE j \in 1 .. n
    BY <1>2, <1>3, <2>1, <2>3 DEF Placed, n
  <2> QED BY <1>2, <2>2, <2>3
<1>4. ASSUME ~lapsed PROVE Rising(appended') /\ Before(appended', t)
  <2>1. Before(appended, hand[p]) /\ Rising(appended)
    BY <1>4 DEF Alone
  <2>2. \A i \in 1 .. n : appended[i] < f /\ \A j \in 1 .. Len(t) : appended[i] < t[j]
    <3> SUFFICES ASSUME NEW i \in 1 .. n
                 PROVE  appended[i] < f /\ \A j \in 1 .. Len(t) : appended[i] < t[j]
      OBVIOUS
    <3>1. \A k \in 1 .. m : appended[i] < hand[p][k]
      BY <2>1 DEF Before, n, m
    <3>2. 1 \in 1 .. m /\ \A j \in 1 .. Len(t) : j + 1 \in 1 .. m
      BY <1>1
    <3> QED BY <1>1, <3>1, <3>2
  <2>3. Rising(appended')
    <3> SUFFICES ASSUME NEW i \in 1 .. n + 1, NEW j \in 1 .. n + 1, i < j
                 PROVE  appended'[i] < appended'[j]
      BY <1>2 DEF Rising
    <3>1. i \in 1 .. n
      BY <1>2
    <3>2. CASE j = n + 1
      BY <1>2, <2>2, <3>1, <3>2
    <3>3. CASE j \in 1 .. n
      BY <1>2, <2>1, <3>1, <3>3 DEF Rising, n
    <3> QED BY <1>2, <3>2, <3>3
  <2>4. Before(appended', t)
    <3> SUFFICES ASSUME NEW i \in 1 .. n + 1, NEW j \in 1 .. Len(t)
                 PROVE  appended'[i] < t[j]
      BY <1>2 DEF Before
    <3>1. CASE i = n + 1
      BY <1>1, <1>2, <3>1
    <3>2. CASE i \in 1 .. n
      BY <1>2, <2>2, <3>2
    <3> QED BY <1>2, <3>1, <3>2
  <2> QED BY <2>3, <2>4
<1> QED BY <1>2, <1>3, <1>4 DEF f, t, n

\* Nothing of the inbox and its reader changes.
LEMMA ReaderSame ==
    ASSUME Stream, Read, UNCHANGED stream, UNCHANGED reader
    PROVE  Stream' /\ Read'
<1>1. UNCHANGED <<inbox, appended, missed, cursor, pushed, wire, seen>>
  BY DEF stream, reader
<1>2. Trimmed' = Trimmed /\ Closed' = Closed
  BY <1>1 DEF Trimmed, Closed
<1> QED BY <1>1, <1>2 DEF Stream, Read

\* While no lease has lapsed, nobody else holds a thing.
LEMMA OthersEmpty ==
    ASSUME Alone, NEW p \in Ports, phase[p] # "rest", ~lapsed
    PROVE  \A q \in Ports : q # p => phase[q] = "rest" /\ hand[q] = <<>>
BY DEF Alone

\* A port opens a frame.
LEMMA OpenStep ==
    ASSUME MailboxConstants, MailInv, NEW p \in Ports, Open(p)
    PROVE  MailInv'
<1> USE DEF MailInv
<1> DEFINE f == Head(hand[p])
           t == Tail(hand[p])
<1>1. /\ phase[p] = "open" /\ hand[p] # <<>> /\ hand' = [hand EXCEPT ![p] = t]
      /\ \/ f \in Broken /\ dead' = dead \cup {f} /\ UNCHANGED stream
         \/ f \notin Broken /\ Add(f) /\ UNCHANGED dead
      /\ UNCHANGED <<admitted, ingress, lock, phase, reader, faults, lost, lapsed>>
  BY DEF Open
<1>2. /\ f \in Nat /\ t \in Seq(Nat) /\ Rising(t)
      /\ ToSet(hand[p]) = {f} \cup ToSet(t) /\ f \notin ToSet(t)
      /\ f \notin ToSet(appended) \cup dead \cup lost
      /\ Len(hand[p]) \in Nat \ {0} /\ Len(t) = Len(hand[p]) - 1
      /\ \A i \in 1 .. Len(t) : t[i] = hand[p][i + 1]
  BY <1>1, HandTail
<1> HIDE DEF f, t
<1>3. /\ hand' \in [Ports -> Seq(Nat)] /\ hand'[p] = t
      /\ \A q \in Ports : q # p => hand'[q] = hand[q]
  BY <1>1, <1>2, HandFacts
<1>4. CASE f \in Broken /\ dead' = dead \cup {f} /\ UNCHANGED stream
  <2>1. UNCHANGED <<appended, inbox>>
    BY <1>4 DEF stream
  <2>2. Placed'
    <3>1. /\ ToSet(hand[p]) = ToSet(t) \cup {} \cup {f} \cup {}
          /\ ToSet(t) \cap ({} \cup {f} \cup {}) = {}
          /\ ToSet(appended') = ToSet(appended) \cup {} /\ lost' = lost \cup {}
      BY <1>1, <1>2, <2>1
    <3>2. lost' # {} => faults' > 0
      BY <1>1 DEF Placed
    <3>3. \A i, j \in 1 .. Len(appended') : i < j => appended'[i] # appended'[j]
      BY <2>1 DEF Placed
    <3>4. {} \cap ({f} \cup {}) = {} /\ {f} \cap {} = {}
      OBVIOUS
    <3> QED BY <1>1, <1>2, <1>4, <3>1, <3>2, <3>3, <3>4, Release
  <2>3. ~lapsed => Before(appended, t)
    <3> SUFFICES ASSUME ~lapsed, NEW i \in 1 .. Len(appended), NEW j \in 1 .. Len(t)
                 PROVE  appended[i] < t[j]
      BY DEF Before
    <3>1. j + 1 \in 1 .. Len(hand[p])
      BY <1>2
    <3> QED BY <1>2, <3>1 DEF Alone, Before
  <2>4. Alone'
    BY <1>1, <1>3, <2>1, <2>3 DEF Alone
  <2>5. Types'
    BY <1>1, <1>3, <2>1 DEF Types, reader
  <2> QED BY <1>1, <1>4, <2>2, <2>4, <2>5, ReaderSame
<1>5. CASE Add(f) /\ UNCHANGED dead
  <2>1. appended' = Append(appended, f) /\ inbox' \in Seq(Entry) /\ Stream' /\ Read'
    BY <1>1, <1>2, <1>5, AddStep
  <2>2. /\ appended' \in Seq(Nat)
        /\ ToSet(appended') = ToSet(appended) \cup {f}
        /\ \A i, j \in 1 .. Len(appended') : i < j => appended'[i] # appended'[j]
        /\ ~lapsed => Rising(appended') /\ Before(appended', t)
    BY <1>1, <2>1, Growth DEF f, t
  <2>3. Placed'
    <3>1. /\ ToSet(hand[p]) = ToSet(t) \cup {f} \cup {} \cup {}
          /\ ToSet(t) \cap ({f} \cup {} \cup {}) = {}
          /\ dead' = dead \cup {} /\ lost' = lost \cup {}
      BY <1>1, <1>2, <1>5
    <3>2. lost' # {} => faults' > 0
      BY <1>1 DEF Placed
    <3>3. {f} \cap ({} \cup {}) = {} /\ {} \cap {} = {}
      OBVIOUS
    <3> QED BY <1>1, <1>2, <2>2, <3>1, <3>2, <3>3, Release
  <2>4. ASSUME ~lapsed, NEW q \in Ports PROVE Before(appended', hand'[q])
    <3>1. CASE q = p
      BY <1>3, <2>2, <2>4, <3>1
    <3>2. CASE q # p
      <4>1. hand'[q] = <<>>
        BY <1>1, <1>3, <2>4, <3>2, OthersEmpty
      <4> QED BY <4>1 DEF Before
    <3> QED BY <3>1, <3>2
  <2>5. Alone'
    BY <1>1, <1>3, <2>2, <2>4 DEF Alone
  <2>6. Types'
    BY <1>1, <1>3, <2>1, <2>2 DEF Types, reader
  <2> QED BY <2>1, <2>3, <2>5, <2>6
<1> QED BY <1>1, <1>4, <1>5

\* A port dies: what is in its hands is lost, but for the frame it may have appended.
LEMMA DieStep ==
    ASSUME MailboxConstants, MailInv, NEW p \in Ports, Die(p)
    PROVE  MailInv'
<1> USE DEF MailInv
<1> DEFINE f == Head(hand[p])
           t == Tail(hand[p])
<1>1. /\ phase[p] # "rest" /\ faults' = faults + 1 /\ faults \in Nat
      /\ \/ lost' = lost \cup ToSet(hand[p]) /\ UNCHANGED stream
         \/ hand[p] # <<>> /\ Add(f) /\ lost' = lost \cup ToSet(t)
      /\ hand' = [hand EXCEPT ![p] = <<>>]
      /\ phase' = [phase EXCEPT ![p] = "rest"]
      /\ lock' = IF lock = p THEN "free" ELSE lock
      /\ UNCHANGED <<admitted, ingress, dead, reader, lapsed>>
  BY DEF Die, Fault, Types
<1>2. ToSet(<<>>) = {} /\ Rising(<<>>) /\ <<>> \in Seq(Nat) /\ faults' > 0
  BY <1>1 DEF ToSet, Rising
<1>3. /\ hand' \in [Ports -> Seq(Nat)] /\ hand'[p] = <<>>
      /\ \A q \in Ports : q # p => hand'[q] = hand[q]
  BY <1>1, <1>2, HandFacts
<1>4. /\ phase' \in [Ports -> {"rest", "snapshot", "pop", "open"}] /\ phase'[p] = "rest"
      /\ \A q \in Ports : q # p => phase'[q] = phase[q]
      /\ lock' \in Ports \cup {"free"}
  BY <1>1 DEF Types
<1>5. /\ \A q \in Ports : phase'[q] \in {"rest", "snapshot"} => hand'[q] = <<>>
      /\ ~lapsed => \A q \in Ports : phase'[q] = "rest" /\ hand'[q] = <<>>
  <2>1. ~lapsed => \A q \in Ports : q # p => phase[q] = "rest" /\ hand[q] = <<>>
    BY <1>1, OthersEmpty
  <2> QED BY <1>3, <1>4, <2>1 DEF Alone
<1>6. ASSUME ~lapsed => Rising(appended') PROVE Alone'
  <2>1. \A q \in Ports : hand'[q] = <<>> => Before(appended', hand'[q])
    BY DEF Before
  <2> QED BY <1>1, <1>5, <1>6, <2>1 DEF Alone
<1>7. CASE lost' = lost \cup ToSet(hand[p]) /\ UNCHANGED stream
  <2>1. UNCHANGED <<appended, inbox>>
    BY <1>7 DEF stream
  <2>2. Placed'
    <3>1. /\ ToSet(hand[p]) = ToSet(<<>>) \cup {} \cup {} \cup ToSet(hand[p])
          /\ ToSet(<<>>) \cap ({} \cup {} \cup ToSet(hand[p])) = {}
          /\ ToSet(appended') = ToSet(appended) \cup {} /\ dead' = dead \cup {}
      BY <1>1, <1>2, <2>1
    <3>2. \A i, j \in 1 .. Len(appended') : i < j => appended'[i] # appended'[j]
      BY <2>1 DEF Placed
    <3>3. {} \cap ({} \cup ToSet(hand[p])) = {} /\ {} \cap ToSet(hand[p]) = {}
      OBVIOUS
    <3> QED BY <1>1, <1>2, <1>7, <3>1, <3>2, <3>3, Release
  <2>3. Alone'
    BY <1>6, <2>1 DEF Alone
  <2>4. Types'
    BY <1>1, <1>3, <1>4, <2>1 DEF Types, reader
  <2> QED BY <1>1, <1>7, <2>2, <2>3, <2>4, ReaderSame
<1>8. CASE hand[p] # <<>> /\ Add(f) /\ lost' = lost \cup ToSet(t)
  <2>1. /\ f \in Nat /\ t \in Seq(Nat)
        /\ ToSet(hand[p]) = {f} \cup ToSet(t) /\ f \notin ToSet(t)
    BY <1>8, HandTail
  <2> HIDE DEF f, t
  <2>2. appended' = Append(appended, f) /\ inbox' \in Seq(Entry) /\ Stream' /\ Read'
    BY <1>1, <1>8, <2>1, AddStep
  <2>3. /\ appended' \in Seq(Nat)
        /\ ToSet(appended') = ToSet(appended) \cup {f}
        /\ \A i, j \in 1 .. Len(appended') : i < j => appended'[i] # appended'[j]
        /\ ~lapsed => Rising(appended')
    BY <1>8, <2>2, Growth DEF f, t
  <2>4. Placed'
    <3>1. /\ ToSet(hand[p]) = ToSet(<<>>) \cup {f} \cup {} \cup ToSet(t)
          /\ ToSet(<<>>) \cap ({f} \cup {} \cup ToSet(t)) = {}
          /\ dead' = dead \cup {}
          /\ {f} \cap ({} \cup ToSet(t)) = {} /\ {} \cap ToSet(t) = {}
      BY <1>1, <1>2, <2>1
    <3> QED BY <1>1, <1>2, <1>8, <2>3, <3>1, Release
  <2>5. Alone'
    BY <1>6, <2>3
  <2>6. Types'
    BY <1>1, <1>3, <1>4, <2>2, <2>3 DEF Types, reader
  <2> QED BY <2>2, <2>4, <2>5, <2>6
<1> QED BY <1>1, <1>7, <1>8

\* A port takes the delivery lock, finds its agent paused, or has nothing left to open.
LEMMA LockStep ==
    ASSUME MailboxConstants, MailInv, NEW p \in Ports, StartPort(p) \/ Paused(p) \/ Finish(p)
    PROVE  MailInv'
<1> USE DEF MailInv
<1>1. UNCHANGED <<admitted, ingress, hand, dead, stream, reader, faults, lost, lapsed>>
  BY DEF StartPort, Paused, Finish
<1>2. /\ UNCHANGED <<inbox, appended, InHand, Taken>>
      /\ hand \in [Ports -> Seq(Nat)] /\ lock \in Ports \cup {"free"}
      /\ phase \in [Ports -> {"rest", "snapshot", "pop", "open"}]
  BY <1>1 DEF stream, InHand, Taken, Types
<1>3. Placed'
  BY <1>1, <1>2, PlacedSame
<1>4. PICK now \in {"rest", "snapshot"} : phase' = [phase EXCEPT ![p] = now]
  BY DEF StartPort, Paused, Finish
<1>5. /\ lock' \in Ports \cup {"free"}
      /\ phase' \in [Ports -> {"rest", "snapshot", "pop", "open"}] /\ phase'[p] = now
      /\ \A q \in Ports : q # p => phase'[q] = phase[q]
  BY <1>2, <1>4 DEF StartPort, Paused, Finish
<1>6. hand[p] = <<>>
  BY DEF Alone, StartPort, Paused, Finish
<1>7. ~lapsed => \A q \in Ports : phase'[q] # "rest" => lock' = q
  <2>1. CASE StartPort(p)
    <3>1. lock = "free" /\ lock' = p /\ "free" \notin Ports
      BY <2>1 DEF StartPort, MailboxConstants
    <3> QED BY <1>5, <3>1 DEF Alone
  <2>2. CASE Paused(p) \/ Finish(p)
    <3>1. /\ phase[p] # "rest" /\ phase' = [phase EXCEPT ![p] = "rest"]
      BY <2>2 DEF Paused, Finish
    <3>2. phase'[p] = "rest"
      BY <1>2, <3>1
    <3> QED BY <1>5, <3>1, <3>2, OthersEmpty
  <2> QED BY <2>1, <2>2
<1>8. Alone'
  BY <1>1, <1>2, <1>5, <1>6, <1>7 DEF Alone
<1>9. Types'
  BY <1>1, <1>2, <1>5 DEF Types, reader
<1> QED BY <1>1, <1>3, <1>8, <1>9, ReaderSame

\* A lease lapses under a port.
LEMMA LapseStep ==
    ASSUME MailInv, Lapse
    PROVE  MailInv'
<1> USE DEF MailInv
<1>1. /\ faults' = faults + 1 /\ faults \in Nat /\ lock' = "free" /\ lapsed' = TRUE
      /\ UNCHANGED <<admitted, ingress, phase, hand, dead, stream, reader, lost>>
  BY DEF Lapse, Fault, Types
<1>2. UNCHANGED <<inbox, appended, InHand, Taken>>
  BY <1>1 DEF stream, InHand, Taken
<1>3. Placed'
  BY <1>1, <1>2, PlacedSame
<1>4. Alone'
  BY <1>1 DEF Alone
<1>5. Types'
  BY <1>1, <1>2 DEF Types, reader
<1> QED BY <1>1, <1>3, <1>4, <1>5, ReaderSame

\* A port takes frames, or fails to.
LEMMA TakeFramesStep ==
    ASSUME MailboxConstants, MailInv, NEW p \in Ports,
           Snapshot(p) \/ SnapshotFails(p) \/ Pop(p)
    PROVE  MailInv'
<1> USE DEF MailInv
<1>1. /\ phase[p] # "rest" /\ UNCHANGED <<admitted, lock, dead, stream, reader, lapsed>>
      /\ UNCHANGED <<inbox, appended>>
      /\ phase \in [Ports -> {"rest", "snapshot", "pop", "open"}]
      /\ faults \in Nat /\ hand \in [Ports -> Seq(Nat)] /\ ingress \in Seq(Nat)
  BY DEF Snapshot, SnapshotFails, Pop, Types, stream
<1>2. /\ faults' \in Nat
      /\ hand' \in [Ports -> Seq(Nat)] /\ \A q \in Ports : q # p => hand'[q] = hand[q]
      /\ ingress' \in Seq(Nat)
      /\ Placed'
  <2>1. CASE Snapshot(p)
    <3>1. /\ hand' = [hand EXCEPT ![p] = ingress] /\ ingress' = <<>> /\ faults' = faults
      BY <2>1 DEF Snapshot
    <3> QED BY <1>1, <2>1, <3>1, SnapshotStep
  <2>2. CASE SnapshotFails(p)
    <3>1. faults' = faults + 1 /\ hand' = hand
      BY <2>2 DEF SnapshotFails, Fault
    <3> QED BY <1>1, <2>2, <3>1, LoseStep
  <2>3. CASE Pop(p)
    <3>1. faults' = faults /\ \A q \in Ports : q # p => hand'[q] = hand[q]
      BY <1>1, <2>3 DEF Pop
    <3> QED BY <1>1, <2>3, <3>1, PopStep
  <2> QED BY <2>1, <2>2, <2>3
<1>3. /\ phase' \in [Ports -> {"rest", "snapshot", "pop", "open"}]
      /\ phase'[p] \in {"pop", "open"}
      /\ \A q \in Ports : q # p => phase'[q] = phase[q]
  BY <1>1 DEF Snapshot, SnapshotFails, Pop
<1>4. Types'
  BY <1>1, <1>2, <1>3 DEF Types, reader
<1>5. ASSUME ~lapsed, NEW q \in Ports PROVE Before(appended, hand'[q])
  <2>1. CASE q # p
    BY <1>2, <1>5, <2>1 DEF Alone
  <2>2. CASE q = p
    <3> SUFFICES ASSUME NEW i \in 1 .. Len(appended), NEW j \in 1 .. Len(hand'[p])
                 PROVE  appended[i] < hand'[p][j]
      BY <2>2 DEF Before
    <3>1. hand'[p][j] \in ToSet(hand[p]) \cup ToSet(ingress)
      <4>1. hand'[p][j] \in ToSet(hand'[p])
        BY <1>2, ToSetFacts
      <4>2. CASE Snapshot(p)
        BY <1>1, <4>1, <4>2 DEF Snapshot
      <4>3. CASE SnapshotFails(p)
        BY <1>1, <4>1, <4>3 DEF SnapshotFails
      <4>4. CASE Pop(p)
        <5>1. CASE ingress = <<>>
          BY <1>1, <4>1, <4>4, <5>1 DEF Pop
        <5>2. CASE ingress # <<>>
          <6>1. hand'[p] = Append(hand[p], Head(ingress))
            BY <1>1, <4>4, <5>2 DEF Pop
          <6>2. Head(ingress) \in Nat /\ Head(ingress) \in ToSet(ingress)
            BY <1>1, <5>2, ToSetFacts
          <6>3. ToSet(Append(hand[p], Head(ingress))) = ToSet(hand[p]) \cup {Head(ingress)}
            BY <1>1, <6>2, ToSetFacts
          <6> QED BY <4>1, <6>1, <6>2, <6>3
        <5> QED BY <5>1, <5>2
      <4> QED BY <4>2, <4>3, <4>4
    <3>2. appended[i] \in Taken
      <4>1. appended[i] \in ToSet(appended)
        BY ToSetFacts DEF Types
      <4> QED BY <4>1 DEF Taken
    <3>3. CASE hand'[p][j] \in ToSet(ingress)
      <4>1. PICK k \in 1 .. Len(ingress) : hand'[p][j] = ingress[k]
        BY <3>3, Waiting
      <4> QED BY <3>2, <4>1 DEF Placed
    <3>4. CASE hand'[p][j] \in ToSet(hand[p])
      <4>1. PICK k \in 1 .. Len(hand[p]) : hand'[p][j] = hand[p][k]
        <5>1. hand[p] \in Seq(Nat)
          BY <1>1
        <5>2. ToSet(hand[p]) = {hand[p][k] : k \in 1 .. Len(hand[p])}
          BY <5>1, ToSetFacts
        <5> QED BY <3>4, <5>2
      <4> QED BY <1>5, <4>1 DEF Alone, Before
    <3> QED BY <3>1, <3>3, <3>4
  <2> QED BY <2>1, <2>2
<1>6. Alone'
  <2>1. \A q \in Ports : phase'[q] \in {"rest", "snapshot"} => hand'[q] = <<>>
    BY <1>2, <1>3 DEF Alone
  <2>2. ~lapsed => \A q \in Ports : phase'[q] # "rest" => lock = q
    BY <1>1, <1>3 DEF Alone
  <2>3. ~lapsed => Rising(appended)
    BY DEF Alone
  <2> QED BY <1>1, <1>5, <2>1, <2>2, <2>3 DEF Alone
<1> QED BY <1>1, <1>2, <1>4, <1>6, ReaderSame

\* The switch's admission leaves ports and readers alone.
LEMMA AdmissionStep ==
    ASSUME MailboxConstants, MailInv, Admit
    PROVE  MailInv'
<1> USE DEF MailInv
<1>1. /\ UNCHANGED <<lock, phase, hand, dead, stream, reader, faults, lost, lapsed>>
      /\ UNCHANGED <<inbox, appended>>
  BY DEF Admit, stream
<1>2. admitted' \in 0 .. MaxFrames /\ ingress' \in Seq(Nat) /\ Placed'
  BY AdmitStep
<1>3. Types'
  BY <1>1, <1>2 DEF Types, reader
<1>4. Alone'
  BY <1>1 DEF Alone
<1> QED BY <1>1, <1>2, <1>3, <1>4, ReaderSame

\* What the client does leaves the frames alone.
LEMMA ClientStep ==
    ASSUME MailboxConstants, MailInv, ReadPage \/ Connect \/ Push \/ Receive \/ Disconnect
    PROVE  MailInv'
<1> USE DEF MailInv
<1>1. /\ UNCHANGED <<admitted, ingress, lock, phase, hand, dead, inbox, appended, lost, lapsed>>
      /\ faults' \in Nat /\ faults' >= faults /\ faults \in Nat
  BY DEF ReadPage, Connect, Push, Receive, Disconnect, Fault, port, stream, Types
<1>3. Placed'
  BY <1>1, PlacedSame
<1>4. Alone'
  BY <1>1 DEF Alone
<1>5. Short
  BY ShortFollows
<1>6. /\ wire' \in Seq(Entry) /\ seen' \in Seq(Entry) /\ cursor' \in Nat /\ pushed' \in Nat
      /\ Stream' /\ Read'
  <2>1. /\ wire \in Seq(Entry) /\ seen \in Seq(Entry) /\ cursor \in Nat /\ pushed \in Nat
        /\ <<>> \in Seq(Entry)
    BY DEF Types
  <2>2. CASE ReadPage
    BY <1>5, <2>1, <2>2, PageStep DEF ReadPage
  <2>3. CASE Connect
    BY <1>5, <2>1, <2>3, ConnectStep DEF Connect
  <2>4. CASE Push
    BY <1>5, <2>1, <2>4, PushStep DEF Push
  <2>5. CASE Receive
    BY <1>5, <2>1, <2>5, ReceiveStep DEF Receive
  <2>6. CASE Disconnect
    BY <1>5, <2>1, <2>6, DisconnectStep DEF Disconnect
  <2> QED BY <2>2, <2>3, <2>4, <2>5, <2>6
<1>7. Types'
  BY <1>1, <1>6 DEF Types
<1> QED BY <1>3, <1>4, <1>6, <1>7

-----------------------------------------------------------------------------
(* The theorems *)

\* Initially nothing was sent.
LEMMA MailInit == MailboxConstants /\ Init => MailInv
<1> SUFFICES ASSUME MailboxConstants, Init PROVE MailInv
  OBVIOUS
<1>1. ToSet(<<>>) = {}
  BY DEF ToSet
<1>2. InHand = {} /\ Taken = {}
  BY <1>1 DEF Init, InHand, Taken
<1>3. Types
  <2>1. <<>> \in Seq(Nat) /\ <<>> \in Seq(Entry) /\ Closed \in Nat
    BY DEF Closed, MailboxConstants
  <2>2. /\ phase \in [Ports -> {"rest", "snapshot", "pop", "open"}]
        /\ hand \in [Ports -> Seq(Nat)]
    BY <2>1 DEF Init
  <2>3. admitted \in 0 .. MaxFrames
    BY DEF Init, MailboxConstants
  <2> QED BY <2>1, <2>2, <2>3 DEF Init, Types
<1>4. Placed
  BY <1>1, <1>2 DEF Init, Placed, Rising
<1>5. Alone
  BY DEF Init, Alone, Before, Rising
<1>6. Stream /\ Read
  BY DEF Init, Stream, Read, Trimmed
<1> QED BY <1>3, <1>4, <1>5, <1>6 DEF MailInv

\* Every step keeps the invariant.
LEMMA MailStep ==
    ASSUME MailboxConstants, MailInv, Next \/ UNCHANGED mvars
    PROVE  MailInv'
<1>1. CASE UNCHANGED mvars
  <2>1. UNCHANGED <<admitted, port, stream, reader, faults, lost, lapsed>>
    BY <1>1 DEF mvars
  <2>2. UNCHANGED <<admitted, ingress, lock, phase, hand, dead, appended, inbox, faults, lost, lapsed>>
    BY <2>1 DEF port, stream
  <2>3. Placed'
    BY <2>2, PlacedSame DEF MailInv
  <2>4. Placed' /\ Alone'
    BY <2>2, <2>3 DEF MailInv, Alone
  <2>5. Types'
    BY <2>1, <2>2 DEF MailInv, Types, reader
  <2> QED BY <2>1, <2>4, <2>5, ReaderSame DEF MailInv
<1>2. CASE Admit
  BY <1>2, AdmissionStep
<1>3. CASE Lapse
  BY <1>3, LapseStep
<1>4. CASE ReadPage \/ Connect \/ Push \/ Receive \/ Disconnect
  BY <1>4, ClientStep
<1>5. ASSUME NEW p \in Ports, StartPort(p) \/ Paused(p) \/ Finish(p)
      PROVE  MailInv'
  BY <1>5, LockStep
<1>6. ASSUME NEW p \in Ports, Snapshot(p) \/ SnapshotFails(p) \/ Pop(p)
      PROVE  MailInv'
  BY <1>6, TakeFramesStep
<1>7. ASSUME NEW p \in Ports, Open(p) PROVE MailInv'
  BY <1>7, OpenStep
<1>8. ASSUME NEW p \in Ports, Die(p) PROVE MailInv'
  BY <1>8, DieStep
<1> QED BY <1>1, <1>2, <1>3, <1>4, <1>5, <1>6, <1>7, <1>8 DEF Next

\* What the invariant says of the mail.
LEMMA MailKeptFollows == MailboxConstants /\ MailInv => MailKept
<1> SUFFICES ASSUME MailboxConstants, MailInv PROVE MailKept
  OBVIOUS
<1> USE DEF MailInv
<1> DEFINE places == <<ToSet(ingress), InHand, ToSet(appended), dead, lost>>
<1>1. UNION {places[i] : i \in DOMAIN places} = 1 .. admitted
  <2>1. DOMAIN places = 1 .. 5
    OBVIOUS
  <2>2. {places[i] : i \in 1 .. 5} = {ToSet(ingress), InHand, ToSet(appended), dead, lost}
    <3>1. 1 .. 5 = {1, 2, 3, 4, 5}
      OBVIOUS
    <3> QED BY <3>1
  <2> QED BY <2>1, <2>2 DEF Placed, Taken
<1>2. \A i, j \in DOMAIN places : i # j => places[i] \cap places[j] = {}
  <2>1. ToSet(ingress) \cap Taken = {}
    BY Waiting
  <2>2. DOMAIN places = {1, 2, 3, 4, 5}
    OBVIOUS
  <2> QED BY <2>1, <2>2 DEF Placed, Taken
<1>3. \A i, j \in 1 .. Len(appended) : i < j =>
        appended[i] # appended[j] /\ (lapsed \/ appended[i] < appended[j])
  BY DEF Placed, Alone, Rising
<1>4. lost # {} => faults > 0
  BY DEF Placed
<1>5. \A i \in 1 .. Len(seen) : seen[i].frame = appended[seen[i].id]
  BY DEF Read, True
<1>6. \A i, j \in 1 .. Len(seen) : i < j => seen[i].id < seen[j].id
  BY DEF Read
<1>7. 1 .. cursor = ToSet([i \in 1 .. Len(seen) |-> seen[i].id]) \cup {n \in missed : n <= cursor}
  <2>1. ToSet([i \in 1 .. Len(seen) |-> seen[i].id]) = {seen[i].id : i \in 1 .. Len(seen)}
    BY DEF ToSet
  <2>2. \A i \in 1 .. Len(seen) : seen[i].id \in 1 .. cursor
    <3> SUFFICES ASSUME NEW i \in 1 .. Len(seen) PROVE seen[i].id \in 1 .. cursor
      OBVIOUS
    <3>1. True(seen[i], appended) /\ seen[i].id <= cursor /\ cursor \in Nat /\ Len(appended) \in Nat
      BY DEF Read, Types
    <3> QED BY <3>1 DEF True
  <2>3. \A n \in missed : n <= cursor => n \in 1 .. cursor
    <3> SUFFICES ASSUME NEW n \in missed, n <= cursor PROVE n \in 1 .. cursor
      OBVIOUS
    <3>1. n \in 1 .. Len(appended) /\ cursor \in Nat /\ Len(appended) \in Nat
      BY DEF Read, Types
    <3> QED BY <3>1
  <2>4. \A n \in 1 .. cursor : n \in missed \/ n \in {seen[i].id : i \in 1 .. Len(seen)}
    BY DEF Read
  <2>5. \A n \in 1 .. cursor : n <= cursor
    BY DEF Types
  <2> QED BY <2>1, <2>2, <2>3, <2>4, <2>5
<1> QED BY <1>1, <1>2, <1>3, <1>4, <1>5, <1>6, <1>7 DEF MailKept

\* The types of the mailbox; there are never more entries than frames.
LEMMA TypesFollow == MailboxConstants /\ MailInv => TypeOK
<1> SUFFICES ASSUME MailboxConstants, MailInv PROVE TypeOK
  OBVIOUS
<1> USE DEF MailInv
<1>1. Len(appended) <= MaxFrames /\ Len(appended) \in Nat /\ MaxFrames \in Nat
  BY ShortFollows DEF Short, Types, MailboxConstants
<1>2. 1 .. admitted \subseteq Frames
  BY <1>1 DEF Types, Frames
<1>3. ingress \in Seq(Frames)
  <2>1. \A i \in 1 .. Len(ingress) : ingress[i] \in 1 .. admitted
    BY Waiting DEF Placed
  <2>2. ingress \in Seq(Nat)
    BY DEF Types
  <2> QED BY <1>2, <2>1, <2>2
<1>4. ASSUME NEW p \in Ports PROVE hand[p] \in Seq(Frames)
  <2>1. hand[p] \in Seq(Nat)
    BY DEF Types
  <2>2. ToSet(hand[p]) \subseteq 1 .. admitted
    BY DEF Placed, Taken, InHand
  <2>3. \A i \in 1 .. Len(hand[p]) : hand[p][i] \in 1 .. admitted
    BY <2>1, <2>2, ToSetFacts
  <2> QED BY <1>2, <2>1, <2>3
<1>5. cursor \in 0 .. MaxFrames
  BY <1>1 DEF Read, Types
<1>6. pushed \in 0 .. Closed
  <2>1. CASE wire = <<>>
    BY <1>1, <1>5, <2>1 DEF Stream, Closed
  <2>2. CASE wire # <<>>
    BY <1>1, <2>2, OpenIsBehind DEF Closed
  <2> QED BY <2>1, <2>2
<1>7. Len(inbox) <= MaxFrames
  BY <1>1 DEF Stream, Types
<1> QED BY <1>3, <1>4, <1>5, <1>6, <1>7 DEF TypeOK, Types

\* The invariant of the mailbox, for all constants.
THEOREM MailboxSafe == ASSUME MailboxConstants PROVE Spec => []MailInv
<1>1. Init => MailInv
  BY MailInit
<1>2. MailInv /\ [Next]_mvars => MailInv'
  BY MailStep
<1> QED BY <1>1, <1>2, PTL DEF Spec

\* MailKept: every frame is in one place, mail is in order, and the client has read every
\* entry behind its cursor once, but for those that the cap dropped before it came.
THEOREM MailIsKept == ASSUME MailboxConstants PROVE Spec => []MailKept
<1>1. MailInv => MailKept
  BY MailKeptFollows
<1> QED BY <1>1, MailboxSafe, PTL

-----------------------------------------------------------------------------
(* The stall monitor                                                        *)

CONSTANTS StlMembers, StlStall, StlMaxTime, StlMaxFrames, StlMaxMoves, StlMaxFaults
VARIABLES now, moves, paused, enrolled, report, watch, stalled, at, todo, began, agent,
          arrived, done, gone, looked, told, relics

Stl == INSTANCE StallMonitor WITH
    Members <- StlMembers, Stall <- StlStall, MaxTime <- StlMaxTime,
    MaxFrames <- StlMaxFrames, MaxMoves <- StlMaxMoves, MaxFaults <- StlMaxFaults

\* Of the constants: nobody's name is no member's.
StallConstants == Stl!NoOne \notin StlMembers /\ StlStall \in Nat

Passing == {"next", "head", "report", "clear"}

\* Of the lists and the clock, of the pass, and of what is remembered and reported.
FrameTypes ==
    /\ now \in Nat
    /\ ingress \in [StlMembers -> Seq(Nat)]
    /\ hand \in [StlMembers -> Nat]
    /\ enrolled \subseteq StlMembers
    /\ arrived \in Seq(Nat)
    /\ \A i \in 1 .. Len(arrived) : arrived[i] <= now
PassTypes ==
    /\ began \in Nat /\ began <= now
    /\ seen \in Nat
    /\ stalled \subseteq StlMembers
    /\ todo \subseteq StlMembers \X {"look", "clear"}
    /\ at \in {"rest", "failed"} \cup Passing
    /\ agent \in StlMembers \cup {Stl!NoOne}
    /\ at \in {"head", "report", "clear"} => agent \in StlMembers
MemoTypes ==
    /\ report \in [StlMembers -> [head : Nat, first : Nat]]
    /\ watch \in [StlMembers -> [head : Nat, first : Nat]]
    /\ looked \in [StlMembers -> Nat]
    /\ relics \subseteq StlMembers
StallTypeInv == FrameTypes /\ PassTypes /\ MemoTypes

\* A frame is in one place: in one list, once, or in one hand, or delivered.
OnceInv ==
    /\ \A m \in StlMembers :
         /\ IsInjective(ingress[m])
         /\ \A f \in Nat : In(ingress[m], f) =>
              /\ f \in 1 .. Len(arrived) /\ f \notin done
              /\ \A n \in StlMembers : hand[n] # f /\ (n # m => ~In(ingress[n], f))
         /\ hand[m] # Stl!NoFrame =>
              /\ hand[m] \in 1 .. Len(arrived) /\ hand[m] \notin done
              /\ \A n \in StlMembers : n # m => hand[n] # hand[m]
    /\ done \subseteq 1 .. Len(arrived) /\ gone \subseteq done

\* The frame that is watched was there when it was first seen, and what is about to be
\* reported was seen before, Stall ago, and not delivered since.
WatchInv ==
    /\ \A m \in StlMembers : watch[m].head # Stl!NoFrame =>
         /\ watch[m].head \in 1 .. Len(arrived)
         /\ arrived[watch[m].head] <= looked[m]
    /\ at = "report" =>
         /\ seen = watch[agent].head /\ seen # Stl!NoFrame
         /\ began - watch[agent].first >= StlStall
         /\ seen \notin gone
    /\ told.queued /\ ~told.taken /\ told.waited >= StlStall

\* The report of m names the head that is watched, and that for Stall.
AnswersFor(m) ==
    /\ watch[m].head = report[m].head
    /\ watch[m].first + StlStall <= report[m].first

\* A report that the monitor does not answer for is of a member it has yet to visit.
ReportInv ==
    /\ at \in {"head", "report"} => /\ \A v \in todo : v[2] = "look"
                                    /\ <<agent, "look">> \notin todo
    /\ \A m \in StlMembers \ relics :
         /\ report[m] # Stl!NoWatch <=> m \in stalled
         /\ m \in stalled =>
              /\ AnswersFor(m) \/ watch[m] = Stl!NoWatch \/ (at = "clear" /\ agent = m)
              /\ at = "rest" => AnswersFor(m)
              /\ at \in Passing => \/ AnswersFor(m)
                                   \/ <<m, "look">> \in todo \/ <<m, "clear">> \in todo
                                   \/ agent = m /\ at \in {"head", "clear"}

StallInv == StallTypeInv /\ OnceInv /\ WatchInv /\ ReportInv

\* The list of one element.
LEMMA OneIn ==
    ASSUME NEW S, NEW e \in S
    PROVE  /\ <<e>> \in Seq(S)
           /\ \A f : In(<<e>>, f) <=> f = e
           /\ IsInjective(<<e>>)
BY DEF In, IsInjective

\* The head of a list that has no repeats is not in its tail, and the rest is.
LEMMA TakenIn ==
    ASSUME NEW s \in Seq(Nat), s # <<>>, IsInjective(s)
    PROVE  /\ Head(s) \in Nat /\ Tail(s) \in Seq(Nat)
           /\ In(s, Head(s))
           /\ IsInjective(Tail(s))
           /\ \A f : In(Tail(s), f) <=> In(s, f) /\ f # Head(s)
BY TailIn

\* The head of a list is in it.
LEMMA HeadIn ==
    ASSUME NEW s \in Seq(Nat), s # <<>>
    PROVE  Head(s) \in Nat /\ Tail(s) \in Seq(Nat) /\ In(s, Head(s))
BY TailIn


\* What an action of the office leaves alone, and what one of the monitor does.
MembersAct == \E m \in StlMembers : Stl!Admit(m) \/ Stl!Take(m) \/ Stl!Deliver(m) \/ Stl!PutBack(m) \/ Stl!Pause(m) \/ Stl!Enrol(m)

\* The office does nothing to the monitor, nor the monitor to the office.
LEMMA OfficeOrMonitor ==
    ASSUME Stl!Next \/ UNCHANGED Stl!mvars
    PROVE  \/ UNCHANGED <<Stl!queues, now>>
           \/ Stl!Tick
           \/ MembersAct /\ UNCHANGED <<now, faults, report, Stl!monitor, told, relics, looked>>
<1>1. CASE UNCHANGED Stl!mvars
  BY <1>1 DEF Stl!mvars
<1>2. CASE Stl!Next
  BY <1>2
  DEF Stl!Next, MembersAct, Stl!Poll, Stl!Done, Stl!LookHead, Stl!Report, Stl!Clear,
      Stl!CommandFails, Stl!Restart, Stl!VisitGone,
      Stl!LookPaused, Stl!Admit, Stl!Take, Stl!Deliver, Stl!PutBack, Stl!Pause, Stl!Enrol, Stl!Office
<1> QED BY <1>1, <1>2

\* What the office does to the lists.
LEMMA FrameTypesKept ==
    ASSUME FrameTypes, Stl!Next \/ UNCHANGED Stl!mvars
    PROVE  FrameTypes'
<1>0. \A i \in 1 .. Len(arrived) : arrived[i] \in Nat
  <2>1. arrived \in Seq(Nat)
    BY DEF FrameTypes
  <2> QED BY <2>1
<1>1. CASE UNCHANGED <<Stl!queues, now>>
  BY <1>1 DEF FrameTypes, Stl!queues
<1>2. CASE Stl!Tick
  BY <1>0, <1>2 DEF Stl!Tick, FrameTypes, Stl!queues
<1>3. ASSUME NEW m \in StlMembers, Stl!Admit(m), UNCHANGED now PROVE FrameTypes'
  <2>1. /\ arrived' = Append(arrived, now) /\ now \in Nat
        /\ ingress' = [ingress EXCEPT ![m] = Append(@, Len(arrived) + 1)]
        /\ UNCHANGED <<now, hand, enrolled>>
    BY <1>3 DEF Stl!Admit, FrameTypes
  <2>2. arrived \in Seq(Nat) /\ ingress[m] \in Seq(Nat)
    BY DEF FrameTypes
  <2>3. Len(arrived) + 1 \in Nat
    BY <2>2
  <2>4. Append(ingress[m], Len(arrived) + 1) \in Seq(Nat)
    BY <2>2, <2>3
  <2>5. /\ arrived' \in Seq(Nat) /\ Len(arrived') = Len(arrived) + 1
        /\ \A i \in 1 .. Len(arrived) : arrived'[i] = arrived[i]
        /\ arrived'[Len(arrived) + 1] = now
    BY <2>1, <2>2
  <2>6. \A i \in 1 .. Len(arrived') : i \in 1 .. Len(arrived) \/ i = Len(arrived) + 1
    BY <2>2, <2>5
  <2>7. \A i \in 1 .. Len(arrived') : arrived'[i] <= now
    BY <2>1, <2>5, <2>6 DEF FrameTypes
  <2> QED BY <2>1, <2>4, <2>5, <2>7 DEF FrameTypes
<1>4. ASSUME NEW m \in StlMembers, Stl!Take(m), UNCHANGED now PROVE FrameTypes'
  <2>1. ingress[m] \in Seq(Nat) /\ ingress[m] # <<>>
    BY <1>4 DEF Stl!Take, FrameTypes
  <2>2. Head(ingress[m]) \in Nat /\ Tail(ingress[m]) \in Seq(Nat)
    BY <2>1, HeadIn
  <2> QED BY <1>4, <2>2 DEF Stl!Take, FrameTypes
<1>5. ASSUME NEW m \in StlMembers, Stl!PutBack(m), UNCHANGED now PROVE FrameTypes'
  <2>1. <<hand[m]>> \in Seq(Nat) /\ ingress[m] \in Seq(Nat) /\ hand[m] \in Nat
    BY DEF FrameTypes
  <2>2. <<hand[m]>> \o ingress[m] \in Seq(Nat)
    BY <2>1, ConcatIn
  <2> QED BY <1>5, <2>2 DEF Stl!PutBack, FrameTypes, Stl!NoFrame
<1>6. ASSUME NEW m \in StlMembers, Stl!Deliver(m) \/ Stl!Pause(m) \/ Stl!Enrol(m), UNCHANGED now
      PROVE  FrameTypes'
  BY <1>6 DEF Stl!Deliver, Stl!Pause, Stl!Enrol, FrameTypes, Stl!NoFrame
<1>7. CASE MembersAct /\ UNCHANGED now
  BY <1>3, <1>4, <1>5, <1>6, <1>7 DEF MembersAct
<1> QED BY <1>1, <1>2, <1>7, OfficeOrMonitor

\* What a pass does with what it remembers.
LEMMA PassTypesKept ==
    ASSUME StallTypeInv, Stl!Next \/ UNCHANGED Stl!mvars
    PROVE  PassTypes'
<1> USE DEF Stl!NoFrame
<1>1. CASE UNCHANGED Stl!mvars \/ Stl!Tick \/ MembersAct
  <2>1. CASE Stl!Tick
    BY <2>1 DEF Stl!Tick, Stl!monitor, StallTypeInv, PassTypes, FrameTypes
  <2>2. CASE UNCHANGED <<now, Stl!monitor>>
    BY <2>2 DEF Stl!monitor, StallTypeInv, PassTypes
  <2>3. MembersAct \/ UNCHANGED Stl!mvars => UNCHANGED <<now, Stl!monitor>>
    BY DEF MembersAct, Stl!Admit, Stl!Take, Stl!Deliver, Stl!PutBack, Stl!Pause, Stl!Enrol,
       Stl!Office, Stl!mvars
  <2> QED BY <1>1, <2>1, <2>2, <2>3
<1>2. CASE Stl!Poll
  <2>1. /\ todo' \subseteq StlMembers \X {"look", "clear"}
        /\ began' = now /\ now' = now /\ at' = "next"
        /\ UNCHANGED <<stalled, agent, seen>>
    BY <1>2 DEF Stl!Poll, StallTypeInv, FrameTypes, PassTypes
  <2> QED BY <2>1 DEF StallTypeInv, FrameTypes, PassTypes, Passing
<1>3. CASE Stl!Done \/ Stl!CommandFails \/ Stl!Restart
  <2>1. /\ at' \in {"rest", "failed"} /\ todo' = {} /\ began' = 0 /\ agent' = Stl!NoOne /\ seen' = Stl!NoFrame
        /\ now' = now /\ stalled' \in {stalled, {}}
    BY <1>3 DEF Stl!Done, Stl!CommandFails, Stl!Restart, Stl!Ended
  <2> QED BY <2>1 DEF StallTypeInv, FrameTypes, PassTypes, Passing
<1>4. ASSUME NEW m \in StlMembers, Stl!VisitGone(m) \/ Stl!LookPaused(m) PROVE PassTypes'
  <2>1. /\ agent' = m /\ todo' \subseteq todo /\ at' \in Passing
        /\ UNCHANGED <<now, stalled, began, seen>>
    BY <1>4 DEF Stl!VisitGone, Stl!LookPaused, Stl!Visit, Stl!Nothing, Passing
  <2> QED BY <2>1 DEF StallTypeInv, PassTypes
<1>5. CASE Stl!LookHead
  <2>1. /\ agent \in StlMembers /\ agent' = agent
        /\ at' \in Passing /\ seen' \in {seen, Head(ingress[agent])}
        /\ ingress[agent] = <<>> => seen' = seen
        /\ UNCHANGED <<now, stalled, began, todo>>
    BY <1>5 DEF Stl!LookHead, Stl!Nothing, Stl!Judge, Passing, StallTypeInv, PassTypes
  <2>2. ingress[agent] \in Seq(Nat)
    BY <2>1 DEF StallTypeInv, FrameTypes
  <2>3. seen' \in Nat
    BY <2>1, <2>2, HeadIn DEF StallTypeInv, PassTypes
  <2> QED BY <2>1, <2>3 DEF StallTypeInv, PassTypes
<1>6. CASE Stl!Report \/ Stl!Clear
  <2>1. /\ agent \in StlMembers /\ agent' = agent /\ at' = "next" /\ seen' \in {seen, Stl!NoFrame}
        /\ stalled' \subseteq stalled \cup {agent}
        /\ UNCHANGED <<now, began, todo>>
    BY <1>6 DEF Stl!Report, Stl!Clear, StallTypeInv, PassTypes
  <2> QED BY <2>1 DEF StallTypeInv, PassTypes, Passing
<1> QED BY <1>1, <1>2, <1>3, <1>4, <1>5, <1>6 DEF Stl!Next, MembersAct

\* The report of the member that is visited.
LEMMA ReportedType ==
    ASSUME StallTypeInv, agent \in StlMembers
    PROVE  Stl!Reported \in [head : Nat, first : Nat]
<1>1. seen \in Nat /\ now \in Nat /\ report[agent].first \in Nat
  BY DEF StallTypeInv, FrameTypes, PassTypes, MemoTypes
<1> QED BY <1>1 DEF Stl!Reported

\* A frame that is admitted is a new one; a frame that is taken, put back or delivered
\* leaves the place where it was.
LEMMA OnceKept ==
    ASSUME StallConstants, StallTypeInv, OnceInv, Stl!Next \/ UNCHANGED Stl!mvars
    PROVE  OnceInv'
<1>0. /\ ingress \in [StlMembers -> Seq(Nat)] /\ hand \in [StlMembers -> Nat] /\ arrived \in Seq(Nat)
      /\ Len(arrived) \in Nat
  <2>1. arrived \in Seq(Nat)
    BY DEF StallTypeInv, FrameTypes
  <2> QED BY <2>1 DEF StallTypeInv, FrameTypes
<1>1. ASSUME UNCHANGED <<ingress, hand, arrived, done>>, gone' \in {gone, done, {}}
      PROVE  OnceInv'
  BY <1>1 DEF OnceInv
<1>2. CASE Stl!Next /\ ~\E m \in StlMembers : Stl!Admit(m) \/ Stl!Take(m) \/ Stl!Deliver(m) \/ Stl!PutBack(m)
  BY <1>1, <1>2
  DEF Stl!Next, Stl!Tick, Stl!Pause, Stl!Enrol, Stl!Office, Stl!Poll, Stl!Done,
      Stl!CommandFails, Stl!Restart, Stl!Ended, Stl!VisitGone,
      Stl!LookPaused, Stl!LookHead, Stl!Report, Stl!Clear, Stl!queues, Stl!monitor
<1>3. ASSUME NEW m \in StlMembers, Stl!Admit(m) PROVE OnceInv'
  <2> DEFINE new == Len(arrived) + 1
  <2>1. /\ arrived' = Append(arrived, now) /\ now \in Nat /\ new \in Nat
        /\ ingress' = [ingress EXCEPT ![m] = Append(@, new)]
        /\ UNCHANGED <<hand, done, gone>>
    BY <1>0, <1>3 DEF Stl!Admit, Stl!Office, Stl!monitor, StallTypeInv, FrameTypes
  <2>2. Len(arrived') = Len(arrived) + 1
    BY <1>0, <2>1
  <2>3. /\ new \notin 1 .. Len(arrived) /\ new \in 1 .. Len(arrived')
        /\ \A f \in 1 .. Len(arrived) : f \in 1 .. Len(arrived') /\ f # new
    BY <1>0, <2>2
  <2>4. ~In(ingress[m], new)
    BY <2>1, <2>3 DEF OnceInv
  <2>5. /\ \A f : In(ingress'[m], f) <=> In(ingress[m], f) \/ f = new
        /\ IsInjective(ingress'[m])
        /\ \A n \in StlMembers : n # m => ingress'[n] = ingress[n]
    <3> HIDE DEF new
    <3>1. ingress[m] \in Seq(Nat) /\ ingress'[m] = Append(ingress[m], new)
      BY <1>0, <2>1
    <3> QED BY <1>0, <2>1, <2>4, <3>1, AppendIn DEF OnceInv
  <2>6. new \notin done
    BY <2>3 DEF OnceInv
  <2>7. \A n \in StlMembers : hand[n] # new /\ ~In(ingress[n], new)
    BY <2>1, <2>3 DEF OnceInv, Stl!NoFrame
  <2>8. Len(arrived') = Len(arrived) + 1 /\ done \subseteq 1 .. Len(arrived')
    BY <2>2, <2>3 DEF OnceInv
  <2> HIDE DEF new
  <2>9. \A n \in StlMembers, f \in Nat : In(ingress'[n], f) =>
            /\ f \in 1 .. Len(arrived') /\ f \notin done
            /\ \A k \in StlMembers : hand[k] # f /\ (k # n => ~In(ingress'[k], f))
    BY <2>1, <2>3, <2>5, <2>6, <2>7 DEF OnceInv
  <2>10. \A n \in StlMembers : IsInjective(ingress'[n])
    BY <2>5 DEF OnceInv
  <2>11. \A n \in StlMembers : hand[n] # Stl!NoFrame => hand[n] \in 1 .. Len(arrived')
    BY <2>3 DEF OnceInv
  <2> QED BY <2>1, <2>8, <2>9, <2>10, <2>11 DEF OnceInv
<1>4. ASSUME NEW m \in StlMembers, Stl!Take(m) PROVE OnceInv'
  <2> DEFINE f == Head(ingress[m])
  <2>1. /\ ingress[m] \in Seq(Nat) /\ ingress[m] # <<>> /\ IsInjective(ingress[m])
        /\ hand' = [hand EXCEPT ![m] = f] /\ hand[m] = Stl!NoFrame
        /\ ingress' = [ingress EXCEPT ![m] = Tail(@)]
        /\ UNCHANGED <<arrived, done, gone>>
    BY <1>0, <1>4 DEF Stl!Take, Stl!Office, Stl!monitor, OnceInv
  <2>2. /\ f \in Nat /\ In(ingress[m], f) /\ IsInjective(ingress'[m])
        /\ \A g : In(ingress'[m], g) <=> In(ingress[m], g) /\ g # f
    BY <1>0, <2>1, TakenIn
  <2>3. \A n \in StlMembers : n # m => ingress'[n] = ingress[n] /\ hand'[n] = hand[n]
    BY <1>0, <2>1
  <2>4. hand'[m] = f
    BY <1>0, <2>1
  <2> HIDE DEF f
  <2> QED BY <1>0, <2>1, <2>2, <2>3, <2>4 DEF OnceInv
<1>5. ASSUME NEW m \in StlMembers, Stl!PutBack(m) PROVE OnceInv'
  <2>1. /\ hand[m] # Stl!NoFrame /\ hand' = [hand EXCEPT ![m] = Stl!NoFrame]
        /\ ingress' = [ingress EXCEPT ![m] = <<hand[m]>> \o @]
        /\ UNCHANGED <<arrived, done, gone>>
    BY <1>5 DEF Stl!PutBack, Stl!Office, Stl!monitor
  <2>2. hand[m] \in Nat /\ ~In(ingress[m], hand[m])
    BY <1>0, <2>1 DEF OnceInv
  <2>3. /\ \A g : In(ingress'[m], g) <=> In(ingress[m], g) \/ g = hand[m]
        /\ IsInjective(ingress'[m])
    <3> DEFINE h == <<hand[m]>>
    <3>1. /\ h \in Seq(Nat) /\ IsInjective(h)
          /\ \A g : In(h, g) <=> g = hand[m]
      BY <2>2, OneIn
    <3>2. /\ ingress[m] \in Seq(Nat) /\ ingress'[m] = h \o ingress[m]
          /\ IsInjective(ingress[m])
      BY <1>0, <2>1 DEF OnceInv
    <3> HIDE DEF h
    <3>3. \A g : ~(In(h, g) /\ In(ingress[m], g))
      BY <2>2, <3>1
    <3>4. /\ \A g : In(h \o ingress[m], g) <=> In(h, g) \/ In(ingress[m], g)
          /\ IsInjective(h \o ingress[m])
      BY <3>1, <3>2, <3>3, ConcatIn
    <3> QED BY <3>1, <3>2, <3>4
  <2>4. /\ \A n \in StlMembers : n # m => ingress'[n] = ingress[n] /\ hand'[n] = hand[n]
        /\ hand'[m] = 0
    BY <1>0, <2>1 DEF Stl!NoFrame
  <2>5. \A n \in StlMembers : hand[n] = hand[m] => n = m
    BY <2>1 DEF OnceInv
  <2>6. \A n \in StlMembers : ~In(ingress[n], hand[m])
    BY <2>1, <2>2 DEF OnceInv
  <2>7. \A n \in StlMembers, f \in Nat : In(ingress'[n], f) =>
            /\ f \in 1 .. Len(arrived) /\ f \notin done
            /\ \A k \in StlMembers : hand'[k] # f /\ (k # n => ~In(ingress'[k], f))
    <3> SUFFICES ASSUME NEW n \in StlMembers, NEW f \in Nat, In(ingress'[n], f)
                 PROVE  /\ f \in 1 .. Len(arrived) /\ f \notin done
                        /\ \A k \in StlMembers : hand'[k] # f /\ (k # n => ~In(ingress'[k], f))
      OBVIOUS
    <3>1. CASE f = hand[m]
      BY <2>1, <2>2, <2>3, <2>4, <2>5, <2>6, <3>1 DEF OnceInv, Stl!NoFrame
    <3>2. CASE f # hand[m]
      <4>1. In(ingress[n], f)
        BY <2>3, <2>4, <3>2
      <4>2. f \in 1 .. Len(arrived) /\ f \notin done
            /\ \A k \in StlMembers : hand[k] # f /\ (k # n => ~In(ingress[k], f))
        BY <4>1 DEF OnceInv
      <4>3. f # 0
        BY <4>2
      <4> QED BY <2>3, <2>4, <3>2, <4>2, <4>3
    <3> QED BY <3>1, <3>2
  <2>8. \A n \in StlMembers : IsInjective(ingress'[n])
    BY <2>3, <2>4 DEF OnceInv
  <2>9. \A n \in StlMembers : hand'[n] # Stl!NoFrame =>
            /\ hand'[n] \in 1 .. Len(arrived) /\ hand'[n] \notin done
            /\ \A k \in StlMembers : k # n => hand'[k] # hand'[n]
    BY <2>4 DEF OnceInv, Stl!NoFrame
  <2> QED BY <2>1, <2>7, <2>8, <2>9 DEF OnceInv
<1>6. ASSUME NEW m \in StlMembers, Stl!Deliver(m) PROVE OnceInv'
  <2>1. /\ hand[m] # Stl!NoFrame /\ hand' = [hand EXCEPT ![m] = Stl!NoFrame]
        /\ done' = done \cup {hand[m]}
        /\ UNCHANGED <<ingress, arrived, gone>>
    BY <1>6 DEF Stl!Deliver, Stl!Office, Stl!monitor
  <2>2. /\ \A n \in StlMembers : n # m => hand'[n] = hand[n]
        /\ hand'[m] = 0
    BY <1>0, <2>1 DEF Stl!NoFrame
  <2>3. hand[m] \in 1 .. Len(arrived) /\ \A n \in StlMembers : n # m => hand[n] # hand[m]
    BY <2>1 DEF OnceInv
  <2>4. \A n \in StlMembers, f \in Nat : In(ingress[n], f) =>
            /\ f \in 1 .. Len(arrived) /\ f \notin done'
            /\ \A k \in StlMembers : hand'[k] # f /\ (k # n => ~In(ingress[k], f))
    <3>1. \A f \in 1 .. Len(arrived) : f # 0
      OBVIOUS
    <3> QED BY <2>1, <2>2, <3>1 DEF OnceInv
  <2>5. \A n \in StlMembers : hand'[n] # Stl!NoFrame =>
            /\ hand'[n] \in 1 .. Len(arrived) /\ hand'[n] \notin done'
            /\ \A k \in StlMembers : k # n => hand'[k] # hand'[n]
    BY <2>1, <2>2, <2>3 DEF OnceInv, Stl!NoFrame
  <2>6. done' \subseteq 1 .. Len(arrived) /\ gone \subseteq done'
    BY <2>1, <2>3 DEF OnceInv
  <2> QED BY <2>1, <2>4, <2>5, <2>6 DEF OnceInv
<1> QED BY <1>1, <1>2, <1>3, <1>4, <1>5, <1>6 DEF Stl!mvars, Stl!queues, Stl!monitor

\* What is watched of a member after a step: what was, nothing, or the head that is read.
WatchMoves ==
    \A m \in StlMembers :
        \/ watch'[m] = watch[m] /\ looked'[m] = looked[m]
        \/ watch'[m] = Stl!NoWatch /\ looked'[m] = looked[m]
        \/ /\ Stl!LookHead /\ m = agent /\ ingress[m] # <<>>
           /\ watch'[m] = [head |-> Head(ingress[m]), first |-> began]
           /\ looked'[m] = now

\* No action does more to it than that.
LEMMA WatchMoved ==
    ASSUME StallTypeInv, Stl!Next \/ UNCHANGED Stl!mvars
    PROVE  WatchMoves /\ watch' \in [StlMembers -> [head : Nat, first : Nat]]
                      /\ looked' \in [StlMembers -> Nat]
<1>0. /\ watch \in [StlMembers -> [head : Nat, first : Nat]] /\ looked \in [StlMembers -> Nat]
      /\ began \in Nat /\ now \in Nat
  BY DEF StallTypeInv, MemoTypes, PassTypes, FrameTypes
<1>1. Stl!NoWatch \in [head : Nat, first : Nat]
  BY DEF Stl!NoWatch, Stl!NoFrame
<1>2. CASE UNCHANGED <<watch, looked>>
  BY <1>0, <1>2 DEF WatchMoves
<1>3. CASE Stl!Poll \/ Stl!Restart
  <2>1. /\ looked' = looked
        /\ \/ watch' = [m \in StlMembers |-> IF m \in enrolled THEN watch[m] ELSE Stl!NoWatch]
           \/ watch' = [m \in StlMembers |-> Stl!NoWatch]
    BY <1>3 DEF Stl!Poll, Stl!Restart
  <2> QED BY <1>0, <1>1, <2>1 DEF WatchMoves
<1>4. ASSUME NEW m \in StlMembers, Stl!Nothing(m)
      PROVE  WatchMoves /\ watch' \in [StlMembers -> [head : Nat, first : Nat]] /\ looked' \in [StlMembers -> Nat]
  BY <1>0, <1>1, <1>4 DEF WatchMoves, Stl!Nothing
<1>5. ASSUME NEW m \in StlMembers, Stl!LookPaused(m)
      PROVE  WatchMoves /\ watch' \in [StlMembers -> [head : Nat, first : Nat]] /\ looked' \in [StlMembers -> Nat]
  <2>1. Stl!Nothing(m) \/ UNCHANGED <<watch, looked>>
    BY <1>5 DEF Stl!LookPaused
  <2> QED BY <1>2, <1>4, <2>1
<1>6. CASE Stl!LookHead
  <2>1. agent \in StlMembers
    BY <1>6 DEF Stl!LookHead, StallTypeInv, PassTypes
  <2>2. CASE ingress[agent] = <<>>
    BY <1>4, <1>6, <2>1, <2>2 DEF Stl!LookHead
  <2>3. CASE ingress[agent] # <<>>
    <3> DEFINE w == [head |-> Head(ingress[agent]), first |-> began]
    <3>1. Head(ingress[agent]) \in Nat
      BY <2>1, <2>3, HeadIn DEF StallTypeInv, FrameTypes
    <3>2. w \in [head : Nat, first : Nat]
      BY <1>0, <3>1
    <3>3. \/ UNCHANGED <<watch, looked>>
          \/ watch' = [watch EXCEPT ![agent] = w] /\ looked' = [looked EXCEPT ![agent] = now]
      BY <1>6, <2>3 DEF Stl!LookHead, Stl!Judge
    <3>4. CASE watch' = [watch EXCEPT ![agent] = w] /\ looked' = [looked EXCEPT ![agent] = now]
      <4>1. watch'[agent] = w /\ looked'[agent] = now
        BY <1>0, <2>1, <3>4
      <4>2. \A m \in StlMembers : m # agent => watch'[m] = watch[m] /\ looked'[m] = looked[m]
        BY <1>0, <3>4
      <4>3. watch' \in [StlMembers -> [head : Nat, first : Nat]] /\ looked' \in [StlMembers -> Nat]
        BY <1>0, <3>2, <3>4
      <4> QED BY <1>6, <2>3, <4>1, <4>2, <4>3 DEF WatchMoves
    <3> QED BY <1>2, <3>3, <3>4
  <2> QED BY <2>2, <2>3
<1>7. \/ UNCHANGED <<watch, looked>> \/ Stl!Poll \/ Stl!Restart \/ Stl!LookHead
      \/ \E m \in StlMembers : Stl!LookPaused(m)
  BY DEF Stl!Next, Stl!mvars, Stl!monitor, Stl!Tick, Stl!Admit, Stl!Take, Stl!Deliver,
     Stl!PutBack, Stl!Pause, Stl!Enrol, Stl!Office, Stl!Done,
         Stl!Report, Stl!Clear, Stl!CommandFails, Stl!VisitGone
<1> QED BY <1>2, <1>3, <1>5, <1>6, <1>7

\* What is reported of a member after a step.
LEMMA ReportMoved ==
    ASSUME StallTypeInv, Stl!Next \/ UNCHANGED Stl!mvars
    PROVE  /\ report' \in [StlMembers -> [head : Nat, first : Nat]]
           /\ relics' \subseteq StlMembers
           /\ \/ report' = report
              \/ at = "report" /\ agent \in StlMembers /\ report' = [report EXCEPT ![agent] = Stl!Reported]
              \/ at = "clear" /\ agent \in StlMembers /\ report' = [report EXCEPT ![agent] = Stl!NoWatch]
<1>0. report \in [StlMembers -> [head : Nat, first : Nat]] /\ relics \subseteq StlMembers
  BY DEF StallTypeInv, MemoTypes
<1>1. \/ report' = report
      \/ at = "report" /\ report' = [report EXCEPT ![agent] = Stl!Reported]
      \/ at = "clear" /\ report' = [report EXCEPT ![agent] = Stl!NoWatch]
  BY DEF Stl!Next, Stl!mvars, Stl!monitor, Stl!Tick, Stl!Admit, Stl!Take, Stl!Deliver,
     Stl!PutBack, Stl!Pause, Stl!Enrol, Stl!Office, Stl!Poll,
         Stl!Done, Stl!LookHead, Stl!LookPaused, Stl!Report, Stl!Clear, Stl!CommandFails, Stl!Restart, Stl!VisitGone
<1>2. at \in {"report", "clear"} => agent \in StlMembers
  BY DEF StallTypeInv, PassTypes
<1>3. Stl!NoWatch \in [head : Nat, first : Nat]
  BY DEF Stl!NoWatch, Stl!NoFrame
<1>4. agent \in StlMembers => Stl!Reported \in [head : Nat, first : Nat]
  BY ReportedType
<1>5. relics' \subseteq StlMembers
  <2>1. relics' \subseteq relics \cup StlMembers \/ (at \in {"report", "clear"} /\ relics' \subseteq relics \cup {agent})
    BY DEF Stl!Next, Stl!mvars, Stl!monitor, Stl!Tick, Stl!Admit, Stl!Take, Stl!Deliver,
       Stl!PutBack, Stl!Pause, Stl!Enrol, Stl!Office, Stl!Poll,
           Stl!Done, Stl!LookHead, Stl!LookPaused, Stl!Report, Stl!Clear, Stl!CommandFails, Stl!Restart, Stl!VisitGone
  <2> QED BY <1>0, <1>2, <2>1
<1> QED BY <1>0, <1>1, <1>2, <1>3, <1>4, <1>5

\* All the types.
LEMMA StallTypesKept ==
    ASSUME StallTypeInv, Stl!Next \/ UNCHANGED Stl!mvars
    PROVE  StallTypeInv'
<1>1. FrameTypes' /\ PassTypes'
  BY FrameTypesKept, PassTypesKept DEF StallTypeInv
<1>2. MemoTypes'
  BY WatchMoved, ReportMoved DEF MemoTypes
<1> QED BY <1>1, <1>2 DEF StallTypeInv

\* When a frame was admitted is written once.
LEMMA ArrivedGrows ==
    ASSUME FrameTypes, Stl!Next \/ UNCHANGED Stl!mvars
    PROVE  /\ 1 .. Len(arrived) \subseteq 1 .. Len(arrived')
           /\ \A i \in 1 .. Len(arrived) : arrived'[i] = arrived[i]
<1>1. arrived \in Seq(Nat) /\ now \in Nat
  BY DEF FrameTypes
<1>2. arrived' = arrived \/ arrived' = Append(arrived, now)
  <2>1. MembersAct => arrived' = arrived \/ arrived' = Append(arrived, now)
    BY DEF MembersAct, Stl!Admit, Stl!Take, Stl!Deliver, Stl!PutBack, Stl!Pause, Stl!Enrol
  <2> QED BY <2>1, OfficeOrMonitor DEF Stl!Tick, Stl!queues
<1>3. CASE arrived' = Append(arrived, now)
  <2>1. Len(arrived') = Len(arrived) + 1 /\ Len(arrived) \in Nat
    BY <1>1, <1>3
  <2> QED BY <1>1, <1>3, <2>1
<1> QED BY <1>2, <1>3

\* A frame that is watched was there when it was first seen; one that is told of was seen
\* Stall before and is not delivered.
LEMMA WatchKept ==
    ASSUME StallConstants, StallTypeInv, OnceInv, WatchInv, Stl!Next \/ UNCHANGED Stl!mvars
    PROVE  WatchInv'
<1>0. /\ \A i \in 1 .. Len(arrived) : arrived[i] <= now
      /\ ingress \in [StlMembers -> Seq(Nat)]
  BY DEF StallTypeInv, FrameTypes
<1>1. ASSUME NEW m \in StlMembers, ingress[m] # <<>>
      PROVE  /\ Head(ingress[m]) \in 1 .. Len(arrived) /\ Head(ingress[m]) \notin gone
             /\ arrived[Head(ingress[m])] <= now
  <2>1. Head(ingress[m]) \in Nat /\ In(ingress[m], Head(ingress[m]))
    BY <1>0, <1>1, HeadIn
  <2> QED BY <1>0, <2>1 DEF OnceInv
<1>2. ASSUME NEW m \in StlMembers, watch'[m].head # Stl!NoFrame
      PROVE  watch'[m].head \in 1 .. Len(arrived') /\ arrived'[watch'[m].head] <= looked'[m]
  <2>1. /\ 1 .. Len(arrived) \subseteq 1 .. Len(arrived')
        /\ \A i \in 1 .. Len(arrived) : arrived'[i] = arrived[i]
    BY ArrivedGrows DEF StallTypeInv
  <2>2. \/ watch'[m] = watch[m] /\ looked'[m] = looked[m]
        \/ /\ m = agent /\ ingress[m] # <<>>
           /\ watch'[m].head = Head(ingress[m]) /\ looked'[m] = now
    <3>1. \/ watch'[m] = watch[m] /\ looked'[m] = looked[m]
          \/ watch'[m] = Stl!NoWatch
          \/ /\ m = agent /\ ingress[m] # <<>>
             /\ watch'[m] = [head |-> Head(ingress[m]), first |-> began]
             /\ looked'[m] = now
      BY WatchMoved DEF WatchMoves
    <3>2. watch'[m] # Stl!NoWatch
      BY <1>2 DEF Stl!NoWatch
    <3>3. ASSUME watch'[m] = [head |-> Head(ingress[m]), first |-> began]
          PROVE  watch'[m].head = Head(ingress[m])
      BY <3>3
    <3> QED BY <3>1, <3>2, <3>3
  <2>3. CASE watch'[m] = watch[m] /\ looked'[m] = looked[m]
    BY <1>2, <2>1, <2>3 DEF WatchInv
  <2>4. CASE /\ m = agent /\ ingress[m] # <<>>
             /\ watch'[m].head = Head(ingress[m]) /\ looked'[m] = now
    BY <1>1, <2>1, <2>4
  <2> QED BY <2>2, <2>3, <2>4
<1>3. ASSUME at' = "report"
      PROVE  /\ seen' = watch'[agent'].head /\ seen' # Stl!NoFrame
             /\ began' - watch'[agent'].first >= StlStall
             /\ seen' \notin gone'
  <2>1. UNCHANGED Stl!monitor \/ Stl!LookHead
    BY <1>3
    DEF Stl!Next, Stl!mvars, Stl!Tick, Stl!Admit, Stl!Take, Stl!Deliver, Stl!PutBack, Stl!Pause,
        Stl!Enrol, Stl!Office, Stl!Poll, Stl!Done,
        Stl!LookPaused, Stl!Nothing, Stl!Report, Stl!Clear, Stl!CommandFails, Stl!Restart, Stl!VisitGone, Stl!Ended
  <2>2. CASE UNCHANGED Stl!monitor
    BY <1>3, <2>2 DEF Stl!monitor, WatchInv
  <2>3. CASE Stl!LookHead
    <3>1. agent \in StlMembers /\ UNCHANGED <<agent, began, gone>>
      BY <2>3 DEF Stl!LookHead, StallTypeInv, PassTypes
    <3>2. /\ ingress[agent] # <<>> /\ watch[agent].head = Head(ingress[agent])
          /\ ~(began - watch[agent].first < StlStall)
          /\ seen' = Head(ingress[agent]) /\ watch' = watch
      BY <1>3, <2>3 DEF Stl!LookHead, Stl!Judge, Stl!Nothing
    <3>3. began \in Nat /\ watch[agent].first \in Nat /\ StlStall \in Nat
      BY <3>1 DEF StallTypeInv, PassTypes, MemoTypes, StallConstants
    <3>4. began - watch[agent].first >= StlStall
      BY <3>2, <3>3
    <3> QED BY <1>1, <3>1, <3>2, <3>4 DEF Stl!NoFrame
  <2> QED BY <2>1, <2>2, <2>3
<1>4. told'.queued /\ ~told'.taken /\ told'.waited >= StlStall
  <2>1. told' = told \/ Stl!Report
    BY DEF Stl!Next, Stl!mvars, Stl!Tick, Stl!Admit, Stl!Take, Stl!Deliver, Stl!PutBack,
       Stl!Pause, Stl!Enrol, Stl!Office, Stl!Poll, Stl!Done,
           Stl!LookPaused, Stl!LookHead, Stl!Clear, Stl!CommandFails, Stl!Restart, Stl!VisitGone
  <2>2. CASE Stl!Report
    <3>1. agent \in StlMembers
      BY <2>2 DEF Stl!Report, StallTypeInv, PassTypes
    <3>2. \/ told' = told
          \/ told' = [waited |-> began - watch[agent].first,
                      queued |-> arrived[seen] <= looked[agent], taken |-> seen \in gone]
      BY <2>2 DEF Stl!Report
    <3>3. /\ began - watch[agent].first >= StlStall
          /\ arrived[seen] <= looked[agent] /\ seen \notin gone
      BY <2>2, <3>1 DEF Stl!Report, WatchInv
    <3>4. CASE told' = told
      BY <3>4 DEF WatchInv
    <3>5. CASE told' = [waited |-> began - watch[agent].first,
                        queued |-> arrived[seen] <= looked[agent], taken |-> seen \in gone]
      <4>1. /\ told'.waited = began - watch[agent].first
            /\ told'.queued = (arrived[seen] <= looked[agent])
            /\ told'.taken = (seen \in gone)
        BY <3>5, Zenon
      <4> QED BY <3>3, <4>1
    <3> QED BY <3>2, <3>4, <3>5
  <2> QED BY <2>1, <2>2 DEF WatchInv
<1> QED BY <1>2, <1>3, <1>4 DEF WatchInv

\* The monitor answers for what it reported: of each member, what a step does to that.
LEMMA ReportKept ==
    ASSUME StallConstants, StallTypeInv, OnceInv, WatchInv, ReportInv, Stl!Next \/ UNCHANGED Stl!mvars
    PROVE  ReportInv'
<1>0. /\ watch \in [StlMembers -> [head : Nat, first : Nat]]
      /\ report \in [StlMembers -> [head : Nat, first : Nat]]
      /\ now \in Nat /\ began \in Nat /\ began <= now /\ StlStall \in Nat
      /\ at \in {"head", "report", "clear"} => agent \in StlMembers
      /\ stalled \subseteq StlMembers
  BY DEF StallTypeInv, MemoTypes, PassTypes, FrameTypes, StallConstants
<1>1. CASE UNCHANGED <<Stl!monitor, report, relics>>
  BY <1>1 DEF Stl!monitor, ReportInv, AnswersFor
<1>2. CASE Stl!Poll
  <2>1. /\ at \in {"rest", "failed"} /\ at' = "next" /\ UNCHANGED <<report, relics, stalled>>
        /\ \A m \in StlMembers : watch'[m] = watch[m] \/ watch'[m] = Stl!NoWatch
        /\ \A m \in enrolled : watch'[m] = watch[m] /\ <<m, "look">> \in todo'
        /\ \A m \in stalled \ enrolled : <<m, "clear">> \in todo'
    <3>1. watch' = [m \in StlMembers |-> IF m \in enrolled THEN watch[m] ELSE Stl!NoWatch]
      BY <1>2 DEF Stl!Poll
    <3>2. enrolled \subseteq StlMembers
      BY DEF StallTypeInv, FrameTypes
    <3> QED BY <1>2, <3>1, <3>2 DEF Stl!Poll
  <2> QED BY <2>1 DEF ReportInv, AnswersFor, Passing
<1>3. CASE Stl!Done
  BY <1>3 DEF Stl!Done, Stl!Ended, ReportInv, AnswersFor, Passing
<1>4. ASSUME NEW k \in StlMembers, Stl!VisitGone(k) PROVE ReportInv'
  BY <1>4 DEF Stl!VisitGone, Stl!Visit, ReportInv, AnswersFor, Passing
<1>5. ASSUME NEW k \in StlMembers, Stl!LookPaused(k) PROVE ReportInv'
  <2>1. /\ at = "next" /\ <<k, "look">> \in todo /\ \A v \in todo : v[2] = "look"
        /\ agent' = k /\ todo' = todo \ {<<k, "look">>}
        /\ UNCHANGED <<report, relics, stalled>>
        /\ \A m \in StlMembers : m # k => watch'[m] = watch[m]
    BY <1>0, <1>5 DEF Stl!LookPaused, Stl!Visit, Stl!Nothing
  <2>2. \/ watch' = watch /\ at' = "head"
        \/ watch'[k] = Stl!NoWatch /\ at' = IF k \in stalled THEN "clear" ELSE "next"
    BY <1>0, <1>5 DEF Stl!LookPaused, Stl!Nothing
  <2> QED BY <2>1, <2>2 DEF ReportInv, AnswersFor, Passing
<1>6. CASE Stl!LookHead
  <2>1. /\ at = "head" /\ agent \in StlMembers
        /\ UNCHANGED <<report, relics, stalled, todo, agent>>
        /\ \A m \in StlMembers : m # agent => watch'[m] = watch[m]
    BY <1>0, <1>6 DEF Stl!LookHead, Stl!Nothing, Stl!Judge
  <2>2. \/ at' = IF agent \in stalled THEN "clear" ELSE "next"
        \/ /\ at' \in {"next", "report"} /\ watch' = watch
           /\ watch[agent] # Stl!NoWatch
    <3>1. CASE ingress[agent] = <<>>
      BY <1>6, <3>1 DEF Stl!LookHead, Stl!Nothing
    <3>2. CASE ingress[agent] # <<>> /\ watch[agent].head # Head(ingress[agent])
      BY <1>6, <3>2 DEF Stl!LookHead, Stl!Judge
    <3>3. CASE ingress[agent] # <<>> /\ watch[agent].head = Head(ingress[agent])
      <4>1. at' \in {"next", "report"} /\ watch' = watch
        BY <1>6, <3>3 DEF Stl!LookHead, Stl!Judge
      <4>2. In(ingress[agent], watch[agent].head)
        BY <2>1, <3>3, HeadIn DEF StallTypeInv, FrameTypes
      <4>3. watch[agent].head \in 1 .. Len(arrived)
        BY <1>0, <2>1, <4>2 DEF OnceInv
      <4> QED BY <4>1, <4>3 DEF Stl!NoWatch, Stl!NoFrame
    <3> QED BY <3>1, <3>2, <3>3
  <2> QED BY <2>1, <2>2 DEF ReportInv, AnswersFor, Passing
<1>7. CASE Stl!Report
  <2>1. /\ at = "report" /\ at' = "next" /\ agent \in StlMembers
        /\ UNCHANGED <<relics, watch, todo, agent>>
        /\ stalled' = stalled \cup {agent}
        /\ report'[agent] = Stl!Reported
        /\ \A m \in StlMembers : m # agent => report'[m] = report[m]
    BY <1>0, <1>7 DEF Stl!Report
  <2>2. /\ seen = watch[agent].head /\ seen # Stl!NoFrame
        /\ began - watch[agent].first >= StlStall
        /\ watch[agent].first \in Nat /\ report[agent].first \in Nat
    BY <1>0, <2>1 DEF WatchInv
  <2>3. Stl!Reported # Stl!NoWatch
    <3>1. Stl!Reported.head = seen
      BY DEF Stl!Reported
    <3> QED BY <2>2, <3>1 DEF Stl!NoWatch
  <2>4. ASSUME agent \notin relics
        PROVE  watch'[agent].head = report'[agent].head
               /\ watch'[agent].first + StlStall <= report'[agent].first
    <3>1. report'[agent].head = seen
      BY <2>1 DEF Stl!Reported
    <3>2. CASE report[agent] = Stl!NoWatch
      <4>1. report'[agent].first = now
        BY <2>1, <3>2 DEF Stl!Reported
      <4>2. watch[agent].first + StlStall <= now
        BY <1>0, <2>2
      <4> QED BY <2>1, <2>2, <3>1, <4>1, <4>2
    <3>3. CASE report[agent] # Stl!NoWatch
      <4>1. report'[agent].first = report[agent].first
        BY <2>1, <3>3 DEF Stl!Reported
      <4>2. AnswersFor(agent)
        BY <2>1, <2>4, <3>3 DEF ReportInv, Passing
      <4> QED BY <2>1, <2>2, <3>1, <4>1, <4>2 DEF AnswersFor
    <3> QED BY <3>2, <3>3
  <2> QED BY <2>1, <2>3, <2>4 DEF ReportInv, AnswersFor, Passing
<1>8. CASE Stl!Clear
  <2>1. /\ at = "clear" /\ at' = "next" /\ agent \in StlMembers
        /\ UNCHANGED <<watch, todo, agent>>
        /\ stalled' = stalled \ {agent} /\ relics' = relics \ {agent}
        /\ report'[agent] = Stl!NoWatch
        /\ \A m \in StlMembers : m # agent => report'[m] = report[m]
    BY <1>0, <1>8 DEF Stl!Clear
  <2> QED BY <2>1 DEF ReportInv, AnswersFor, Passing
<1>9. CASE Stl!CommandFails
  <2>1. /\ at' = "failed" /\ UNCHANGED <<watch, stalled>> /\ relics \subseteq relics'
        /\ at \in {"report", "clear"} => agent \in relics'
        /\ \A m \in StlMembers \ relics' : report'[m] = report[m]
    BY <1>0, <1>9 DEF Stl!CommandFails, Stl!Ended
  <2> QED BY <2>1 DEF ReportInv, AnswersFor, Passing
<1>10. CASE Stl!Restart
  <2>1. /\ at' = "rest" /\ stalled' = {} /\ report' = report
        /\ relics' = relics \cup {m \in StlMembers : report[m] # Stl!NoWatch}
    BY <1>10 DEF Stl!Restart, Stl!Ended
  <2> QED BY <2>1 DEF ReportInv
<1> QED
  <2>1. CASE UNCHANGED Stl!mvars \/ Stl!Tick \/ MembersAct
    <3>1. UNCHANGED <<Stl!monitor, report, relics>>
      BY <2>1
      DEF Stl!mvars, Stl!Tick, MembersAct, Stl!Admit, Stl!Take, Stl!Deliver, Stl!PutBack,
          Stl!Pause, Stl!Enrol, Stl!Office
    <3> QED BY <1>1, <3>1
  <2> QED BY <1>2, <1>3, <1>4, <1>5, <1>6, <1>7, <1>8, <1>9, <1>10, <2>1 DEF Stl!Next, MembersAct

\* Initially nothing is in the lists, watched or reported.
LEMMA StallInit == StallConstants /\ Stl!Init => StallInv
<1> SUFFICES ASSUME StallConstants, Stl!Init PROVE StallInv
  OBVIOUS
<1>1. StallTypeInv
  BY DEF Stl!Init, StallTypeInv, FrameTypes, PassTypes, MemoTypes, Stl!NoFrame, Stl!NoWatch
<1>2. OnceInv
  BY DEF Stl!Init, OnceInv, Stl!NoFrame, In, IsInjective
<1>3. WatchInv
  <2>1. told.queued /\ ~told.taken /\ told.waited >= StlStall
    BY DEF Stl!Init, Stl!NoTelling, StallConstants
  <2> QED BY <2>1 DEF Stl!Init, WatchInv, Stl!NoWatch, Stl!NoFrame
<1>4. ReportInv
  BY DEF Stl!Init, ReportInv
<1> QED BY <1>1, <1>2, <1>3, <1>4 DEF StallInv

\* The invariant is inductive.
LEMMA StallStep ==
    ASSUME StallConstants, StallInv, Stl!Next \/ UNCHANGED Stl!mvars
    PROVE  StallInv'
BY StallTypesKept, OnceKept, WatchKept, ReportKept DEF StallInv

\* And gives what the run checks.
LEMMA StallTrueFollows == StallInv => Stl!StallTrue /\ Stl!TypeOK
<1> SUFFICES ASSUME StallInv PROVE Stl!StallTrue /\ Stl!TypeOK
  OBVIOUS
<1>1. told.queued /\ ~told.taken /\ told.waited >= StlStall
  BY DEF StallInv, WatchInv
<1>2. Stl!StallTrue
  BY <1>1 DEF StallInv, ReportInv, AnswersFor, Stl!StallTrue
<1>3. Stl!TypeOK
  BY DEF StallInv, StallTypeInv, FrameTypes, PassTypes, MemoTypes, Stl!TypeOK, Passing
<1> QED BY <1>2, <1>3

\* A stall is told of a frame only that stood at the head for Stall and was not delivered;
\* what the monitor reported it answers for, or a failed command or an earlier life did it.
THEOREM StallSafe ==
    ASSUME StallConstants
    PROVE  Stl!Spec => []Stl!StallTrue
<1>1. Stl!Init => StallInv
  BY StallInit
<1>2. StallInv /\ [Stl!Next]_Stl!mvars => StallInv'
  BY StallStep
<1>3. StallInv => Stl!StallTrue
  BY StallTrueFollows
<1> QED BY <1>1, <1>2, <1>3, PTL DEF Stl!Spec

-----------------------------------------------------------------------------
(* The reconciler and the windows of agents                                 *)

CONSTANTS RecAgents, RecLegacy, RecNone, RecMaxHires, RecValues, RecProfiles, RecBegins,
          RecMaxOps, RecMaxFaults
VARIABLES registry, lead, incarnation, hires, allowEmpty, desired, op, ops, window,
          idling, pass, existing, reading, draft, pending, known, backoff, touched,
          doubtful

Rec == INSTANCE Reconciler WITH
    Agents <- RecAgents, Legacy <- RecLegacy, None <- RecNone, MaxHires <- RecMaxHires,
    Values <- RecValues, Profiles <- RecProfiles, Begins <- RecBegins,
    MaxOps <- RecMaxOps, MaxFaults <- RecMaxFaults

\* Of the constants: the names that were enrolled before are names, and hires are counted.
ReconcilerConstants == RecLegacy \subseteq RecAgents /\ RecMaxHires \in Nat

\* A lifecycle operation: what it is at, and that it found the roster as it is.
Operations == [kind : {"start", "api", "stop", "new", "again"},
               at : {"look", "profile", "launch", "publish", "kill"},
               agent : RecAgents, changed : BOOLEAN, want : Rec!Keys]
OperationInv ==
    \/ op = Rec!Idle
    \/ /\ op \in Operations
       /\ op.kind = "start" => op.at = "look"
       /\ op.at \in {"profile", "launch"} => op.kind \in {"new", "again"}
       /\ op.kind = "again" => registry[op.agent] = "tmux"
       /\ op.kind = "new" => registry[op.agent] # "tmux"
       /\ op.changed => op.kind = "again" /\ op.at # "look"
       /\ op.kind = "api" => op.want = Rec!Blank

KeyTypes == desired \in [RecAgents -> Rec!Keys] /\ window \in [RecAgents -> Rec!Keys \cup {Rec!Gone}]

\* A pass has read a roster and keys that are as they were, but of names that were touched.
Phases == {"rest", "sight", "launch", "profile", "session", "resight", "create", "launch2",
           "profile2", "open", "placeholder", "reap"}
TurnTypes ==
    /\ pass \in Phases /\ draft \in Rec!Keys
    /\ idling \in BOOLEAN /\ allowEmpty \in BOOLEAN
    /\ enrolled \subseteq RecAgents /\ backoff \subseteq RecAgents /\ touched \subseteq RecAgents
    /\ doubtful \subseteq RecAgents
    /\ existing \subseteq RecAgents \cup {Rec!Init__} /\ known \subseteq RecAgents \cup {Rec!Init__}
ReadingInv ==
    /\ pass \in {"create", "launch2", "profile2", "open"} => pending \subseteq enrolled
    /\ pass \in {"launch", "profile", "launch2", "profile2", "open"} => reading \in enrolled
    /\ pass = "session" => reading \in enrolled \cup {Rec!Init__}
EnrolledInv == pass # "rest" => \A a \in enrolled \ touched : registry[a] = "tmux"
DraftInv ==
    /\ pass \in {"profile", "profile2"} /\ reading \notin touched =>
          draft.launch = desired[reading].launch
    /\ pass \in {"session", "open"} /\ reading # Rec!Init__ /\ reading \notin touched =>
          draft = desired[reading]
TurnInv == TurnTypes /\ ReadingInv /\ EnrolledInv /\ DraftInv

\* What a window runs is what is desired of a member, unless the operation at hand is going
\* to kill it.
Settling(a) == op # Rec!Idle /\ op.agent = a /\ (op.changed \/ op.at = "kill")
Fits(a) == \/ a \in doubtful \/ ~Rec!HasWindow(a) \/ Settling(a)
           \/ registry[a] = "tmux" /\ window[a] = desired[a]
FitsInv == \A a \in RecAgents : Fits(a)

ReconcilerInv == Rec!MembershipTypeOK /\ OperationInv /\ KeyTypes /\ TurnInv /\ FitsInv

(* Each part is kept *)

\* Only enrolling and retiring change the roster.
LEMMA RosterKept ==
    ASSUME ReconcilerConstants, Rec!MembershipTypeOK, OperationInv, Rec!Next \/ UNCHANGED Rec!vars
    PROVE  Rec!MembershipTypeOK'
<1>1. CASE Rec!Enrol
  <2>1. op.agent \in RecAgents
    BY <1>1 DEF Rec!Enrol, OperationInv, Rec!Idle, Operations
  <2> QED
    BY <1>1, <2>1
    DEF Rec!Enrol, Rec!Publish, Rec!Mints, Rec!MembershipTypeOK, Rec!Ports, ReconcilerConstants
<1>2. CASE Rec!Retire
  <2>1. op.agent \in RecAgents
    BY <1>2 DEF Rec!Retire, OperationInv, Rec!Idle, Operations
  <2> QED
    BY <1>2, <2>1
    DEF Rec!Retire, Rec!Remove, Rec!MembershipTypeOK, Rec!Ports, ReconcilerConstants
<1>3. CASE ~Rec!Enrol /\ ~Rec!Retire
  <2>1. UNCHANGED Rec!roster
    BY <1>3
    DEF Rec!Next, Rec!vars, Rec!Lifecycle, Rec!Begin, Rec!Reject, Rec!Look, Rec!Write,
        Rec!KillWindow, Rec!Abandon, Rec!Step, Rec!ReadRoster,
        Rec!FirstSight, Rec!ReadKey, Rec!Ensure, Rec!SecondSight, Rec!StartCreate, Rec!ReadKey2, Rec!CreateWindow, Rec!LastSight,
        Rec!Placeholder, Rec!Reap, Rec!EndPass, Rec!Elapse, Rec!WindowDies
  <2> QED BY <2>1 DEF Rec!roster, Rec!MembershipTypeOK
<1> QED BY <1>1, <1>2, <1>3

\* What is not a lifecycle operation changes neither the roster, the keys nor the operation.
LEMMA LifeApart ==
    ASSUME Rec!Next \/ UNCHANGED Rec!vars
    PROVE  \/ UNCHANGED <<Rec!roster, Rec!life>>
           \/ /\ Rec!Lifecycle
              /\ UNCHANGED <<Rec!look, Rec!memory, idling, allowEmpty>>
              /\ window' = window \/ Rec!KillWindow
<1>1. Rec!Step => UNCHANGED <<Rec!roster, Rec!life>>
  BY DEF Rec!Step, Rec!ReadRoster, Rec!FirstSight, Rec!ReadKey, Rec!Ensure, Rec!SecondSight,
     Rec!StartCreate, Rec!ReadKey2,
        Rec!CreateWindow, Rec!LastSight, Rec!Placeholder, Rec!Reap, Rec!EndPass
<1>2. Rec!Lifecycle => /\ UNCHANGED <<Rec!look, Rec!memory, idling>>
                       /\ window' = window \/ Rec!KillWindow
  BY DEF Rec!Lifecycle, Rec!Begin, Rec!Reject, Rec!Look, Rec!Write, Rec!Enrol, Rec!Retire,
     Rec!KillWindow, Rec!Abandon, Rec!actual, Rec!Kill
<1>3. (\E a \in RecAgents : Rec!Elapse(a) \/ Rec!WindowDies(a)) \/ UNCHANGED Rec!vars => UNCHANGED <<Rec!roster, Rec!life>>
  BY DEF Rec!Elapse, Rec!WindowDies, Rec!vars
<1> QED BY <1>1, <1>2, <1>3 DEF Rec!Next

\* An operation goes on as it began.
LEMMA OperationKept ==
    ASSUME ReconcilerConstants, Rec!MembershipTypeOK, OperationInv, Rec!Next \/ UNCHANGED Rec!vars
    PROVE  OperationInv'
<1>1. CASE UNCHANGED <<Rec!roster, Rec!life>>
  BY <1>1 DEF Rec!roster, Rec!life, OperationInv
<1>2. CASE Rec!Begin
  <2>1. PICK a \in RecAgents, kind \in {"start", "api", "stop"}, v \in RecValues, p \in RecProfiles \cup {RecNone} :
          op' = [kind |-> kind, at |-> "look", agent |-> a, changed |-> FALSE,
                 want |-> IF kind = "start" THEN [profile |-> p, launch |-> v] ELSE Rec!Blank]
    BY <1>2 DEF Rec!Begin
  <2>2. op'.want \in Rec!Keys
    BY <2>1 DEF Rec!Keys, Rec!Blank
  <2> QED BY <2>1, <2>2 DEF OperationInv, Operations
<1>3. CASE Rec!Reject \/ Rec!KillWindow \/ Rec!Abandon
  BY <1>3 DEF Rec!Reject, Rec!KillWindow, Rec!Abandon, OperationInv
<1>4. CASE Rec!Look
  <2>1. op \in Operations /\ ~op.changed /\ registry' = registry
    BY <1>4 DEF Rec!Look, OperationInv, Rec!Idle, Rec!roster
  <2>2. CASE op.kind # "start"
    <3>1. op' = [op EXCEPT !.at = "publish"]
      BY <1>4, <2>2 DEF Rec!Look
    <3>2. /\ op'.kind = op.kind /\ op'.agent = op.agent /\ op'.want = op.want
          /\ op'.at = "publish" /\ ~op'.changed /\ op' \in Operations
      BY <2>1, <3>1 DEF Operations
    <3>3. op # Rec!Idle
      BY <1>4 DEF Rec!Look, Rec!Idle
    <3> QED BY <2>1, <2>2, <3>2, <3>3 DEF OperationInv
  <2>3. CASE op.kind = "start"
    <3>1. PICK to \in {"launch", "profile"}, kind \in {"again", "new"} :
            /\ op' = [op EXCEPT !.at = to, !.kind = kind]
            /\ kind = "again" <=> registry[op.agent] = "tmux"
      BY <1>4, <2>3 DEF Rec!Look
    <3>2. /\ op'.kind = kind /\ op'.agent = op.agent /\ op'.at = to /\ ~op'.changed
          /\ op' \in Operations
      BY <2>1, <3>1 DEF Operations
    <3> QED BY <2>1, <3>1, <3>2 DEF OperationInv
  <2> QED BY <2>2, <2>3
<1>5. ASSUME NEW f, NEW next \in {"launch", "publish"}, f \in {"profile", "launch"},
             Rec!Write(f, next)
      PROVE  OperationInv'
  <2>1. op \in Operations /\ op.kind \in {"new", "again"} /\ registry' = registry
    BY <1>5 DEF Rec!Write, OperationInv, Rec!Idle, Rec!roster
  <2>2. PICK is : /\ op' = [op EXCEPT !.at = next, !.changed = is]
                  /\ is = (op.changed \/ (op.kind = "again" /\ desired[op.agent][f] # op.want[f]))
    BY <1>5, <2>1 DEF Rec!Write, Operations
  <2>3. is \in BOOLEAN
    BY <2>1, <2>2, Zenon DEF Operations
  <2>4. /\ op'.kind = op.kind /\ op'.agent = op.agent /\ op'.at = next /\ op'.changed = is
        /\ op' \in Operations
    BY <2>1, <2>2, <2>3 DEF Operations
  <2>5. op.changed => op.kind = "again"
    BY <2>1 DEF OperationInv, Rec!Idle
  <2>6. is => op.kind = "again"
    BY <2>2, <2>5, Zenon
  <2> QED BY <1>5, <2>1, <2>4, <2>6 DEF OperationInv, Rec!Idle
<1>6. CASE Rec!Enrol
  <2>1. op \in Operations /\ op.at = "publish" /\ op.kind # "start"
    BY <1>6 DEF Rec!Enrol, OperationInv, Rec!Idle
  <2>2. CASE ~op.changed
    BY <1>6, <2>2 DEF Rec!Enrol, OperationInv
  <2>3. CASE op.changed
    <3>1. op.kind = "again"
      BY <2>1, <2>3 DEF OperationInv, Rec!Idle
    <3>2. op' = [op EXCEPT !.at = "kill"]
      BY <1>6, <2>3 DEF Rec!Enrol
    <3>3. registry'[op.agent] = "tmux"
      BY <1>6, <2>1, <3>1 DEF Rec!Enrol, Rec!Publish, Rec!MembershipTypeOK, Operations
    <3> QED BY <2>1, <3>1, <3>2, <3>3 DEF OperationInv, Operations
  <2> QED BY <2>2, <2>3
<1>7. CASE Rec!Retire
  BY <1>7 DEF Rec!Retire, OperationInv, Operations, Rec!Idle
<1>8. Rec!Lifecycle => Rec!Begin \/ Rec!Reject \/ Rec!KillWindow \/ Rec!Abandon \/ Rec!Look \/ Rec!Enrol \/ Rec!Retire
                       \/ Rec!Write("profile", "launch") \/ Rec!Write("launch", "publish")
  BY DEF Rec!Lifecycle
<1> QED BY <1>1, <1>2, <1>3, <1>4, <1>5, <1>6, <1>7, <1>8, LifeApart

\* Keys and windows are of their types.
LEMMA KeyTypesKept ==
    ASSUME OperationInv, KeyTypes, TurnInv, Rec!Next \/ UNCHANGED Rec!vars
    PROVE  KeyTypes'
<1>1. desired' \in [RecAgents -> Rec!Keys]
  <2>1. CASE Rec!Write("profile", "launch") \/ Rec!Write("launch", "publish")
    <3>1. op \in Operations
      BY <2>1 DEF Rec!Write, OperationInv, Rec!Idle
    <3>2. op.agent \in RecAgents /\ op.want \in Rec!Keys /\ desired[op.agent] \in Rec!Keys
      BY <3>1 DEF Operations, KeyTypes
    <3>3. \A k, w \in Rec!Keys : /\ [k EXCEPT !["profile"] = w["profile"]] \in Rec!Keys
                                 /\ [k EXCEPT !["launch"] = w["launch"]] \in Rec!Keys
      BY DEF Rec!Keys
    <3>4. desired' = [desired EXCEPT ![op.agent] = desired'[op.agent]] /\ desired'[op.agent] \in Rec!Keys
      BY <2>1, <3>2, <3>3 DEF Rec!Write, KeyTypes
    <3> QED BY <3>2, <3>4 DEF KeyTypes
  <2>2. CASE Rec!Retire
    BY <2>2 DEF Rec!Retire, KeyTypes, Rec!Keys, Rec!Blank
  <2>3. CASE UNCHANGED desired
    BY <2>3 DEF KeyTypes
  <2> QED
    BY <2>1, <2>2, <2>3, LifeApart
    DEF Rec!life, Rec!Lifecycle, Rec!Begin, Rec!Reject, Rec!Look, Rec!Enrol, Rec!KillWindow,
        Rec!Abandon
<1>2. window' \in [RecAgents -> Rec!Keys \cup {Rec!Gone}]
  <2>1. ASSUME NEW name, Rec!Open(name) PROVE window' \in [RecAgents -> Rec!Keys \cup {Rec!Gone}]
    BY <2>1 DEF Rec!Open, KeyTypes, TurnInv, TurnTypes
  <2>2. ASSUME NEW hit, Rec!Kill(hit) PROVE window' \in [RecAgents -> Rec!Keys \cup {Rec!Gone}]
    BY <2>2 DEF Rec!Kill, KeyTypes
  <2>3. CASE UNCHANGED window
    BY <2>3 DEF KeyTypes
  <2>4. CASE Rec!Lifecycle
    BY <2>2, <2>3, <2>4
    DEF Rec!Lifecycle, Rec!Begin, Rec!Reject, Rec!Look, Rec!Write, Rec!Enrol, Rec!Retire,
        Rec!KillWindow, Rec!Abandon, Rec!actual
  <2>5. CASE Rec!Step
    BY <2>1, <2>2, <2>3, <2>5
    DEF Rec!Step, Rec!ReadRoster, Rec!FirstSight, Rec!ReadKey, Rec!Ensure, Rec!SecondSight,
        Rec!StartCreate, Rec!ReadKey2,
        Rec!CreateWindow, Rec!LastSight, Rec!Placeholder, Rec!Reap, Rec!EndPass, Rec!actual
  <2>6. CASE \E a \in RecAgents : Rec!Elapse(a) \/ Rec!WindowDies(a)
    BY <2>2, <2>3, <2>6 DEF Rec!Elapse, Rec!WindowDies, Rec!actual
  <2>7. CASE UNCHANGED Rec!vars
    BY <2>3, <2>7 DEF Rec!vars, Rec!actual
  <2> QED BY <2>4, <2>5, <2>6, <2>7 DEF Rec!Next
<1> QED BY <1>1, <1>2 DEF KeyTypes

\* Some element of a set that has one is in it.
LEMMA OneMember ==
    ASSUME NEW S, S # {}
    PROVE  Rec!One(S) \in S
BY DEF Rec!One

\* What the reconciler sees are names.
LEMMA WindowsAreNames == Rec!Windows \subseteq RecAgents \cup {Rec!Init__}
BY DEF Rec!Windows

\* The operation at hand is about an agent, and what it touches is marked while a pass runs.
LEMMA Touches ==
    ASSUME OperationInv, TurnTypes, Rec!Touch, op # Rec!Idle
    PROVE  /\ touched' \subseteq RecAgents
           /\ pass # "rest" => touched' = touched \cup {op.agent}
BY DEF Rec!Touch, OperationInv, TurnTypes, Operations

\* The variables of a pass are of their types.
LEMMA TurnTypesKept ==
    ASSUME OperationInv, KeyTypes, TurnTypes, ReadingInv, Rec!Next \/ UNCHANGED Rec!vars
    PROVE  TurnTypes'
<1> USE WindowsAreNames
<1>1. CASE Rec!Lifecycle /\ UNCHANGED allowEmpty
  <2>1. UNCHANGED <<pass, draft, idling, enrolled, backoff, existing, known>>
    BY <1>1
    DEF Rec!Lifecycle, Rec!Begin, Rec!Reject, Rec!Look, Rec!Write, Rec!Enrol, Rec!Retire,
        Rec!KillWindow, Rec!Abandon, Rec!actual, Rec!Kill,
        Operations, Rec!look, Rec!memory
  <2>2. touched' \subseteq RecAgents
    BY <1>1, Touches
    DEF Rec!Lifecycle, Rec!Begin, Rec!Reject, Rec!Look, Rec!Write, Rec!Enrol, Rec!Retire,
        Rec!KillWindow, Rec!Abandon, TurnTypes, Rec!Idle
  <2>3. doubtful' \subseteq doubtful \cup {op.agent} /\ (doubtful' \subseteq doubtful \/ op # Rec!Idle)
    BY <1>1
    DEF Rec!Lifecycle, Rec!Begin, Rec!Reject, Rec!Look, Rec!Write, Rec!Enrol, Rec!Retire,
        Rec!KillWindow, Rec!Abandon, Rec!Kill, Rec!Idle
  <2> QED BY <1>1, <2>1, <2>2, <2>3 DEF TurnTypes, OperationInv, Operations
<1>2. CASE Rec!ReadRoster /\ UNCHANGED allowEmpty
  BY <1>2
  DEF Rec!ReadRoster, TurnTypes, Rec!TmuxAgents, OperationInv, Operations, Rec!actual, Phases
<1>3. CASE Rec!FirstSight /\ UNCHANGED allowEmpty
  BY <1>3 DEF Rec!FirstSight, Rec!CheckDead, TurnTypes, Rec!actual, Phases, Rec!Blank, Rec!Keys
<1>4. ASSUME NEW f \in {"launch", "profile"}, NEW to, NEW next \in Phases,
             to \in {"launch", "profile", "launch2", "profile2"},
             Rec!ReadKey2(f, to, next), UNCHANGED allowEmpty
      PROVE  TurnTypes'
  <2>1. reading \in RecAgents
    BY <1>4 DEF Rec!ReadKey2, ReadingInv, TurnTypes
  <2>2. [draft EXCEPT ![f] = desired[reading][f]] \in Rec!Keys
    BY <2>1 DEF TurnTypes, KeyTypes, Rec!Keys
  <2> QED BY <1>4, <2>2 DEF Rec!ReadKey2, TurnTypes, Rec!actual, Rec!memory
<1>5. CASE (Rec!Ensure \/ Rec!CreateWindow \/ Rec!Placeholder) /\ UNCHANGED allowEmpty
  <2>1. UNCHANGED <<draft, enrolled, backoff, touched, allowEmpty>>
    BY <1>5 DEF Rec!Ensure, Rec!CreateWindow, Rec!Placeholder, Rec!memory
  <2>2. pass' \in Phases
    BY <1>5 DEF Rec!Ensure, Rec!CreateWindow, Rec!Placeholder, Phases
  <2>3. idling' \in BOOLEAN /\ doubtful' \subseteq RecAgents
    BY <1>5 DEF Rec!Ensure, Rec!CreateWindow, Rec!Placeholder, Rec!Open, Rec!actual, TurnTypes
  <2>4. reading \in RecAgents \cup {Rec!Init__} \/ Rec!Placeholder
    BY <1>5 DEF Rec!Ensure, Rec!CreateWindow, ReadingInv, TurnTypes
  <2>5. existing' \subseteq RecAgents \cup {Rec!Init__} /\ known' \subseteq RecAgents \cup {Rec!Init__}
    BY <1>5, <2>4 DEF Rec!Ensure, Rec!CreateWindow, Rec!Placeholder, TurnTypes, Rec!memory
  <2> QED BY <2>1, <2>2, <2>3, <2>5 DEF TurnTypes
<1>6. CASE Rec!SecondSight /\ UNCHANGED allowEmpty
  BY <1>6 DEF Rec!SecondSight, Rec!CheckDead, TurnTypes, Rec!actual, Phases, Rec!Blank, Rec!Keys
<1>7. CASE Rec!StartCreate /\ UNCHANGED allowEmpty
  BY <1>7 DEF Rec!StartCreate, TurnTypes, Rec!actual, Rec!memory, Phases, Rec!Blank, Rec!Keys
<1>8. CASE Rec!LastSight /\ UNCHANGED allowEmpty
  BY <1>8
  DEF Rec!LastSight, Rec!Forget, Rec!CheckDead, TurnTypes, Rec!actual, Phases, Rec!Blank,
      Rec!Keys
<1>9. CASE Rec!Reap /\ UNCHANGED allowEmpty
  <2>1. UNCHANGED <<pass, draft, enrolled, backoff, known, touched, allowEmpty>>
    BY <1>9 DEF Rec!Reap, Rec!memory
  <2>2. existing' \subseteq existing /\ doubtful' \subseteq doubtful /\ idling' \in {idling, FALSE}
    BY <1>9 DEF Rec!Reap, Rec!Kill, Rec!actual
  <2> QED BY <2>1, <2>2 DEF TurnTypes
<1>10. CASE Rec!EndPass /\ UNCHANGED allowEmpty
  BY <1>10 DEF Rec!EndPass, Rec!Forget, TurnTypes, Rec!actual, Phases, Rec!Blank, Rec!Keys
<1>11. CASE (\E a \in RecAgents : Rec!Elapse(a) \/ Rec!WindowDies(a)) /\ UNCHANGED allowEmpty
  BY <1>11 DEF Rec!Elapse, Rec!WindowDies, Rec!Kill, TurnTypes, Rec!actual, Rec!look, Rec!memory
<1>12. CASE UNCHANGED Rec!vars
  BY <1>12 DEF Rec!vars, TurnTypes, Rec!actual, Rec!look, Rec!memory
<1>13. \A to, next : Rec!ReadKey(to, next) => Rec!ReadKey2(to, to, next)
  BY DEF Rec!ReadKey, Rec!ReadKey2
<1>14. {"profile", "session", "profile2", "open"} \subseteq Phases
  BY DEF Phases
<1> QED
  BY <1>1, <1>2, <1>3, <1>4, <1>5, <1>6, <1>7, <1>8, <1>9, <1>10, <1>11, <1>12, <1>13, <1>14
  DEF Rec!Next, Rec!Step

\* A lifecycle operation leaves the variables of a pass alone, but for what it touches.
LEMMA TurnApart ==
    ASSUME Rec!Lifecycle
    PROVE  UNCHANGED <<pass, enrolled, existing, reading, draft, pending>>
BY DEF Rec!Lifecycle, Rec!Begin, Rec!Reject, Rec!Look, Rec!Write, Rec!Enrol, Rec!Retire,
   Rec!KillWindow, Rec!Abandon, Rec!look

\* Whom a pass is about is one it has read to be enrolled.
LEMMA ReadingKept ==
    ASSUME ReadingInv, Rec!Next \/ UNCHANGED Rec!vars
    PROVE  ReadingInv'
<1>1. CASE UNCHANGED Rec!look
  BY <1>1 DEF Rec!look, ReadingInv
<1>2. CASE Rec!Lifecycle
  BY <1>2, TurnApart DEF ReadingInv
<1>3. CASE Rec!ReadRoster \/ Rec!LastSight \/ Rec!EndPass \/ Rec!Placeholder \/ Rec!Reap
  BY <1>3
  DEF Rec!ReadRoster, Rec!LastSight, Rec!Forget, Rec!EndPass, Rec!Placeholder, Rec!Reap,
      ReadingInv
<1>4. CASE Rec!FirstSight
  BY <1>4, OneMember DEF Rec!FirstSight, ReadingInv
<1>5. CASE Rec!Ensure \/ Rec!CreateWindow \/ Rec!SecondSight
  BY <1>5 DEF Rec!Ensure, Rec!CreateWindow, Rec!SecondSight, ReadingInv
<1>6. CASE Rec!StartCreate
  BY <1>6, OneMember DEF Rec!StartCreate, ReadingInv
<1>7. CASE \/ Rec!ReadKey("launch", "profile") \/ Rec!ReadKey("profile", "session")
           \/ Rec!ReadKey2("launch", "launch2", "profile2") \/ Rec!ReadKey2("profile", "profile2", "open")
  BY <1>7 DEF Rec!ReadKey, Rec!ReadKey2, ReadingInv
<1>8. (\E a \in RecAgents : Rec!Elapse(a) \/ Rec!WindowDies(a)) => UNCHANGED Rec!look
  BY DEF Rec!Elapse, Rec!WindowDies
<1>9. UNCHANGED Rec!vars => UNCHANGED Rec!look
  BY DEF Rec!vars
<1> QED BY <1>1, <1>2, <1>3, <1>4, <1>5, <1>6, <1>7, <1>8, <1>9 DEF Rec!Next, Rec!Step

\* What a lifecycle operation changes of the roster and of the keys it has touched.
LEMMA Untouched ==
    ASSUME Rec!MembershipTypeOK, OperationInv, KeyTypes, TurnTypes, Rec!Lifecycle, pass # "rest"
    PROVE  /\ touched \subseteq touched'
           /\ \A a \in RecAgents \ touched' : registry'[a] = registry[a] /\ desired'[a] = desired[a]
<1>1. CASE Rec!Begin \/ Rec!Reject \/ Rec!Look
  BY <1>1 DEF Rec!Begin, Rec!Reject, Rec!Look, Rec!roster
<1>2. ASSUME op # Rec!Idle, Rec!Touch,
             \A a \in RecAgents : a # op.agent => registry'[a] = registry[a] /\ desired'[a] = desired[a]
      PROVE  /\ touched \subseteq touched'
             /\ \A a \in RecAgents \ touched' : registry'[a] = registry[a] /\ desired'[a] = desired[a]
  BY <1>2, Touches
<1>3. CASE Rec!Write("profile", "launch") \/ Rec!Write("launch", "publish")
  BY <1>2, <1>3 DEF Rec!Write, KeyTypes, Rec!roster, Rec!Idle
<1>4. CASE Rec!Enrol
  BY <1>2, <1>4 DEF Rec!Enrol, Rec!Publish, Rec!MembershipTypeOK, Rec!Idle
<1>5. CASE Rec!Retire
  BY <1>2, <1>5 DEF Rec!Retire, Rec!Remove, Rec!MembershipTypeOK, KeyTypes, Rec!Idle
<1>6. CASE Rec!KillWindow \/ Rec!Abandon
  BY <1>2, <1>6 DEF Rec!KillWindow, Rec!Abandon, Rec!roster, Rec!Idle
<1> QED BY <1>1, <1>3, <1>4, <1>5, <1>6 DEF Rec!Lifecycle

\* An agent that the pass has read and nobody has touched is enrolled.
LEMMA EnrolledKept ==
    ASSUME Rec!MembershipTypeOK, OperationInv, KeyTypes, TurnTypes, EnrolledInv, Rec!Next \/ UNCHANGED Rec!vars
    PROVE  EnrolledInv'
<1>1. CASE Rec!Lifecycle
  <2>1. pass' = pass /\ enrolled' = enrolled
    BY <1>1, TurnApart
  <2>2. CASE pass # "rest"
    BY <1>1, <2>1, <2>2, Untouched DEF EnrolledInv, TurnTypes
  <2> QED BY <2>1, <2>2 DEF EnrolledInv
<1>2. CASE Rec!ReadRoster
  BY <1>2 DEF Rec!ReadRoster, Rec!TmuxAgents, EnrolledInv, Rec!roster
<1>3. CASE UNCHANGED <<registry, enrolled, touched>> /\ pass # "rest"
  BY <1>3 DEF EnrolledInv
<1>4. CASE UNCHANGED <<registry, enrolled, touched, pass>>
  BY <1>4 DEF EnrolledInv
<1>5. CASE Rec!EndPass \/ pass' = "rest"
  BY <1>5 DEF Rec!EndPass, Rec!Forget, EnrolledInv
<1>6. Rec!Step => Rec!ReadRoster \/ Rec!EndPass \/ pass' = "rest"
                  \/ (UNCHANGED <<registry, enrolled, touched>> /\ pass # "rest")
  BY DEF Rec!Step, Rec!FirstSight, Rec!ReadKey, Rec!Ensure, Rec!SecondSight, Rec!StartCreate,
     Rec!ReadKey2, Rec!CreateWindow,
        Rec!LastSight, Rec!Forget, Rec!Placeholder, Rec!Reap, Rec!roster
<1>7. (\E a \in RecAgents : Rec!Elapse(a) \/ Rec!WindowDies(a)) \/ UNCHANGED Rec!vars
        => UNCHANGED <<registry, enrolled, touched, pass>>
  BY DEF Rec!Elapse, Rec!WindowDies, Rec!vars, Rec!roster, Rec!look
<1> QED BY <1>1, <1>2, <1>3, <1>4, <1>5, <1>6, <1>7 DEF Rec!Next

\* The keys a pass has read of an agent nobody has touched are those that are desired.
LEMMA DraftKept ==
    ASSUME Rec!MembershipTypeOK, OperationInv, KeyTypes, TurnTypes, ReadingInv, DraftInv,
           Rec!Next \/ UNCHANGED Rec!vars
    PROVE  DraftInv'
<1>1. CASE Rec!Lifecycle
  <2>1. pass' = pass /\ draft' = draft /\ reading' = reading
    BY <1>1, TurnApart
  <2>2. CASE pass \in {"profile", "profile2", "open", "session"}
    <3>1. reading \in RecAgents \/ (reading = Rec!Init__ /\ pass = "session")
      BY <2>2 DEF ReadingInv, TurnTypes
    <3> QED BY <1>1, <2>1, <2>2, <3>1, Untouched DEF DraftInv
  <2> QED BY <2>1, <2>2 DEF DraftInv
<1>2. CASE UNCHANGED <<pass, draft, reading, touched, desired>>
  BY <1>2 DEF DraftInv
<1>3. CASE pass' \notin {"profile", "profile2", "session", "open"}
  BY <1>3 DEF DraftInv
<1>4. CASE Rec!FirstSight
  BY <1>4 DEF Rec!FirstSight, DraftInv
<1>5. ASSUME NEW to, NEW next, Rec!ReadKey2("launch", to, next), next \in {"profile", "profile2"}
      PROVE  DraftInv'
  BY <1>5 DEF Rec!ReadKey2, DraftInv, TurnTypes, Rec!Keys, Rec!life
<1>6. ASSUME NEW to, NEW next, Rec!ReadKey2("profile", to, next), to \in {"profile", "profile2"}
      PROVE  DraftInv'
  <2>1. reading \in RecAgents /\ reading' = reading /\ UNCHANGED <<desired, touched>>
    BY <1>6 DEF Rec!ReadKey2, ReadingInv, TurnTypes, Rec!life
  <2>2. draft' = [draft EXCEPT !["profile"] = desired[reading]["profile"]]
    BY <1>6 DEF Rec!ReadKey2
  <2>3. draft \in Rec!Keys /\ desired[reading] \in Rec!Keys
    BY <2>1 DEF TurnTypes, KeyTypes
  <2>4. reading \notin touched => draft' = desired[reading]
    BY <1>6, <2>2, <2>3 DEF DraftInv, Rec!Keys, Rec!ReadKey2
  <2> QED BY <2>1, <2>4 DEF DraftInv
<1>7. \A to, next : Rec!ReadKey(to, next) => Rec!ReadKey2(to, to, next)
  BY DEF Rec!ReadKey, Rec!ReadKey2
<1>8. Rec!Step => \/ Rec!FirstSight \/ pass' \notin {"profile", "profile2", "session", "open"}
                  \/ UNCHANGED <<pass, draft, reading, touched, desired>>
                  \/ Rec!ReadKey("launch", "profile") \/ Rec!ReadKey("profile", "session")
                  \/ Rec!ReadKey2("launch", "launch2", "profile2") \/ Rec!ReadKey2("profile", "profile2", "open")
  BY DEF Rec!Step, Rec!ReadRoster, Rec!Ensure, Rec!SecondSight, Rec!StartCreate,
     Rec!CreateWindow, Rec!LastSight, Rec!Forget,
        Rec!Placeholder, Rec!Reap, Rec!EndPass, Rec!life
<1>9. (\E a \in RecAgents : Rec!Elapse(a) \/ Rec!WindowDies(a)) \/ UNCHANGED Rec!vars
        => UNCHANGED <<pass, draft, reading, touched, desired>>
  BY DEF Rec!Elapse, Rec!WindowDies, Rec!vars, Rec!life, Rec!look
<1> QED BY <1>1, <1>2, <1>3, <1>4, <1>5, <1>6, <1>7, <1>8, <1>9 DEF Rec!Next

\* Every agent's window fits, or the operation at hand is about to see to it.
LEMMA FitsKept ==
    ASSUME Rec!MembershipTypeOK, OperationInv, KeyTypes, TurnInv, FitsInv, Rec!Next \/ UNCHANGED Rec!vars
    PROVE  FitsInv'
<1> SUFFICES ASSUME NEW a \in RecAgents PROVE Fits(a)'
  BY DEF FitsInv
<1>0. Fits(a)
  BY DEF FitsInv
\* Windows created and killed, while registry, keys and operation stay.
<1>1. ASSUME UNCHANGED <<registry, desired, op>>,
             \/ window'[a] = Rec!Gone
             \/ window'[a] = window[a] /\ (a \in doubtful => a \in doubtful')
             \/ a \in doubtful'
             \/ registry[a] = "tmux" /\ window'[a] = desired[a]
      PROVE  Fits(a)'
  BY <1>0, <1>1 DEF Fits, Rec!HasWindow, Settling
<1>2. ASSUME NEW hit, Rec!Kill(hit), UNCHANGED <<registry, desired, op>>
      PROVE  Fits(a)'
  BY <1>1, <1>2 DEF Rec!Kill
<1>3. ASSUME UNCHANGED <<registry, desired, op, window, doubtful>>
      PROVE  Fits(a)'
  BY <1>1, <1>3
<1>4. ASSUME NEW name, Rec!Open(name), name \in enrolled \cup {Rec!Init__}, UNCHANGED <<registry, desired, op>>,
             pass # "rest", name # Rec!Init__ /\ name \notin touched => draft = desired[name]
      PROVE  Fits(a)'
  <2>1. CASE a = name /\ name # Rec!Init__
    BY <1>1, <1>4, <2>1 DEF Rec!Open, KeyTypes, TurnInv, EnrolledInv
  <2>2. CASE ~(a = name /\ name # Rec!Init__)
    BY <1>1, <1>4, <2>2 DEF Rec!Open, KeyTypes
  <2> QED BY <2>1, <2>2
\* An operation that changes its agent's keys or enrolment.
<1>5. CASE Rec!Begin
  BY <1>0, <1>5 DEF Rec!Begin, Fits, Rec!HasWindow, Settling, Rec!roster, Rec!actual, Rec!Idle
<1>6. CASE Rec!Reject \/ Rec!Look
  <2>1. ~Settling(a) /\ UNCHANGED <<registry, desired, window, doubtful>>
    BY <1>6 DEF Rec!Reject, Rec!Look, Settling, OperationInv, Rec!roster, Rec!actual, Rec!Idle
  <2> QED BY <1>0, <2>1 DEF Fits, Rec!HasWindow
<1>7. ASSUME NEW f \in {"profile", "launch"}, NEW next, Rec!Write(f, next)
      PROVE  Fits(a)'
  <2>1. /\ op # Rec!Idle /\ op \in Operations /\ op.kind \in {"new", "again"} /\ op.at # "kill"
        /\ UNCHANGED <<registry, window, doubtful>>
    BY <1>7 DEF Rec!Write, OperationInv, Rec!Idle, Rec!roster, Rec!actual
  <2>2. op'.agent = op.agent /\ op' # Rec!Idle
    BY <1>7, <2>1 DEF Rec!Write, Operations, Rec!Idle
  <2>3. op'.changed = (op.changed \/ (op.kind = "again" /\ desired[op.agent][f] # op.want[f]))
    BY <1>7, <2>1 DEF Rec!Write, Operations
  <2>4. CASE a # op.agent
    BY <1>0, <1>7, <2>1, <2>2, <2>4 DEF Fits, Rec!HasWindow, Settling, Rec!Write, KeyTypes
  <2>5. CASE a = op.agent /\ op.changed
    BY <2>2, <2>3, <2>5 DEF Fits, Settling
  <2>6. CASE a = op.agent /\ ~op.changed /\ op.kind = "new"
    BY <1>0, <2>1, <2>6 DEF Fits, Settling, Rec!HasWindow, OperationInv
  <2>7. CASE a = op.agent /\ ~op.changed /\ op.kind = "again" /\ desired[op.agent][f] # op.want[f]
    BY <2>2, <2>3, <2>7 DEF Fits, Settling
  <2>8. CASE a = op.agent /\ ~op.changed /\ op.kind = "again" /\ desired[op.agent][f] = op.want[f]
    <3>1. desired[a] \in Rec!Keys
      BY DEF KeyTypes
    <3>2. [desired[a] EXCEPT ![f] = desired[a][f]] = desired[a]
      BY <3>1 DEF Rec!Keys
    <3>3. desired'[a] = [desired[a] EXCEPT ![f] = desired[a][f]]
      BY <1>7, <2>8 DEF Rec!Write, KeyTypes
    <3> QED BY <1>0, <2>1, <2>8, <3>2, <3>3 DEF Fits, Settling, Rec!HasWindow
  <2> QED BY <2>1, <2>4, <2>5, <2>6, <2>7, <2>8
<1>8. CASE Rec!Enrol
  <2>1. /\ op # Rec!Idle /\ op \in Operations /\ op.at = "publish"
        /\ op.kind \in {"api", "new", "again"}
        /\ UNCHANGED <<desired, window>> /\ doubtful \subseteq doubtful'
    BY <1>8 DEF Rec!Enrol, OperationInv, Rec!Idle, Rec!actual, Operations
  <2>2. a # op.agent => registry'[a] = registry[a]
    BY <1>8 DEF Rec!Enrol, Rec!Publish, Rec!MembershipTypeOK
  <2>3. op.changed => op' # Rec!Idle /\ op'.changed /\ op'.agent = op.agent
    BY <1>8, <2>1 DEF Rec!Enrol, Operations, Rec!Idle
  <2>4. CASE a # op.agent
    BY <1>0, <2>1, <2>2, <2>4 DEF Fits, Rec!HasWindow, Settling
  <2>5. CASE a = op.agent /\ op.changed
    BY <2>3, <2>5 DEF Fits, Settling
  <2>6. CASE a = op.agent /\ ~op.changed
    <3>1. ~Settling(a)
      BY <2>1, <2>6 DEF Settling
    <3>2. CASE op.kind = "api"
      BY <1>8, <2>6, <3>2 DEF Rec!Enrol, Fits
    <3>3. CASE op.kind = "new"
      BY <1>0, <2>1, <2>6, <3>1, <3>3 DEF Fits, Rec!HasWindow, OperationInv
    <3>4. CASE op.kind = "again"
      <4>1. registry'[a] = registry[a]
        BY <1>8, <2>1, <2>6, <3>4 DEF Rec!Enrol, Rec!Publish, Rec!MembershipTypeOK, OperationInv
      <4> QED BY <1>0, <2>1, <3>1, <4>1 DEF Fits, Rec!HasWindow
    <3> QED BY <2>1, <3>2, <3>3, <3>4
  <2> QED BY <2>4, <2>5, <2>6
<1>9. CASE Rec!Retire
  <2>1. op # Rec!Idle /\ op \in Operations
    BY <1>9 DEF Rec!Retire, OperationInv, Rec!Idle
  <2>2. UNCHANGED window /\ doubtful \subseteq doubtful'
    BY <1>9 DEF Rec!Retire, Rec!actual
  <2>3. CASE a # op.agent
    BY <1>0, <1>9, <2>1, <2>2, <2>3
    DEF Fits, Rec!HasWindow, Settling, Rec!Retire, Rec!Remove, KeyTypes, Rec!MembershipTypeOK,
        Operations
  <2>4. CASE a = op.agent /\ registry[a] = "api"
    BY <1>9, <2>4 DEF Rec!Retire, Fits
  <2>5. CASE a = op.agent /\ registry[a] # "api"
    <3>1. op' = [op EXCEPT !.at = "kill"]
      BY <1>9, <2>5 DEF Rec!Retire
    <3>2. op'.at = "kill" /\ op'.agent = a /\ op' # Rec!Idle
      BY <2>1, <2>5, <3>1 DEF Operations, Rec!Idle
    <3> QED BY <3>2 DEF Fits, Settling
  <2> QED BY <2>3, <2>4, <2>5
<1>10. CASE Rec!KillWindow
  <2>1. op # Rec!Idle /\ UNCHANGED <<registry, desired>>
    BY <1>10 DEF Rec!KillWindow, Rec!Idle, Rec!roster
  <2>2. CASE a = op.agent
    BY <1>10, <2>2 DEF Rec!KillWindow, Rec!Kill, Rec!Hit, Rec!HasWindow, Fits
  <2>3. CASE a # op.agent
    BY <1>0, <1>10, <2>1, <2>3 DEF Rec!KillWindow, Rec!Kill, Rec!HasWindow, Fits, Settling
  <2> QED BY <2>2, <2>3
<1>11. CASE Rec!Abandon
  BY <1>0, <1>11 DEF Rec!Abandon, Fits, Settling, Rec!HasWindow, Rec!roster, Rec!actual
<1>12. CASE Rec!Lifecycle
  BY <1>5, <1>6, <1>7, <1>8, <1>9, <1>10, <1>11, <1>12 DEF Rec!Lifecycle
\* The reconciler.
<1>13. CASE Rec!Ensure
  BY <1>3, <1>4, <1>13
  DEF Rec!Ensure, TurnInv, ReadingInv, DraftInv, Rec!roster, Rec!life, Rec!actual
<1>14. CASE Rec!CreateWindow
  <2>1. reading \in enrolled /\ pass = "open" /\ UNCHANGED <<registry, desired, op>>
    BY <1>14 DEF Rec!CreateWindow, TurnInv, ReadingInv, Rec!roster, Rec!life
  <2>2. reading # Rec!Init__ /\ reading \notin touched => draft = desired[reading]
    BY <2>1 DEF TurnInv, DraftInv
  <2>3. Rec!Open(reading) \/ UNCHANGED <<window, doubtful>>
    BY <1>14 DEF Rec!CreateWindow, Rec!actual
  <2> QED BY <1>3, <1>4, <2>1, <2>2, <2>3
<1>15. CASE Rec!Placeholder
  BY <1>3, <1>15 DEF Rec!Placeholder, Rec!Open, Rec!roster, Rec!life, Rec!actual
<1>16. CASE Rec!Reap
  BY <1>2, <1>3, <1>16 DEF Rec!Reap, Rec!roster, Rec!life, Rec!actual
<1>17. CASE Rec!Step /\ ~Rec!Ensure /\ ~Rec!CreateWindow /\ ~Rec!Placeholder /\ ~Rec!Reap
  BY <1>3, <1>17
  DEF Rec!Step, Rec!ReadRoster, Rec!FirstSight, Rec!ReadKey, Rec!SecondSight, Rec!StartCreate,
      Rec!ReadKey2, Rec!LastSight, Rec!EndPass,
      Rec!roster, Rec!life, Rec!actual
<1>18. CASE (\E b \in RecAgents : Rec!Elapse(b) \/ Rec!WindowDies(b)) \/ UNCHANGED Rec!vars
  BY <1>2, <1>3, <1>18
  DEF Rec!Elapse, Rec!WindowDies, Rec!vars, Rec!roster, Rec!life, Rec!actual
<1> QED BY <1>12, <1>13, <1>14, <1>15, <1>16, <1>17, <1>18 DEF Rec!Next

(* The theorem *)

\* It holds when the reconciler starts.
LEMMA ReconcilerInit ==
    ASSUME ReconcilerConstants, Rec!Init
    PROVE  ReconcilerInv
<1>1. Rec!MembershipTypeOK
  BY DEF Rec!Init, Rec!MembershipInit, Rec!MembershipTypeOK, Rec!Ports, ReconcilerConstants
<1>2. KeyTypes
  BY DEF Rec!Init, KeyTypes, Rec!Keys, Rec!Blank
<1>3. TurnInv
  BY DEF Rec!Init, TurnInv, TurnTypes, ReadingInv, EnrolledInv, DraftInv, Phases, Rec!Keys,
     Rec!Blank
<1>4. FitsInv
  BY DEF Rec!Init, FitsInv, Fits, Rec!HasWindow, Rec!MembershipInit, Rec!Member
<1> QED BY <1>1, <1>2, <1>3, <1>4 DEF ReconcilerInv, OperationInv, Rec!Init

\* It is kept by every step.
LEMMA ReconcilerStep ==
    ASSUME ReconcilerConstants, ReconcilerInv, Rec!Next \/ UNCHANGED Rec!vars
    PROVE  ReconcilerInv'
BY RosterKept, OperationKept, KeyTypesKept, TurnTypesKept, ReadingKept, EnrolledKept, DraftKept,
   FitsKept
DEF ReconcilerInv, TurnInv

\* And it implies the properties.
LEMMA WindowCurrentFollows ==
    ASSUME ReconcilerInv
    PROVE  Rec!WindowCurrent /\ Rec!TypeOK
<1>1. Rec!WindowCurrent
  BY DEF ReconcilerInv, FitsInv, Fits, Settling, Rec!WindowCurrent
<1>2. Rec!TypeOK
  BY DEF ReconcilerInv, KeyTypes, TurnInv, TurnTypes, Rec!TypeOK
<1> QED BY <1>1, <1>2

\* Whatever is hired again, stopped, hired back, killed or dies, and however a pass of the
\* reconciler overlaps with it: between operations the window of an agent runs what its keys
\* say, but for the names left in doubt.
THEOREM ReconcilerSafe ==
    ASSUME ReconcilerConstants
    PROVE  Rec!Spec => [](Rec!WindowCurrent /\ Rec!TypeOK)
<1>1. Rec!Init => ReconcilerInv
  BY ReconcilerInit
<1>2. ReconcilerInv /\ [Rec!Next]_Rec!vars => ReconcilerInv'
  BY ReconcilerStep
<1>3. ReconcilerInv => Rec!WindowCurrent /\ Rec!TypeOK
  BY WindowCurrentFollows
<1> QED BY <1>1, <1>2, <1>3, PTL DEF Rec!Spec

-----------------------------------------------------------------------------
(* The daemons of an install                                                *)

CONSTANTS DmnInstalls, DmnCommands, DmnPids, DmnMaxFaults
VARIABLES install, proc, clock, pidfile, identity, job, begun, astray, disturbed,
          residue

Dmn == INSTANCE Daemons WITH
    Installs <- DmnInstalls, Commands <- DmnCommands, Pids <- DmnPids,
    MaxFaults <- DmnMaxFaults

\* Of the constants: pids are positive, a daemon is no unrelated process, and an install has
\* room for the process it is found with and for another.
DaemonsConstants ==
    /\ DmnPids # {} /\ DmnPids \subseteq Nat \ {0}
    /\ Dmn!Names \cap {"else", "nothing"} = {}
    /\ DmnMaxFaults \in Nat
    /\ \A i \in DmnInstalls :
          i.modules \in Seq(Dmn!Names) /\ i.processes \in Nat /\ i.processes >= 2

\* Processes have start times of their own, which were given before.
Processes == [runs : Dmn!Names \cup {"else"}, since : Nat \ {0}]
WorldInv ==
    /\ install \in DmnInstalls
    /\ clock \in 1 .. install.processes
    /\ proc \in [DmnPids -> Processes \cup {Dmn!NoProcess}]
    /\ \A p \in DmnPids : proc[p].since <= clock

\* The process that was given a pid at a time, if it is there still, runs a daemon.
Was(p, x, n) == x \in 1 .. clock /\ (proc[p].since = x => proc[p].runs = n)

\* An identity is of a process that ran the daemon.
Identities == [pid : DmnPids, since : Nat \ {0}] \cup {Dmn!NoIdentity, Dmn!TornIdentity}
FilesInv ==
    /\ pidfile \in [Dmn!Names -> DmnPids \cup {Dmn!NoPid, Dmn!Torn}]
    /\ identity \in [Dmn!Names -> Identities]
    /\ \A n \in Dmn!Names : identity[n].pid \in DmnPids => Was(identity[n].pid, identity[n].since, n)

\* What a command knows of processes is so.
Looking == {"open", "identity", "compare", "confirm", "term", "wait"}
Making  == {"create", "write", "create identity", "write identity"}
Started == [name : Dmn!Names, pid : DmnPids \cup {Dmn!NoPid}, since : Nat \ {0}]
Jobs == [does : {"rest", "start", "stop", "undo"},
         at : {"rest", "next", "unlink", "unlink identity", "spawn"} \cup Looking \cup Making,
         left : Seq(Dmn!Names), then : Seq(Dmn!Names), pid : DmnPids \cup {Dmn!NoPid}, fd : Nat, told : Nat,
         started : Seq(Started)]
Sound(j) ==
    /\ j \in Jobs
    /\ j = Dmn!Idle \/ (j.at # "rest" /\ j.does # "rest")
    /\ j.at \notin {"rest", "next"} => j.left # <<>>
    /\ j.at \in Looking \cup Making => j.pid \in DmnPids
    /\ j.fd <= clock
    /\ j.at \in Looking \ {"open"} => j.fd >= 1
    /\ j.at = "compare" => Was(j.pid, j.told, Head(j.left))
    /\ j.at \in {"confirm", "term", "wait"} \cup Making => Was(j.pid, j.fd, Head(j.left))
    /\ j.at \in Making \cup {"spawn"} => j.does = "start"
    /\ j.then # <<>> => j.does = "stop"
    /\ \A i \in DOMAIN j.started :
          j.started[i].pid # Dmn!NoPid =>
              Was(j.started[i].pid, j.started[i].since, j.started[i].name)
JobsInv == /\ job \in [DmnCommands -> Jobs]
           /\ \A c \in DmnCommands : Sound(job[c])

CountersInv == faults \in 0 .. DmnMaxFaults /\ astray = FALSE /\ disturbed \in BOOLEAN

\* While nothing has been disturbed, only stops run beside others.
AloneInv == \A c, d \in DmnCommands :
    c # d /\ job[c] # Dmn!Idle /\ job[d] # Dmn!Idle => job[c].does = "stop" /\ job[c].then = <<>>

\* A daemon that runs is told of by its files, or a start is about to write them.
Tells(p) == /\ pidfile[proc[p].runs] = p
            /\ identity[proc[p].runs] \in {Dmn!NoIdentity, [pid |-> p, since |-> proc[p].since]}
Makes(j, p) == /\ j.at \in Making /\ Head(j.left) = proc[p].runs
               /\ j.pid = p /\ j.fd = proc[p].since
ToldInv == \A p \in DmnPids : proc[p].runs \in Dmn!Names =>
              Tells(p) \/ \E c \in DmnCommands : Makes(job[c], p)

\* A command knows of the one process that runs its daemon, or there is none.
Runs(n) == {p \in DmnPids : proc[p].runs = n}
Knows(j) ==
    LET n == Head(j.left) IN
    /\ j.at = "open" => \A p \in Runs(n) : p = j.pid
    /\ j.at \in (Looking \ {"open"}) \cup Making =>
          \A p \in Runs(n) : p = j.pid /\ proc[p].since = j.fd
    /\ j.at = "compare" => \A p \in Runs(n) : proc[p].since = j.told
    /\ j.at \in {"unlink", "unlink identity", "spawn"} => Runs(n) = {}
    /\ j.at \in {"create identity", "write identity"} => pidfile[n] = j.pid
    /\ j.does = "undo" => \A i \in DOMAIN j.started :
          Dmn!Healthy(j.started[i]) => \E k \in DOMAIN j.left : j.left[k] = j.started[i].name
KnowsInv == \A c \in DmnCommands : Knows(job[c])

TrackedInv == ~disturbed => AloneInv /\ ToldInv /\ KnowsInv /\ residue = {}

DaemonsInv == WorldInv /\ FilesInv /\ JobsInv /\ CountersInv /\ TrackedInv

(* Processes come and go *)

\* The parts of a command.
LEMMA Fields ==
    ASSUME NEW j \in Jobs
    PROVE  /\ j.does \in {"rest", "start", "stop", "undo"}
           /\ j.at \in {"rest", "next", "unlink", "unlink identity", "spawn"}
                          \cup Looking \cup Making
           /\ j.left \in Seq(Dmn!Names) /\ j.then \in Seq(Dmn!Names)
           /\ j.pid \in DmnPids \cup {Dmn!NoPid} /\ j.fd \in Nat /\ j.told \in Nat
           /\ j.started \in Seq(Started)
           /\ \A i \in DOMAIN j.started : j.started[i] \in Started
           /\ j.left # <<>> => Head(j.left) \in Dmn!Names /\ Tail(j.left) \in Seq(Dmn!Names)
<1>1. j.started \in Seq(Started) /\ j.left \in Seq(Dmn!Names)
  BY DEF Jobs
<1>2. \A i \in DOMAIN j.started : j.started[i] \in Started
  BY <1>1
<1>3. j.left # <<>> => Head(j.left) \in Dmn!Names /\ Tail(j.left) \in Seq(Dmn!Names)
  BY <1>1
<1> QED BY <1>1, <1>2, <1>3 DEF Jobs

\* A step leaves the process of a pid, ends it, or gives the pid to one that starts now.
Passes == /\ install' = install /\ clock \in Nat /\ clock' \in Nat /\ clock <= clock'
          /\ \A p \in DmnPids : \/ proc'[p] = proc[p]
                                \/ proc'[p] = Dmn!NoProcess
                                \/ proc'[p].since = clock' /\ clock < clock'

\* A step that changes no process.
LEMMA StandStill ==
    ASSUME DaemonsConstants, WorldInv, install' = install, proc' = proc, clock' = clock
    PROVE  WorldInv' /\ Passes
BY DEF WorldInv, Passes, DaemonsConstants

\* A step that ends one.
LEMMA EndsOne ==
    ASSUME DaemonsConstants, WorldInv, install' = install, NEW p \in DmnPids,
           proc' = [proc EXCEPT ![p] = Dmn!NoProcess], clock' = clock
    PROVE  WorldInv' /\ Passes
<1>1. \A q \in DmnPids : proc'[q] \in {proc[q], Dmn!NoProcess}
  BY DEF WorldInv
<1> QED BY <1>1 DEF WorldInv, Passes, DaemonsConstants, Dmn!NoProcess

\* A step that starts one.
LEMMA StartsOne ==
    ASSUME DaemonsConstants, WorldInv, install' = install, NEW p \in DmnPids,
           NEW runs \in Dmn!Names \cup {"else"}, clock < install.processes,
           proc' = Dmn!Process(p, runs, clock + 1), clock' = clock + 1
    PROVE  WorldInv' /\ Passes
<1>1. \A q \in DmnPids : proc'[q] = IF q = p THEN [runs |-> runs, since |-> clock + 1] ELSE proc[q]
  BY DEF WorldInv, Dmn!Process
<1>2. clock \in Nat /\ clock + 1 \in 1 .. install.processes
  BY DEF WorldInv, DaemonsConstants
<1>3. proc' \in [DmnPids -> Processes \cup {Dmn!NoProcess}]
  BY <1>2 DEF WorldInv, Dmn!Process, Processes
<1>4. \A q \in DmnPids : proc'[q].since <= clock'
  <2>1. \A q \in DmnPids : proc[q].since \in Nat
    BY DEF WorldInv, Processes, Dmn!NoProcess
  <2> QED BY <1>1, <1>2, <2>1 DEF WorldInv
<1> QED BY <1>1, <1>2, <1>3, <1>4 DEF WorldInv, Passes

\* So every step is: a start time is given once.
LEMMA WorldKept ==
    ASSUME DaemonsConstants, WorldInv, JobsInv, Dmn!Next \/ UNCHANGED Dmn!dvars
    PROVE  WorldInv' /\ Passes
<1>1. CASE UNCHANGED Dmn!dvars
  BY <1>1, StandStill DEF Dmn!dvars
<1>2. ASSUME NEW p \in DmnPids, Dmn!Exit(p), UNCHANGED install
      PROVE  WorldInv' /\ Passes
  BY <1>2, EndsOne DEF Dmn!Exit
<1>3. ASSUME NEW p \in DmnPids, Dmn!Arrives(p), UNCHANGED install
      PROVE  WorldInv' /\ Passes
  BY <1>3, StartsOne DEF Dmn!Arrives
<1>4. ASSUME NEW c \in DmnCommands, UNCHANGED install,
             \/ Dmn!Begin(c) \/ Dmn!ReadPid(c) \/ Dmn!OpenPidfd(c) \/ Dmn!ReadIdentity(c) \/ Dmn!Compare(c)
             \/ Dmn!Confirm(c) \/ Dmn!Term(c) \/ Dmn!Exited(c) \/ Dmn!CannotSignal(c) \/ Dmn!Unlink(c)
             \/ Dmn!UnlinkIdentity(c) \/ Dmn!SpawnFails(c) \/ Dmn!WritePid(c) \/ Dmn!WriteIdentity(c)
             \/ Dmn!Finish(c) \/ Dmn!Killed(c)
      PROVE  WorldInv' /\ Passes
  <2>1. UNCHANGED <<proc, clock>>
    BY <1>4
    DEF Dmn!Begin, Dmn!ReadPid, Dmn!OpenPidfd, Dmn!ReadIdentity, Dmn!Compare, Dmn!Confirm,
        Dmn!Term, Dmn!Exited, Dmn!CannotSignal,
        Dmn!Unlink, Dmn!UnlinkIdentity, Dmn!SpawnFails, Dmn!WritePid, Dmn!WriteIdentity, Dmn!Finish, Dmn!Killed
  <2> QED BY <1>4, <2>1, StandStill
<1>5. ASSUME NEW c \in DmnCommands, UNCHANGED install, Dmn!KillDaemon(c)
      PROVE  WorldInv' /\ Passes
  <2>1. job[c].pid \in DmnPids
    BY <1>5 DEF Dmn!KillDaemon, JobsInv, Sound, Looking
  <2> QED BY <1>5, <2>1, EndsOne DEF Dmn!KillDaemon
<1>6. ASSUME NEW c \in DmnCommands, UNCHANGED install, Dmn!Spawn(c)
      PROVE  WorldInv' /\ Passes
  <2>1. Dmn!This(c) \in Dmn!Names
    <3>1. job[c] \in Jobs /\ job[c].left # <<>>
      BY <1>6 DEF Dmn!Spawn, JobsInv, Sound
    <3> QED BY <3>1, Fields DEF Dmn!This
  <2> QED BY <1>6, <2>1, StartsOne DEF Dmn!Spawn
<1>7. ASSUME NEW c \in DmnCommands, UNCHANGED install, Dmn!WriteFails(c)
      PROVE  WorldInv' /\ Passes
  <2>1. job[c].pid \in DmnPids
    BY <1>7 DEF Dmn!WriteFails, JobsInv, Sound, Making
  <2> QED BY <1>7, <2>1, EndsOne, StandStill DEF Dmn!WriteFails
<1> QED BY <1>1, <1>2, <1>3, <1>4, <1>5, <1>6, <1>7 DEF Dmn!Next, Dmn!Step

\* What a process was it remains, for another has another start time.
LEMMA WasKept ==
    ASSUME WorldInv, Passes, NEW p \in DmnPids, NEW x, NEW n, Was(p, x, n)
    PROVE  Was(p, x, n)'
<1>1. x \in Nat /\ x >= 1 /\ x <= clock /\ proc[p].since \in Nat
  BY DEF Was, WorldInv, Processes, Dmn!NoProcess, Passes
<1>2. CASE proc'[p] = proc[p]
  BY <1>1, <1>2 DEF Was, Passes
<1>3. CASE proc'[p] = Dmn!NoProcess
  BY <1>1, <1>3 DEF Was, Passes, Dmn!NoProcess
<1>4. CASE proc'[p].since = clock' /\ clock < clock'
  BY <1>1, <1>4 DEF Was, Passes
<1> QED BY <1>2, <1>3, <1>4 DEF Passes

\* What a command knows stays so.
LEMMA SoundKept ==
    ASSUME WorldInv, Passes, NEW j, Sound(j)
    PROVE  Sound(j)'
<1>0. j.fd \in Nat /\ j.fd <= clock
  BY Fields DEF Sound
<1>1. j.fd <= clock'
  BY <1>0 DEF Passes
<1>2. \A p, x, n : p \in DmnPids /\ Was(p, x, n) => Was(p, x, n)'
  BY WasKept
<1>3. \A i \in DOMAIN j.started : j.started[i].pid # Dmn!NoPid =>
         Was(j.started[i].pid, j.started[i].since, j.started[i].name)'
  <2> SUFFICES ASSUME NEW i \in DOMAIN j.started, j.started[i].pid # Dmn!NoPid
               PROVE  Was(j.started[i].pid, j.started[i].since, j.started[i].name)'
    OBVIOUS
  <2>1. j.started[i].pid \in DmnPids
    BY Fields DEF Sound, Started
  <2> QED BY <2>1, WasKept DEF Sound
<1>4. j.at = "compare" => Was(j.pid, j.told, Head(j.left))'
  BY <1>2 DEF Sound, Looking
<1>5. j.at \in {"confirm", "term", "wait"} \cup Making => Was(j.pid, j.fd, Head(j.left))'
  BY <1>2 DEF Sound, Looking
<1> QED BY <1>1, <1>3, <1>4, <1>5 DEF Sound

(* The files *)

\* What is written into an identity file is true of the process.
LEMMA FilesKept ==
    ASSUME DaemonsConstants, WorldInv, FilesInv, JobsInv, Passes, Dmn!Next \/ UNCHANGED Dmn!dvars
    PROVE  FilesInv'
<1>1. ASSUME NEW n \in Dmn!Names, NEW p \in DmnPids \cup {Dmn!NoPid, Dmn!Torn}, NEW id \in Identities,
             \/ pidfile' = [pidfile EXCEPT ![n] = p] /\ identity' = identity
             \/ pidfile' = pidfile /\ identity' = [identity EXCEPT ![n] = id]
             \/ /\ pidfile' = [pidfile EXCEPT ![n] = p]
                /\ identity' = [identity EXCEPT ![n] = id]
             \/ UNCHANGED Dmn!files,
             id.pid \in DmnPids => Was(id.pid, id.since, n)
      PROVE  FilesInv'
  <2>1. pidfile' \in [Dmn!Names -> DmnPids \cup {Dmn!NoPid, Dmn!Torn}] /\ identity' \in [Dmn!Names -> Identities]
    BY <1>1 DEF FilesInv, Dmn!files
  <2>2. \A m \in Dmn!Names : identity'[m].pid \in DmnPids =>
           Was(identity'[m].pid, identity'[m].since, m)
    BY <1>1 DEF FilesInv, Dmn!files
  <2>3. \A q, x, m : q \in DmnPids /\ Was(q, x, m) => Was(q, x, m)'
    BY WasKept
  <2>4. \A m \in Dmn!Names : identity'[m].pid \in DmnPids =>
           Was(identity[m].pid, identity[m].since, m)'
    <3> SUFFICES ASSUME NEW m \in Dmn!Names, identity'[m].pid \in DmnPids
                 PROVE  Was(identity[m].pid, identity[m].since, m)'
      OBVIOUS
    <3>1. PICK q, x : q = identity'[m].pid /\ x = identity'[m].since
      OBVIOUS
    <3>2. Was(q, x, m)'
      BY <2>2, <2>3, <3>1
    <3> QED BY <3>1, <3>2 DEF Was
  <2> QED BY <2>1, <2>4 DEF FilesInv
<1>2. ASSUME UNCHANGED Dmn!files PROVE FilesInv'
  <2>1. CASE Dmn!Names # {}
    <3>1. PICK n \in Dmn!Names : TRUE
      BY <2>1
    <3>2. Dmn!NoIdentity \in Identities /\ Dmn!NoIdentity.pid \notin DmnPids
      BY DEF Identities, Dmn!NoIdentity, Dmn!NoPid, DaemonsConstants
    <3> QED BY <1>1, <1>2, <3>1, <3>2
  <2>2. CASE Dmn!Names = {}
    BY <1>2, <2>2 DEF FilesInv, Dmn!files
  <2> QED BY <2>1, <2>2
<1>3. CASE UNCHANGED Dmn!dvars
  BY <1>2, <1>3 DEF Dmn!dvars
<1>4. ASSUME NEW p \in DmnPids, Dmn!Exit(p) \/ Dmn!Arrives(p)
      PROVE  FilesInv'
  BY <1>2, <1>4 DEF Dmn!Exit, Dmn!Arrives
<1>5. ASSUME NEW c \in DmnCommands,
             \/ Dmn!Begin(c) \/ Dmn!ReadPid(c) \/ Dmn!OpenPidfd(c) \/ Dmn!ReadIdentity(c) \/ Dmn!Compare(c)
             \/ Dmn!Confirm(c) \/ Dmn!Term(c) \/ Dmn!Exited(c) \/ Dmn!KillDaemon(c) \/ Dmn!CannotSignal(c)
             \/ Dmn!Spawn(c) \/ Dmn!SpawnFails(c) \/ Dmn!Finish(c) \/ Dmn!Killed(c)
      PROVE  FilesInv'
  BY <1>2, <1>5
  DEF Dmn!Begin, Dmn!ReadPid, Dmn!OpenPidfd, Dmn!ReadIdentity, Dmn!Compare, Dmn!Confirm,
      Dmn!Term, Dmn!Exited, Dmn!KillDaemon,
      Dmn!CannotSignal, Dmn!Spawn, Dmn!SpawnFails, Dmn!Finish, Dmn!Killed
<1>6. ASSUME NEW c \in DmnCommands, Dmn!Unlink(c) \/ Dmn!UnlinkIdentity(c) \/ Dmn!WritePid(c) \/ Dmn!WriteIdentity(c)
                                    \/ Dmn!WriteFails(c)
      PROVE  FilesInv'
  <2>1. Sound(job[c]) /\ job[c].left # <<>>
    BY <1>6
    DEF Dmn!Unlink, Dmn!UnlinkIdentity, Dmn!WritePid, Dmn!WriteIdentity, Dmn!WriteFails,
        JobsInv, Sound
  <2>2. Dmn!This(c) \in Dmn!Names /\ job[c].fd \in Nat /\ job[c].pid \in DmnPids \cup {Dmn!NoPid}
    BY <2>1, Fields DEF Dmn!This, Sound
  <2>3. Dmn!NoIdentity \in Identities /\ Dmn!TornIdentity \in Identities /\ Dmn!NoIdentity.pid \notin DmnPids
        /\ Dmn!TornIdentity.pid \notin DmnPids
    BY DEF Identities, Dmn!NoIdentity, Dmn!TornIdentity, DaemonsConstants, Dmn!NoPid, Dmn!Torn
  <2>4. CASE Dmn!Unlink(c)
    BY <1>1, <2>2, <2>3, <2>4 DEF Dmn!Unlink
  <2>5. CASE Dmn!UnlinkIdentity(c)
    BY <1>1, <2>2, <2>3, <2>5 DEF Dmn!UnlinkIdentity
  <2>6. CASE Dmn!WritePid(c)
    BY <1>1, <2>2, <2>3, <2>6 DEF Dmn!WritePid
  <2>7. CASE Dmn!WriteIdentity(c)
    <3>1. CASE identity' = [identity EXCEPT ![Dmn!This(c)] = Dmn!TornIdentity]
      BY <1>1, <2>2, <2>3, <2>7, <3>1 DEF Dmn!WriteIdentity
    <3>2. CASE job[c].at = "write identity"
               /\ identity' =
                     [identity EXCEPT ![Dmn!This(c)] = [pid |-> job[c].pid, since |-> job[c].fd]]
      <4>1. job[c].pid \in DmnPids /\ Was(job[c].pid, job[c].fd, Dmn!This(c))
        BY <2>1, <3>2 DEF Sound, Making, Dmn!This
      <4>2. [pid |-> job[c].pid, since |-> job[c].fd] \in Identities
        BY <2>2, <4>1 DEF Identities, Was
      <4> QED BY <1>1, <2>2, <2>3, <2>7, <3>2, <4>1, <4>2 DEF Dmn!WriteIdentity
    <3> QED BY <2>7, <3>1, <3>2 DEF Dmn!WriteIdentity
  <2>8. CASE Dmn!WriteFails(c)
    BY <1>1, <2>2, <2>3, <2>8 DEF Dmn!WriteFails
  <2> QED BY <1>6, <2>4, <2>5, <2>6, <2>7, <2>8
<1> QED BY <1>3, <1>4, <1>5, <1>6 DEF Dmn!Next, Dmn!Step

(* What one command does *)

\* It goes on with the same daemon.
Continues(j, k, x) == /\ k \in Jobs /\ k.at = x /\ k.does = j.does /\ k.left = j.left
                      /\ k.then = j.then /\ k.started = j.started /\ k.fd <= clock

\* What it knows then has to be so.
LEMMA GoesSound ==
    ASSUME NEW j, Sound(j), j # Dmn!Idle, NEW x \in {"unlink", "unlink identity"} \cup Looking,
           NEW k, Continues(j, k, x), j.left # <<>>,
           x \in Looking => k.pid \in DmnPids,
           x \in Looking \ {"open"} => k.fd >= 1,
           x = "compare" => Was(k.pid, k.told, Head(k.left)),
           x \in {"confirm", "term", "wait"} => Was(k.pid, k.fd, Head(k.left))
    PROVE  Sound(k)
<1>1. j \in Jobs /\ j.does # "rest"
  BY DEF Sound
<1>2. x \notin Making /\ x \notin {"spawn", "rest", "next"}
  BY DEF Making, Looking
<1> QED BY <1>1, <1>2 DEF Sound, Continues

\* What runs a daemon that no start is about to write of is told of by the files.
LEMMA Told ==
    ASSUME JobsInv, AloneInv, ToldInv, NEW c \in DmnCommands, job[c] # Dmn!Idle, job[c].at \notin Making,
           NEW n \in Dmn!Names, NEW p \in Runs(n)
    PROVE  Tells(p)
<1>1. ASSUME NEW d \in DmnCommands, Makes(job[d], p) PROVE FALSE
  <2>1. job[d].at \in Making /\ d # c
    BY <1>1 DEF Makes
  <2>2. Sound(job[d])
    BY DEF JobsInv
  <2>3. job[d].does = "start"
    BY <2>1, <2>2 DEF Sound
  <2>4. job[d] # Dmn!Idle
    BY <2>3 DEF Dmn!Idle
  <2> QED BY <2>1, <2>3, <2>4 DEF AloneInv
<1> QED BY <1>1 DEF ToldInv, Runs

\* It goes on to the next daemon, or has no more.
LEMMA PassesOn ==
    ASSUME clock \in Nat, NEW j, Sound(j), j # Dmn!Idle, j.left # <<>>
    PROVE  /\ Sound(Dmn!Passed(j)) /\ Dmn!Passed(j).at = "next" /\ Dmn!Passed(j).does = j.does
           /\ Dmn!Passed(j).left = Tail(j.left) /\ Dmn!Passed(j).started = j.started
           /\ Dmn!Passed(j).then = j.then
<1> DEFINE k == Dmn!Passed(j)
<1>1. j \in Jobs /\ j.does # "rest"
  BY DEF Sound
<1>2. Tail(j.left) \in Seq(Dmn!Names)
  BY <1>1, Fields
<1>3. /\ k \in Jobs /\ k.at = "next" /\ k.does = j.does /\ k.left = Tail(j.left)
      /\ k.then = j.then /\ k.pid = Dmn!NoPid /\ k.fd = 0 /\ k.told = 0 /\ k.started = j.started
  BY <1>1, <1>2 DEF Dmn!Passed, Jobs
<1>4. 0 <= clock
  OBVIOUS
<1> HIDE DEF k
<1>5. Sound(k)
  BY <1>1, <1>3, <1>4 DEF Sound, Looking, Making
<1> QED BY <1>3, <1>5 DEF k

\* Of a start that is undone, that nothing runs any more that it was to stop here.
LEMMA PassesOnKnowing ==
    ASSUME clock \in Nat, NEW j, Sound(j), j # Dmn!Idle, j.left # <<>>, Knows(j),
           j.does = "undo" => Runs(Head(j.left)) = {}
    PROVE  Knows(Dmn!Passed(j))
<1> DEFINE k == Dmn!Passed(j)
           n == Head(j.left)
<1>1. /\ k.at = "next" /\ k.does = j.does /\ k.left = Tail(j.left) /\ k.started = j.started
  BY PassesOn
<1>2. ASSUME NEW i \in DOMAIN j.started, j.does = "undo", Dmn!Healthy(j.started[i])
      PROVE  \E x \in DOMAIN Tail(j.left) : Tail(j.left)[x] = j.started[i].name
  <2>1. j.started[i] \in Started /\ j.left \in Seq(Dmn!Names)
    BY Fields DEF Sound
  <2>2. /\ j.started[i].pid \in DmnPids
        /\ proc[j.started[i].pid].runs = j.started[i].name
    BY <1>2, <2>1 DEF Started, Dmn!Healthy, Sound, Was
  <2>3. j.started[i].name # n
    BY <1>2, <2>2 DEF Runs
  <2>4. PICK y \in DOMAIN j.left : j.left[y] = j.started[i].name
    BY <1>2 DEF Knows
  <2>5. y # 1
    BY <2>1, <2>3, <2>4
  <2>6. y - 1 \in DOMAIN Tail(j.left) /\ Tail(j.left)[y - 1] = j.left[y]
    BY <2>1, <2>4, <2>5
  <2> QED BY <2>4, <2>6
<1> HIDE DEF k
<1>3. Knows(k)
  BY <1>1, <1>2 DEF Knows, Looking, Making
<1> QED BY <1>3 DEF k

\* A start that fails goes on to stop what it has started.
LEMMA Undoes ==
    ASSUME clock \in Nat, NEW c \in DmnCommands, Sound(job[c])
    PROVE  Sound(Dmn!Undoing(c)) /\ Knows(Dmn!Undoing(c)) /\ Dmn!Undoing(c).at = "next"
<1> DEFINE k == Dmn!Undoing(c)
           j == job[c]
           names == [i \in DOMAIN j.started |-> j.started[i].name]
<1>1. j \in Jobs
  BY DEF Sound
<1>2. j.started \in Seq(Started) /\ \A i \in DOMAIN j.started : j.started[i] \in Started
  BY <1>1, Fields
<1>3. names \in Seq(Dmn!Names)
  BY <1>2 DEF Started
<1>4. <<>> \in Seq(Dmn!Names) /\ 0 \in Nat
  OBVIOUS
<1>5. /\ k \in Jobs /\ k.at = "next" /\ k.does = "undo" /\ k.left = names /\ k.then = <<>>
      /\ k.pid = Dmn!NoPid /\ k.fd = 0 /\ k.told = 0 /\ k.started = j.started
  BY <1>2, <1>3, <1>4 DEF Dmn!Undoing, Dmn!Idle, Jobs
<1>6. 0 <= clock
  OBVIOUS
<1> HIDE DEF k
<1>7. Sound(k)
  BY <1>5, <1>6 DEF Sound, Looking, Making
<1>8. Knows(k)
  BY <1>5 DEF Knows, Looking, Making
<1> QED BY <1>5, <1>7, <1>8 DEF k

\* A command that only stops daemons goes on like that, and one that is over is over.
Stays(j, k) == k # Dmn!Idle => /\ j # Dmn!Idle
                               /\ j.does = "stop" /\ j.then = <<>> => k.does = "stop" /\ k.then = <<>>

\* Where a command is in a world that stands still: what it does next.
Onward(c, k) == /\ job' = [job EXCEPT ![c] = k]
                /\ Sound(k) /\ k.at \notin Making /\ Stays(job[c], k)
                /\ ~disturbed => Knows(k)

\* It goes on to the next.
LEMMA Skips ==
    ASSUME clock \in Nat, NEW c \in DmnCommands, Sound(job[c]), job[c] # Dmn!Idle, job[c].left # <<>>,
           Dmn!Skip(c),
           ~disturbed => Knows(job[c]) /\ (job[c].does = "undo" => Runs(Dmn!This(c)) = {})
    PROVE  \E k : Onward(c, k)
<1>1. job' = [job EXCEPT ![c] = Dmn!Passed(job[c])]
  BY DEF Dmn!Skip, Dmn!Goes
<1> DEFINE k == Dmn!Passed(job[c])
<1>2. /\ Sound(k) /\ k.at = "next" /\ k.does = job[c].does /\ k.then = job[c].then
      /\ ~disturbed => Knows(k)
  BY PassesOn, PassesOnKnowing DEF Dmn!This
<1> HIDE DEF k
<1>3. Onward(c, k)
  BY <1>1, <1>2 DEF Onward, Stays, Making, k
<1> QED BY <1>3

\* It reads the pid of its daemon: whatever runs the daemon has that pid.
LEMMA ReadsPid ==
    ASSUME DaemonsConstants, WorldInv, FilesInv, JobsInv, TrackedInv, NEW c \in DmnCommands, Dmn!ReadPid(c)
    PROVE  \E k : Onward(c, k)
<1> DEFINE j == job[c]
           n == Dmn!This(c)
           pid == pidfile[n]
<1>1. Sound(j) /\ j.at = "next" /\ j.left # <<>> /\ j \in Jobs
  BY DEF Dmn!ReadPid, JobsInv, Sound
<1>0. clock \in Nat
  BY DEF WorldInv, DaemonsConstants
<1>2. j # Dmn!Idle /\ n \in Dmn!Names /\ n = Head(j.left) /\ clock \in Nat
  <2>1. j # Dmn!Idle
    BY <1>1 DEF Dmn!Idle
  <2> QED BY <1>0, <1>1, <2>1, Fields DEF Dmn!This
<1>3. ~disturbed => /\ Knows(j)
                    /\ \A p \in Runs(n) : p = pid
  <2>1. j.at \notin Making
    BY <1>1 DEF Making
  <2> QED BY <1>2, <2>1, Told DEF TrackedInv, KnowsInv, Tells, Runs
<1>4. pid \in DmnPids \cup {Dmn!NoPid, Dmn!Torn}
  BY <1>2 DEF FilesInv
<1>5. CASE pid \in DmnPids
  <2> DEFINE k == [j EXCEPT !.at = "open", !.pid = pid]
  <2>0. Dmn!Goes(c, k)
    BY <1>5 DEF Dmn!ReadPid, DaemonsConstants, Dmn!NoPid, Dmn!Torn
  <2>1. job' = [job EXCEPT ![c] = k]
    BY <2>0 DEF Dmn!Goes
  <2>2. Continues(j, k, "open") /\ k.pid = pid
    BY <1>1, <1>5 DEF Jobs, Continues, Looking, Sound
  <2> HIDE DEF k
  <2>3. Sound(k)
    BY <1>1, <1>2, <1>5, <2>2, GoesSound DEF Looking
  <2>4. ~disturbed => Knows(k)
    BY <1>2, <1>3, <2>2 DEF Knows, Continues, Looking, Making
  <2> QED BY <1>2, <2>1, <2>2, <2>3, <2>4 DEF Onward, Stays, Continues, Making
<1>6. CASE pid \notin DmnPids
  <2>1. ~disturbed => Runs(n) = {}
    BY <1>3, <1>6 DEF Runs
  <2>2. ASSUME j.does = "start"
        PROVE  \E k : Onward(c, k)
    <3> DEFINE k == [j EXCEPT !.at = "spawn"]
    <3>0. Dmn!To(c, "spawn")
      BY <1>6, <2>2 DEF Dmn!ReadPid
    <3>1. job' = [job EXCEPT ![c] = k]
      BY <3>0 DEF Dmn!To, Dmn!Goes
    <3>2. Continues(j, k, "spawn")
      BY <1>1 DEF Jobs, Continues, Sound
    <3> HIDE DEF k
    <3>3. Sound(k)
      BY <1>1, <1>2, <2>2, <3>2 DEF Sound, Continues, Looking, Making
    <3>4. ~disturbed => Knows(k)
      BY <1>2, <2>1, <2>2, <3>2 DEF Knows, Continues, Looking, Making
    <3> QED BY <1>2, <3>1, <3>2, <3>3, <3>4 DEF Onward, Stays, Continues, Making
  <2>3. ASSUME j.does # "start", pid = Dmn!NoPid
        PROVE  \E k : Onward(c, k)
    <3>0. Dmn!Skip(c)
      BY <1>6, <2>3 DEF Dmn!ReadPid, Dmn!NoPid, Dmn!Torn
    <3>1. job' = [job EXCEPT ![c] = Dmn!Passed(j)]
      BY <3>0 DEF Dmn!Skip, Dmn!Goes
    <3> QED BY <1>2, <1>3, <2>1, <3>0, Skips, <1>1
  <2>4. ASSUME j.does # "start", pid = Dmn!Torn
        PROVE  \E k : Onward(c, k)
    <3> DEFINE k == [j EXCEPT !.at = "unlink"]
    <3>0. Dmn!To(c, "unlink")
      BY <1>6, <2>4 DEF Dmn!ReadPid, Dmn!NoPid, Dmn!Torn
    <3>1. job' = [job EXCEPT ![c] = k]
      BY <3>0 DEF Dmn!To, Dmn!Goes
    <3>2. Continues(j, k, "unlink")
      BY <1>1 DEF Jobs, Continues, Sound
    <3> HIDE DEF k
    <3>3. Sound(k)
      BY <1>1, <1>2, <3>2, GoesSound DEF Looking
    <3>4. ~disturbed => Knows(k)
      BY <1>2, <1>3, <2>1, <3>2 DEF Knows, Continues, Looking, Making
    <3> QED BY <1>2, <3>1, <3>2, <3>3, <3>4 DEF Onward, Stays, Continues, Making
  <2> QED BY <1>4, <1>6, <2>2, <2>3, <2>4
<1> QED BY <1>5, <1>6

\* It goes on with its daemon.
LEMMA MovesTo ==
    ASSUME NEW c \in DmnCommands, Sound(job[c]), job[c] # Dmn!Idle, job[c].left # <<>>,
           NEW x \in {"unlink", "unlink identity"} \cup Looking, NEW k, Continues(job[c], k, x),
           job' = [job EXCEPT ![c] = k],
           x \in Looking => k.pid \in DmnPids,
           x \in Looking \ {"open"} => k.fd >= 1,
           x = "compare" => Was(k.pid, k.told, Dmn!This(c)),
           x \in {"confirm", "term", "wait"} => Was(k.pid, k.fd, Dmn!This(c)),
           ~disturbed => Knows(job[c]) /\ \A p \in Runs(Dmn!This(c)) :
              /\ x = "open" => p = k.pid
              /\ x \in Looking \ {"open"} => p = k.pid /\ proc[p].since = k.fd
              /\ x = "compare" => proc[p].since = k.told
              /\ x \in Looking
    PROVE  Onward(c, k)
<1>1. k.left = job[c].left /\ Dmn!This(c) = Head(job[c].left)
  BY DEF Continues, Dmn!This
<1>2. Sound(k)
  BY <1>1, GoesSound
<1>3. ASSUME ~disturbed PROVE Knows(k)
  <2>1. k.at = x /\ k.does = job[c].does /\ k.started = job[c].started
    BY DEF Continues
  <2>2. x \notin Making /\ x # "spawn"
    BY DEF Making, Looking
  <2>3. k.at \in {"unlink", "unlink identity", "spawn"} => Runs(Dmn!This(c)) = {}
    BY <1>3, <2>1 DEF Looking
  <2>4. k.does = "undo" => \A i \in DOMAIN k.started :
          Dmn!Healthy(k.started[i]) => \E y \in DOMAIN k.left : k.left[y] = k.started[i].name
    BY <1>1, <1>3, <2>1 DEF Knows
  <2>5. k.at \notin {"create identity", "write identity"}
    BY <2>1, <2>2 DEF Making
  <2>6. Head(k.left) = Dmn!This(c)
    BY <1>1
  <2> QED BY <1>3, <2>1, <2>2, <2>3, <2>4, <2>5, <2>6 DEF Knows
<1> QED BY <1>2, <1>3 DEF Onward, Stays, Continues, Making, Looking

\* A start gives up.
LEMMA Gives ==
    ASSUME clock \in Nat, NEW c \in DmnCommands, Sound(job[c]), job[c].does = "start", Dmn!Undo(c)
    PROVE  \E k : Onward(c, k)
<1>1. job[c] # Dmn!Idle
  BY DEF Dmn!Idle
<1> QED BY <1>1, Undoes DEF Onward, Dmn!Undo, Dmn!Goes, Stays, Making

\* A command that is at one of its daemons, and the process that runs it.
LEMMA Here ==
    ASSUME DaemonsConstants, WorldInv, JobsInv, TrackedInv, NEW c \in DmnCommands,
           job[c].at \notin {"rest", "next"}
    PROVE  /\ clock \in Nat /\ Sound(job[c]) /\ job[c] \in Jobs /\ job[c] # Dmn!Idle
           /\ job[c].left # <<>> /\ Dmn!This(c) \in Dmn!Names /\ Dmn!This(c) = Head(job[c].left)
           /\ ~disturbed => Knows(job[c])
           /\ \A p \in Runs(Dmn!This(c)) : p \in DmnPids /\ Dmn!Alive(p) /\ proc[p].since \in Nat \ {0}
<1>1. Sound(job[c]) /\ (~disturbed => Knows(job[c]))
  BY DEF JobsInv, TrackedInv, KnowsInv
<1>2. job[c] \in Jobs /\ job[c].left # <<>>
  BY <1>1 DEF Sound
<1>3. job[c] # Dmn!Idle
  BY DEF Dmn!Idle
<1>4. Dmn!This(c) \in Dmn!Names /\ Dmn!This(c) = Head(job[c].left)
  BY <1>2, Fields DEF Dmn!This
<1>5. \A p \in Runs(Dmn!This(c)) : p \in DmnPids /\ Dmn!Alive(p) /\ proc[p].since \in Nat \ {0}
  BY <1>4 DEF Runs, Dmn!Alive, Dmn!NoProcess, WorldInv, Processes, DaemonsConstants
<1>6. clock \in Nat
  BY DEF WorldInv, DaemonsConstants
<1> QED BY <1>1, <1>2, <1>3, <1>4, <1>5, <1>6

\* It only goes on with it: to unlink the files, or to another look.
LEMMA GoesTo ==
    ASSUME DaemonsConstants, WorldInv, JobsInv, TrackedInv, NEW c \in DmnCommands,
           job[c].at \notin {"rest", "next"},
           NEW x \in {"unlink", "unlink identity"} \cup Looking, Dmn!To(c, x),
           x \in Looking => job[c].pid \in DmnPids,
           x \in Looking \ {"open"} => job[c].fd >= 1,
           x \in {"confirm", "term", "wait"} => Was(job[c].pid, job[c].fd, Dmn!This(c)),
           x # "open" /\ x # "compare",
           ~disturbed => \A p \in Runs(Dmn!This(c)) :
              /\ x \in Looking => p = job[c].pid /\ proc[p].since = job[c].fd
              /\ x \in Looking
    PROVE  \E k : Onward(c, k)
<1> DEFINE k == [job[c] EXCEPT !.at = x]
<1>1. /\ Sound(job[c]) /\ job[c] \in Jobs /\ job[c] # Dmn!Idle /\ job[c].left # <<>>
      /\ ~disturbed => Knows(job[c])
  BY Here
<1>2. Continues(job[c], k, x) /\ k.pid = job[c].pid /\ k.fd = job[c].fd
  BY <1>1 DEF Jobs, Continues, Sound, Looking
<1>3. job' = [job EXCEPT ![c] = k]
  BY DEF Dmn!To, Dmn!Goes
<1> HIDE DEF k
<1>4. Onward(c, k)
  BY <1>1, <1>2, <1>3, MovesTo
<1> QED BY <1>4

\* It sees that there is no such process, or binds a pidfd to the one that may be it.
LEMMA OpensPidfd ==
    ASSUME DaemonsConstants, WorldInv, JobsInv, TrackedInv, NEW c \in DmnCommands, Dmn!OpenPidfd(c)
    PROVE  \E k : Onward(c, k)
<1> DEFINE j == job[c]
<1>1. j.at = "open"
  BY DEF Dmn!OpenPidfd
<1>2. j.pid \in DmnPids /\ (~disturbed => \A p \in Runs(Dmn!This(c)) : p = j.pid)
  BY <1>1, Here DEF Sound, Looking, Knows
<1>3. CASE Dmn!Alive(j.pid)
  <2> DEFINE k == [j EXCEPT !.at = "identity", !.fd = proc[j.pid].since]
  <2>1. proc[j.pid].since \in Nat \ {0} /\ proc[j.pid].since <= clock
    BY <1>2, <1>3 DEF Dmn!Alive, WorldInv, Processes
  <2>2. Continues(j, k, "identity") /\ k.pid = j.pid /\ k.fd = proc[j.pid].since
    BY <1>1, <2>1, Here DEF Jobs, Continues, Looking
  <2>3. job' = [job EXCEPT ![c] = k]
    BY <1>3 DEF Dmn!OpenPidfd, Dmn!Goes
  <2> HIDE DEF k
  <2>4. /\ Sound(j) /\ j # Dmn!Idle /\ j.left # <<>> /\ (~disturbed => Knows(j))
    BY <1>1, Here
  <2>5. /\ k.pid \in DmnPids /\ k.fd >= 1
        /\ ~disturbed => \A p \in Runs(Dmn!This(c)) : p = k.pid /\ proc[p].since = k.fd
    BY <1>2, <2>1, <2>2
  <2>6. Onward(c, k)
    BY <2>2, <2>3, <2>4, <2>5, MovesTo DEF Looking
  <2> QED BY <2>6
<1>4. CASE ~Dmn!Alive(j.pid)
  <2>1. ~disturbed => Runs(Dmn!This(c)) = {}
    BY <1>1, <1>2, <1>4, Here
  <2>2. Dmn!To(c, "unlink")
    BY <1>4 DEF Dmn!OpenPidfd, Dmn!Stale
  <2> QED BY <1>1, <2>1, <2>2, GoesTo DEF Looking
<1> QED BY <1>3, <1>4

\* What identifies the process is read: of a version without identities, the process itself.
LEMMA ReadsIdentity ==
    ASSUME DaemonsConstants, WorldInv, FilesInv, JobsInv, TrackedInv, NEW c \in DmnCommands,
           Dmn!ReadIdentity(c)
    PROVE  \E k : Onward(c, k)
<1> DEFINE j == job[c]
           n == Dmn!This(c)
           id == identity[n]
<1>1. j.at = "identity"
  BY DEF Dmn!ReadIdentity
<1>2. /\ clock \in Nat /\ Sound(j) /\ j \in Jobs /\ j # Dmn!Idle /\ j.left # <<>> /\ n \in Dmn!Names
      /\ j.pid \in DmnPids /\ j.fd >= 1 /\ j.fd <= clock /\ j.fd \in Nat
  BY <1>1, Here, Fields DEF Sound, Looking
<1>3. ~disturbed => /\ Knows(j)
                    /\ \A p \in Runs(n) :
                         /\ p = j.pid /\ proc[p].since = j.fd /\ p \in DmnPids
                         /\ id = Dmn!NoIdentity \/ (id.pid = p /\ id.since = proc[p].since)
  <2>1. j.at \notin Making
    BY <1>1 DEF Making
  <2>2. ~disturbed => Knows(j) /\ \A p \in Runs(n) : p = j.pid /\ proc[p].since = j.fd
    BY <1>1, Here DEF Knows, Looking
  <2>3. ~disturbed => \A p \in Runs(n) : Tells(p)
    BY <1>2, <2>1, Told DEF TrackedInv
  <2>4. \A p \in Runs(n) : proc[p].runs = n /\ p \in DmnPids
    BY DEF Runs
  <2>5. \A p \in Runs(n) :
           Tells(p) => id = Dmn!NoIdentity \/ (id.pid = p /\ id.since = proc[p].since)
    BY <2>4 DEF Tells
  <2> QED BY <2>2, <2>3, <2>4, <2>5
<1>4. id \in Identities
  BY <1>2 DEF FilesInv
<1>5. Dmn!NoPid \notin DmnPids /\ Dmn!Torn \notin DmnPids /\ Dmn!NoPid # Dmn!Torn
  BY DEF DaemonsConstants, Dmn!NoPid, Dmn!Torn
<1>6. ASSUME Dmn!Unverified(c), ~disturbed => Runs(n) = {}
      PROVE  \E k : Onward(c, k)
  BY <1>2, <1>3, <1>6, Gives, Skips DEF Dmn!Unverified
<1>7. CASE id = Dmn!NoIdentity /\ proc[j.pid].runs = n /\ Dmn!To(c, "confirm")
  <2>1. Was(j.pid, j.fd, n)
    BY <1>2, <1>7 DEF Was
  <2> QED BY <1>1, <1>2, <1>3, <1>7, <2>1, GoesTo DEF Looking
<1>8. CASE id = Dmn!NoIdentity /\ proc[j.pid].runs # n /\ Dmn!Unverified(c)
  BY <1>3, <1>6, <1>8 DEF Runs
<1>9. CASE id = Dmn!TornIdentity /\ Dmn!Unverified(c)
  <2>1. ~disturbed => Runs(n) = {}
    BY <1>3, <1>5, <1>9 DEF Dmn!TornIdentity, Dmn!NoIdentity
  <2> QED BY <1>6, <1>9, <2>1
<1>10. CASE id.pid = j.pid /\ Dmn!Goes(c, [j EXCEPT !.at = "compare", !.told = id.since])
  <2> DEFINE k == [j EXCEPT !.at = "compare", !.told = id.since]
  <2>1. id.since \in Nat /\ Was(j.pid, id.since, n)
    BY <1>2, <1>4, <1>10 DEF Identities, FilesInv, Dmn!NoIdentity, Dmn!TornIdentity
  <2>2. /\ Continues(j, k, "compare") /\ k.pid = j.pid /\ k.fd = j.fd /\ k.told = id.since
    BY <1>2, <2>1 DEF Jobs, Continues, Looking
  <2>3. job' = [job EXCEPT ![c] = k]
    BY <1>10 DEF Dmn!Goes
  <2>4. ~disturbed => \A p \in Runs(n) : proc[p].since = id.since
    BY <1>2, <1>3, <1>5, <1>10 DEF Dmn!NoIdentity
  <2> HIDE DEF k
  <2>5. Onward(c, k)
    BY <1>1, <1>2, <1>3, <2>1, <2>2, <2>3, <2>4, MovesTo DEF Looking
  <2> QED BY <2>5
<1>11. CASE id.pid \notin {Dmn!NoPid, Dmn!Torn, j.pid} /\ Dmn!Stale(c)
  <2>1. ~disturbed => Runs(n) = {}
    BY <1>3, <1>5, <1>11 DEF Dmn!NoIdentity
  <2> QED BY <1>1, <1>11, <2>1, GoesTo DEF Looking, Dmn!Stale
<1>12. Dmn!Known(c, id)
  BY DEF Dmn!ReadIdentity
<1> QED BY <1>7, <1>8, <1>9, <1>10, <1>11, <1>12 DEF Dmn!Known

\* The start time is compared with the one the file tells.
LEMMA Compares ==
    ASSUME DaemonsConstants, WorldInv, JobsInv, TrackedInv, NEW c \in DmnCommands, Dmn!Compare(c)
    PROVE  \E k : Onward(c, k)
<1> DEFINE j == job[c]
           n == Dmn!This(c)
<1>1. j.at = "compare"
  BY DEF Dmn!Compare
<1>2. /\ clock \in Nat /\ Sound(j) /\ j # Dmn!Idle /\ j.left # <<>>
      /\ n = Head(j.left) /\ (~disturbed => Knows(j))
      /\ \A p \in Runs(n) : p \in DmnPids /\ Dmn!Alive(p)
  BY <1>1, Here
<1>3. j.pid \in DmnPids /\ j.fd >= 1 /\ j.fd <= clock /\ j.fd \in Nat /\ Was(j.pid, j.told, n)
  BY <1>1, <1>2, Fields DEF Sound, Looking
<1>4. ~disturbed => \A p \in Runs(n) : p = j.pid /\ proc[p].since = j.fd /\ proc[p].since = j.told
  BY <1>1, <1>2 DEF Knows, Looking
<1>5. CASE ~Dmn!Alive(j.pid) /\ Dmn!Unverified(c)
  <2>1. ~disturbed => Runs(n) = {}
    BY <1>2, <1>4, <1>5
  <2> QED BY <1>2, <1>5, <2>1, Gives, Skips DEF Dmn!Unverified
<1>6. CASE proc[j.pid].since = j.told /\ Dmn!To(c, "confirm")
  <2>1. Was(j.pid, j.fd, n)
    BY <1>3, <1>6 DEF Was
  <2> QED BY <1>1, <1>3, <1>4, <1>6, <2>1, GoesTo DEF Looking
<1>7. CASE proc[j.pid].since # j.told /\ Dmn!Stale(c)
  <2>1. ~disturbed => Runs(n) = {}
    BY <1>4, <1>7
  <2> QED BY <1>1, <1>7, <2>1, GoesTo DEF Looking, Dmn!Stale
<1> QED BY <1>5, <1>6, <1>7 DEF Dmn!Compare

\* Confirmed is what the pidfd is bound to; a signal reaches that or nobody.
LEMMA Confirms ==
    ASSUME DaemonsConstants, WorldInv, JobsInv, TrackedInv, NEW c \in DmnCommands,
           Dmn!Confirm(c) \/ Dmn!Term(c) \/ Dmn!Exited(c)
    PROVE  \E k : Onward(c, k)
<1> DEFINE j == job[c]
           n == Dmn!This(c)
<1>1. j.at \in {"confirm", "term", "wait"}
  BY DEF Dmn!Confirm, Dmn!Term, Dmn!Exited
<1>2. /\ clock \in Nat /\ Sound(j) /\ j # Dmn!Idle /\ j.left # <<>>
      /\ n = Head(j.left) /\ (~disturbed => Knows(j))
  BY <1>1, Here
<1>3. j.pid \in DmnPids /\ j.fd >= 1 /\ Was(j.pid, j.fd, n)
  BY <1>1, <1>2 DEF Sound, Looking
<1>4. ~disturbed => \A p \in Runs(n) : p = j.pid /\ proc[p].since = j.fd
  BY <1>1, <1>2 DEF Knows, Looking
<1>5. CASE ~Dmn!Bound(c) /\ Dmn!To(c, "unlink")
  <2>1. ~disturbed => Runs(n) = {}
    BY <1>4, <1>5 DEF Dmn!Bound
  <2> QED BY <1>1, <1>5, <2>1, GoesTo DEF Looking
<1>6. CASE j.does = "start" /\ Dmn!Skip(c)
  BY <1>2, <1>6, Skips
<1>7. ASSUME NEW x \in {"term", "wait"}, Dmn!To(c, x) PROVE \E k : Onward(c, k)
  BY <1>1, <1>3, <1>4, <1>7, GoesTo DEF Looking
<1> QED BY <1>5, <1>6, <1>7 DEF Dmn!Confirm, Dmn!Term, Dmn!Exited, Dmn!Stale

\* The files of a daemon that does not run are removed.
LEMMA Unlinks ==
    ASSUME DaemonsConstants, WorldInv, JobsInv, TrackedInv, NEW c \in DmnCommands,
           Dmn!Unlink(c) \/ Dmn!UnlinkIdentity(c)
    PROVE  \E k : Onward(c, k)
<1> DEFINE j == job[c]
           n == Dmn!This(c)
<1>1. j.at \in {"unlink", "unlink identity"}
  BY DEF Dmn!Unlink, Dmn!UnlinkIdentity
<1>2. /\ clock \in Nat /\ Sound(j) /\ j # Dmn!Idle /\ j.left # <<>> /\ j \in Jobs
      /\ n = Head(j.left) /\ (~disturbed => Knows(j))
  BY <1>1, Here
<1>3. ~disturbed => Runs(n) = {}
  BY <1>1, <1>2 DEF Knows
<1>4. CASE Dmn!To(c, "unlink identity")
  BY <1>1, <1>3, <1>4, GoesTo DEF Looking
<1>5. CASE j.does = "start" /\ Dmn!To(c, "spawn")
  <2> DEFINE k == [j EXCEPT !.at = "spawn"]
  <2>1. job' = [job EXCEPT ![c] = k]
    BY <1>5 DEF Dmn!To, Dmn!Goes
  <2>2. Continues(j, k, "spawn")
    BY <1>2 DEF Jobs, Continues, Sound
  <2> HIDE DEF k
  <2>3. Sound(k)
    BY <1>2, <1>5, <2>2 DEF Sound, Continues, Looking, Making
  <2>4. ~disturbed => Knows(k)
    BY <1>2, <1>3, <1>5, <2>2 DEF Knows, Continues, Looking, Making
  <2> QED BY <1>2, <2>1, <2>2, <2>3, <2>4 DEF Onward, Stays, Continues, Making
<1>6. CASE Dmn!Skip(c)
  BY <1>2, <1>3, <1>6, Skips
<1> QED BY <1>4, <1>5, <1>6 DEF Dmn!Unlink, Dmn!UnlinkIdentity

\* What cannot be signalled is left, and no undoing start counts it as its own any more.
LEMMA CannotSignals ==
    ASSUME DaemonsConstants, WorldInv, JobsInv, TrackedInv, NEW c \in DmnCommands,
           Dmn!CannotSignal(c)
    PROVE  \E k : Onward(c, k)
<1> DEFINE j == job[c]
           n == Dmn!This(c)
<1>1. j.at \in {"open", "term", "wait"}
  BY DEF Dmn!CannotSignal
<1>2. /\ clock \in Nat /\ Sound(j) /\ j # Dmn!Idle /\ j.left # <<>> /\ j \in Jobs
      /\ n = Head(j.left) /\ (~disturbed => Knows(j)) /\ n \in Dmn!Names
  BY <1>1, Here
<1>3. CASE j.does # "undo" /\ Dmn!Unverified(c)
  BY <1>2, <1>3, Gives, Skips DEF Dmn!Unverified
<1>4. CASE j.does = "undo" /\ Dmn!Goes(c, [Dmn!Passed(j) EXCEPT !.started = Dmn!Spared(@, n)])
  <2> DEFINE p == Dmn!Passed(j)
             k == [p EXCEPT !.started = Dmn!Spared(j.started, n)]
  <2>1. /\ Sound(p) /\ p \in Jobs /\ p.at = "next" /\ p.does = "undo" /\ p.left = Tail(j.left)
        /\ p.started = j.started
    <3>1. Sound(p) /\ p.at = "next" /\ p.does = "undo" /\ p.left = Tail(j.left)
          /\ p.started = j.started
      BY <1>2, <1>4, PassesOn
    <3> QED BY <3>1 DEF Sound
  <2>2. j.started \in Seq(Started) /\ j.left \in Seq(Dmn!Names)
    BY <1>2, Fields
  <2>3. /\ DOMAIN Dmn!Spared(j.started, n) = DOMAIN j.started
        /\ \A i \in DOMAIN j.started :
             /\ Dmn!Spared(j.started, n)[i] \in Started
             /\ Dmn!Spared(j.started, n)[i].name = j.started[i].name
             /\ j.started[i].name = n => Dmn!Spared(j.started, n)[i].pid = Dmn!NoPid
             /\ j.started[i].name # n => Dmn!Spared(j.started, n)[i] = j.started[i]
    <3>1. \A i \in DOMAIN j.started : j.started[i] \in Started
      BY <2>2
    <3> QED BY <3>1 DEF Dmn!Spared, Started
  <2>4. Dmn!Spared(j.started, n) \in Seq(Started)
    <3>1. j.started \in [1 .. Len(j.started) -> Started] /\ DOMAIN j.started = 1 .. Len(j.started)
      BY <2>2
    <3>2. \A i \in DOMAIN j.started :
            (IF j.started[i].name = n THEN [j.started[i] EXCEPT !.pid = Dmn!NoPid] ELSE j.started[i])
                \in Started
      BY <3>1 DEF Started
    <3>3. Dmn!Spared(j.started, n) \in [1 .. Len(j.started) -> Started]
      BY <3>1, <3>2 DEF Dmn!Spared
    <3>4. Len(j.started) \in Nat
      BY <2>2
    <3> QED BY <3>3, <3>4
  <2>5. /\ k \in Jobs /\ k.at = "next" /\ k.does = "undo" /\ k.left = p.left /\ k.then = p.then
        /\ k.pid = p.pid /\ k.fd = p.fd /\ k.told = p.told /\ k.started = Dmn!Spared(j.started, n)
    BY <2>1, <2>4 DEF Jobs
  <2>6. job' = [job EXCEPT ![c] = k]
    BY <1>4, <2>1 DEF Dmn!Goes
  <2> HIDE DEF k, p
  <2>7. Sound(k)
    <3>1. \A i \in DOMAIN k.started : k.started[i].pid # Dmn!NoPid => k.started[i] = j.started[i]
      BY <2>3, <2>5
    <3>2. \A i \in DOMAIN k.started :
            k.started[i].pid # Dmn!NoPid =>
                Was(k.started[i].pid, k.started[i].since, k.started[i].name)
      BY <2>1, <2>3, <2>5, <3>1 DEF Sound
    <3> QED BY <2>1, <2>5, <3>2 DEF Sound, Looking, Making
  <2>8. ASSUME ~disturbed PROVE Knows(k)
    <3>1. ASSUME NEW i \in DOMAIN k.started, Dmn!Healthy(k.started[i])
          PROVE  \E x \in DOMAIN k.left : k.left[x] = k.started[i].name
      <4>1. k.started[i] = j.started[i] /\ j.started[i].name # n /\ i \in DOMAIN j.started
        BY <2>3, <2>5, <3>1 DEF Dmn!Healthy
      <4>2. PICK y \in DOMAIN j.left : j.left[y] = j.started[i].name
        BY <1>2, <1>4, <2>8, <3>1, <4>1 DEF Knows
      <4>3. y # 1
        BY <1>2, <2>2, <4>1, <4>2
      <4>4. y - 1 \in DOMAIN Tail(j.left) /\ Tail(j.left)[y - 1] = j.left[y]
        BY <2>2, <4>2, <4>3
      <4> QED BY <2>1, <2>5, <4>1, <4>2, <4>4
    <3> QED BY <2>5, <3>1 DEF Knows, Looking, Making
  <2> QED BY <1>2, <2>5, <2>6, <2>7, <2>8, <1>4 DEF Onward, Stays, Making
<1> QED BY <1>3, <1>4 DEF Dmn!CannotSignal
(* What a command knows stays true *)

\* Where no daemon has come, and no pid file changed that the command has written.
LEMMA KnowsKept ==
    ASSUME WorldInv, Passes, NEW j, Sound(j), Knows(j),
           \A p \in DmnPids : proc'[p].runs \in Dmn!Names => proc'[p] = proc[p],
           pidfile' = pidfile \/ j.at \notin Making
    PROVE  Knows(j)'
<1>1. j \in Jobs
  BY DEF Sound
<1>2. j.at \notin {"rest", "next"} => Head(j.left) \in Dmn!Names
  BY <1>1, Fields DEF Sound
<1>3. \A n \in Dmn!Names : \A p \in Runs(n)' : p \in Runs(n) /\ proc'[p] = proc[p]
  BY DEF Runs
<1>4. ASSUME NEW i \in DOMAIN j.started, Dmn!Healthy(j.started[i])'
      PROVE  Dmn!Healthy(j.started[i])
  <2> DEFINE x == j.started[i].pid
             y == j.started[i].since
  <2>1. j.started[i] \in Started
    BY <1>1, Fields
  <2>2. x \in DmnPids /\ proc'[x].since = y
    BY <1>4, <2>1 DEF Dmn!Healthy, Started
  <2>3. Was(x, y, j.started[i].name)
    BY <2>2, <1>4 DEF Sound, Dmn!Healthy
  <2>4. y \in Nat /\ 1 <= y /\ y <= clock /\ clock \in Nat /\ clock' \in Nat
    BY <2>3 DEF Was, Passes
  <2>5. proc'[x] = proc[x]
    BY <2>2, <2>4 DEF Passes, Dmn!NoProcess
  <2> QED BY <1>4, <2>2, <2>5 DEF Dmn!Healthy
<1>5. j.at \in Looking \cup Making \cup {"unlink", "unlink identity", "spawn"}
        => j.at \notin {"rest", "next"}
  BY DEF Looking, Making
<1>6. j.at \in {"create identity", "write identity"} => pidfile'[Head(j.left)] = j.pid
  BY DEF Knows, Making
<1>7. j.does = "undo" => \A i \in DOMAIN j.started :
        Dmn!Healthy(j.started[i])' => \E k \in DOMAIN j.left : j.left[k] = j.started[i].name
  BY <1>4 DEF Knows
<1>8. /\ j.at = "open" => \A p \in Runs(Head(j.left))' : p = j.pid
      /\ j.at \in (Looking \ {"open"}) \cup Making =>
            \A p \in Runs(Head(j.left))' : p = j.pid /\ proc'[p].since = j.fd
      /\ j.at = "compare" => \A p \in Runs(Head(j.left))' : proc'[p].since = j.told
      /\ j.at \in {"unlink", "unlink identity", "spawn"} => Runs(Head(j.left))' = {}
  <2>1. ASSUME j.at \notin {"rest", "next"}
        PROVE  \A p \in Runs(Head(j.left))' : p \in Runs(Head(j.left)) /\ proc'[p] = proc[p]
    BY <1>2, <1>3, <2>1
  <2> QED BY <1>5, <2>1 DEF Knows, Looking
<1> QED BY <1>6, <1>7, <1>8 DEF Knows

\* Where a command goes, when processes have ended at most.
Moves(c, k) == /\ job' = [job EXCEPT ![c] = k]
               /\ Sound(k)'
               /\ ~disturbed' => Knows(k)'

\* The daemon it is at is told of by the files, or by what the command is about to write.
Tended(c, k) == \A p \in DmnPids : proc'[p].runs = Dmn!This(c) => Tells(p)' \/ Makes(k, p)'

\* In a world that stands still it goes where Onward says.
LEMMA StillMoves ==
    ASSUME WorldInv, Passes, NEW c \in DmnCommands, NEW k, Onward(c, k), disturbed' = disturbed,
           \A p \in DmnPids : proc'[p].runs \in Dmn!Names => proc'[p] = proc[p]
    PROVE  Moves(c, k) /\ Stays(job[c], k)
<1>1. /\ job' = [job EXCEPT ![c] = k] /\ Sound(k) /\ k.at \notin Making /\ Stays(job[c], k)
      /\ ~disturbed => Knows(k)
  BY DEF Onward
<1>2. Sound(k)'
  BY <1>1, SoundKept
<1>3. Knows(k) => Knows(k)'
  BY <1>1, KnowsKept
<1> QED
  BY <1>1, <1>2, <1>3 DEF Moves

\* A daemon that is killed is gone.
LEMMA Kills ==
    ASSUME DaemonsConstants, WorldInv, JobsInv, TrackedInv, Passes, NEW c \in DmnCommands,
           Dmn!KillDaemon(c)
    PROVE  \E k : Moves(c, k) /\ Stays(job[c], k)
<1> DEFINE j == job[c]
           n == Dmn!This(c)
<1>1. j.at = "wait"
  BY DEF Dmn!KillDaemon
<1>2. /\ clock \in Nat /\ Sound(j) /\ j # Dmn!Idle /\ j.left # <<>> /\ j \in Jobs
      /\ n = Head(j.left) /\ (~disturbed => Knows(j)) /\ n \in Dmn!Names
  BY <1>1, Here
<1>3. j.pid \in DmnPids
  BY <1>1, <1>2 DEF Sound, Looking
<1>4. PICK k : k = [j EXCEPT !.at = "unlink"]
  OBVIOUS
<1>5. job' = [job EXCEPT ![c] = k] /\ disturbed' = disturbed
      /\ proc' = [proc EXCEPT ![j.pid] = Dmn!NoProcess]
  BY <1>4 DEF Dmn!KillDaemon, Dmn!To, Dmn!Goes
<1>6. Continues(j, k, "unlink")
  BY <1>2, <1>4 DEF Jobs, Continues, Sound
<1>7. Sound(k)
  BY <1>2, <1>6, GoesSound DEF Looking
<1>8. Sound(k)'
  BY <1>7, SoundKept
<1>9. ASSUME ~disturbed PROVE Knows(k)'
  <2>1. \A p \in DmnPids : proc'[p].runs \in Dmn!Names => proc'[p] = proc[p] /\ p # j.pid
    BY <1>3, <1>5 DEF WorldInv, Dmn!NoProcess, DaemonsConstants
  <2>3. \A p \in Runs(n) : p = j.pid
    BY <1>1, <1>2, <1>9 DEF Knows, Looking
  <2>4. PICK m : m = n
    OBVIOUS
  <2>5. Runs(m)' = {}
    BY <1>2, <2>1, <2>3, <2>4 DEF Runs
  <2>6. k.at \notin Looking \cup Making
    BY <1>6 DEF Continues, Looking, Making
  <2>7. Head(k.left) = m /\ k.does = j.does /\ k.left = j.left /\ k.started = j.started
    BY <1>2, <1>6, <2>4 DEF Continues
  <2>8. PICK i : i = j
    OBVIOUS
  <2>9. k.does = "undo" => \A x \in DOMAIN k.started :
           Dmn!Healthy(k.started[x])' => \E y \in DOMAIN k.left : k.left[y] = k.started[x].name
    <3>1. Knows(i)'
      BY <1>1, <1>2, <1>9, <2>1, <2>8, KnowsKept DEF Making
    <3> QED BY <2>7, <2>8, <3>1 DEF Knows
  <2>10. k.at \in {"create identity", "write identity"} => FALSE
    BY <2>6 DEF Making
  <2> QED BY <2>5, <2>6, <2>7, <2>9, <2>10 DEF Knows, Looking
<1>10. Stays(j, k)
  BY <1>2, <1>6 DEF Stays, Continues
<1> QED BY <1>5, <1>8, <1>9, <1>10 DEF Moves

\* A start has a process for each that is at its files.
LEMMA Spawns ==
    ASSUME DaemonsConstants, WorldInv, JobsInv, TrackedInv, Passes, NEW c \in DmnCommands, Dmn!Spawn(c)
    PROVE  \E k : Moves(c, k) /\ Stays(job[c], k) /\ (~disturbed => Tended(c, k))
<1> DEFINE j == job[c]
           n == Dmn!This(c)
<1>1. j.at = "spawn"
  BY DEF Dmn!Spawn
<1>2. /\ clock \in Nat /\ Sound(j) /\ j # Dmn!Idle /\ j.left # <<>> /\ j \in Jobs
      /\ n = Head(j.left) /\ (~disturbed => Knows(j)) /\ n \in Dmn!Names
  BY <1>1, Here
<1>3. j.does = "start"
  BY <1>1, <1>2 DEF Sound
<1>4. PICK p \in DmnPids : /\ proc' = Dmn!Process(p, n, clock + 1)
                           /\ Dmn!Goes(c, [j EXCEPT !.at = "create", !.pid = p, !.fd = clock + 1])
  BY DEF Dmn!Spawn
<1>5. PICK k : k = [j EXCEPT !.at = "create", !.pid = p, !.fd = clock + 1]
  OBVIOUS
<1>6. clock' = clock + 1 /\ disturbed' = disturbed /\ job' = [job EXCEPT ![c] = k]
  BY <1>4, <1>5 DEF Dmn!Spawn, Dmn!Goes, Dmn!history
<1>7. /\ k \in Jobs /\ k.at = "create" /\ k.does = "start" /\ k.left = j.left /\ k.then = j.then
      /\ k.pid = p /\ k.fd = clock + 1 /\ k.told = j.told /\ k.started = j.started
  <2>1. clock + 1 \in Nat /\ "create" \in Making
    BY <1>2 DEF Making
  <2> QED BY <1>2, <1>3, <1>5, <2>1 DEF Jobs
<1>8. \A q \in DmnPids : proc'[q] = IF q = p THEN [runs |-> n, since |-> clock + 1] ELSE proc[q]
  BY <1>4 DEF Dmn!Process, WorldInv
<1>9. PICK m : m = n
  OBVIOUS
<1>10. Was(p, k.fd, m)'
  BY <1>2, <1>6, <1>7, <1>8, <1>9 DEF Was
<1>11. Sound(k)'
  <2>1. PICK i : i = j
    OBVIOUS
  <2>2. Sound(i)'
    BY <1>2, <2>1, SoundKept
  <2>3. \A x \in DOMAIN k.started :
           k.started[x].pid # Dmn!NoPid =>
              Was(k.started[x].pid, k.started[x].since, k.started[x].name)'
    BY <1>7, <2>1, <2>2 DEF Sound
  <2>4. k # Dmn!Idle /\ k.fd <= clock' /\ Head(k.left) = m /\ k.left # <<>> /\ k.then = <<>>
    BY <1>2, <1>3, <1>6, <1>7, <1>9 DEF Dmn!Idle, Sound
  <2> QED BY <1>7, <1>10, <2>3, <2>4 DEF Sound, Looking, Making
<1>12. ASSUME ~disturbed PROVE Knows(k)'
  <2>1. Runs(n) = {}
    BY <1>1, <1>2, <1>12 DEF Knows
  <2>2. \A q \in Runs(m)' : q = p /\ proc'[q].since = clock + 1
    BY <1>2, <1>8, <1>9, <2>1 DEF Runs
  <2>3. Head(k.left) = m
    BY <1>2, <1>7, <1>9
  <2> QED BY <1>7, <2>2, <2>3 DEF Knows, Looking, Making
<1>13. Stays(j, k)
  BY <1>2, <1>3 DEF Stays
<1>14. ASSUME ~disturbed PROVE Tended(c, k)
  <2>1. Runs(n) = {}
    BY <1>1, <1>2, <1>14 DEF Knows
  <2>2. ASSUME NEW q \in DmnPids, proc'[q].runs = n PROVE Makes(k, q)'
    BY <1>2, <1>7, <1>8, <2>1, <2>2 DEF Runs, Makes, Making
  <2> QED BY <2>2 DEF Tended
<1> QED BY <1>6, <1>11, <1>12, <1>13, <1>14 DEF Moves

\* It writes its files, first the pid and then the identity.
LEMMA Writes ==
    ASSUME DaemonsConstants, WorldInv, FilesInv, JobsInv, TrackedInv, Passes, NEW c \in DmnCommands,
           Dmn!WritePid(c) \/ Dmn!WriteIdentity(c)
    PROVE  \E k : Moves(c, k) /\ Stays(job[c], k) /\ (~disturbed => Tended(c, k))
<1> DEFINE j == job[c]
           n == Dmn!This(c)
<1>1. j.at \in Making
  BY DEF Dmn!WritePid, Dmn!WriteIdentity, Making
<1>2. /\ clock \in Nat /\ Sound(j) /\ j # Dmn!Idle /\ j.left # <<>> /\ j \in Jobs
      /\ n = Head(j.left) /\ (~disturbed => Knows(j)) /\ n \in Dmn!Names
  BY <1>1, Here DEF Making
<1>3. j.does = "start" /\ j.pid \in DmnPids /\ Was(j.pid, j.fd, n) /\ j.fd \in Nat /\ j.fd >= 1
  <2>1. j.does = "start" /\ j.pid \in DmnPids /\ Was(j.pid, j.fd, n)
    BY <1>1, <1>2 DEF Sound
  <2> QED BY <1>2, <2>1 DEF Was
<1>4. ~disturbed => \A p \in Runs(n) : p = j.pid /\ proc[p].since = j.fd
  BY <1>1, <1>2 DEF Knows
<1>5. proc' = proc /\ clock' = clock /\ disturbed' = disturbed
  BY DEF Dmn!WritePid, Dmn!WriteIdentity, Dmn!history
<1>5a. ASSUME NEW k, k.at \in Making, k.left = j.left, k.pid = j.pid, k.fd = j.fd, ~disturbed
       PROVE  Tended(c, k)
  <2>1. ASSUME NEW q \in DmnPids, proc'[q].runs = n PROVE Makes(k, q)'
    BY <1>2, <1>4, <1>5, <1>5a, <2>1 DEF Runs, Makes
  <2> QED BY <2>1 DEF Tended
<1>6. ASSUME NEW x \in Making, Dmn!To(c, x),
             x \in {"create identity", "write identity"} => pidfile'[n] = j.pid
      PROVE  \E k : Moves(c, k) /\ Stays(job[c], k) /\ (~disturbed => Tended(c, k))
  <2>1. PICK k : k = [j EXCEPT !.at = x]
    OBVIOUS
  <2>2. /\ k \in Jobs /\ k.at = x /\ k.does = "start" /\ k.left = j.left /\ k.then = j.then
        /\ k.pid = j.pid /\ k.fd = j.fd /\ k.told = j.told /\ k.started = j.started
    BY <1>2, <1>3, <2>1 DEF Jobs
  <2>3. x \notin Looking \cup {"rest", "next", "spawn", "unlink", "unlink identity"}
    BY DEF Looking, Making
  <2>4. Sound(k)
    BY <1>1, <1>2, <1>3, <2>2, <2>3 DEF Sound, Looking
  <2>5. Sound(k)'
    BY <2>4, SoundKept
  <2>6. PICK m : m = n
    OBVIOUS
  <2>7. ASSUME ~disturbed PROVE Knows(k)'
    <3>1. \A p \in Runs(m)' : p = k.pid /\ proc'[p].since = k.fd
      BY <1>4, <1>5, <2>2, <2>6, <2>7 DEF Runs
    <3>2. Head(k.left) = m /\ (x \in {"create identity", "write identity"} => pidfile'[m] = k.pid)
      BY <1>2, <1>6, <2>2, <2>6
    <3> QED BY <2>2, <2>3, <3>1, <3>2 DEF Knows, Looking
  <2>8. Stays(j, k)
    BY <1>2, <1>3 DEF Stays
  <2>9. ~disturbed => Tended(c, k)
    BY <1>5a, <2>2
  <2> QED BY <1>5, <1>6, <2>1, <2>5, <2>7, <2>8, <2>9 DEF Moves, Dmn!To, Dmn!Goes
<1>7. CASE Dmn!WritePid(c)
  <2>1. CASE j.at = "create" /\ Dmn!To(c, "write")
    BY <1>6, <2>1 DEF Making
  <2>2. CASE Dmn!To(c, "create identity") /\ pidfile' = [pidfile EXCEPT ![n] = j.pid]
    <3>1. pidfile'[n] = j.pid
      BY <1>2, <2>2 DEF FilesInv
    <3> QED BY <1>6, <2>2, <3>1 DEF Making
  <2> QED BY <1>7, <2>1, <2>2 DEF Dmn!WritePid
<1>8. CASE j.at = "create identity" /\ Dmn!To(c, "write identity") /\ pidfile' = pidfile
  <2>1. ~disturbed => pidfile[n] = j.pid
    BY <1>2, <1>8 DEF Knows
  <2>2. PICK k : k = [j EXCEPT !.at = "write identity"]
    OBVIOUS
  <2>3. /\ k \in Jobs /\ k.at = "write identity" /\ k.does = "start" /\ k.left = j.left
        /\ k.then = j.then /\ k.pid = j.pid /\ k.fd = j.fd /\ k.told = j.told
        /\ k.started = j.started
    BY <1>2, <1>3, <2>2 DEF Jobs, Making
  <2>4. Sound(k)
    BY <1>1, <1>2, <1>3, <2>3 DEF Sound, Looking, Making
  <2>5. Knows(k) \/ disturbed
    BY <1>2, <1>4, <2>1, <2>3 DEF Knows, Looking
  <2>6. Moves(c, k)
    BY <1>5, <1>8, <2>2, <2>4, <2>5, SoundKept, KnowsKept DEF Moves, Dmn!To, Dmn!Goes
  <2>7. k.at \in Making
    BY <2>3 DEF Making
  <2>8. ~disturbed => Tended(c, k)
    BY <1>5a, <2>3, <2>7
  <2> QED BY <1>2, <1>3, <2>6, <2>8 DEF Stays
<1>9. CASE j.at = "write identity"
           /\ Dmn!Goes(c, Dmn!Passed([j EXCEPT !.started =
                Append(j.started, [name |-> n, pid |-> j.pid, since |-> j.fd])]))
  <2> DEFINE s == [name |-> n, pid |-> j.pid, since |-> j.fd]
             i == [j EXCEPT !.started = Append(j.started, s)]
  <2>1. s \in Started /\ j.started \in Seq(Started)
    <3>1. j.started \in Seq(Started)
      BY <1>2, Fields
    <3>2. j.fd \in Nat \ {0}
      BY <1>3
    <3> QED BY <1>2, <1>3, <3>1, <3>2 DEF Started
  <2>2. /\ Append(j.started, s) \in Seq(Started)
        /\ DOMAIN Append(j.started, s) = 1 .. Len(j.started) + 1
        /\ DOMAIN j.started = 1 .. Len(j.started) /\ Len(j.started) \in Nat
        /\ Append(j.started, s)[Len(j.started) + 1] = s
        /\ \A x \in DOMAIN j.started : Append(j.started, s)[x] = j.started[x]
    BY <2>1
  <2>3. /\ i \in Jobs /\ i.at = j.at /\ i.does = "start" /\ i.left = j.left /\ i.then = j.then
        /\ i.pid = j.pid /\ i.fd = j.fd /\ i.told = j.told /\ i.started = Append(j.started, s)
    BY <1>2, <1>3, <2>2 DEF Jobs
  <2>4. \A x \in DOMAIN i.started : i.started[x].pid # Dmn!NoPid =>
           Was(i.started[x].pid, i.started[x].since, i.started[x].name)
    <3>1. \A x \in DOMAIN j.started : j.started[x].pid # Dmn!NoPid =>
             Was(j.started[x].pid, j.started[x].since, j.started[x].name)
      BY <1>2 DEF Sound
    <3>2. \A x \in DOMAIN i.started : x \in DOMAIN j.started \/ i.started[x] = s
      BY <2>2, <2>3
    <3> QED BY <1>3, <2>2, <2>3, <3>1, <3>2
  <2> HIDE DEF i, s
  <2>5. Sound(i) /\ i # Dmn!Idle
    <3>1. i # Dmn!Idle /\ j.then = <<>> /\ i.left # <<>> /\ i.fd <= clock
      BY <1>2, <1>3, <2>3 DEF Dmn!Idle, Sound
    <3> QED BY <1>2, <1>3, <1>9, <2>3, <2>4, <3>1 DEF Sound, Looking, Making
  <2>6. PICK k : k = Dmn!Passed(i)
    OBVIOUS
  <2>7. /\ Sound(k) /\ k.at = "next" /\ k.does = "start"
    BY <1>2, <2>3, <2>5, <2>6, PassesOn
  <2>8. Knows(k)
    BY <2>7 DEF Knows, Looking, Making
  <2>9. job' = [job EXCEPT ![c] = k]
    BY <1>9, <2>6 DEF Dmn!Goes, i, s
  <2>10. Onward(c, k)
    BY <1>2, <1>3, <2>7, <2>8, <2>9 DEF Onward, Stays, Making
  <2>11. ASSUME ~disturbed PROVE Tended(c, k)
    <3>1. pidfile' = pidfile /\ pidfile[n] = j.pid
      BY <1>2, <1>9, <2>11 DEF Knows, Dmn!WriteIdentity, Dmn!WritePid
    <3>2. identity'[n] = [pid |-> j.pid, since |-> j.fd]
      BY <1>2, <1>9 DEF Dmn!WriteIdentity, Dmn!WritePid, FilesInv
    <3>3. ASSUME NEW q \in DmnPids, proc'[q].runs = n PROVE Tells(q)'
      BY <1>4, <1>5, <2>11, <3>1, <3>2, <3>3 DEF Runs, Tells
    <3> QED BY <3>3 DEF Tended
  <2> QED BY <1>5, <2>10, <2>11, StillMoves
<1> QED BY <1>7, <1>8, <1>9 DEF Dmn!WriteIdentity

\* A write that fails leaves no process and no files.
LEMMA FailsToWrite ==
    ASSUME DaemonsConstants, WorldInv, JobsInv, TrackedInv, Passes, NEW c \in DmnCommands,
           Dmn!WriteFails(c)
    PROVE  \E k : Moves(c, k) /\ Stays(job[c], k)
<1>1. job[c].at \in Making
  BY DEF Dmn!WriteFails, Making
<1>2. clock \in Nat /\ Sound(job[c])
  BY <1>1, Here DEF Making
<1>3. job[c].does = "start" /\ job[c].pid \in DmnPids
  BY <1>1, <1>2 DEF Sound
<1>4. PICK k : Onward(c, k)
  BY <1>2, <1>3, Gives DEF Dmn!WriteFails
<1>5. disturbed' = disturbed
  BY DEF Dmn!WriteFails, Dmn!history
<1>6. \A p \in DmnPids : proc'[p].runs \in Dmn!Names => proc'[p] = proc[p]
  BY <1>3 DEF Dmn!WriteFails, WorldInv, Dmn!NoProcess, DaemonsConstants
<1> QED BY <1>4, <1>5, <1>6, StillMoves

\* A start that cannot spawn a process undoes what it did.
LEMMA FailsToSpawn ==
    ASSUME DaemonsConstants, WorldInv, JobsInv, TrackedInv, NEW c \in DmnCommands, Dmn!SpawnFails(c)
    PROVE  \E k : Onward(c, k)
<1>1. job[c].at = "spawn"
  BY DEF Dmn!SpawnFails
<1>2. clock \in Nat /\ Sound(job[c])
  BY <1>1, Here
<1>3. job[c].does = "start"
  BY <1>1, <1>2 DEF Sound
<1> QED BY <1>2, <1>3, Gives DEF Dmn!SpawnFails

\* A command that has not looked at a daemon knows nothing yet.
LEMMA Fresh ==
    ASSUME DaemonsConstants, WorldInv, NEW k \in Jobs, k.at = "next", k.does \in {"start", "stop"},
           k.then # <<>> => k.does = "stop", k.fd = 0, k.started = <<>>
    PROVE  Sound(k) /\ Knows(k)
<1>1. 0 <= clock
  BY DEF WorldInv, DaemonsConstants
<1>2. Sound(k)
  BY <1>1 DEF Sound, Looking, Making
<1>3. Knows(k)
  BY DEF Knows, Looking, Making
<1> QED BY <1>2, <1>3

\* A command at rest.
LEMMA Rests ==
    ASSUME DaemonsConstants, WorldInv
    PROVE  Sound(Dmn!Idle) /\ Knows(Dmn!Idle)
<1>1. 0 <= clock /\ 0 \in Nat /\ <<>> \in Seq(Started) /\ <<>> \in Seq(Dmn!Names)
  BY DEF WorldInv, DaemonsConstants
<1>2. PICK k : k = Dmn!Idle
  OBVIOUS
<1>3. /\ k \in Jobs /\ k.at = "rest" /\ k.does = "rest" /\ k.left = <<>> /\ k.then = <<>>
      /\ k.pid = Dmn!NoPid /\ k.fd = 0 /\ k.told = 0 /\ k.started = <<>>
  BY <1>1, <1>2 DEF Dmn!Idle, Jobs
<1>4. Sound(k)
  BY <1>1, <1>2, <1>3 DEF Sound, Looking, Making
<1>5. Knows(k)
  BY <1>3 DEF Knows, Looking, Making
<1> QED BY <1>2, <1>4, <1>5

\* A command begins, with some of the daemons or all.
LEMMA BeginsOnward ==
    ASSUME DaemonsConstants, WorldInv, NEW c \in DmnCommands, Dmn!Begin(c)
    PROVE  \E k : /\ job' = [job EXCEPT ![c] = k] /\ Sound(k) /\ Knows(k) /\ k.at = "next"
                  /\ k.does \in {"start", "stop"}
                  /\ disturbed' = \/ disturbed
                                  \/ \E d \in DmnCommands : /\ job[d] # Dmn!Idle
                                                            /\ \/ Dmn!Starts(k.does, k.then)
                                                               \/ job[d].does = "undo"
                                                               \/ Dmn!Starts(job[d].does, job[d].then)
<1>1. install.modules \in Seq(Dmn!Names) /\ Dmn!Wanted \subseteq Seq(Dmn!Names)
  <2>1. install.modules \in Seq(Dmn!Names)
    BY DEF WorldInv, DaemonsConstants
  <2>2. \A i \in DOMAIN install.modules : SubSeq(install.modules, 1, i) \in Seq(Dmn!Names)
    BY <2>1
  <2> QED BY <2>1, <2>2 DEF Dmn!Wanted
<1>2. PICK does \in {"start", "stop"}, wanted \in Dmn!Wanted, restart \in BOOLEAN :
         LET then == IF does = "stop" /\ restart THEN wanted ELSE <<>>
         IN  /\ Dmn!Goes(c, [Dmn!Idle EXCEPT !.does = does, !.at = "next", !.then = then,
                                             !.left = IF does = "start" THEN wanted ELSE install.modules])
             /\ disturbed' = \/ disturbed
                             \/ \E d \in DmnCommands : /\ job[d] # Dmn!Idle
                                                       /\ \/ Dmn!Starts(does, then) \/ job[d].does = "undo"
                                                          \/ Dmn!Starts(job[d].does, job[d].then)
  BY DEF Dmn!Begin
<1>3. PICK then : then = IF does = "stop" /\ restart THEN wanted ELSE <<>>
  OBVIOUS
<1>4. PICK left : left = IF does = "start" THEN wanted ELSE install.modules
  OBVIOUS
<1>5. then \in Seq(Dmn!Names) /\ left \in Seq(Dmn!Names) /\ (then # <<>> => does = "stop")
  BY <1>1, <1>3, <1>4
<1>6. PICK k : k = [Dmn!Idle EXCEPT !.does = does, !.at = "next", !.then = then, !.left = left]
  OBVIOUS
<1>7. Sound(k) /\ Knows(k) /\ k.at = "next" /\ k.does = does /\ k.then = then
  <2>1. 0 \in Nat /\ <<>> \in Seq(Started)
    OBVIOUS
  <2>2. /\ k \in Jobs /\ k.at = "next" /\ k.does = does /\ k.then = then
        /\ k.fd = 0 /\ k.started = <<>>
    BY <1>5, <1>6, <2>1 DEF Dmn!Idle, Jobs
  <2> QED BY <1>5, <2>2, Fresh
<1>8. job' = [job EXCEPT ![c] = k]
  BY <1>2, <1>3, <1>4, <1>6 DEF Dmn!Goes
<1>9. disturbed' = \/ disturbed
                   \/ \E d \in DmnCommands : /\ job[d] # Dmn!Idle
                                             /\ \/ Dmn!Starts(does, then) \/ job[d].does = "undo"
                                                \/ Dmn!Starts(job[d].does, job[d].then)
  BY <1>2, <1>3
<1> QED BY <1>7, <1>8, <1>9

\* A command that has come to the end of its daemons is done, or goes on.
LEMMA Finishes ==
    ASSUME DaemonsConstants, WorldInv, JobsInv, TrackedInv, NEW c \in DmnCommands, Dmn!Finish(c)
    PROVE  /\ \E k : Onward(c, k)
           /\ ~disturbed => residue' = {}
<1> DEFINE j == job[c]
<1>1. j.at = "next" /\ j.left = <<>> /\ Sound(j) /\ j \in Jobs /\ clock \in Nat
  BY DEF Dmn!Finish, JobsInv, Sound, WorldInv, DaemonsConstants
<1>2. ~disturbed => Knows(j) /\ residue = {}
  BY DEF TrackedInv, KnowsInv
<1>3. j # Dmn!Idle
  BY <1>1 DEF Dmn!Idle
<1>4. ASSUME j.then # <<>>,
             Dmn!Goes(c, [Dmn!Idle EXCEPT !.does = "start", !.at = "next", !.left = j.then])
      PROVE  \E k : Onward(c, k)
  <2>1. j.then \in Seq(Dmn!Names) /\ <<>> \in Seq(Dmn!Names)
    BY <1>1, Fields
  <2>2. PICK k : k = [Dmn!Idle EXCEPT !.does = "start", !.at = "next", !.left = j.then]
    OBVIOUS
  <2>3. 0 \in Nat /\ <<>> \in Seq(Started)
    OBVIOUS
  <2>4. /\ k \in Jobs /\ k.at = "next" /\ k.does = "start" /\ k.then = <<>>
        /\ k.fd = 0 /\ k.started = <<>>
    BY <2>1, <2>2, <2>3 DEF Dmn!Idle, Jobs
  <2>5. job' = [job EXCEPT ![c] = k] /\ Sound(k) /\ Knows(k)
    BY <1>4, <2>2, <2>4, Fresh DEF Dmn!Goes
  <2>6. Stays(j, k)
    BY <1>3, <1>4 DEF Stays
  <2> QED BY <2>4, <2>5, <2>6 DEF Onward, Making
<1>5. ASSUME j.does = "start", Dmn!Undo(c)
      PROVE  \E k : Onward(c, k)
  BY <1>1, <1>5, Gives
<1>6. ASSUME Dmn!Goes(c, Dmn!Idle)
      PROVE  \E k : Onward(c, k)
  <2>1. Sound(Dmn!Idle) /\ Knows(Dmn!Idle) /\ Dmn!Idle.at \notin Making
    BY Rests DEF Dmn!Idle, Making
  <2> QED BY <1>6, <2>1 DEF Onward, Stays, Dmn!Goes
<1>7. \E k : Onward(c, k)
  BY <1>4, <1>5, <1>6 DEF Dmn!Finish
<1>8. ASSUME ~disturbed PROVE residue' = {}
  <2>1. ASSUME j.does = "undo" PROVE Dmn!Left(c) = {}
    BY <1>1, <1>2, <1>8, <2>1 DEF Dmn!Left, Knows
  <2> QED BY <1>2, <1>8, <2>1 DEF Dmn!Finish
<1> QED BY <1>7, <1>8

\* So in every step of a command but its first and its death.
LEMMA CommandMoves ==
    ASSUME DaemonsConstants, WorldInv, FilesInv, JobsInv, TrackedInv, Passes, NEW c \in DmnCommands,
           \/ Dmn!ReadPid(c) \/ Dmn!OpenPidfd(c) \/ Dmn!ReadIdentity(c) \/ Dmn!Compare(c)
           \/ Dmn!Confirm(c) \/ Dmn!Term(c) \/ Dmn!Exited(c) \/ Dmn!KillDaemon(c) \/ Dmn!CannotSignal(c)
           \/ Dmn!Unlink(c) \/ Dmn!UnlinkIdentity(c) \/ Dmn!Spawn(c) \/ Dmn!SpawnFails(c) \/ Dmn!WritePid(c)
           \/ Dmn!WriteIdentity(c) \/ Dmn!WriteFails(c) \/ Dmn!Finish(c)
    PROVE  \E k : Moves(c, k) /\ Stays(job[c], k)
<1>1. CASE Dmn!KillDaemon(c)
  BY <1>1, Kills
<1>2. CASE Dmn!Spawn(c)
  BY <1>2, Spawns
<1>3. CASE Dmn!WritePid(c) \/ Dmn!WriteIdentity(c)
  BY <1>3, Writes
<1>4. CASE Dmn!WriteFails(c)
  BY <1>4, FailsToWrite
<1>5. CASE \/ Dmn!ReadPid(c) \/ Dmn!OpenPidfd(c) \/ Dmn!ReadIdentity(c) \/ Dmn!Compare(c)
           \/ Dmn!Confirm(c) \/ Dmn!Term(c) \/ Dmn!Exited(c) \/ Dmn!CannotSignal(c)
           \/ Dmn!Unlink(c) \/ Dmn!UnlinkIdentity(c) \/ Dmn!SpawnFails(c) \/ Dmn!Finish(c)
  <2>1. proc' = proc /\ disturbed' = disturbed
    BY <1>5
    DEF Dmn!ReadPid, Dmn!OpenPidfd, Dmn!ReadIdentity, Dmn!Compare, Dmn!Confirm, Dmn!Term,
        Dmn!Exited, Dmn!CannotSignal,
        Dmn!Unlink, Dmn!UnlinkIdentity, Dmn!SpawnFails, Dmn!Finish, Dmn!history
  <2>2. \E k : Onward(c, k)
    BY <1>5, ReadsPid, OpensPidfd, ReadsIdentity, Compares, Confirms, CannotSignals, Unlinks,
       FailsToSpawn, Finishes
  <2> QED BY <2>1, <2>2, StillMoves
<1> QED BY <1>1, <1>2, <1>3, <1>4, <1>5

(* The parts of the invariant are kept *)

\* Of all commands, what they know is sound.
LEMMA JobsKept ==
    ASSUME DaemonsConstants, WorldInv, FilesInv, JobsInv, TrackedInv, Passes,
           Dmn!Next \/ UNCHANGED Dmn!dvars
    PROVE  JobsInv'
<1>1. ASSUME job' = job PROVE JobsInv'
  BY <1>1, SoundKept DEF JobsInv
<1>2. ASSUME NEW c \in DmnCommands, NEW k, job' = [job EXCEPT ![c] = k], Sound(k)'
      PROVE  JobsInv'
  <2>1. k \in Jobs
    BY <1>2 DEF Sound
  <2>2. \A d \in DmnCommands : job'[d] = IF d = c THEN k ELSE job[d]
    BY <1>2 DEF JobsInv
  <2>3. \A d \in DmnCommands : Sound(job[d])
    BY DEF JobsInv
  <2>4. \A j : Sound(j) => Sound(j)'
    BY SoundKept
  <2>6. \A d \in DmnCommands : Sound(job[d])'
    <3> SUFFICES ASSUME NEW d \in DmnCommands PROVE Sound(job[d])'
      OBVIOUS
    <3>1. PICK j : j = IF d = c THEN k ELSE job[d]
      OBVIOUS
    <3>2. Sound(j)'
      BY <1>2, <2>3, <2>4, <3>1
    <3>3. job'[d] = j
      BY <2>2, <3>1
    <3> QED BY <3>2, <3>3 DEF Sound
  <2> QED BY <1>2, <2>1, <2>6 DEF JobsInv
<1>3. CASE UNCHANGED Dmn!dvars
  BY <1>1, <1>3 DEF Dmn!dvars
<1>4. ASSUME NEW p \in DmnPids, Dmn!Exit(p) \/ Dmn!Arrives(p) PROVE JobsInv'
  BY <1>1, <1>4 DEF Dmn!Exit, Dmn!Arrives
<1>5. ASSUME NEW c \in DmnCommands, Dmn!Begin(c) PROVE JobsInv'
  BY <1>2, <1>5, BeginsOnward, SoundKept
<1>6. ASSUME NEW c \in DmnCommands, Dmn!Killed(c) PROVE JobsInv'
  <2>1. Sound(Dmn!Idle)'
    BY Rests, SoundKept
  <2> QED BY <1>2, <1>6, <2>1 DEF Dmn!Killed, Dmn!Goes
<1>7. ASSUME NEW c \in DmnCommands,
             \/ Dmn!ReadPid(c) \/ Dmn!OpenPidfd(c) \/ Dmn!ReadIdentity(c) \/ Dmn!Compare(c)
             \/ Dmn!Confirm(c) \/ Dmn!Term(c) \/ Dmn!Exited(c) \/ Dmn!KillDaemon(c) \/ Dmn!CannotSignal(c)
             \/ Dmn!Unlink(c) \/ Dmn!UnlinkIdentity(c) \/ Dmn!Spawn(c) \/ Dmn!SpawnFails(c) \/ Dmn!WritePid(c)
             \/ Dmn!WriteIdentity(c) \/ Dmn!WriteFails(c) \/ Dmn!Finish(c)
      PROVE  JobsInv'
  BY <1>2, <1>7, CommandMoves DEF Moves
<1> QED BY <1>3, <1>4, <1>5, <1>6, <1>7 DEF Dmn!Next, Dmn!Step

\* Nobody is signalled but the daemon that is meant.
LEMMA CountersKept ==
    ASSUME DaemonsConstants, WorldInv, JobsInv, CountersInv, Dmn!Next \/ UNCHANGED Dmn!dvars
    PROVE  CountersInv' /\ (disturbed => disturbed')
<1>1. ASSUME NEW c \in DmnCommands, job[c].at \in {"term", "wait"}, Dmn!Signalled(c)
      PROVE  astray' = FALSE
  <2>1. Was(job[c].pid, job[c].fd, Dmn!This(c))
    BY <1>1 DEF JobsInv, Sound, Dmn!This
  <2>2. Dmn!Bound(c) => proc[job[c].pid].runs = Dmn!This(c)
    BY <2>1 DEF Was, Dmn!Bound
  <2> QED BY <1>1, <2>2 DEF Dmn!Signalled, CountersInv
<1>2. ASSUME NEW c \in DmnCommands, Dmn!Term(c) \/ Dmn!KillDaemon(c)
      PROVE  astray' = FALSE /\ UNCHANGED <<faults, disturbed>>
  BY <1>1, <1>2 DEF Dmn!Term, Dmn!KillDaemon
<1>3. ASSUME NEW c \in DmnCommands, Dmn!Begin(c) \/ Dmn!Killed(c)
      PROVE  /\ astray' = astray /\ disturbed' \in BOOLEAN /\ (disturbed => disturbed')
             /\ faults' = faults \/ Dmn!Fault
  BY <1>3 DEF Dmn!Begin, Dmn!Killed
<1>4. ASSUME NEW c \in DmnCommands,
             \/ Dmn!ReadPid(c) \/ Dmn!OpenPidfd(c) \/ Dmn!ReadIdentity(c) \/ Dmn!Compare(c)
             \/ Dmn!Confirm(c) \/ Dmn!Exited(c) \/ Dmn!CannotSignal(c)
             \/ Dmn!Unlink(c) \/ Dmn!UnlinkIdentity(c) \/ Dmn!Spawn(c) \/ Dmn!SpawnFails(c) \/ Dmn!WritePid(c)
             \/ Dmn!WriteIdentity(c) \/ Dmn!WriteFails(c) \/ Dmn!Finish(c)
      PROVE  UNCHANGED <<astray, disturbed>> /\ (faults' = faults \/ Dmn!Fault)
  BY <1>4
  DEF Dmn!ReadPid, Dmn!OpenPidfd, Dmn!ReadIdentity, Dmn!Compare, Dmn!Confirm, Dmn!Exited,
      Dmn!CannotSignal, Dmn!Unlink,
      Dmn!UnlinkIdentity, Dmn!Spawn, Dmn!SpawnFails, Dmn!WritePid, Dmn!WriteIdentity, Dmn!WriteFails, Dmn!Finish, Dmn!history
<1>5. ASSUME NEW p \in DmnPids, Dmn!Exit(p) \/ Dmn!Arrives(p) PROVE UNCHANGED <<faults, astray, disturbed>>
  BY <1>5 DEF Dmn!Exit, Dmn!Arrives, Dmn!history
<1>6. CASE UNCHANGED Dmn!dvars
  BY <1>6 DEF Dmn!dvars, CountersInv
<1>7. Dmn!Fault => faults' \in 0 .. DmnMaxFaults
  BY DEF Dmn!Fault, CountersInv, DaemonsConstants
<1> QED BY <1>2, <1>3, <1>4, <1>5, <1>6, <1>7 DEF Dmn!Next, Dmn!Step, CountersInv

\* While nothing was disturbed, a command that is at a daemon's files has no other but such
\* as stop beside it, and none if it starts.
LEMMA Beside ==
    ASSUME JobsInv, AloneInv, NEW c \in DmnCommands, NEW d \in DmnCommands, c # d,
           job[c] # Dmn!Idle, job[d] # Dmn!Idle
    PROVE  /\ job[c].does = "stop" /\ job[c].then = <<>>
           /\ job[c].at \notin Making \cup {"spawn"}
<1>1. job[c].does = "stop" /\ job[c].then = <<>>
  BY DEF AloneInv
<1>2. Sound(job[c])
  BY DEF JobsInv
<1> QED BY <1>1, <1>2 DEF Sound

\* A command that is at work.
LEMMA Busy ==
    ASSUME JobsInv, NEW c \in DmnCommands,
           \/ Dmn!ReadPid(c) \/ Dmn!OpenPidfd(c) \/ Dmn!ReadIdentity(c) \/ Dmn!Compare(c)
           \/ Dmn!Confirm(c) \/ Dmn!Term(c) \/ Dmn!Exited(c) \/ Dmn!KillDaemon(c) \/ Dmn!CannotSignal(c)
           \/ Dmn!Unlink(c) \/ Dmn!UnlinkIdentity(c) \/ Dmn!Spawn(c) \/ Dmn!SpawnFails(c) \/ Dmn!WritePid(c)
           \/ Dmn!WriteIdentity(c) \/ Dmn!WriteFails(c) \/ Dmn!Finish(c)
    PROVE  job[c] # Dmn!Idle
<1>1. job[c].at # "rest"
  BY DEF Dmn!ReadPid, Dmn!OpenPidfd, Dmn!ReadIdentity, Dmn!Compare, Dmn!Confirm, Dmn!Term,
     Dmn!Exited, Dmn!KillDaemon,
         Dmn!CannotSignal, Dmn!Unlink, Dmn!UnlinkIdentity, Dmn!Spawn, Dmn!SpawnFails, Dmn!WritePid, Dmn!WriteIdentity,
         Dmn!WriteFails, Dmn!Finish
<1> QED BY <1>1 DEF Dmn!Idle

\* What comes into the world comes of Spawn, and what is told in the files changes with the
\* steps that are about them.
LEMMA WorldMoves ==
    ASSUME DaemonsConstants, WorldInv, JobsInv, NEW c \in DmnCommands,
           \/ Dmn!ReadPid(c) \/ Dmn!OpenPidfd(c) \/ Dmn!ReadIdentity(c) \/ Dmn!Compare(c)
           \/ Dmn!Confirm(c) \/ Dmn!Term(c) \/ Dmn!Exited(c) \/ Dmn!KillDaemon(c) \/ Dmn!CannotSignal(c)
           \/ Dmn!Unlink(c) \/ Dmn!UnlinkIdentity(c) \/ Dmn!Spawn(c) \/ Dmn!SpawnFails(c) \/ Dmn!WritePid(c)
           \/ Dmn!WriteIdentity(c) \/ Dmn!WriteFails(c) \/ Dmn!Finish(c)
    PROVE  /\ job[c].at # "spawn" =>
                \A p \in DmnPids : proc'[p].runs \in Dmn!Names => proc'[p] = proc[p]
           /\ job[c].at \notin Making \cup {"unlink", "unlink identity"} => UNCHANGED Dmn!files
<1>1. CASE Dmn!Spawn(c)
  BY <1>1 DEF Dmn!Spawn
<1>2. CASE Dmn!KillDaemon(c)
  <2>1. job[c].pid \in DmnPids
    BY <1>2 DEF Dmn!KillDaemon, JobsInv, Sound, Looking
  <2> QED BY <1>2, <2>1 DEF Dmn!KillDaemon, WorldInv, Dmn!NoProcess, DaemonsConstants
<1>3. CASE Dmn!WriteFails(c)
  <2>1. job[c].at \in Making
    BY <1>3 DEF Dmn!WriteFails, Making
  <2>2. job[c].pid \in DmnPids
    BY <2>1 DEF JobsInv, Sound
  <2> QED BY <1>3, <2>1, <2>2 DEF Dmn!WriteFails, WorldInv, Dmn!NoProcess, DaemonsConstants
<1>4. CASE Dmn!WritePid(c) \/ Dmn!WriteIdentity(c) \/ Dmn!Unlink(c) \/ Dmn!UnlinkIdentity(c)
  <2>1. job[c].at \in Making \cup {"unlink", "unlink identity"}
    BY <1>4 DEF Dmn!WritePid, Dmn!WriteIdentity, Dmn!Unlink, Dmn!UnlinkIdentity, Making
  <2> QED BY <1>4, <2>1 DEF Dmn!WritePid, Dmn!WriteIdentity, Dmn!Unlink, Dmn!UnlinkIdentity
<1>5. CASE \/ Dmn!ReadPid(c) \/ Dmn!OpenPidfd(c) \/ Dmn!ReadIdentity(c) \/ Dmn!Compare(c)
           \/ Dmn!Confirm(c) \/ Dmn!Term(c) \/ Dmn!Exited(c) \/ Dmn!CannotSignal(c)
           \/ Dmn!SpawnFails(c) \/ Dmn!Finish(c)
  BY <1>5
  DEF Dmn!ReadPid, Dmn!OpenPidfd, Dmn!ReadIdentity, Dmn!Compare, Dmn!Confirm, Dmn!Term,
      Dmn!Exited, Dmn!CannotSignal,
              Dmn!SpawnFails, Dmn!Finish
<1> QED BY <1>1, <1>2, <1>3, <1>4, <1>5

\* Nothing but stops runs beside others.
LEMMA AloneKept ==
    ASSUME DaemonsConstants, WorldInv, FilesInv, JobsInv, TrackedInv, Passes, ~disturbed,
           ~disturbed', Dmn!Next \/ UNCHANGED Dmn!dvars
    PROVE  AloneInv'
<1>1. AloneInv
  BY DEF TrackedInv
<1>2. ASSUME job' = job PROVE AloneInv'
  BY <1>1, <1>2 DEF AloneInv
<1>3. ASSUME NEW c \in DmnCommands, NEW k, job' = [job EXCEPT ![c] = k],
             \A d \in DmnCommands : d # c /\ job[d] # Dmn!Idle /\ k # Dmn!Idle =>
                /\ job[d].does = "stop" /\ job[d].then = <<>>
                /\ k.does = "stop" /\ k.then = <<>>
      PROVE  AloneInv'
  <2>1. \A d \in DmnCommands : job'[d] = IF d = c THEN k ELSE job[d]
    BY <1>3 DEF JobsInv
  <2> QED BY <1>1, <1>3, <2>1 DEF AloneInv
<1>4. CASE UNCHANGED Dmn!dvars
  BY <1>2, <1>4 DEF Dmn!dvars
<1>5. ASSUME NEW p \in DmnPids, Dmn!Exit(p) \/ Dmn!Arrives(p) PROVE AloneInv'
  BY <1>2, <1>5 DEF Dmn!Exit, Dmn!Arrives
<1>6. ASSUME NEW c \in DmnCommands, Dmn!Begin(c) PROVE AloneInv'
  <2>1. PICK k : /\ job' = [job EXCEPT ![c] = k] /\ k.does \in {"start", "stop"}
                 /\ \A d \in DmnCommands : job[d] # Dmn!Idle => /\ ~Dmn!Starts(k.does, k.then)
                                                                /\ job[d].does # "undo"
                                                                /\ ~Dmn!Starts(job[d].does, job[d].then)
    BY <1>6, BeginsOnward
  <2>2. \A d \in DmnCommands : job[d] # Dmn!Idle => job[d].does \in {"start", "stop", "undo"}
    BY Fields DEF JobsInv, Sound
  <2> QED BY <1>3, <2>1, <2>2 DEF Dmn!Starts
<1>7. ASSUME NEW c \in DmnCommands,
             \/ Dmn!ReadPid(c) \/ Dmn!OpenPidfd(c) \/ Dmn!ReadIdentity(c) \/ Dmn!Compare(c)
             \/ Dmn!Confirm(c) \/ Dmn!Term(c) \/ Dmn!Exited(c) \/ Dmn!KillDaemon(c) \/ Dmn!CannotSignal(c)
             \/ Dmn!Unlink(c) \/ Dmn!UnlinkIdentity(c) \/ Dmn!Spawn(c) \/ Dmn!SpawnFails(c) \/ Dmn!WritePid(c)
             \/ Dmn!WriteIdentity(c) \/ Dmn!WriteFails(c) \/ Dmn!Finish(c)
      PROVE  AloneInv'
  <2>1. PICK k : job' = [job EXCEPT ![c] = k] /\ Stays(job[c], k)
    BY <1>7, CommandMoves DEF Moves
  <2>2. job[c] # Dmn!Idle
    BY <1>7, Busy
  <2> QED BY <1>1, <1>3, <2>1, <2>2 DEF Stays, AloneInv
<1>8. ASSUME NEW c \in DmnCommands, Dmn!Killed(c) PROVE AloneInv'
  BY <1>8 DEF Dmn!Killed
<1> QED BY <1>4, <1>5, <1>6, <1>7, <1>8 DEF Dmn!Next, Dmn!Step

\* What commands know of the daemons that run stays so.
LEMMA KnowledgeKept ==
    ASSUME DaemonsConstants, WorldInv, FilesInv, JobsInv, TrackedInv, Passes, ~disturbed,
           ~disturbed', Dmn!Next \/ UNCHANGED Dmn!dvars
    PROVE  KnowsInv'
<1>1. AloneInv /\ KnowsInv /\ \A d \in DmnCommands : Sound(job[d]) /\ Knows(job[d])
  BY DEF TrackedInv, KnowsInv, JobsInv
<1>2. ASSUME job' = job, pidfile' = pidfile,
             \A p \in DmnPids : proc'[p].runs \in Dmn!Names => proc'[p] = proc[p]
      PROVE  KnowsInv'
  <2> SUFFICES ASSUME NEW d \in DmnCommands PROVE Knows(job[d])'
    BY DEF KnowsInv
  <2>1. PICK j : j = job[d]
    OBVIOUS
  <2>2. Knows(j)'
    BY <1>1, <1>2, <2>1, KnowsKept
  <2>3. job'[d] = j
    BY <1>2, <2>1
  <2> QED BY <2>2, <2>3 DEF Knows
<1>3. ASSUME NEW c \in DmnCommands, NEW k, job' = [job EXCEPT ![c] = k], Knows(k)',
             \A d \in DmnCommands : d # c => \A j : j = job[d] => Knows(j)'
      PROVE  KnowsInv'
  <2> SUFFICES ASSUME NEW d \in DmnCommands PROVE Knows(job[d])'
    BY DEF KnowsInv
  <2>1. PICK j : j = IF d = c THEN k ELSE job[d]
    OBVIOUS
  <2>2. Knows(j)'
    BY <1>3, <2>1
  <2>3. job'[d] = j
    BY <1>3, <2>1 DEF JobsInv
  <2> QED BY <2>2, <2>3 DEF Knows
<1>4. CASE UNCHANGED Dmn!dvars
  BY <1>2, <1>4 DEF Dmn!dvars, Dmn!files
<1>5. ASSUME NEW p \in DmnPids, Dmn!Exit(p) \/ Dmn!Arrives(p) PROVE KnowsInv'
  <2>1. \A q \in DmnPids : proc'[q].runs \in Dmn!Names => proc'[q] = proc[q]
    BY <1>5 DEF Dmn!Exit, Dmn!Arrives, Dmn!Process, WorldInv, Dmn!NoProcess, DaemonsConstants
  <2> QED BY <1>2, <1>5, <2>1 DEF Dmn!Exit, Dmn!Arrives, Dmn!files
<1>6. ASSUME NEW c \in DmnCommands, Dmn!Begin(c) PROVE KnowsInv'
  <2>1. proc' = proc /\ pidfile' = pidfile
    BY <1>6 DEF Dmn!Begin, Dmn!files
  <2>2. PICK k : job' = [job EXCEPT ![c] = k] /\ Sound(k) /\ Knows(k)
    BY <1>6, BeginsOnward
  <2>3. \A j : Sound(j) /\ Knows(j) => Knows(j)'
    BY <2>1, KnowsKept
  <2> QED BY <1>1, <1>3, <2>2, <2>3
<1>7. ASSUME NEW c \in DmnCommands,
             \/ Dmn!ReadPid(c) \/ Dmn!OpenPidfd(c) \/ Dmn!ReadIdentity(c) \/ Dmn!Compare(c)
             \/ Dmn!Confirm(c) \/ Dmn!Term(c) \/ Dmn!Exited(c) \/ Dmn!KillDaemon(c) \/ Dmn!CannotSignal(c)
             \/ Dmn!Unlink(c) \/ Dmn!UnlinkIdentity(c) \/ Dmn!Spawn(c) \/ Dmn!SpawnFails(c) \/ Dmn!WritePid(c)
             \/ Dmn!WriteIdentity(c) \/ Dmn!WriteFails(c) \/ Dmn!Finish(c)
      PROVE  KnowsInv'
  <2>1. PICK k : job' = [job EXCEPT ![c] = k] /\ Knows(k)'
    BY <1>7, CommandMoves DEF Moves
  <2>2. job[c] # Dmn!Idle
    BY <1>7, Busy
  <2>3. ASSUME NEW d \in DmnCommands, d # c, NEW j, j = job[d] PROVE Knows(j)'
    <3>1. CASE j = Dmn!Idle
      BY <3>1 DEF Knows, Dmn!Idle, Looking, Making
    <3>2. CASE j # Dmn!Idle
      <4>1. job[c].at # "spawn" /\ j.at \notin Making
        BY <1>1, <2>2, <2>3, <3>2, Beside
      <4>2. \A p \in DmnPids : proc'[p].runs \in Dmn!Names => proc'[p] = proc[p]
        BY <1>7, <4>1, WorldMoves
      <4> QED BY <1>1, <2>3, <4>1, <4>2, KnowsKept
    <3> QED BY <3>1, <3>2
  <2> QED BY <1>3, <2>1, <2>3
<1>8. ASSUME NEW c \in DmnCommands, Dmn!Killed(c) PROVE KnowsInv'
  BY <1>8 DEF Dmn!Killed
<1> QED BY <1>4, <1>5, <1>6, <1>7, <1>8 DEF Dmn!Next, Dmn!Step

\* The daemons are told of where the files change for one name n only, if those of n are.
LEMMA ToldStays ==
    ASSUME JobsInv, ToldInv, NEW c \in DmnCommands, NEW k, job' = [job EXCEPT ![c] = k], NEW n,
           \A m \in Dmn!Names : m # n => pidfile'[m] = pidfile[m] /\ identity'[m] = identity[m],
           \A p \in DmnPids : proc'[p].runs \in Dmn!Names /\ proc'[p].runs # n => proc'[p] = proc[p],
           job[c].at \in Making => Head(job[c].left) = n,
           \A p \in DmnPids : n \in Dmn!Names /\ proc'[p].runs = n => Tells(p)' \/ Makes(k, p)'
    PROVE  ToldInv'
<1> SUFFICES ASSUME NEW p \in DmnPids, proc'[p].runs \in Dmn!Names
             PROVE  Tells(p)' \/ \E d \in DmnCommands : Makes(job[d], p)'
  BY DEF ToldInv
<1>1. \A d \in DmnCommands : job'[d] = IF d = c THEN k ELSE job[d]
  BY DEF JobsInv
<1>2. CASE proc'[p].runs = n
  <2>1. CASE Makes(k, p)'
    BY <1>1, <2>1 DEF Makes
  <2> QED BY <1>2, <2>1
<1>3. CASE proc'[p].runs # n
  <2>1. proc'[p] = proc[p]
    BY <1>3
  <2>2. CASE Tells(p)
    BY <1>3, <2>1, <2>2 DEF Tells
  <2>3. ASSUME NEW d \in DmnCommands, Makes(job[d], p) PROVE Makes(job[d], p)'
    <3>1. d # c
      BY <1>3, <2>1, <2>3 DEF Makes
    <3> QED BY <1>1, <2>1, <2>3, <3>1 DEF Makes
  <2> QED BY <2>1, <2>2, <2>3 DEF ToldInv
<1> QED BY <1>2, <1>3

\* The daemons that run are told of.
LEMMA ToldKept ==
    ASSUME DaemonsConstants, WorldInv, FilesInv, JobsInv, TrackedInv, Passes, ~disturbed,
           ~disturbed', Dmn!Next \/ UNCHANGED Dmn!dvars
    PROVE  ToldInv'
<1>1. AloneInv /\ ToldInv
  BY DEF TrackedInv
<1>2. ASSUME job' = job, UNCHANGED Dmn!files,
             \A p \in DmnPids : proc'[p].runs \in Dmn!Names => proc'[p] = proc[p]
      PROVE  ToldInv'
  BY <1>1, <1>2 DEF ToldInv, Tells, Makes, Dmn!files
<1>3. ASSUME NEW c \in DmnCommands, NEW k, job' = [job EXCEPT ![c] = k], UNCHANGED Dmn!files,
             job[c].at \notin Making,
             \A p \in DmnPids : proc'[p].runs \in Dmn!Names => proc'[p] = proc[p]
      PROVE  ToldInv'
  <2>1. "else" \notin Dmn!Names
    BY DEF DaemonsConstants
  <2>2. \A m \in Dmn!Names : pidfile'[m] = pidfile[m] /\ identity'[m] = identity[m]
    BY <1>3 DEF Dmn!files
  <2> QED BY <1>1, <1>3, <2>1, <2>2, ToldStays
<1>4. CASE UNCHANGED Dmn!dvars
  BY <1>2, <1>4 DEF Dmn!dvars
<1>5. ASSUME NEW p \in DmnPids, Dmn!Exit(p) \/ Dmn!Arrives(p) PROVE ToldInv'
  <2>1. \A q \in DmnPids : proc'[q].runs \in Dmn!Names => proc'[q] = proc[q]
    BY <1>5 DEF Dmn!Exit, Dmn!Arrives, Dmn!Process, WorldInv, Dmn!NoProcess, DaemonsConstants
  <2> QED BY <1>2, <1>5, <2>1 DEF Dmn!Exit, Dmn!Arrives
<1>6. ASSUME NEW c \in DmnCommands, Dmn!Begin(c) PROVE ToldInv'
  <2>1. PICK k : job' = [job EXCEPT ![c] = k] /\ k.at = "next"
    BY <1>6, BeginsOnward
  <2>2. proc' = proc /\ UNCHANGED Dmn!files
    BY <1>6 DEF Dmn!Begin
  <2>3. CASE job[c].at \notin Making
    BY <1>3, <2>1, <2>2, <2>3
  <2>4. CASE job[c].at \in Making
    <3>1. Sound(job[c])
      BY DEF JobsInv
    <3>2. job[c].does = "start"
      BY <2>4, <3>1 DEF Sound
    <3>3. job[c] # Dmn!Idle /\ Dmn!Starts(job[c].does, job[c].then)
      BY <3>2 DEF Dmn!Idle, Dmn!Starts
    <3> QED BY <1>6, <3>3, BeginsOnward
  <2> QED BY <2>3, <2>4
<1>7. ASSUME NEW c \in DmnCommands, Dmn!Spawn(c) \/ Dmn!WritePid(c) \/ Dmn!WriteIdentity(c) PROVE ToldInv'
  <2>1. job[c].at \in Making \cup {"spawn"}
    BY <1>7 DEF Dmn!Spawn, Dmn!WritePid, Dmn!WriteIdentity, Making
  <2>2. Dmn!This(c) \in Dmn!Names /\ Dmn!This(c) = Head(job[c].left)
    BY <2>1, Here DEF Making
  <2>3. PICK k : job' = [job EXCEPT ![c] = k] /\ Tended(c, k)
    BY <1>7, Spawns, Writes DEF Moves
  <2>4. PICK n : n = Dmn!This(c)
    OBVIOUS
  <2>5. \A m \in Dmn!Names : m # n => pidfile'[m] = pidfile[m] /\ identity'[m] = identity[m]
    BY <1>7, <2>4 DEF Dmn!Spawn, Dmn!WritePid, Dmn!WriteIdentity, Dmn!files, FilesInv
  <2>6. \A p \in DmnPids : proc'[p].runs \in Dmn!Names /\ proc'[p].runs # n => proc'[p] = proc[p]
    <3>1. CASE Dmn!Spawn(c)
      BY <2>4, <3>1 DEF Dmn!Spawn, Dmn!Process, WorldInv
    <3>2. CASE Dmn!WritePid(c) \/ Dmn!WriteIdentity(c)
      BY <3>2 DEF Dmn!WritePid, Dmn!WriteIdentity
    <3> QED BY <1>7, <3>1, <3>2
  <2>7. \A p \in DmnPids : proc'[p].runs = n => Tells(p)' \/ Makes(k, p)'
    BY <2>3, <2>4 DEF Tended
  <2> QED BY <1>1, <2>2, <2>3, <2>4, <2>5, <2>6, <2>7, ToldStays
<1>8. ASSUME NEW c \in DmnCommands, Dmn!WriteFails(c) \/ Dmn!Unlink(c) \/ Dmn!UnlinkIdentity(c) PROVE ToldInv'
  <2>1. job[c].at \in Making \cup {"unlink", "unlink identity"}
    BY <1>8 DEF Dmn!WriteFails, Dmn!Unlink, Dmn!UnlinkIdentity, Making
  <2>2. Dmn!This(c) \in Dmn!Names /\ Dmn!This(c) = Head(job[c].left) /\ Knows(job[c]) /\ Sound(job[c])
    BY <2>1, Here DEF Making
  <2>3. PICK k : job' = [job EXCEPT ![c] = k]
    BY <1>8, CommandMoves DEF Moves
  <2>4. PICK n : n = Dmn!This(c)
    OBVIOUS
  <2>5. \A m \in Dmn!Names : m # n => pidfile'[m] = pidfile[m] /\ identity'[m] = identity[m]
    BY <1>8, <2>4 DEF Dmn!WriteFails, Dmn!Unlink, Dmn!UnlinkIdentity, FilesInv
  <2>6. \A p \in DmnPids : proc'[p].runs \in Dmn!Names => proc'[p] = proc[p]
    BY <1>8, <2>1, WorldMoves DEF Making
  <2>7. \A p \in DmnPids : proc'[p].runs # n
    <3>1. CASE Dmn!Unlink(c) \/ Dmn!UnlinkIdentity(c)
      <4>1. Runs(n) = {} /\ proc' = proc
        BY <2>2, <2>4, <3>1 DEF Knows, Dmn!Unlink, Dmn!UnlinkIdentity
      <4> QED BY <4>1 DEF Runs
    <3>2. CASE Dmn!WriteFails(c)
      <4>1. job[c].at \in Making
        BY <3>2 DEF Dmn!WriteFails, Making
      <4>2. /\ job[c].pid \in DmnPids
            /\ \A p \in Runs(n) : p = job[c].pid /\ proc[p].since = job[c].fd
        BY <2>2, <2>4, <4>1 DEF Knows, Sound
      <4>3. ASSUME NEW p \in DmnPids, proc'[p].runs = n PROVE FALSE
        <5>1. proc'[p] = proc[p] /\ p = job[c].pid /\ Dmn!Bound(c)
          BY <2>2, <2>4, <2>6, <4>2, <4>3 DEF Runs, Dmn!Bound
        <5>2. proc'[p] = Dmn!NoProcess
          BY <3>2, <4>2, <5>1 DEF Dmn!WriteFails, WorldInv
        <5> QED BY <2>2, <2>4, <4>3, <5>2 DEF Dmn!NoProcess, DaemonsConstants
      <4> QED BY <4>3
    <3> QED BY <1>8, <3>1, <3>2
  <2> QED BY <1>1, <2>2, <2>3, <2>4, <2>5, <2>6, <2>7, ToldStays
<1>9. ASSUME NEW c \in DmnCommands,
             \/ Dmn!ReadPid(c) \/ Dmn!OpenPidfd(c) \/ Dmn!ReadIdentity(c) \/ Dmn!Compare(c)
             \/ Dmn!Confirm(c) \/ Dmn!Term(c) \/ Dmn!Exited(c) \/ Dmn!KillDaemon(c) \/ Dmn!CannotSignal(c)
             \/ Dmn!SpawnFails(c) \/ Dmn!Finish(c)
      PROVE  ToldInv'
  <2>1. /\ job[c].at \notin Making \cup {"unlink", "unlink identity"}
        /\ Dmn!SpawnFails(c) \/ job[c].at # "spawn"
    BY <1>9
    DEF Dmn!ReadPid, Dmn!OpenPidfd, Dmn!ReadIdentity, Dmn!Compare, Dmn!Confirm, Dmn!Term,
        Dmn!Exited, Dmn!KillDaemon,
        Dmn!CannotSignal, Dmn!SpawnFails, Dmn!Finish, Making
  <2>2. PICK k : job' = [job EXCEPT ![c] = k]
    BY <1>9, CommandMoves DEF Moves
  <2>3. UNCHANGED Dmn!files /\ \A p \in DmnPids : proc'[p].runs \in Dmn!Names => proc'[p] = proc[p]
    <3>1. CASE Dmn!SpawnFails(c)
      BY <3>1 DEF Dmn!SpawnFails
    <3>2. CASE job[c].at # "spawn"
      BY <1>9, <2>1, <3>2, WorldMoves
    <3> QED BY <2>1, <3>1, <3>2
  <2> QED BY <1>3, <2>1, <2>2, <2>3
<1>10. ASSUME NEW c \in DmnCommands, Dmn!Killed(c) PROVE ToldInv'
  BY <1>10 DEF Dmn!Killed
<1> QED BY <1>4, <1>5, <1>6, <1>7, <1>8, <1>9, <1>10 DEF Dmn!Next, Dmn!Step

\* A start that failed has left nothing, but what it could not signal.
LEMMA ResidueKept ==
    ASSUME DaemonsConstants, WorldInv, JobsInv, TrackedInv, ~disturbed, ~disturbed',
           Dmn!Next \/ UNCHANGED Dmn!dvars
    PROVE  residue' = {}
<1>1. residue = {}
  BY DEF TrackedInv
<1>2. ASSUME NEW c \in DmnCommands, Dmn!Finish(c) PROVE residue' = {}
  BY <1>2, Finishes
<1>3. ASSUME NEW c \in DmnCommands,
             \/ Dmn!Begin(c) \/ Dmn!ReadPid(c) \/ Dmn!OpenPidfd(c) \/ Dmn!ReadIdentity(c) \/ Dmn!Compare(c)
             \/ Dmn!Confirm(c) \/ Dmn!Term(c) \/ Dmn!Exited(c) \/ Dmn!KillDaemon(c) \/ Dmn!CannotSignal(c)
             \/ Dmn!Unlink(c) \/ Dmn!UnlinkIdentity(c) \/ Dmn!Spawn(c) \/ Dmn!SpawnFails(c) \/ Dmn!WritePid(c)
             \/ Dmn!WriteIdentity(c) \/ Dmn!WriteFails(c) \/ Dmn!Killed(c)
      PROVE  residue' = residue
  BY <1>3
  DEF Dmn!Begin, Dmn!ReadPid, Dmn!OpenPidfd, Dmn!ReadIdentity, Dmn!Compare, Dmn!Confirm,
      Dmn!Term, Dmn!Exited, Dmn!KillDaemon,
      Dmn!CannotSignal, Dmn!Unlink, Dmn!UnlinkIdentity, Dmn!Spawn, Dmn!SpawnFails, Dmn!WritePid, Dmn!WriteIdentity,
      Dmn!WriteFails, Dmn!Killed, Dmn!history
<1>4. ASSUME NEW p \in DmnPids, Dmn!Exit(p) \/ Dmn!Arrives(p) PROVE residue' = residue
  BY <1>4 DEF Dmn!Exit, Dmn!Arrives, Dmn!history
<1>5. CASE UNCHANGED Dmn!dvars
  BY <1>1, <1>5 DEF Dmn!dvars
<1> QED BY <1>1, <1>2, <1>3, <1>4, <1>5 DEF Dmn!Next, Dmn!Step

(* The invariant *)

\* An install as it is found.
LEMMA DaemonsInit == ASSUME DaemonsConstants PROVE Dmn!Init => DaemonsInv
<1> SUFFICES ASSUME Dmn!Init PROVE DaemonsInv
  OBVIOUS
<1>1. PICK n \in Dmn!ToSet(install.modules), p \in {CHOOSE q \in DmnPids : TRUE} :
         \/ /\ proc = [q \in DmnPids |-> IF q = p THEN [runs |-> n, since |-> 1] ELSE Dmn!NoProcess]
            /\ pidfile = [m \in Dmn!Names |-> IF m = n THEN p ELSE Dmn!NoPid]
            /\ identity \in
                  {[m \in Dmn!Names |-> IF m = n THEN [pid |-> p, since |-> 1] ELSE Dmn!NoIdentity],
                   [m \in Dmn!Names |-> Dmn!NoIdentity]}
         \/ /\ proc \in {[q \in DmnPids |-> Dmn!NoProcess],
                         [q \in DmnPids |-> IF q = p THEN [runs |-> "else", since |-> 2] ELSE Dmn!NoProcess]}
            /\ pidfile = [m \in Dmn!Names |-> IF m = n THEN p ELSE Dmn!NoPid]
            /\ identity \in
                  {[m \in Dmn!Names |-> IF m = n THEN [pid |-> p, since |-> 1] ELSE Dmn!NoIdentity],
                   [m \in Dmn!Names |-> Dmn!NoIdentity]}
  BY DEF Dmn!Init
<1>2. n \in Dmn!Names /\ p \in DmnPids
  <2>1. install \in DmnInstalls
    BY DEF Dmn!Init
  <2>2. n \in Dmn!Names
    BY <2>1 DEF Dmn!Names
  <2> QED BY <2>2 DEF DaemonsConstants
<1>3. /\ install \in DmnInstalls /\ clock = (IF \E q \in DmnPids : proc[q].since = 2 THEN 2 ELSE 1)
      /\ job = [c \in DmnCommands |-> Dmn!Idle] /\ faults = 0
      /\ astray = FALSE /\ disturbed = FALSE /\ residue = {}
  BY DEF Dmn!Init
<1>4. WorldInv
  <2>1. proc \in [DmnPids -> Processes \cup {Dmn!NoProcess}]
    BY <1>1, <1>2 DEF Processes
  <2>2. clock \in 1 .. install.processes /\ clock \in {1, 2}
    BY <1>3 DEF DaemonsConstants
  <2>3. \A q \in DmnPids : proc[q].since \in {0, 1} \/ (proc[q].since = 2 /\ clock = 2)
    <3>1. \A q \in DmnPids : proc[q].since \in {0, 1, 2}
      BY <1>1 DEF Dmn!NoProcess
    <3> QED BY <1>3, <3>1
  <2>4. \A q \in DmnPids : proc[q].since <= clock
    BY <2>2, <2>3
  <2> QED BY <1>3, <2>1, <2>2, <2>4 DEF WorldInv
<1>5. FilesInv
  <2>1. /\ pidfile = [m \in Dmn!Names |-> IF m = n THEN p ELSE Dmn!NoPid]
        /\ identity \in
              {[m \in Dmn!Names |-> IF m = n THEN [pid |-> p, since |-> 1] ELSE Dmn!NoIdentity],
               [m \in Dmn!Names |-> Dmn!NoIdentity]}
        /\ proc[p].since = 1 => proc[p].runs = n
    BY <1>1, <1>2 DEF Dmn!NoProcess
  <2>2. Was(p, 1, n)
    BY <1>3, <2>1 DEF Was
  <2>3. Dmn!NoIdentity.pid \notin DmnPids
    BY DEF Dmn!NoIdentity, Dmn!NoPid, DaemonsConstants
  <2>4. \A m \in Dmn!Names : identity[m].pid \in DmnPids => m = n /\ identity[m] = [pid |-> p, since |-> 1]
    BY <2>1, <2>3
  <2>5. \A m \in Dmn!Names : identity[m].pid \in DmnPids => Was(identity[m].pid, identity[m].since, m)
    BY <2>2, <2>4
  <2>6. identity \in [Dmn!Names -> Identities]
    BY <1>2, <2>1 DEF Identities
  <2> QED BY <1>2, <2>1, <2>5, <2>6 DEF FilesInv
<1>6. JobsInv
  <2>1. Sound(Dmn!Idle) /\ Dmn!Idle \in Jobs
    BY <1>4, Rests DEF Sound
  <2> QED BY <1>3, <2>1 DEF JobsInv
<1>7. TrackedInv
  <2>1. ToldInv
    <3>1. ASSUME NEW q \in DmnPids, proc[q].runs \in Dmn!Names PROVE Tells(q)
      <4>1. /\ q = p /\ proc[q] = [runs |-> n, since |-> 1]
        BY <1>1, <3>1 DEF Dmn!NoProcess, DaemonsConstants
      <4> QED BY <1>1, <1>2, <4>1 DEF Tells
    <3> QED BY <3>1 DEF ToldInv
  <2>2. KnowsInv
    BY <1>3, <1>4, Rests DEF KnowsInv
  <2>3. AloneInv
    BY <1>3 DEF AloneInv
  <2> QED BY <1>3, <2>1, <2>2, <2>3 DEF TrackedInv
<1>8. CountersInv
  <2>1. faults \in 0 .. DmnMaxFaults
    BY <1>3 DEF DaemonsConstants
  <2> QED BY <1>3, <2>1 DEF CountersInv
<1> QED BY <1>4, <1>5, <1>6, <1>7, <1>8 DEF DaemonsInv

\* The invariant is inductive.
LEMMA DaemonsStep ==
    ASSUME DaemonsConstants, DaemonsInv, Dmn!Next \/ UNCHANGED Dmn!dvars
    PROVE  DaemonsInv'
<1>1. WorldInv' /\ Passes
  BY WorldKept DEF DaemonsInv
<1>2. FilesInv' /\ JobsInv'
  BY <1>1, FilesKept, JobsKept DEF DaemonsInv
<1>3. CountersInv' /\ (disturbed => disturbed')
  BY CountersKept DEF DaemonsInv
<1>4. ASSUME ~disturbed' PROVE AloneInv' /\ ToldInv' /\ KnowsInv' /\ residue' = {}
  BY <1>1, <1>3, <1>4, AloneKept, ToldKept, KnowledgeKept, ResidueKept DEF DaemonsInv
<1>5. TrackedInv'
  BY <1>4 DEF TrackedInv
<1> QED BY <1>1, <1>2, <1>3, <1>5 DEF DaemonsInv

\* And gives what the run checks.
LEMMA DaemonsTrueFollows == ASSUME DaemonsConstants PROVE DaemonsInv => Dmn!DaemonsTrue /\ Dmn!TypeOK
<1> SUFFICES ASSUME DaemonsInv PROVE Dmn!DaemonsTrue /\ Dmn!TypeOK
  OBVIOUS
<1>1. WorldInv /\ FilesInv /\ JobsInv /\ CountersInv /\ TrackedInv
  BY DEF DaemonsInv
<1>2. Dmn!Tracked
  <2>1. ASSUME ~disturbed, Dmn!Quiet, NEW p \in DmnPids, proc[p].runs \in Dmn!Names PROVE Tells(p)
    <3>1. \A c \in DmnCommands : ~Makes(job[c], p)
      <4>1. Dmn!Idle.at \notin Making
        BY DEF Dmn!Idle, Making
      <4> QED BY <2>1, <4>1 DEF Dmn!Quiet, Makes
    <3> QED BY <1>1, <2>1, <3>1 DEF TrackedInv, ToldInv
  <2>2. ~disturbed => residue = {}
    BY <1>1 DEF TrackedInv
  <2> QED BY <2>1, <2>2 DEF Dmn!Tracked, Tells
<1>3. Dmn!TypeOK
  <2>1. \A p \in DmnPids : proc[p].since \in 0 .. clock
    BY <1>1 DEF WorldInv, Processes, Dmn!NoProcess, DaemonsConstants
  <2>2. \A n \in Dmn!Names : pidfile[n] \in DmnPids \cup {Dmn!NoPid, Dmn!Torn} /\ identity[n].since \in 0 .. clock
    <3> SUFFICES ASSUME NEW n \in Dmn!Names PROVE identity[n].since \in 0 .. clock
      BY <1>1 DEF FilesInv
    <3>1. clock \in Nat
      BY <1>1 DEF WorldInv, DaemonsConstants
    <3>2. identity[n] \in Identities
      BY <1>1 DEF FilesInv
    <3>3. CASE identity[n].pid \in DmnPids
      BY <1>1, <3>1, <3>3 DEF FilesInv, Was
    <3>4. CASE identity[n] \in {Dmn!NoIdentity, Dmn!TornIdentity}
      BY <3>1, <3>4 DEF Dmn!NoIdentity, Dmn!TornIdentity
    <3> QED BY <3>2, <3>3, <3>4 DEF Identities
  <2>3. ASSUME NEW c \in DmnCommands
        PROVE  job[c].fd \in 0 .. clock /\ Dmn!ToSet(job[c].left) \subseteq Dmn!Names
    <3>1. job[c] \in Jobs /\ job[c].fd <= clock /\ clock \in Nat
      BY <1>1 DEF JobsInv, Sound, WorldInv, DaemonsConstants
    <3>2. job[c].fd \in Nat /\ job[c].left \in Seq(Dmn!Names)
      BY <3>1, Fields
    <3> QED BY <3>1, <3>2 DEF Dmn!ToSet
  <2> QED BY <1>1, <2>1, <2>2, <2>3 DEF Dmn!TypeOK, WorldInv, CountersInv
<1> QED BY <1>1, <1>2, <1>3 DEF Dmn!DaemonsTrue, CountersInv

\* Whatever overlaps, fails or uses a pid again, no process is signalled but the daemon it
\* is taken for; and while no start overlaps another command and none is killed, the files
\* tell of every daemon that runs, and a start that fails leaves nothing behind.
THEOREM DaemonsSafe == ASSUME DaemonsConstants PROVE Dmn!Spec => []Dmn!DaemonsTrue
<1>1. Dmn!Init => DaemonsInv
  BY DaemonsInit
<1>2. DaemonsInv /\ [Dmn!Next]_Dmn!dvars => DaemonsInv'
  BY DaemonsStep
<1>3. DaemonsInv => Dmn!DaemonsTrue
  BY DaemonsTrueFollows
<1> QED BY <1>1, <1>2, <1>3, PTL DEF Dmn!Spec

-----------------------------------------------------------------------------
(* What the bot pushes into its chat                                        *)

CONSTANTS BotMaxEntries, BotRetained, BotPage, BotSpoken, BotFiles, BotMaxFaults
VARIABLES kind, last, file, step, page, passed, replayed

Bot == INSTANCE BotPush WITH
    MaxEntries <- BotMaxEntries, Retained <- BotRetained, Page <- BotPage,
    Spoken <- BotSpoken, Files <- BotFiles, MaxFaults <- BotMaxFaults

\* Of the constants: bounds are numbers, and something is retained and asked for.
PushConstants ==
    /\ BotMaxEntries \in Nat \ {0} /\ BotMaxFaults \in Nat
    /\ BotRetained \in Nat \ {0} /\ BotPage \in Nat \ {0}

\* The thread has a place, and is about to show what lies there.
Seeded == {"keep seed", "read", "keep", "show", "speak", "ended"}
Coming == {"keep", "show"}

PlacesInv ==
    /\ kind \in {"alerts", "replies"} /\ last \in 0 .. BotMaxEntries /\ faults \in 0 .. BotMaxFaults
    /\ cursor \in 0 .. last /\ file \in (0 .. last) \cup {Bot!Torn}
    /\ step \in Seeded \cup {"load", "seed"}
    /\ step = "seed" => file \in {0, Bot!Torn}
    /\ step \in Coming => cursor # 0
    /\ step = "load" => cursor = 0
    /\ passed \cup replayed \subseteq 0 .. last
    /\ pushed \in Seq(1 .. last)

\* A page is the entries that were kept behind the place, one after the other.
Dropped(e) == e \in Nat /\ e + BotRetained <= last
FetchedInv ==
    /\ page \in Seq(1 .. last)
    /\ \A i \in 1 .. Len(page) : page[i] = page[1] + i - 1
    /\ page # <<>> =>
          /\ step \in {"read", "keep", "show", "speak"}
          /\ page[1] > cursor
          /\ \A e \in (cursor + 1) .. (page[1] - 1) : e \in passed /\ Dropped(e)

\* What lies up to the place, the thread's and the one that is saved, was shown or left out.
DealtWith(e) == e \in Bot!Range(pushed) \cup passed
PassedInv ==
    /\ step \in Seeded => \A e \in 1 .. cursor : DealtWith(e) \/ (e = cursor /\ step \in Coming)
    /\ file # Bot!Torn => \A e \in 1 .. file : DealtWith(e) \/ (e = cursor /\ step = "show")

\* What lies behind the place and was shown may be shown again, or is not there any more.
Repeat(e) == e \in replayed \/ Dropped(e)
Saved == file \notin {0, Bot!Torn}
ShownInv ==
    /\ \A i \in 1 .. Len(pushed) :
          /\ Saved => \A e \in (file + 1) .. pushed[i] : Repeat(e)
          /\ step \in Seeded => \A e \in (cursor + 1) .. pushed[i] : Repeat(e)
          /\ step \in Coming /\ cursor <= pushed[i] => cursor \in replayed
          /\ \A k \in 1 .. Len(page) : page[k] <= pushed[i] => page[k] \in replayed
    /\ Saved /\ step \in Seeded =>
          \A e \in (file + 1) .. cursor : Repeat(e) \/ (e = cursor /\ step = "keep")
    /\ \A i, j \in 1 .. Len(pushed) : i < j /\ pushed[j] <= pushed[i] => pushed[j] \in replayed

PushInv == PlacesInv /\ FetchedInv /\ PassedInv /\ ShownInv

(* Pages                                                                   *)

\* The greater of two.
LEMMA MaxTwo ==
    ASSUME NEW a \in Int, NEW b \in Int
    PROVE  Bot!Max({a, b}) = (IF a >= b THEN a ELSE b)
<1> DEFINE m == IF a >= b THEN a ELSE b
<1>1. m \in {a, b} /\ \A y \in {a, b} : m >= y
  OBVIOUS
<1>2. \A x \in {a, b} : (\A y \in {a, b} : x >= y) => x = m
  OBVIOUS
<1> QED BY <1>1, <1>2 DEF Bot!Max

\* The lesser of two.
LEMMA MinTwo ==
    ASSUME NEW a \in Int, NEW b \in Int
    PROVE  Bot!Min({a, b}) = (IF a <= b THEN a ELSE b)
<1> DEFINE m == IF a <= b THEN a ELSE b
<1>1. m \in {a, b} /\ \A y \in {a, b} : m <= y
  OBVIOUS
<1>2. \A x \in {a, b} : (\A y \in {a, b} : x <= y) => x = m
  OBVIOUS
<1> QED BY <1>1, <1>2 DEF Bot!Min

\* A page that is not empty has a first and a last entry.
LEMMA EndsIn ==
    ASSUME NEW S, NEW q \in Seq(S), q # <<>>
    PROVE  Len(q) \in Nat \ {0} /\ q[1] \in S /\ Bot!Last(q) \in S
<1>1. Len(q) \in Nat \ {0}
  BY EmptySeq
<1>2. 1 \in 1 .. Len(q) /\ Len(q) \in 1 .. Len(q)
  BY <1>1
<1> QED BY <1>1, <1>2, ElementOfSeq DEF Bot!Last

\* What a request after the thread's place is answered with.
LEMMA AfterIs ==
    ASSUME PushConstants, PlacesInv, NEW limit \in Nat \ {0}, NEW a, a = Bot!After(cursor, limit)
    PROVE  /\ a \in Seq(1 .. last)
           /\ \A i \in 1 .. Len(a) : a[i] = a[1] + i - 1 /\ ~ Dropped(a[i])
           /\ a # <<>> => /\ a[1] > cursor
                          /\ \A e \in (cursor + 1) .. (a[1] - 1) : Dropped(e)
<1> DEFINE first == Bot!Max({cursor + 1, Bot!Oldest})
<1>1. /\ Bot!Oldest \in Nat \ {0} /\ Bot!Oldest <= last + 1 /\ cursor \in Nat /\ last \in Nat /\ cursor <= last
      /\ \A e \in Nat \ {0} : e < Bot!Oldest => Dropped(e)
      /\ \A e \in Nat : e >= Bot!Oldest => ~ Dropped(e)
  BY DEF Bot!Oldest, PushConstants, PlacesInv, Dropped
<1>2. first = (IF cursor + 1 >= Bot!Oldest THEN cursor + 1 ELSE Bot!Oldest)
  BY <1>1, MaxTwo
<1>3. first \in Nat /\ first > cursor /\ first >= Bot!Oldest /\ first <= last + 1
  BY <1>1, <1>2
<1>5. \A e \in (cursor + 1) .. (first - 1) : Dropped(e)
  BY <1>1, <1>2
<1> HIDE DEF first
<1> DEFINE n == Bot!Min({limit, last + 1 - first})
<1>4. n \in Nat /\ n <= last + 1 - first
  <2>1. n = (IF limit <= last + 1 - first THEN limit ELSE last + 1 - first)
    BY <1>1, <1>3, MinTwo
  <2> QED BY <1>1, <1>3, <2>1
<1> HIDE DEF n
<1>6. a = [i \in 1 .. n |-> first + i - 1]
  BY DEF Bot!After, Bot!From, first, n
<1>7. \A i \in 1 .. n : first + i - 1 \in 1 .. last /\ ~ Dropped(first + i - 1)
  BY <1>1, <1>3, <1>4
<1>8. a \in Seq(1 .. last) /\ Len(a) = n
  BY <1>4, <1>6, <1>7
<1>9. a # <<>> => a[1] = first
  BY <1>3, <1>4, <1>6, <1>8
<1>10. \A i \in 1 .. Len(a) : a[i] = first + i - 1 /\ a[1] = first
  <2>1. ASSUME NEW i \in 1 .. Len(a) PROVE 1 \in 1 .. n /\ i \in 1 .. n
    BY <1>4, <1>8
  <2>2. ASSUME NEW i \in 1 .. Len(a) PROVE a[i] = first + i - 1 /\ a[1] = first + 1 - 1
    BY <1>6, <2>1
  <2>3. first + 1 - 1 = first
    BY <1>3
  <2> QED BY <2>2, <2>3
<1> QED BY <1>3, <1>5, <1>7, <1>8, <1>9, <1>10

(* What steps do                                                           *)

\* What a step other than Arrive may do.
LEMMA PlacesMove ==
    ASSUME PushConstants, PlacesInv, kind' = kind, last' = last, pushed' \in Seq(1 .. last),
           faults' = faults \/ Bot!Fault, cursor' \in 0 .. last, file' \in {file, cursor, Bot!Torn},
           step' \in Seeded \cup {"load", "seed"}, step' = "seed" => file' \in {0, Bot!Torn},
           step' \in Coming => cursor' # 0, step' = "load" => cursor' = 0,
           replayed \subseteq replayed', passed \subseteq passed', passed' \cup replayed' \subseteq 0 .. last
    PROVE  PlacesInv' /\ last <= last' /\ replayed \subseteq replayed' /\ passed \subseteq passed'
<1>1. last \in Nat /\ last <= last'
  BY DEF PlacesInv, PushConstants
<1>2. faults' \in 0 .. BotMaxFaults
  BY DEF PlacesInv, PushConstants, Bot!Fault
<1>3. file' \in (0 .. last) \cup {Bot!Torn}
  BY DEF PlacesInv
<1> QED BY <1>1, <1>2, <1>3 DEF PlacesInv

\* A step keeps PlacesInv, and nothing is taken from what was left out or may come again.
LEMMA PlacesKept ==
    ASSUME PushConstants, PlacesInv, FetchedInv, [Bot!Next]_Bot!pvars
    PROVE  PlacesInv' /\ last <= last' /\ replayed \subseteq replayed' /\ passed \subseteq passed'
<1>0. /\ last \in Nat /\ last <= BotMaxEntries /\ BotMaxEntries \in Nat /\ cursor \in 0 .. last
      /\ cursor \in Nat /\ passed \cup replayed \subseteq 0 .. last /\ pushed \in Seq(1 .. last)
      /\ file \in (0 .. last) \cup {Bot!Torn}
      /\ kind \in {"alerts", "replies"} /\ faults \in 0 .. BotMaxFaults
  BY DEF PlacesInv, PushConstants
<1>a. /\ step \in Seeded \cup {"load", "seed"}
      /\ step \in Coming => cursor # 0
      /\ step = "seed" => file \in {0, Bot!Torn}
      /\ step = "load" => cursor = 0
  BY DEF PlacesInv
<1>1. CASE UNCHANGED Bot!pvars
  <2>1. UNCHANGED <<kind, last, file, step, cursor, faults, pushed, passed, replayed>>
    BY <1>1 DEF Bot!pvars, Bot!thread, Bot!history
  <2> QED BY <1>0, <1>a, <2>1, PlacesMove
<1>2. CASE Bot!Arrive
  <2>1. /\ UNCHANGED <<kind, file, step, cursor, faults, pushed, passed, replayed>>
        /\ last' = last + 1 /\ last' <= BotMaxEntries
    BY <1>0, <1>2 DEF Bot!Arrive, Bot!thread, Bot!history
  <2>2. /\ cursor \in 0 .. last' /\ passed \cup replayed \subseteq 0 .. last' /\ last' \in 0 .. BotMaxEntries
        /\ file \in (0 .. last') \cup {Bot!Torn} /\ pushed \in Seq(1 .. last') /\ last <= last'
    BY <1>0, <2>1
  <2> QED BY <1>0, <1>a, <2>1, <2>2 DEF PlacesInv
<1>3. CASE Bot!Load
  <2>1. /\ UNCHANGED <<kind, last, file, faults, pushed, passed, replayed>>
        /\ cursor' = (IF file = Bot!Torn THEN 0 ELSE file)
        /\ step' = (IF cursor' = 0 THEN "seed" ELSE "read")
    BY <1>3 DEF Bot!Load, Bot!history
  <2>2. cursor' \in 0 .. last /\ (step' = "seed" => file' \in {0, Bot!Torn})
    BY <1>0, <2>1
  <2>3. step' \in Seeded \cup {"seed"} /\ step' \notin Coming
    BY <2>1 DEF Seeded, Coming
  <2> QED BY <1>0, <2>1, <2>2, <2>3, PlacesMove
<1>4. ASSUME NEW seeded \in 0 .. last, Bot!SeededAt(seeded), UNCHANGED <<kind, last, file, pushed>>,
             faults' = faults \/ Bot!Fault
      PROVE  PlacesInv' /\ last <= last' /\ replayed \subseteq replayed' /\ passed \subseteq passed'
  <2>1. step' \in Seeded /\ step' # "seed" /\ step' # "load" /\ step' \notin Coming
    BY <1>4 DEF Bot!SeededAt, Seeded, Coming
  <2>2. cursor' \in 0 .. last /\ passed' = passed \cup 1 .. seeded /\ replayed' = replayed \cup 1 .. last
    BY <1>4 DEF Bot!SeededAt
  <2>3. passed' \cup replayed' \subseteq 0 .. last
    BY <1>0, <2>2
  <2> QED BY <1>0, <1>4, <2>1, <2>2, <2>3, PlacesMove
<1>5. CASE Bot!SeedAlerts
  <2>1. (IF Bot!Kept = {} THEN 0 ELSE last) \in 0 .. last
    BY <1>0
  <2> QED BY <1>4, <1>5, <2>1 DEF Bot!SeedAlerts
<1>6. CASE Bot!SeedReplies
  <2> DEFINE entries == Bot!After(cursor, BotPage)
             seeded   == IF entries = <<>> THEN cursor ELSE Bot!Last(entries)
  <2>1. entries \in Seq(1 .. last) /\ BotPage \in Nat \ {0}
    BY AfterIs DEF PushConstants
  <2> HIDE DEF entries
  <2>2. entries # <<>> => Bot!Last(entries) \in 1 .. last
    BY <2>1, EndsIn
  <2>3. seeded \in 0 .. last
    BY <1>0, <2>2
  <2>4. Len(entries) >= BotPage => entries # <<>>
    BY <2>1
  <2>5. CASE Len(entries) < BotPage
    <3>1. Bot!SeededAt(seeded) /\ UNCHANGED <<kind, last, file, faults, pushed>>
      BY <1>6, <2>5 DEF Bot!SeedReplies, entries
    <3> QED BY <1>4, <2>3, <3>1
  <2>6. CASE ~ (Len(entries) < BotPage)
    <3>1. cursor' = Bot!Last(entries) /\ UNCHANGED <<step, pushed, passed, replayed, kind, last, file, faults>>
      BY <1>6, <2>6 DEF Bot!SeedReplies, entries, Bot!history
    <3>2. step = "seed" /\ step \notin Coming
      BY <1>6 DEF Bot!SeedReplies, Coming
    <3>3. cursor' \in 0 .. last
      BY <1>0, <2>1, <2>2, <2>4, <2>6, <3>1
    <3> QED BY <1>0, <1>a, <3>1, <3>2, <3>3, PlacesMove
  <2> QED BY <2>5, <2>6
<1>7. CASE Bot!SeedFails
  <2>1. UNCHANGED <<kind, last, file, pushed>> /\ Bot!Fault /\ Bot!SeededAt(cursor)
    BY <1>7 DEF Bot!SeedFails
  <2> QED BY <1>0, <1>4, <2>1
<1>8. CASE Bot!Save \/ Bot!SaveFails
  <2>1. /\ UNCHANGED <<kind, last, cursor, pushed, passed>> /\ replayed' \in {replayed, replayed \cup {cursor}}
        /\ faults' = faults \/ Bot!Fault
        /\ file' \in {file, cursor, Bot!Torn} /\ step' = (IF step = "keep" THEN "show" ELSE "read")
    BY <1>8 DEF Bot!Save, Bot!SaveFails, Bot!history
  <2>2. step' \in Seeded /\ step' # "seed" /\ (step' \in Coming => cursor' # 0)
    BY <1>a, <2>1 DEF Seeded, Coming
  <2>3. replayed \subseteq replayed' /\ passed' \cup replayed' \subseteq 0 .. last
    BY <1>0, <2>1
  <2> QED BY <1>0, <2>1, <2>2, <2>3, PlacesMove
<1>9. CASE Bot!Read
  <2>1. /\ UNCHANGED <<kind, last, file, step, cursor, faults, pushed, replayed>>
        /\ passed' = passed \cup {e \in 1 .. last : e \notin Bot!Kept /\ e > cursor}
    BY <1>9 DEF Bot!Read
  <2>2. passed \subseteq passed' /\ passed' \cup replayed' \subseteq 0 .. last
    BY <1>0, <2>1
  <2> QED BY <1>0, <1>a, <2>1, <2>2, PlacesMove
<1>10. CASE Bot!ReadFails
  <2>1. UNCHANGED <<kind, last, file, step, cursor, pushed, passed, replayed>> /\ Bot!Fault
    BY <1>10 DEF Bot!ReadFails, Bot!thread, Bot!history
  <2> QED BY <1>0, <1>a, <2>1, PlacesMove
<1>11. CASE Bot!Receive
  <2>1. /\ UNCHANGED <<kind, last, file, faults, pushed, passed, replayed>>
        /\ page # <<>> /\ cursor' = Head(page) /\ step' = "keep"
    BY <1>11 DEF Bot!Receive, Bot!history
  <2>2. cursor' \in 1 .. last
    <3>1. page \in Seq(1 .. last)
      BY DEF FetchedInv
    <3> QED BY <2>1, <3>1, HeadTailProperties
  <2>3. cursor' \in 0 .. last /\ cursor' # 0
    BY <1>0, <2>2
  <2>4. step' \in Seeded /\ step' # "seed"
    BY <2>1 DEF Seeded
  <2> QED BY <1>0, <2>1, <2>3, <2>4, PlacesMove
<1>12. CASE Bot!Show \/ Bot!ShowFails \/ Bot!Reject
  <2>1. /\ UNCHANGED <<kind, last, file, cursor, replayed>> /\ (faults' = faults \/ Bot!Fault)
        /\ step = "show" /\ step' \in {"speak", "read"}
        /\ passed' \in {passed, passed \cup {cursor}} /\ pushed' \in {pushed, Append(pushed, cursor)}
    BY <1>12 DEF Bot!Show, Bot!ShowFails, Bot!Reject, Bot!Shown
  <2>2. cursor \in 1 .. last
    <3>1. cursor # 0
      BY <1>a, <2>1 DEF Coming
    <3> QED BY <1>0, <3>1
  <2>3. pushed' \in Seq(1 .. last)
    BY <1>0, <2>1, <2>2
  <2>4. passed \subseteq passed' /\ passed' \cup replayed' \subseteq 0 .. last
    BY <1>0, <2>1
  <2>5. step' \in Seeded /\ step' # "seed" /\ step' \notin Coming
    BY <2>1 DEF Seeded, Coming
  <2> QED BY <1>0, <2>1, <2>3, <2>4, <2>5, PlacesMove
<1>13. CASE Bot!Speak \/ Bot!SpeakFails
  <2>1. /\ UNCHANGED <<kind, last, file, cursor, pushed, passed, replayed>> /\ (faults' = faults \/ Bot!Fault)
        /\ step' \in {"read", "ended"}
    BY <1>13 DEF Bot!Speak, Bot!SpeakFails, Bot!history
  <2>2. step' \in Seeded /\ step' # "seed" /\ step' \notin Coming
    BY <2>1 DEF Seeded, Coming
  <2> QED BY <1>0, <2>1, <2>2, PlacesMove
<1>14. CASE Bot!Crash
  <2>1. /\ UNCHANGED <<kind, last, pushed, replayed>> /\ Bot!Fault
        /\ file' \in {file, Bot!Torn} /\ step' = "load" /\ cursor' = 0
        /\ passed' \in {passed, passed \cup {cursor}}
    BY <1>14 DEF Bot!Crash
  <2>2. passed \subseteq passed' /\ passed' \cup replayed' \subseteq 0 .. last /\ cursor' \in 0 .. last
    BY <1>0, <2>1
  <2>3. step' \in {"load"} /\ step' # "seed" /\ step' \notin Coming
    BY <2>1 DEF Coming
  <2> QED BY <1>0, <2>1, <2>2, <2>3, PlacesMove
<1> QED
  BY <1>1, <1>2, <1>3, <1>5, <1>6, <1>7, <1>8, <1>9, <1>10, <1>11, <1>12, <1>13, <1>14
  DEF Bot!Next

\* A step keeps PageInv: a page is taken from its head, or dropped as a whole.
LEMMA FetchedKept ==
    ASSUME PushConstants, PlacesInv, FetchedInv, [Bot!Next]_Bot!pvars, PlacesInv', last <= last', passed \subseteq passed'
    PROVE  FetchedInv'
<1>0. /\ last \in Nat /\ last' \in Nat /\ cursor \in Nat /\ cursor' \in Nat /\ BotRetained \in Nat
      /\ \A S : S \subseteq 1 .. last => S \subseteq 1 .. last'
      /\ \A e : e \in Nat /\ Dropped(e) => Dropped(e)'
  BY DEF PlacesInv, PushConstants, Dropped
<1>1. ASSUME page' = <<>> PROVE FetchedInv'
  BY <1>1 DEF FetchedInv
<1>2. ASSUME page' = page, page # <<>> => cursor' = cursor /\ step' \in {"read", "keep", "show", "speak"}
      PROVE  FetchedInv'
  <2>1. page \in Seq(1 .. last')
    BY <1>0 DEF FetchedInv
  <2>2. page # <<>> => \A e \in (cursor + 1) .. (page[1] - 1) : e \in passed' /\ Dropped(e)'
    BY <1>0 DEF FetchedInv
  <2> QED BY <1>2, <2>1, <2>2 DEF FetchedInv
<1>3. CASE Bot!Read
  <2> DEFINE limit == IF kind = "alerts" THEN 1 ELSE BotPage
  <2>1. limit \in Nat \ {0} /\ page' = Bot!After(cursor, limit) /\ UNCHANGED <<last, step, cursor>>
    BY <1>3 DEF Bot!Read, PushConstants
  <2>2. /\ page' \in Seq(1 .. last)
        /\ \A i \in 1 .. Len(page') : page'[i] = page'[1] + i - 1 /\ ~ Dropped(page'[i])
        /\ page' # <<>> => /\ page'[1] > cursor
                           /\ \A e \in (cursor + 1) .. (page'[1] - 1) : Dropped(e)
    BY <2>1, AfterIs
  <2>3. page' # <<>> => page'[1] \in 1 .. last
    BY <2>2, EndsIn
  <2>4. page' # <<>> => \A e \in (cursor + 1) .. (page'[1] - 1) : e \in passed'
    BY <1>0, <1>3, <2>2, <2>3 DEF Bot!Read, Bot!Kept, Dropped
  <2>5. step = "read"
    BY <1>3 DEF Bot!Read
  <2> QED BY <2>1, <2>2, <2>4, <2>5 DEF FetchedInv, Dropped
<1>4. CASE Bot!Receive
  <2>1. page \in Seq(1 .. last) /\ page # <<>> /\ page' = Tail(page) /\ cursor' = page[1] /\ step' = "keep"
    BY <1>4 DEF Bot!Receive, FetchedInv
  <2>2. /\ page' \in Seq(1 .. last) /\ Len(page') = Len(page) - 1
        /\ \A i \in 1 .. Len(page') : page'[i] = page[i + 1]
    BY <2>1
  <2>4. page[1] \in Nat
    <3>1. page[1] \in 1 .. last
      BY <2>1, EndsIn
    <3> QED BY <1>0, <3>1
  <2>3. \A i \in 1 .. Len(page') : i + 1 \in 1 .. Len(page) /\ page'[i] = page[1] + i
    <3>1. \A i \in 1 .. Len(page') : i + 1 \in 1 .. Len(page)
      BY <2>1, <2>2
    <3>2. \A i \in 1 .. Len(page') : page[i + 1] = page[1] + (i + 1) - 1
      BY <3>1 DEF FetchedInv
    <3>3. page[1] \in Nat
      BY <2>4
    <3> QED BY <2>2, <3>1, <3>2, <3>3
  <2>5. page' # <<>> => page'[1] = page[1] + 1
    BY <2>2, <2>3
  <2>6. \A i \in 1 .. Len(page') : page'[i] = page'[1] + i - 1
    BY <2>2, <2>3, <2>4, <2>5
  <2>7. page' \in Seq(1 .. last')
    BY <1>0, <2>2
  <2> QED BY <2>1, <2>4, <2>5, <2>6, <2>7 DEF FetchedInv
<1>5. page' = <<>> \/ (page' = page /\ (page # <<>> => cursor' = cursor /\ step' \in {"read", "keep", "show", "speak"}))
      \/ Bot!Read \/ Bot!Receive
  <2>1. Bot!Arrive \/ UNCHANGED Bot!pvars => UNCHANGED <<page, cursor, step>>
    BY DEF Bot!Arrive, Bot!pvars, Bot!thread
  <2>2. Bot!Load \/ Bot!SeedAlerts \/ Bot!SeedFails \/ Bot!SeedReplies => page' = page /\ step \in {"load", "seed"}
    BY DEF Bot!Load, Bot!SeedAlerts, Bot!SeedFails, Bot!SeedReplies, Bot!SeededAt
  <2>3. Bot!Save \/ Bot!SaveFails => page' = page /\ cursor' = cursor /\ step' \in {"read", "show"}
    BY DEF Bot!Save, Bot!SaveFails
  <2>4. Bot!ReadFails \/ Bot!Show \/ Bot!ShowFails \/ Bot!Reject \/ Bot!Speak
            => page' = page /\ cursor' = cursor /\ step' \in {"read", "speak"}
    BY DEF Bot!ReadFails, Bot!Show, Bot!ShowFails, Bot!Reject, Bot!Speak, Bot!thread
  <2>5. Bot!SpeakFails \/ Bot!Crash => page' = <<>>
    BY DEF Bot!SpeakFails, Bot!Crash
  <2> QED BY <2>1, <2>2, <2>3, <2>4, <2>5 DEF Bot!Next, FetchedInv
<1> QED BY <1>1, <1>2, <1>3, <1>4, <1>5

(* What was shown or left out                                              *)

\* What was shown or left out stays so.
LEMMA DealtStays ==
    ASSUME PlacesInv, passed \subseteq passed', [Bot!Next]_Bot!pvars
    PROVE  /\ pushed' = pushed \/ (step = "show" /\ Bot!Shown /\ cursor \in 1 .. last)
           /\ \A e : DealtWith(e) => DealtWith(e)'
           /\ Bot!Shown /\ step = "show" => \A e : e = cursor => DealtWith(e)'
<1>1. pushed' = pushed \/ (step = "show" /\ Bot!Shown)
  BY DEF Bot!Next, Bot!Arrive, Bot!Load, Bot!SeedAlerts, Bot!SeedReplies, Bot!SeedFails,
     Bot!Save, Bot!SaveFails, Bot!Read, Bot!ReadFails,
         Bot!Receive, Bot!Show, Bot!ShowFails, Bot!Reject, Bot!Speak, Bot!SpeakFails, Bot!Crash, Bot!SeededAt, Bot!history, Bot!pvars
<1>2. step = "show" => cursor \in 1 .. last
  <2>1. step = "show" => cursor # 0
    BY DEF PlacesInv, Coming
  <2> QED BY <2>1 DEF PlacesInv
<1>3. ASSUME Bot!Shown, cursor \in 1 .. last PROVE Bot!Range(pushed') = Bot!Range(pushed) \cup {cursor}
  <2>1. pushed \in Seq(1 .. last) /\ pushed' = Append(pushed, cursor)
    BY <1>3 DEF PlacesInv, Bot!Shown
  <2>2. /\ Len(pushed') = Len(pushed) + 1 /\ \A i \in 1 .. Len(pushed) : pushed'[i] = pushed[i]
        /\ pushed'[Len(pushed) + 1] = cursor /\ Len(pushed) \in Nat
        /\ DOMAIN pushed = 1 .. Len(pushed) /\ DOMAIN pushed' = 1 .. Len(pushed) + 1
    BY <1>3, <2>1, AppendProperties, LenProperties
  <2> QED BY <2>2 DEF Bot!Range
<1>4. pushed' = pushed => \A e : DealtWith(e) => DealtWith(e)'
  BY DEF DealtWith
<1>5. ASSUME Bot!Shown, step = "show" PROVE \A e : (DealtWith(e) => DealtWith(e)') /\ (e = cursor => DealtWith(e)')
  BY <1>2, <1>3, <1>5 DEF DealtWith
<1> QED BY <1>1, <1>2, <1>4, <1>5

\* A step keeps PassedInv: the place is moved on only to the next entry that is kept.
LEMMA PassedKept ==
    ASSUME PushConstants, PlacesInv, FetchedInv, PassedInv, [Bot!Next]_Bot!pvars, PlacesInv',
           passed \subseteq passed'
    PROVE  PassedInv'
<1>0. /\ last \in Nat /\ cursor \in Nat /\ cursor' \in Nat /\ (\A e : DealtWith(e) => DealtWith(e)')
      /\ step \in Seeded => \A e \in 1 .. cursor : DealtWith(e) \/ (e = cursor /\ step \in Coming)
      /\ file # Bot!Torn => \A e \in 1 .. file : DealtWith(e) \/ (e = cursor /\ step = "show")
      /\ Bot!Torn' = Bot!Torn /\ Bot!Torn # 0 /\ Bot!Torn \in Nat
  BY DealtStays DEF PlacesInv, PassedInv, Bot!Torn, PushConstants
<1>1. ASSUME UNCHANGED <<file, cursor, step>> PROVE PassedInv'
  BY <1>0, <1>1 DEF PassedInv
<1>2. CASE Bot!Load
  <2>1. /\ UNCHANGED file /\ step = "load" /\ cursor' = (IF file = Bot!Torn THEN 0 ELSE file)
        /\ step' = (IF cursor' = 0 THEN "seed" ELSE "read")
    BY <1>2 DEF Bot!Load
  <2>2. file # Bot!Torn => \A e \in 1 .. file : DealtWith(e)'
    BY <1>0, <2>1
  <2>3. step' \in Seeded => cursor' = file /\ file # Bot!Torn
    BY <2>1 DEF Seeded
  <2> QED BY <1>0, <2>1, <2>2, <2>3 DEF PassedInv
<1>3. ASSUME NEW seeded \in 0 .. last, Bot!SeededAt(seeded), UNCHANGED file, step = "seed" PROVE PassedInv'
  <2>1. file' \in {0, Bot!Torn}
    BY <1>3 DEF PlacesInv
  <2>2. cursor' = seeded /\ \A e \in 1 .. seeded : e \in passed'
    BY <1>3 DEF Bot!SeededAt
  <2> QED BY <1>0, <2>1, <2>2 DEF PassedInv, DealtWith
<1>4. CASE Bot!SeedAlerts \/ Bot!SeedFails \/ Bot!SeedReplies
  <2>1. (IF Bot!Kept = {} THEN 0 ELSE last) \in 0 .. last /\ cursor \in 0 .. last
    BY DEF PlacesInv
  <2>2. CASE Bot!SeedAlerts \/ Bot!SeedFails
    BY <1>3, <2>1, <2>2 DEF Bot!SeedAlerts, Bot!SeedFails
  <2>3. CASE Bot!SeedReplies
    <3> DEFINE entries == Bot!After(cursor, BotPage)
               seeded   == IF entries = <<>> THEN cursor ELSE Bot!Last(entries)
    <3>1. entries \in Seq(1 .. last)
      BY AfterIs DEF PushConstants
    <3> HIDE DEF entries
    <3>2. entries # <<>> => Bot!Last(entries) \in 1 .. last
      BY <3>1, EndsIn
    <3>3. seeded \in 0 .. last
      BY <2>1, <3>2
    <3>4. (Bot!SeededAt(seeded) \/ UNCHANGED step) /\ UNCHANGED file /\ step = "seed"
      BY <2>3 DEF Bot!SeedReplies, entries
    <3>5. CASE UNCHANGED step
      <4>1. file' \in {0, Bot!Torn} /\ step' \notin Seeded
        BY <3>4, <3>5 DEF PlacesInv, Seeded
      <4> QED BY <1>0, <4>1 DEF PassedInv
    <3> HIDE DEF seeded
    <3> QED BY <1>3, <3>3, <3>4, <3>5
  <2> QED BY <1>4, <2>2, <2>3
<1>5. CASE Bot!Save \/ Bot!SaveFails
  <2>1. /\ step \in {"keep seed", "keep"} /\ UNCHANGED cursor /\ file' \in {file, cursor, Bot!Torn}
        /\ step' = (IF step = "keep" THEN "show" ELSE "read")
    BY <1>5 DEF Bot!Save, Bot!SaveFails
  <2>2. \A e \in 1 .. cursor : DealtWith(e)' \/ (e = cursor /\ step' = "show")
    BY <1>0, <2>1 DEF Seeded, Coming
  <2>3. file # Bot!Torn => \A e \in 1 .. file : DealtWith(e)'
    BY <1>0, <2>1
  <2> QED BY <1>0, <2>1, <2>2, <2>3 DEF PassedInv, Seeded, Coming
<1>6. CASE Bot!Receive
  <2>1. step = "read" /\ page # <<>> /\ UNCHANGED file /\ cursor' = page[1] /\ step' = "keep"
    BY <1>6 DEF Bot!Receive, FetchedInv
  <2>2. \A e \in 1 .. cursor : DealtWith(e)'
    BY <1>0, <2>1 DEF Seeded, Coming
  <2>3. \A e \in (cursor + 1) .. (page[1] - 1) : DealtWith(e)'
    BY <2>1 DEF FetchedInv, DealtWith
  <2>4. \A e \in 1 .. cursor' : e \in 1 .. cursor \/ e \in (cursor + 1) .. (page[1] - 1) \/ e = cursor'
    BY <1>0, <2>1
  <2>5. \A e \in 1 .. cursor' : DealtWith(e)' \/ e = cursor'
    BY <2>2, <2>3, <2>4
  <2>6. file' # Bot!Torn => \A e \in 1 .. file' : DealtWith(e)'
    BY <1>0, <2>1
  <2> QED BY <1>0, <2>1, <2>5, <2>6 DEF PassedInv, Coming
<1>7. CASE Bot!Show \/ Bot!ShowFails \/ Bot!Reject
  <2>1. step = "show" /\ UNCHANGED <<cursor, file>> /\ step' \in {"speak", "read"}
    BY <1>7 DEF Bot!Show, Bot!ShowFails, Bot!Reject
  <2>2. \A e : e = cursor => DealtWith(e)'
    BY <1>7, DealtStays DEF Bot!Show, Bot!ShowFails, Bot!Reject, DealtWith
  <2> QED BY <1>0, <2>1, <2>2 DEF PassedInv, Seeded, Coming
<1>8. CASE Bot!Speak \/ Bot!SpeakFails
  <2>1. step = "speak" /\ UNCHANGED <<cursor, file>> /\ step' \in {"ended", "read"}
    BY <1>8 DEF Bot!Speak, Bot!SpeakFails
  <2> QED BY <1>0, <2>1 DEF PassedInv, Seeded, Coming
<1>9. CASE Bot!Crash
  <2>1. /\ file' \in {file, Bot!Torn} /\ step' = "load"
        /\ passed' = IF step = "show" THEN passed \cup {cursor} ELSE passed
    BY <1>9 DEF Bot!Crash
  <2>2. step = "show" => \A e : e = cursor => DealtWith(e)'
    BY <2>1 DEF DealtWith
  <2>3. step' \notin Seeded
    BY <2>1 DEF Seeded
  <2>4. file' # Bot!Torn => \A e \in 1 .. file' : DealtWith(e)'
    BY <1>0, <2>1, <2>2
  <2> QED BY <1>0, <2>3, <2>4 DEF PassedInv
<1>10. Bot!Arrive \/ Bot!Read \/ Bot!ReadFails \/ UNCHANGED Bot!pvars => UNCHANGED <<file, cursor, step>>
  BY DEF Bot!Arrive, Bot!Read, Bot!ReadFails, Bot!pvars, Bot!thread
<1> QED BY <1>1, <1>2, <1>4, <1>5, <1>6, <1>7, <1>8, <1>9, <1>10 DEF Bot!Next

(* What was shown before                                                   *)

\* A step that shows nothing, and keeps the page, keeps ShownInv if it keeps the places.
LEMMA ShownStays ==
    ASSUME ShownInv, pushed' = pushed, page' \in {page, <<>>}, replayed \subseteq replayed',
           \A e : Repeat(e) => Repeat(e)',
           Saved' => \A i \in 1 .. Len(pushed) : \A e \in (file' + 1) .. pushed[i] : Repeat(e)',
           step' \in Seeded => \A i \in 1 .. Len(pushed) : \A e \in (cursor' + 1) .. pushed[i] : Repeat(e)',
           step' \in Coming => \A i \in 1 .. Len(pushed) : cursor' <= pushed[i] => cursor' \in replayed',
           Saved' /\ step' \in Seeded =>
               \A e \in (file' + 1) .. cursor' : Repeat(e)' \/ (e = cursor' /\ step' = "keep")
    PROVE  ShownInv'
<1>1. \A i \in 1 .. Len(pushed) : \A k \in 1 .. Len(page') : page'[k] <= pushed[i] => page'[k] \in replayed'
  <2>1. CASE page' = page
    BY <2>1 DEF ShownInv
  <2>2. CASE page' = <<>>
    <3>1. 1 .. Len(page') = {}
      BY <2>2
    <3> QED BY <3>1
  <2> QED BY <2>1, <2>2
<1>2. \A i, j \in 1 .. Len(pushed) : i < j /\ pushed[j] <= pushed[i] => pushed[j] \in replayed'
  BY DEF ShownInv
<1> QED BY <1>1, <1>2 DEF ShownInv

\* A step keeps ShownInv: what is read again is what was not saved, or all.
LEMMA ShownKept ==
    ASSUME PushConstants, PlacesInv, FetchedInv, ShownInv, [Bot!Next]_Bot!pvars, PlacesInv', FetchedInv',
           last <= last', replayed \subseteq replayed'
    PROVE  ShownInv'
<1>0. /\ last \in Nat /\ last' \in Nat /\ cursor \in Nat /\ cursor' \in Nat /\ BotRetained \in Nat
      /\ pushed \in Seq(1 .. last) /\ page \in Seq(1 .. last) /\ Bot!Torn' = Bot!Torn
      /\ \A i \in 1 .. Len(pushed) : pushed[i] \in 1 .. last
      /\ file \in (0 .. last) \cup {Bot!Torn}
  BY DEF PlacesInv, FetchedInv, PushConstants, Bot!Torn
<1>a. \A e : Repeat(e) => Repeat(e)'
  <2>1. ASSUME NEW e, Dropped(e) PROVE Dropped(e)'
    <3>1. e \in Nat /\ e + BotRetained <= last
      BY <2>1 DEF Dropped
    <3>2. e \in Nat /\ e + BotRetained <= last'
      BY <1>0, <3>1
    <3>3. BotRetained' = BotRetained
      OBVIOUS
    <3> QED BY <3>2, <3>3 DEF Dropped
  <2> QED BY <2>1 DEF Repeat
<1>b. ASSUME NEW i \in 1 .. Len(pushed)
      PROVE  /\ Saved => \A e \in (file + 1) .. pushed[i] : Repeat(e)
             /\ step \in Seeded => \A e \in (cursor + 1) .. pushed[i] : Repeat(e)
             /\ step \in Coming /\ cursor <= pushed[i] => cursor \in replayed
             /\ \A k \in 1 .. Len(page) : page[k] <= pushed[i] => page[k] \in replayed
  BY DEF ShownInv
<1>c. Saved /\ step \in Seeded =>
          \A e \in (file + 1) .. cursor : Repeat(e) \/ (e = cursor /\ step = "keep")
  BY DEF ShownInv
<1>1. ASSUME UNCHANGED <<file, cursor, step, pushed, page>> PROVE ShownInv'
  <2>1. Saved' = Saved
    BY <1>0, <1>1 DEF Saved
  <2> QED BY <1>1, <1>a, <1>b, <1>c, <2>1, ShownStays
<1>2. CASE Bot!Load
  <2>1. /\ UNCHANGED <<file, pushed, page>> /\ step' = (IF cursor' = 0 THEN "seed" ELSE "read")
        /\ cursor' = (IF file = Bot!Torn THEN 0 ELSE file)
    BY <1>2 DEF Bot!Load, Bot!history
  <2>2. Saved' = Saved
    BY <1>0, <2>1 DEF Saved
  <2>3. step' \in Seeded => Saved /\ cursor' = file
    BY <2>1 DEF Seeded, Saved
  <2>4. step' \notin Coming
    BY <2>1 DEF Coming
  <2>5. step' \in Seeded => \A e \in (file' + 1) .. cursor' : FALSE
    BY <1>0, <2>1, <2>3
  <2> QED BY <1>a, <1>b, <2>1, <2>2, <2>3, <2>4, <2>5, ShownStays
<1>3. CASE Bot!SeedAlerts \/ Bot!SeedFails \/ Bot!SeedReplies
  <2>1. step = "seed" /\ UNCHANGED <<file, pushed, page>> /\ ~ Saved
    <3>1. step = "seed" /\ UNCHANGED <<file, pushed, page>>
      BY <1>3 DEF Bot!SeedAlerts, Bot!SeedFails, Bot!SeedReplies, Bot!SeededAt, Bot!history
    <3> QED BY <3>1 DEF PlacesInv, Saved
  <2>2. ~ Saved'
    BY <1>0, <2>1 DEF Saved
  <2>3. step' = "seed" \/ (replayed' = replayed \cup 1 .. last /\ step' \in {"read", "keep seed"})
    BY <1>3, <2>1 DEF Bot!SeedAlerts, Bot!SeedFails, Bot!SeedReplies, Bot!SeededAt
  <2>4. step' \notin Coming /\ (step' \in Seeded => \A e \in 1 .. last : Repeat(e)')
    BY <2>3 DEF Coming, Seeded, Repeat
  <2>5. ASSUME NEW i \in 1 .. Len(pushed), NEW e \in (cursor' + 1) .. pushed[i] PROVE e \in 1 .. last
    <3>1. \A c, p, m \in Nat : p <= m => \A x \in (c + 1) .. p : x \in 1 .. m
      OBVIOUS
    <3>2. cursor' \in Nat /\ last \in Nat /\ pushed[i] \in Nat /\ pushed[i] <= last
      BY <1>0
    <3> QED BY <3>1, <3>2
  <2> QED BY <1>a, <2>1, <2>2, <2>4, <2>5, ShownStays
<1>4. CASE Bot!Save
  <2>1. /\ step \in {"keep seed", "keep"} /\ UNCHANGED <<cursor, pushed, page, replayed>> /\ file' = cursor
        /\ step' = (IF step = "keep" THEN "show" ELSE "read")
    BY <1>4 DEF Bot!Save, Bot!history
  <2>2. step \in Seeded /\ (step' \in Coming => step \in Coming)
    BY <2>1 DEF Seeded, Coming
  <2>3. \A e \in (file' + 1) .. cursor' : FALSE
    <3>1. \A n \in Nat : \A e \in (n + 1) .. n : FALSE
      OBVIOUS
    <3>2. file' = cursor /\ cursor' = cursor /\ cursor \in Nat
      BY <1>0, <2>1
    <3> QED BY <3>1, <3>2
  <2> QED BY <1>a, <1>b, <2>1, <2>2, <2>3, ShownStays
<1>5. CASE Bot!SaveFails
  <2>1. /\ step \in {"keep seed", "keep"} /\ UNCHANGED <<cursor, pushed, page>> /\ file' \in {file, Bot!Torn}
        /\ replayed' = replayed \cup {cursor}
        /\ step' = (IF step = "keep" THEN "show" ELSE "read")
    BY <1>5 DEF Bot!SaveFails
  <2>2. step \in Seeded /\ (step' \in Coming => step \in Coming)
    BY <2>1 DEF Seeded, Coming
  <2>3. Saved' => Saved /\ file' = file
    BY <1>0, <2>1 DEF Saved
  <2>4. \A e : e = cursor => Repeat(e)'
    BY <2>1 DEF Repeat
  <2>5. Saved => \A e \in (file + 1) .. cursor : Repeat(e)'
    BY <1>a, <1>c, <2>2, <2>4
  <2> QED BY <1>a, <1>b, <2>1, <2>2, <2>3, <2>5, ShownStays
<1>6. CASE Bot!Read
  <2> DEFINE limit == IF kind = "alerts" THEN 1 ELSE BotPage
  <2>1. /\ limit \in Nat \ {0} /\ page' = Bot!After(cursor, limit) /\ step = "read" /\ page' # <<>>
        /\ UNCHANGED <<last, file, step, cursor, pushed, replayed>>
    BY <1>6 DEF Bot!Read, PushConstants
  <2>2. page' \in Seq(1 .. last) /\ page'[1] > cursor
        /\ \A i \in 1 .. Len(page') : page'[i] = page'[1] + i - 1 /\ ~ Dropped(page'[i])
    BY <2>1, AfterIs
  <2>3. ASSUME NEW i \in 1 .. Len(pushed), NEW k \in 1 .. Len(page'), page'[k] <= pushed[i]
        PROVE  page'[k] \in replayed'
    <3>1. page'[1] \in 1 .. last /\ k \in Nat /\ k >= 1
      <4>1. page'[1] \in 1 .. last
        BY <2>1, <2>2, EndsIn
      <4>2. k \in Nat /\ k >= 1
        OBVIOUS
      <4> QED BY <4>1, <4>2
    <3>2. page'[k] = page'[1] + k - 1 /\ page'[k] \in Nat
      BY <2>2, <3>1
    <3>3. page'[k] \in (cursor + 1) .. pushed[i]
      <4>1. \A c, f, j, x, p \in Nat :
                f > c /\ j >= 1 /\ x = f + j - 1 /\ x <= p => x \in (c + 1) .. p
        OBVIOUS
      <4>2. pushed[i] \in Nat /\ page'[1] \in Nat /\ cursor \in Nat
        BY <1>0, <3>1
      <4> QED BY <2>2, <2>3, <3>1, <3>2, <4>1, <4>2
    <3>4. Repeat(page'[k])
      BY <1>b, <2>1, <3>3 DEF Seeded
    <3> QED BY <2>1, <2>2, <3>4 DEF Repeat
  <2>4. Saved' = Saved
    BY <1>0, <2>1 DEF Saved
  <2>5. \A i \in 1 .. Len(pushed') :
          /\ Saved' => \A e \in (file' + 1) .. pushed'[i] : Repeat(e)'
          /\ step' \in Seeded => \A e \in (cursor' + 1) .. pushed'[i] : Repeat(e)'
          /\ step' \in Coming /\ cursor' <= pushed'[i] => cursor' \in replayed'
    BY <1>a, <1>b, <2>1, <2>4
  <2>6. Saved' /\ step' \in Seeded =>
          \A e \in (file' + 1) .. cursor' : Repeat(e)' \/ (e = cursor' /\ step' = "keep")
    BY <1>a, <1>c, <2>1, <2>4
  <2>7. \A i, j \in 1 .. Len(pushed') : i < j /\ pushed'[j] <= pushed'[i] => pushed'[j] \in replayed'
    BY <2>1 DEF ShownInv
  <2> QED BY <2>1, <2>3, <2>5, <2>6, <2>7 DEF ShownInv
<1>7. CASE Bot!Receive
  <2>1. /\ step = "read" /\ page # <<>> /\ UNCHANGED <<last, file, pushed, replayed>> /\ cursor' = page[1]
        /\ page' = Tail(page) /\ step' = "keep"
    BY <1>7 DEF Bot!Receive, FetchedInv, Bot!history
  <2>2. page[1] > cursor /\ \A e \in (cursor + 1) .. (page[1] - 1) : Repeat(e)
    BY <2>1 DEF FetchedInv, Repeat
  <2>3. step \in Seeded /\ Saved' = Saved /\ page[1] \in 1 .. last /\ 1 \in 1 .. Len(page)
    BY <1>0, <2>1, EndsIn DEF Seeded, Saved
  <2>4. \A k \in 1 .. Len(page') : k + 1 \in 1 .. Len(page) /\ page'[k] = page[k + 1]
    BY <1>0, <2>1, HeadTailProperties
  <2>5. ASSUME NEW i \in 1 .. Len(pushed')
        PROVE  /\ Saved' => \A e \in (file' + 1) .. pushed'[i] : Repeat(e)'
               /\ step' \in Seeded => \A e \in (cursor' + 1) .. pushed'[i] : Repeat(e)'
               /\ step' \in Coming /\ cursor' <= pushed'[i] => cursor' \in replayed'
               /\ \A k \in 1 .. Len(page') : page'[k] <= pushed'[i] => page'[k] \in replayed'
    <3>1. i \in 1 .. Len(pushed) /\ pushed' = pushed
      BY <2>1
    <3>2. \A e \in (cursor' + 1) .. pushed[i] : e \in (cursor + 1) .. pushed[i]
      BY <1>0, <2>1, <2>2, <2>3, <3>1
    <3> QED BY <1>a, <1>b, <2>1, <2>3, <2>4, <3>1, <3>2
  <2>6. ASSUME Saved', NEW e \in (file' + 1) .. cursor' PROVE Repeat(e)' \/ (e = cursor' /\ step' = "keep")
    <3>1. e \in (file + 1) .. cursor \/ e \in (cursor + 1) .. (page[1] - 1) \/ e = cursor'
      <4>1. file \in Nat /\ file' = file
        BY <1>0, <2>1, <2>3, <2>6 DEF Saved
      <4> QED BY <1>0, <2>1, <2>3, <2>6, <4>1
    <3>2. e \in (file + 1) .. cursor => Repeat(e)
      BY <1>c, <2>1, <2>3, <2>6
    <3> QED BY <1>a, <2>1, <2>2, <3>1, <3>2
  <2>7. \A i, j \in 1 .. Len(pushed') : i < j /\ pushed'[j] <= pushed'[i] => pushed'[j] \in replayed'
    BY <2>1 DEF ShownInv
  <2> QED BY <2>5, <2>6, <2>7 DEF ShownInv
<1>8. CASE Bot!Show
  <2>1. /\ step = "show" /\ UNCHANGED <<file, cursor, page, replayed>> /\ pushed' = Append(pushed, cursor)
        /\ step' \in {"speak", "read"}
    BY <1>8 DEF Bot!Show, Bot!Shown
  <2>2. cursor \in 1 .. last
    <3>1. cursor # 0
      BY <2>1 DEF PlacesInv, Coming
    <3> QED BY <3>1 DEF PlacesInv
  <2>3. /\ Len(pushed') = Len(pushed) + 1 /\ Len(pushed) \in Nat /\ pushed'[Len(pushed) + 1] = cursor
        /\ \A i \in 1 .. Len(pushed) : pushed'[i] = pushed[i]
    BY <1>0, <2>1, <2>2, AppendProperties, LenProperties
  <2>4. step \in Seeded /\ step \in Coming /\ step' \notin Coming /\ Saved' = Saved
    BY <1>0, <2>1 DEF Seeded, Coming, Saved
  <2>5. \A k \in 1 .. Len(page) : page[k] > cursor
    <3>1. ASSUME NEW k \in 1 .. Len(page) PROVE page # <<>> /\ page[1] \in Nat /\ page[k] = page[1] + k - 1
      <4>1. page # <<>>
        BY <3>1
      <4>2. page[1] \in 1 .. last
        BY <1>0, <4>1, EndsIn
      <4> QED BY <1>0, <4>1, <4>2 DEF FetchedInv
    <3>2. page # <<>> => page[1] > cursor
      BY DEF FetchedInv
    <3> QED BY <1>0, <3>1, <3>2
  <2>6. ASSUME NEW i \in 1 .. Len(pushed')
        PROVE  /\ Saved' => \A e \in (file' + 1) .. pushed'[i] : Repeat(e)'
               /\ step' \in Seeded => \A e \in (cursor' + 1) .. pushed'[i] : Repeat(e)'
               /\ step' \in Coming /\ cursor' <= pushed'[i] => cursor' \in replayed'
               /\ \A k \in 1 .. Len(page') : page'[k] <= pushed'[i] => page'[k] \in replayed'
    <3>1. CASE i \in 1 .. Len(pushed)
      BY <1>a, <1>b, <2>1, <2>3, <2>4, <3>1
    <3>2. CASE i = Len(pushed) + 1
      <4>1. pushed'[i] = cursor
        BY <2>3, <3>2
      <4>2. Saved => \A e \in (file + 1) .. cursor : Repeat(e)'
        BY <1>a, <1>c, <2>1, <2>4
      <4>3. \A e \in (cursor + 1) .. cursor : FALSE
        BY <1>0
      <4>4. \A k \in 1 .. Len(page) : ~ (page[k] <= cursor)
        <5>1. \A k \in 1 .. Len(page) : page[k] \in Nat
          BY <1>0
        <5> QED BY <1>0, <2>5, <5>1
      <4> QED BY <2>1, <2>4, <4>1, <4>2, <4>3, <4>4
    <3> QED BY <2>3, <2>6, <3>1, <3>2
  <2>7. Saved' => \A e \in (file' + 1) .. cursor' : Repeat(e)'
    BY <1>a, <1>c, <2>1, <2>4
  <2>8. ASSUME NEW i \in 1 .. Len(pushed'), NEW j \in 1 .. Len(pushed'), i < j, pushed'[j] <= pushed'[i]
        PROVE  pushed'[j] \in replayed'
    <3>1. i \in 1 .. Len(pushed) /\ (j \in 1 .. Len(pushed) \/ j = Len(pushed) + 1)
      BY <2>3, <2>8
    <3>2. CASE j \in 1 .. Len(pushed)
      BY <2>1, <2>3, <2>8, <3>1, <3>2 DEF ShownInv
    <3>3. CASE j = Len(pushed) + 1
      <4>1. pushed'[j] = cursor /\ cursor <= pushed[i]
        BY <2>3, <2>8, <3>1, <3>3
      <4> QED BY <1>b, <2>1, <2>4, <3>1, <4>1
    <3> QED BY <3>1, <3>2, <3>3
  <2> QED BY <2>6, <2>7, <2>8 DEF ShownInv
<1>9. CASE Bot!ShowFails \/ Bot!Reject \/ Bot!Speak \/ Bot!SpeakFails
  <2>1. /\ step \in {"show", "speak"} /\ UNCHANGED <<file, cursor, pushed, replayed>>
        /\ page' \in {page, <<>>} /\ step' \in {"speak", "read", "ended"}
    BY <1>9 DEF Bot!ShowFails, Bot!Reject, Bot!Speak, Bot!SpeakFails, Bot!history
  <2>2. step \in Seeded /\ step # "keep" /\ step' \notin Coming /\ Saved' = Saved
    BY <1>0, <2>1 DEF Seeded, Coming, Saved
  <2> QED BY <1>a, <1>b, <1>c, <2>1, <2>2, ShownStays
<1>10. CASE Bot!Crash
  <2>1. file' \in {file, Bot!Torn} /\ step' = "load" /\ page' = <<>> /\ UNCHANGED <<pushed, replayed>>
    BY <1>10 DEF Bot!Crash
  <2>2. step' \notin Seeded /\ step' \notin Coming /\ (Saved' => Saved /\ file' = file)
    BY <1>0, <2>1 DEF Seeded, Coming, Saved
  <2> QED BY <1>a, <1>b, <2>1, <2>2, ShownStays
<1>11. Bot!Arrive \/ Bot!ReadFails \/ UNCHANGED Bot!pvars => UNCHANGED <<file, cursor, step, pushed, page>>
  BY DEF Bot!Arrive, Bot!ReadFails, Bot!pvars, Bot!thread, Bot!history
<1> QED
  BY <1>1, <1>2, <1>3, <1>4, <1>5, <1>6, <1>7, <1>8, <1>9, <1>10, <1>11 DEF Bot!Next

(* The theorem                                                             *)

\* The invariant holds when the bot starts.
LEMMA PushInit == ASSUME PushConstants, Bot!Init PROVE PushInv
<1>1. /\ kind \in {"alerts", "replies"} /\ last \in 0 .. 1 /\ file = 0 /\ step = "load" /\ cursor = 0
      /\ page = <<>> /\ faults = 0 /\ pushed = <<>> /\ passed = {} /\ replayed = {}
  BY DEF Bot!Init
<1>2. Len(page) = 0 /\ Len(pushed) = 0 /\ \A S : <<>> \in Seq(S)
  BY <1>1, EmptySeq
<1>3. step \notin Seeded /\ step \notin Coming /\ step # "seed"
  BY <1>1 DEF Seeded, Coming
<1>4. \A S : 1 .. 0 = {}
  OBVIOUS
<1>5. PlacesInv
  <2>1. last \in 0 .. BotMaxEntries /\ 0 \in 0 .. last /\ faults \in 0 .. BotMaxFaults
    BY <1>1 DEF PushConstants
  <2>2. step \in {"load", "seed"} /\ pushed \in Seq(1 .. last)
    BY <1>1, <1>2
  <2> QED BY <1>1, <1>3, <2>1, <2>2 DEF PlacesInv
<1>6. FetchedInv
  BY <1>1, <1>2, <1>4 DEF FetchedInv
<1>7. PassedInv
  BY <1>1, <1>3, <1>4 DEF PassedInv
<1>8. ShownInv
  BY <1>1, <1>2, <1>3, <1>4 DEF ShownInv
<1> QED BY <1>5, <1>6, <1>7, <1>8 DEF PushInv

\* Every step keeps it.
LEMMA PushesStep == ASSUME PushConstants, PushInv, Bot!Next \/ UNCHANGED Bot!pvars PROVE PushInv'
BY PlacesKept, FetchedKept, PassedKept, ShownKept DEF PushInv

\* It says what is wanted.
LEMMA PushFollows == ASSUME PushConstants, PushInv PROVE Bot!PushTrue /\ Bot!TypeOK
<1>0. /\ last \in Nat /\ last <= BotMaxEntries /\ BotMaxEntries \in Nat /\ cursor \in 0 .. last
      /\ pushed \in Seq(1 .. last) /\ page \in Seq(1 .. last) /\ Bot!Torn = BotMaxEntries + 1
      /\ file \in (0 .. last) \cup {Bot!Torn} /\ passed \cup replayed \subseteq 0 .. last
      /\ last \in 0 .. BotMaxEntries /\ faults \in 0 .. BotMaxFaults
  BY DEF PushInv, PlacesInv, FetchedInv, PushConstants, Bot!Torn
<1>a. step \in Seeded \cup {"load", "seed"}
  BY DEF PushInv, PlacesInv
<1>1. Bot!ShownOnce
  <2>1. DOMAIN pushed = 1 .. Len(pushed)
    BY <1>0, LenProperties
  <2> QED BY <2>1 DEF PushInv, ShownInv, Bot!ShownOnce
<1>2. Bot!NoneSkipped
  <2>1. ASSUME NEW e \in 1 .. (IF file = Bot!Torn \/ file < cursor THEN cursor ELSE file), step # "seed"
        PROVE  e \in Bot!Range(pushed) \cup passed \/ (e = cursor /\ step \in Coming)
    <3>1. CASE file = Bot!Torn \/ file < cursor
      <4>1. CASE step \in Seeded
        BY <3>1, <4>1, <2>1 DEF PushInv, PassedInv, DealtWith
      <4>2. CASE step = "load"
        <5>1. cursor = 0
          BY <4>2 DEF PushInv, PlacesInv
        <5> QED BY <2>1, <3>1, <5>1
      <4> QED BY <1>a, <2>1, <4>1, <4>2
    <3>2. CASE ~ (file = Bot!Torn \/ file < cursor)
      BY <3>2, <2>1 DEF PushInv, PassedInv, DealtWith, Coming
    <3> QED BY <3>1, <3>2
  <2> QED BY <2>1 DEF Bot!NoneSkipped, Coming
<1>3. \A i \in DOMAIN page : page[i] \in 1 .. last /\ (step \in {"read", "keep"} => page[i] > cursor)
  <2>1. ASSUME NEW i \in DOMAIN page PROVE page[i] \in 1 .. last /\ page[i] > cursor
    <3>1. i \in 1 .. Len(page) /\ page[i] \in 1 .. last /\ page # <<>>
      BY <1>0, LenProperties
    <3>2. page[1] \in 1 .. last /\ page[1] > cursor /\ page[i] = page[1] + i - 1
      BY <1>0, <3>1, EndsIn DEF PushInv, FetchedInv
    <3> QED BY <1>0, <3>1, <3>2
  <2> QED BY <2>1
<1>4. passed \cup replayed \subseteq 0 .. BotMaxEntries /\ file \in 0 .. Bot!Torn
  BY <1>0
<1> QED BY <1>0, <1>a, <1>1, <1>2, <1>3, <1>4 DEF Bot!PushTrue, Bot!TypeOK, Seeded

\* What comes for the chat is shown in order, once, and without a gap, but for what the
\* bot has a reason to leave out or to show again: PushTrue holds however often writes,
\* requests and calls fail and the bot dies (AlertPusher.run, ReplyPusher.run, CursorStore).
THEOREM PushSafe == ASSUME PushConstants PROVE Bot!Spec => []Bot!PushTrue
<1>1. Bot!Init => PushInv
  BY PushInit
<1>2. PushInv /\ [Bot!Next]_Bot!pvars => PushInv'
  BY PushesStep
<1>3. PushInv => Bot!PushTrue
  BY PushFollows
<1> QED BY <1>1, <1>2, <1>3, PTL DEF Bot!Spec

-----------------------------------------------------------------------------
(* The inter-office relay                                                   *)

CONSTANTS RelPlaces, RelMailbox, RelOther, RelRetained, RelLimit, RelMaxChanges,
          RelMaxFaults
VARIABLES length, office, adding, ledger, ready, worker, egress, changes, whose, excused

Rel == INSTANCE Relay WITH
    Places <- RelPlaces, Mailbox <- RelMailbox, Other <- RelOther,
    Retained <- RelRetained, Limit <- RelLimit, MaxChanges <- RelMaxChanges,
    MaxFaults <- RelMaxFaults

\* Positions between one that is remembered and the end of what the mailbox may hold
\* while another one is in it.
Between(p, a, e) == {f \in 1 .. Len(RelMailbox[p]) : a < f /\ f < e + RelRetained}
OtherLetters(p, a, e)  == {RelMailbox[p][f] : f \in Between(p, a, e)} \ (RelOther \cup {RelMailbox[p][a]})

\* The ledger reaches back from what the mailbox holds to the last time a message in it
\* came (SEEN_LEDGER_LIMIT is four times MAILBOX_MAXLEN).
LedgerReaches ==
    \A p \in RelPlaces : \A a, e \in 1 .. Len(RelMailbox[p]) :
        a <= e /\ RelMailbox[p][a] = RelMailbox[p][e] => Cardinality(OtherLetters(p, a, e)) < RelLimit

RelayConstants ==
    /\ RelLimit \in Nat \ {0} /\ RelRetained \in Nat \ {0} /\ RelMaxChanges \in Nat /\ RelMaxFaults \in Nat
    /\ "nowhere" \notin RelPlaces
    /\ \A p \in RelPlaces : Len(RelMailbox[p]) \in Nat \ {0}
    /\ LedgerReaches

\* A ledger holds sightings of messages, one of each, no more than it may.
Letters == {RelMailbox[p][e] : p \in RelPlaces, e \in Nat}
Sightings == [message : Letters, at : Nat]
Admissions == [place : RelPlaces, message : Letters, at : Nat]
GoodLedger(p, L) ==
    /\ IsFiniteSet(L) /\ Cardinality(L) <= RelLimit
    /\ \A l \in L : l \in Sightings /\ l.at \in 1 .. length[p] /\ l.message = RelMailbox[p][l.at] /\ l.message \notin RelOther
    /\ \A k, l \in L : k.message = l.message => k = l

\* What was sighted is in the ledger, unless the ledger is full of what came later.
Remembered(L, p, f) ==
    \/ \E l \in L : l.message = RelMailbox[p][f] /\ l.at >= f
    \/ Cardinality(L) = RelLimit /\ \A l \in L : l.at > f

(* The ledger                                                              *)

\* The model counts as the library does.
LEMMA CountsAlike == \A S : Rel!Cardinality(S) = Cardinality(S)
BY SMT DEF Rel!Cardinality, Cardinality

\* A set of numbers has a least.
LEMMA LeastExists ==
    ASSUME NEW S \in SUBSET Nat, S # {}
    PROVE  \E x \in S : \A y \in S : x <= y
<1>1. PICK x \in S : \A y \in S : ~(<<y, x>> \in OpToRel(<, Nat))
  BY NatLessThanWellFounded, WFMin
<1>2. ASSUME NEW y \in S PROVE x <= y
  <2>1. y \in Nat /\ x \in Nat
    OBVIOUS
  <2>2. ~(y < x)
    BY <1>1, <2>1 DEF OpToRel
  <2> QED BY <2>1, <2>2
<1> QED BY <1>2

\* The greater of two.
LEMMA MaxPair ==
    ASSUME NEW a \in Int, NEW b \in Int
    PROVE  Rel!Max({a, b}) = (IF a >= b THEN a ELSE b)
<1> DEFINE m == IF a >= b THEN a ELSE b
<1>1. m \in {a, b} /\ \A y \in {a, b} : m >= y
  OBVIOUS
<1>2. \A x \in {a, b} : (\A y \in {a, b} : x >= y) => x = m
  OBVIOUS
<1> QED BY <1>1, <1>2 DEF Rel!Max

\* The lesser of two.
LEMMA MinPair ==
    ASSUME NEW a \in Int, NEW b \in Int
    PROVE  Rel!Min({a, b}) = (IF a <= b THEN a ELSE b)
<1> DEFINE m == IF a <= b THEN a ELSE b
<1>1. m \in {a, b} /\ \A y \in {a, b} : m <= y
  OBVIOUS
<1>2. \A x \in {a, b} : (\A y \in {a, b} : x <= y) => x = m
  OBVIOUS
<1> QED BY <1>1, <1>2 DEF Rel!Min

\* Of a message the last sighting is kept.
SightedBefore(L, m)    == {l.at : l \in L \ {k \in L : k.message # m}}
LastAt(L, m, e) == Rel!Max({e} \cup SightedBefore(L, m))
LEMMA LastSighting ==
    ASSUME NEW L, NEW m, NEW e \in Nat, \A l \in L : l.at \in Nat,
           \A k, l \in L : k.message = l.message => k = l
    PROVE  /\ LastAt(L, m, e) \in Nat /\ LastAt(L, m, e) >= e
           /\ LastAt(L, m, e) = e \/ \E l \in L : l.message = m /\ LastAt(L, m, e) = l.at
           /\ \A l \in L : l.message = m => LastAt(L, m, e) >= l.at
<1> DEFINE S == SightedBefore(L, m)
           b == LastAt(L, m, e)
<1>1. CASE \A l \in L : l.message # m
  <2>1. S = {}
    BY <1>1 DEF SightedBefore
  <2>2. {e} \cup S = {e, e}
    BY <2>1
  <2>3. b = e
    BY <2>2, MaxPair DEF LastAt
  <2> QED BY ONLY <1>1, <2>3, e \in Nat
<1>2. CASE \E l \in L : l.message = m
  <2>1. PICK l \in L : l.message = m
    BY <1>2
  <2>2. \A k \in L : k.message = m => k = l
    BY <2>1
  <2>3. S = {l.at}
    BY <2>1, <2>2 DEF SightedBefore
  <2>4. {e} \cup S = {e, l.at}
    BY <2>3
  <2>5. l.at \in Nat
    BY <2>1
  <2>6. b = IF e >= l.at THEN e ELSE l.at
    <3>1. b = Rel!Max({e, l.at})
      BY <2>4 DEF LastAt
    <3> QED BY ONLY <2>5, <3>1, MaxPair, e \in Nat
  <2>7. b \in Nat /\ b >= e /\ b >= l.at /\ (b = e \/ b = l.at)
    BY ONLY <2>5, <2>6, e \in Nat
  <2> QED BY ONLY <2>1, <2>2, <2>7
<1> QED BY <1>1, <1>2

\* What has less than Limit above it stays: all, or all but the least.
LEMMA BestKept ==
    ASSUME NEW W, IsFiniteSet(W), RelLimit \in Nat \ {0}, Cardinality(W) <= RelLimit + 1,
           \A k \in W : k.at \in Nat, \A k, l \in W : k.at = l.at => k = l,
           NEW K, K = {l \in W : Cardinality({k \in W : k.at > l.at}) < RelLimit}
    PROVE  \/ K = W /\ Cardinality(W) <= RelLimit
           \/ \E x \in W : K = W \ {x} /\ Cardinality(K) = RelLimit /\ \A y \in K : y.at > x.at
<1> DEFINE Above(l) == {k \in W : k.at > l.at}
<1>1. Cardinality(W) \in Nat
  BY FS_CardinalityType
<1>2. \A l \in W : Above(l) \in SUBSET (W \ {l})
  OBVIOUS
<1>3. ASSUME NEW l \in W PROVE IsFiniteSet(W \ {l}) /\ Cardinality(W \ {l}) = Cardinality(W) - 1
  BY FS_RemoveElement
<1>4. \A l \in W : IsFiniteSet(Above(l)) /\ Cardinality(Above(l)) \in Nat /\ Cardinality(Above(l)) <= Cardinality(W) - 1
  <2> SUFFICES ASSUME NEW l \in W
      PROVE IsFiniteSet(Above(l)) /\ Cardinality(Above(l)) \in Nat /\ Cardinality(Above(l)) <= Cardinality(W) - 1
    OBVIOUS
  <2>1. IsFiniteSet(Above(l)) /\ Cardinality(Above(l)) <= Cardinality(W \ {l})
    <3>1. Above(l) \in SUBSET (W \ {l})
      BY <1>2
    <3> HIDE DEF Above
    <3> QED BY <1>3, <3>1, FS_Subset
  <2> HIDE DEF Above
  <2> QED BY <1>3, <2>1, FS_CardinalityType
<1>5. K = {l \in W : Cardinality(Above(l)) < RelLimit}
  OBVIOUS
<1>6. CASE Cardinality(W) <= RelLimit
  <2> HIDE DEF Above
  <2>1. \A l \in W : Cardinality(Above(l)) < RelLimit
    BY <1>1, <1>4, <1>6
  <2> QED BY <1>5, <1>6, <2>1
<1>7. CASE Cardinality(W) = RelLimit + 1
  <2> HIDE DEF Above
  <2>0. \A l \in W : Cardinality(W \ {l}) = RelLimit
    BY ONLY <1>3, <1>7, RelLimit \in Nat \ {0}
  <2>1. W # {}
    BY <1>7, FS_EmptySet
  <2>2. PICK t \in {k.at : k \in W} : \A y \in {k.at : k \in W} : t <= y
    <3>1. {k.at : k \in W} \in SUBSET Nat /\ {k.at : k \in W} # {}
      BY <2>1
    <3> QED BY <3>1, LeastExists
  <2>3. PICK x \in W : x.at = t
    BY <2>2
  <2>4. \A y \in W \ {x} : y.at > x.at
    <3> SUFFICES ASSUME NEW y \in W \ {x} PROVE y.at > x.at
      OBVIOUS
    <3>1. x.at <= y.at /\ y.at # x.at
      BY <2>2, <2>3
    <3> QED BY <3>1
  <2>5. Above(x) = W \ {x}
    BY <2>4 DEF Above
  <2>6. Cardinality(Above(x)) = RelLimit
    BY <2>0, <2>5
  <2>7. ASSUME NEW l \in W \ {x} PROVE Cardinality(Above(l)) < RelLimit
    <3>1. Above(l) \in SUBSET (W \ {l}) /\ x \in W \ {l} /\ x \notin Above(l)
      <4>1. l.at > x.at /\ x.at \in Nat /\ l.at \in Nat
        BY <2>4
      <4> QED BY <4>1 DEF Above
    <3>2. Above(l) # W \ {l}
      BY <3>1
    <3>3. Cardinality(Above(l)) # Cardinality(W \ {l}) /\ Cardinality(Above(l)) <= Cardinality(W \ {l})
      BY <1>3, <3>1, <3>2, FS_Subset
    <3>4. Cardinality(Above(l)) \in Nat /\ Cardinality(W \ {l}) = RelLimit
      BY <1>4, <2>0
    <3> QED BY ONLY <3>3, <3>4, RelLimit \in Nat \ {0}
  <2>8. K = W \ {x}
    <3>1. ~ (Cardinality(Above(x)) < RelLimit)
      BY <2>6
    <3> QED BY ONLY <1>5, <2>7, <3>1, x \in W
  <2>9. Cardinality(K) = RelLimit
    BY <2>0, <2>8
  <2> QED BY <2>4, <2>8, <2>9
<1>8. Cardinality(W) <= RelLimit \/ Cardinality(W) = RelLimit + 1
  BY ONLY <1>1, RelLimit \in Nat \ {0}, Cardinality(W) <= RelLimit + 1
<1> QED BY <1>6, <1>7, <1>8

\* What is remembered of a message stays remembered when another one is sighted, and the
\* sighting of it is (the ledger of _ADMIT_ONCE).
LEMMA SightedKeeps ==
    ASSUME RelayConstants, NEW p \in RelPlaces, length[p] \in Nat, GoodLedger(p, ledger[p]),
           NEW e \in 1 .. length[p], RelMailbox[p][e] \notin RelOther
    PROVE  LET K == Rel!Sighted(p, RelMailbox[p][e], e) IN
           /\ GoodLedger(p, K)
           /\ Remembered(K, p, e)
           /\ \A f \in Nat : Remembered(ledger[p], p, f) => Remembered(K, p, f)
           /\ \A l \in K : l.at = e \/ \E k \in ledger[p] : k.at = l.at
<1> DEFINE L == ledger[p]
           m == RelMailbox[p][e]
           others == {l \in L : l.message # m}
           b == LastAt(L, m, e)
           new == [message |-> m, at |-> b]
           W == others \cup {new}
           K == Rel!Sighted(p, m, e)
<1>0. RelLimit \in Nat \ {0} /\ e \in Nat /\ m \in Letters
  BY DEF RelayConstants, Letters
<1>1. /\ IsFiniteSet(L) /\ Cardinality(L) <= RelLimit /\ Cardinality(L) \in Nat
      /\ \A l \in L : l \in Sightings /\ l.at \in Nat /\ l.at \in 1 .. length[p] /\ l.message = RelMailbox[p][l.at] /\ l.message \notin RelOther
      /\ \A k, l \in L : k.message = l.message => k = l
  BY FS_CardinalityType DEF GoodLedger
<1>2. /\ b \in Nat /\ b >= e
      /\ b = e \/ \E l \in L : l.message = m /\ b = l.at
      /\ \A l \in L : l.message = m => b >= l.at
  <2>1. \A l \in L : l.at \in Nat
    BY <1>1
  <2>2. \A k, l \in L : k.message = l.message => k = l
    BY <1>1
  <2>3. e \in Nat
    BY <1>0
  <2> HIDE DEF L, m
  <2> QED BY <2>1, <2>2, <2>3, LastSighting
<1>3. K = {l \in W : Cardinality({k \in W : k.at > l.at}) < RelLimit}
  BY CountsAlike DEF Rel!Sighted, LastAt, SightedBefore
<1> HIDE DEF b, K, L, m
<1>4. new \in Sightings /\ new.at = b /\ new.message = m /\ b \in 1 .. length[p] /\ m = RelMailbox[p][b]
  <2>1. b \in 1 .. length[p] /\ m = RelMailbox[p][b]
    BY <1>1, <1>2 DEF m
  <2> QED BY <1>0, <1>2, <2>1 DEF Sightings
<1>5. new \notin others /\ \A l \in others : l \in L /\ l.message # m
  BY <1>4
<1> HIDE DEF new
<1>6. /\ IsFiniteSet(W) /\ Cardinality(W) = Cardinality(others) + 1 /\ Cardinality(others) \in Nat /\ Cardinality(others) <= Cardinality(L)
  <2>1. others \in SUBSET L
    OBVIOUS
  <2> HIDE DEF others
  <2>2. IsFiniteSet(others) /\ Cardinality(others) <= Cardinality(L)
    BY <1>1, <2>1, FS_Subset
  <2>3. IsFiniteSet(W) /\ Cardinality(W) = Cardinality(others) + 1
    BY <1>5, <2>2, FS_AddElement
  <2> QED BY <2>2, <2>3, FS_CardinalityType
<1>7. /\ \A k \in W : k \in Sightings /\ k.at \in Nat /\ k.at \in 1 .. length[p] /\ k.message = RelMailbox[p][k.at] /\ k.message \notin RelOther
      /\ \A k, l \in W : k.message = l.message => k = l
      /\ \A k, l \in W : k.at = l.at => k = l
  <2>1. \A k \in W : (k \in L /\ k.message # m) \/ k = new
    BY <1>5
  <2>2. \A k \in W : k \in Sightings /\ k.at \in Nat /\ k.at \in 1 .. length[p] /\ k.message = RelMailbox[p][k.at] /\ k.message \notin RelOther
    BY <1>1, <1>2, <1>4, <2>1 DEF m
  <2>3. \A k, l \in W : k.message = l.message => k = l
    BY <1>1, <1>4, <2>1
  <2>4. \A k, l \in W : k.at = l.at => k.message = l.message
    BY <2>2
  <2> QED BY <2>2, <2>3, <2>4
<1> HIDE DEF W, others
<1>8. Cardinality(W) <= RelLimit + 1
  BY ONLY <1>0, <1>1, <1>6
<1>9. \/ K = W /\ Cardinality(W) <= RelLimit
      \/ \E x \in W : K = W \ {x} /\ Cardinality(K) = RelLimit /\ \A y \in K : y.at > x.at
  <2>1. \A k \in W : k.at \in Nat
    BY <1>7
  <2>2. \A k, l \in W : k.at = l.at => k = l
    BY <1>7
  <2> QED BY <1>0, <1>3, <1>6, <1>8, <2>1, <2>2, BestKept
<1>10. K \subseteq W /\ IsFiniteSet(K) /\ Cardinality(K) <= RelLimit
  <2>1. K \in SUBSET W
    BY <1>9
  <2>2. IsFiniteSet(K)
    BY <1>6, <2>1, FS_Subset
  <2>3. Cardinality(K) <= RelLimit
    BY <1>0, <1>9
  <2> QED BY <2>1, <2>2, <2>3
<1>11. GoodLedger(p, K)
  BY <1>7, <1>10 DEF GoodLedger
<1>12. \A f \in Nat : (\E l \in W : l.message = RelMailbox[p][f] /\ l.at >= f) => Remembered(K, p, f)
  <2> SUFFICES ASSUME NEW f \in Nat, NEW l \in W, l.message = RelMailbox[p][f], l.at >= f
      PROVE Remembered(K, p, f)
    OBVIOUS
  <2>1. CASE l \in K
    BY <2>1 DEF Remembered
  <2>2. CASE l \notin K
    <3>1. Cardinality(K) = RelLimit /\ \A y \in K : y.at > l.at
      BY <1>9, <2>2
    <3>2. \A y \in K : y.at > f
      <4> SUFFICES ASSUME NEW y \in K PROVE y.at > f
        OBVIOUS
      <4>1. y.at \in Nat /\ l.at \in Nat /\ y.at > l.at
        BY <1>7, <1>10, <3>1
      <4> QED BY <4>1
    <3> QED BY <3>1, <3>2 DEF Remembered
  <2> QED BY <2>1, <2>2
<1>13. Remembered(K, p, e)
  <2>1. new \in W /\ new.message = RelMailbox[p][e] /\ new.at >= e
    BY <1>2, <1>4 DEF W, m
  <2> QED BY <1>0, <1>12, <2>1
<1>14. ASSUME NEW f \in Nat, Remembered(L, p, f) PROVE Remembered(K, p, f)
  <2>1. CASE \E l \in L : l.message = RelMailbox[p][f] /\ l.at >= f
    <3>1. PICK l \in L : l.message = RelMailbox[p][f] /\ l.at >= f
      BY <2>1
    <3>2. CASE l.message # m
      <4>1. l \in W
        BY <3>2 DEF W, others
      <4> QED BY <1>12, <3>1, <4>1
    <3>3. CASE l.message = m
      <4>1. new \in W /\ new.message = RelMailbox[p][f]
        BY <1>4, <3>1, <3>3 DEF W
      <4>2. new.at >= f
        <5>1. b >= l.at /\ l.at \in Nat /\ b \in Nat /\ l.at >= f
          BY <1>1, <1>2, <3>1, <3>3
        <5> QED BY <1>4, <5>1
      <4> QED BY <1>12, <4>1, <4>2
    <3> QED BY <3>2, <3>3
  <2>2. CASE Cardinality(L) = RelLimit /\ \A l \in L : l.at > f
    <3>1. CASE others # L
      <4>1. PICK l \in L : l.message = m
        BY <3>1 DEF others
      <4>2. b > f
        <5>1. b >= l.at /\ l.at > f /\ l.at \in Nat /\ b \in Nat
          BY <1>1, <1>2, <2>2, <4>1
        <5> QED BY <5>1
      <4>3. \A k \in W : k.at > f
        BY <1>4, <1>5, <2>2, <4>2 DEF W
      <4>4. l \notin others /\ others = L \ {l}
        BY <1>1, <4>1 DEF others
      <4>5. Cardinality(others) = Cardinality(L) - 1
        BY <1>1, <4>4, FS_RemoveElement
      <4>6. Cardinality(W) = RelLimit
        BY ONLY <1>0, <1>6, <2>2, <4>5
      <4>7. Cardinality(K) = RelLimit
        BY <1>9, <4>6
      <4> QED BY <1>10, <4>3, <4>7 DEF Remembered
    <3>2. CASE others = L
      <4>1. Cardinality(W) = RelLimit + 1
        BY <1>6, <2>2, <3>2
      <4>2. ~ (Cardinality(W) <= RelLimit)
        BY ONLY <1>0, <4>1
      <4>3. PICK x \in W : K = W \ {x} /\ Cardinality(K) = RelLimit /\ \A y \in K : y.at > x.at
        BY <1>9, <4>2
      <4>4. \A y \in K : y.at > f
        <5> SUFFICES ASSUME NEW y \in K PROVE y.at > f
          OBVIOUS
        <5>1. CASE y \in L
          BY <2>2, <5>1
        <5>2. CASE y = new
          <6>1. x \in L
            BY <1>10, <4>3, <5>2, <3>2 DEF W
          <6>2. y.at > x.at /\ x.at > f /\ y.at \in Nat /\ x.at \in Nat
            BY <1>7, <1>10, <2>2, <4>3, <6>1
          <6> QED BY <6>2
        <5> QED BY <1>10, <3>2, <5>1, <5>2 DEF W
      <4> QED BY <4>3, <4>4 DEF Remembered
    <3> QED BY <3>1, <3>2
  <2> QED BY <1>14, <2>1, <2>2 DEF Remembered
<1>15. \A l \in K : l.at = e \/ \E k \in L : k.at = l.at
  <2> SUFFICES ASSUME NEW l \in K PROVE l.at = e \/ \E k \in L : k.at = l.at
    OBVIOUS
  <2>1. l \in L \/ l = new
    BY <1>5, <1>10 DEF W
  <2> QED BY <1>2, <1>4, <2>1
<1> QED BY <1>11, <1>13, <1>14, <1>15 DEF K, L, m

\* What lies in the mailbox and came before is in the ledger.
LEMMA ReachesBack ==
    ASSUME RelayConstants, NEW p \in RelPlaces, GoodLedger(p, ledger[p]),
           length[p] \in 0 .. Len(RelMailbox[p]),
           NEW a \in 1 .. length[p], NEW e \in 1 .. length[p], a <= e, RelMailbox[p][a] = RelMailbox[p][e],
           Remembered(ledger[p], p, a), \A l \in ledger[p] : l.at < e + RelRetained
    PROVE  Rel!InLedger(p, RelMailbox[p][e])
<1> DEFINE L == ledger[p]
           S == OtherLetters(p, a, e)
<1> SUFFICES ASSUME ~ Rel!InLedger(p, RelMailbox[p][e]) PROVE FALSE
  OBVIOUS
<1>0. RelLimit \in Nat \ {0} /\ RelRetained \in Nat /\ Len(RelMailbox[p]) \in Nat
  BY DEF RelayConstants
<1>1. \A l \in L : l.message # RelMailbox[p][a]
  BY DEF Rel!InLedger
<1>2. Cardinality(L) = RelLimit /\ \A l \in L : l.at > a
  BY <1>1 DEF Remembered
<1>3. \A l \in L : l.at \in Between(p, a, e) /\ l.message = RelMailbox[p][l.at] /\ l.message \notin RelOther
  BY <1>0, <1>2 DEF GoodLedger, Between
<1>4. \A l \in L : l.message \in S
  BY <1>1, <1>3 DEF OtherLetters
<1>5. IsFiniteSet(S) /\ Cardinality(S) \in Nat
  <2> DEFINE B == Between(p, a, e)
             M == {RelMailbox[p][f] : f \in B}
             g == [f \in B |-> RelMailbox[p][f]]
  <2>1. IsFiniteSet(B)
    <3>1. B \in SUBSET (1 .. Len(RelMailbox[p]))
      BY DEF Between
    <3>2. PICK n \in Nat : n = Len(RelMailbox[p])
      BY <1>0
    <3>3. IsFiniteSet(1 .. n)
      BY ONLY <3>2, FS_Interval
    <3> HIDE DEF B
    <3> QED BY <3>1, <3>2, <3>3, FS_Subset
  <2>2. g \in Surjection(B, M)
    BY DEF Surjection
  <2>3. IsFiniteSet(M)
    <3> HIDE DEF g, B, M
    <3> QED BY <2>1, <2>2, FS_Surjection
  <2>4. S \in SUBSET M
    BY DEF OtherLetters
  <2>5. IsFiniteSet(S)
    <3> HIDE DEF M, S
    <3> QED BY <2>3, <2>4, FS_Subset
  <2> QED BY <2>5, FS_CardinalityType
<1>6. Cardinality(L) <= Cardinality(S)
  <2> DEFINE h == [l \in L |-> l.message]
  <2>1. h \in [L -> S] /\ \A k, l \in L : h[k] = h[l] => k = l
    <3> HIDE DEF S
    <3> QED BY <1>4 DEF GoodLedger
  <2>2. h \in Injection(L, S)
    <3> HIDE DEF h, S, L
    <3> QED BY <2>1 DEF Injection, IsInjective
  <2> HIDE DEF h, S, L
  <2> QED BY <1>5, <2>2, FS_Injection
<1>7. Cardinality(S) < RelLimit
  <2>1. a \in 1 .. Len(RelMailbox[p]) /\ e \in 1 .. Len(RelMailbox[p])
    BY <1>0
  <2> QED BY <2>1 DEF RelayConstants, LedgerReaches
<1> QED BY ONLY <1>0, <1>2, <1>5, <1>6, <1>7

(* The invariant                                                           *)

WorkerPhases == {"none", "connect", "read", "event", "finish", "admit", "checkpoint"}
RelayTypes ==
    /\ length \in [RelPlaces -> Nat] /\ \A p \in RelPlaces : length[p] <= Len(RelMailbox[p])
    /\ office \in [place : RelPlaces \cup {"nowhere"},
                   token : [of : RelPlaces \cup {"nowhere"}, n : 0 .. RelMaxChanges]]
    /\ adding \in RelPlaces \cup {"nowhere"}
    /\ adding # "nowhere" \/ office.place # "nowhere" => office.token.of \in RelPlaces
    /\ cursor \in Nat /\ whose \in RelPlaces /\ ready \subseteq RelPlaces
    /\ ledger \in [RelPlaces -> SUBSET Sightings] /\ egress \in Seq(Admissions)
    /\ known \in Rel!Offices \cup {Rel!NoOffice}
    /\ worker \in [step : WorkerPhases, office : Rel!Offices \cup {Rel!NoOffice}, remaining : Nat, at : Nat]
    /\ worker.step = "none" => worker = Rel!NoWorker
    /\ worker.step # "none" => worker.office \in Rel!Offices /\ Rel!Here = whose
    /\ changes \in 0 .. RelMaxChanges /\ faults \in 0 .. RelMaxFaults

\* An entry the relay has dealt with: there was a reason to leave it out, or the ledger
\* knows it or is full of what came later.
Dealt(p, f) == Rel!Entry(p, f) \in excused \/ Remembered(ledger[p], p, f)

\* The message of an entry was admitted, or there was a reason to leave it out.
Accounted(p, f) ==
    \/ \E g \in 1 .. f : RelMailbox[p][g] = RelMailbox[p][f] /\ Rel!Entry(p, g) \in excused
    \/ \E i \in DOMAIN egress : egress[i].place = p /\ egress[i].message = RelMailbox[p][f]

LedgersInv ==
    \A p \in RelPlaces : /\ GoodLedger(p, ledger[p])
                         /\ \A l \in ledger[p] : \A f \in 1 .. l.at : Accounted(p, f)

\* What the worker has passed is dealt with; while it has an entry in hand, that was in
\* the mailbox when the worker read it, and the ledger holds nothing much later.
EntryInHand  == {"event", "admit", "checkpoint"}
Reached == IF worker.step \in {"event", "admit"} THEN worker.at - 1 ELSE worker.at
PassedBy(p, n) == \A f \in 1 .. n : Dealt(p, f) /\ Accounted(p, f)
WorkerInv ==
    /\ worker.remaining > 0 => cursor = worker.remaining
    /\ worker.step \in EntryInHand => worker.at \in 1 .. length[Rel!Here]
    /\ worker.step \in EntryInHand => \A l \in ledger[Rel!Here] : l.at < worker.at + RelRetained
    /\ worker.step \in {"admit", "checkpoint"} => worker.remaining = 0
    /\ worker.step = "admit" => Rel!This \notin RelOther /\ ~ Rel!InLedger(Rel!Here, Rel!This)
    /\ PassedBy(Rel!Here, Reached)

CursorInv == PassedBy(whose, cursor)

EgressInv ==
    /\ \A i \in DOMAIN egress :
          /\ egress[i].at \in 1 .. length[egress[i].place]
          /\ egress[i].message = RelMailbox[egress[i].place][egress[i].at]
          /\ Remembered(ledger[egress[i].place], egress[i].place, egress[i].at)
          /\ \A f \in 1 .. egress[i].at : Dealt(egress[i].place, f)
    /\ Rel!AdmittedOnce

RelayInv == RelayTypes /\ LedgersInv /\ WorkerInv /\ CursorInv /\ EgressInv

(* Steps                                                                   *)

\* What a worker with an entry in hand has.
LEMMA HandTypes ==
    ASSUME RelayConstants, RelayTypes, WorkerInv, worker.step \in EntryInHand
    PROVE  /\ Rel!Here \in RelPlaces /\ Rel!Here = whose /\ worker.at \in 1 .. length[Rel!Here] /\ worker.at \in Nat
           /\ length[Rel!Here] \in Nat /\ length[Rel!Here] \in 0 .. Len(RelMailbox[Rel!Here])
           /\ Rel!This \in Letters /\ Rel!This = RelMailbox[Rel!Here][worker.at]
<1>1. Rel!Here \in RelPlaces /\ Rel!Here = whose
  BY DEF RelayTypes, EntryInHand, Rel!Here
<1>2. length[Rel!Here] \in Nat /\ length[Rel!Here] <= Len(RelMailbox[Rel!Here]) /\ Len(RelMailbox[Rel!Here]) \in Nat
  BY <1>1 DEF RelayTypes, RelayConstants
<1>3. worker.at \in 1 .. length[Rel!Here]
  BY DEF WorkerInv
<1> QED BY <1>1, <1>2, <1>3 DEF Rel!This, Letters

\* A ledger holds sightings, whatever it is told of.
LEMMA SightedTypes ==
    ASSUME RelayTypes, NEW p \in RelPlaces, NEW e \in Nat,
           \A k, l \in ledger[p] : k.message = l.message => k = l
    PROVE  [ledger EXCEPT ![p] = Rel!Sighted(p, RelMailbox[p][e], e)] \in [RelPlaces -> SUBSET Sightings]
<1> DEFINE L == ledger[p]
           m == RelMailbox[p][e]
           b == LastAt(L, m, e)
<1>1. L \subseteq Sightings /\ ledger \in [RelPlaces -> SUBSET Sightings]
  BY DEF RelayTypes
<1>2. \A l \in L : l.at \in Nat
  BY <1>1 DEF Sightings
<1>3. b \in Nat
  <2> HIDE DEF L, m
  <2>1. \A k, l \in L : k.message = l.message => k = l
    BY DEF L
  <2> QED BY <1>2, <2>1, LastSighting
<1>4. [message |-> m, at |-> b] \in Sightings
  BY <1>3 DEF Sightings, Letters
<1>5. Rel!Sighted(p, m, e) \subseteq L \cup {[message |-> m, at |-> b]}
  BY DEF Rel!Sighted, LastAt, SightedBefore
<1> HIDE DEF b, L
<1>6. Rel!Sighted(p, m, e) \in SUBSET Sightings
  BY <1>1, <1>4, <1>5
<1> QED BY <1>1, <1>6

\* Every step keeps the types.
LEMMA TypesKept == ASSUME RelayConstants, RelayTypes, LedgersInv, WorkerInv, Rel!Next PROVE RelayTypes'
<1> USE DEF RelayTypes
<1>0. /\ Rel!NoOffice.place = "nowhere" /\ Rel!NoOffice.token.of = "nowhere" /\ Rel!NoOffice.token.n = 0
      /\ Rel!NoOffice \in [place : RelPlaces \cup {"nowhere"}, token : [of : RelPlaces \cup {"nowhere"}, n : 0 .. RelMaxChanges]]
      /\ Rel!NoWorker.step = "none" /\ Rel!NoWorker.remaining = 0 /\ Rel!NoWorker.at = 0 /\ Rel!NoWorker.office = Rel!NoOffice
      /\ Rel!NoWorker \in [step : WorkerPhases, office : Rel!Offices \cup {Rel!NoOffice}, remaining : Nat, at : Nat]
      /\ Rel!NoWorker = [step |-> "none", office |-> Rel!NoOffice, remaining |-> 0, at |-> 0]
  BY DEF Rel!NoOffice, Rel!NoWorker, RelayConstants, WorkerPhases
<1>1. ASSUME NEW p \in RelPlaces, Rel!Mail(p) PROVE RelayTypes'
  <2>1. length' \in [RelPlaces -> Nat] /\ \A q \in RelPlaces : length'[q] <= Len(RelMailbox[q])
    BY <1>1 DEF Rel!Mail, RelayConstants
  <2> QED BY <1>1, <2>1 DEF Rel!Mail, Rel!stored, Rel!relay, Rel!Here
<1>2. ASSUME NEW p \in RelPlaces, Rel!OfficeAdd(p) PROVE RelayTypes'
  <2>1. changes' = changes + 1 /\ changes < RelMaxChanges /\ adding' = p
        /\ UNCHANGED <<length, Rel!stored, Rel!relay, faults, excused>>
    BY <1>2 DEF Rel!OfficeAdd, Rel!Change
  <2>2. changes' \in 0 .. RelMaxChanges
    BY <2>1 DEF RelayConstants
  <2>3. office' = [place |-> office.place, token |-> [of |-> p, n |-> changes']]
    BY <1>2, <2>1 DEF Rel!OfficeAdd
  <2>4. office' \in [place : RelPlaces \cup {"nowhere"}, token : [of : RelPlaces \cup {"nowhere"}, n : 0 .. RelMaxChanges]]
        /\ office'.token.of \in RelPlaces
    BY <2>2, <2>3
  <2> QED BY <2>1, <2>2, <2>4 DEF Rel!stored, Rel!relay, Rel!Here
<1>3. CASE Rel!OfficeAdded
  <2>1. faults' \in 0 .. RelMaxFaults
    BY <1>3 DEF Rel!OfficeAdded, Rel!Fault, RelayConstants
  <2>2. office' = office \/ office' = [place |-> adding, token |-> office.token]
    BY <1>3 DEF Rel!OfficeAdded
  <2> QED BY <1>3, <2>1, <2>2 DEF Rel!OfficeAdded, Rel!stored, Rel!relay, Rel!Here
<1>4. CASE Rel!OfficeRm
  <2>1. changes' \in 0 .. RelMaxChanges
    BY <1>4 DEF Rel!OfficeRm, Rel!Change, RelayConstants
  <2> QED BY <1>0, <1>4, <2>1 DEF Rel!OfficeRm, Rel!stored, Rel!relay, Rel!Here
<1>5. CASE Rel!Stop
  BY <1>0, <1>5 DEF Rel!Stop, Rel!stored, Rel!Here
<1>6. CASE Rel!Start
  <2>1. office \in Rel!Offices
    BY <1>6 DEF Rel!Start, Rel!Offices
  <2>2. worker' = [step |-> "connect", office |-> office, remaining |-> 0, at |-> 0]
    BY <1>0, <1>6 DEF Rel!Start
  <2>3. cursor' \in Nat
    BY <1>6 DEF Rel!Start
  <2> QED BY <1>6, <2>1, <2>2, <2>3 DEF Rel!Start, Rel!Here, WorkerPhases, Rel!Offices
<1>7. ASSUME worker.step # "none", NEW s \in WorkerPhases \ {"none"}, NEW r \in Nat, NEW n \in Nat,
             worker' = [step |-> s, office |-> worker.office, remaining |-> r, at |-> n], UNCHANGED whose
      PROVE  /\ worker' \in [step : WorkerPhases, office : Rel!Offices \cup {Rel!NoOffice}, remaining : Nat, at : Nat]
             /\ worker'.step # "none" /\ worker'.office \in Rel!Offices /\ worker'.office.place = whose'
  BY <1>7 DEF Rel!Here
<1>8. ASSUME NEW s, Rel!Goes(s) PROVE worker' = [step |-> s, office |-> worker.office, remaining |-> worker.remaining, at |-> worker.at]
  BY <1>8 DEF Rel!Goes
<1>9. ASSUME Rel!Again PROVE worker' = [step |-> "connect", office |-> worker.office, remaining |-> 0, at |-> 0]
  BY <1>0, <1>9 DEF Rel!Again
<1>10. "connect" \in WorkerPhases \ {"none"} /\ "read" \in WorkerPhases \ {"none"} /\ "event" \in WorkerPhases \ {"none"}
       /\ "admit" \in WorkerPhases \ {"none"} /\ "checkpoint" \in WorkerPhases \ {"none"} /\ "finish" \in WorkerPhases \ {"none"}
  BY DEF WorkerPhases
<1> DEFINE Good == /\ worker' \in [step : WorkerPhases, office : Rel!Offices \cup {Rel!NoOffice}, remaining : Nat, at : Nat]
                   /\ worker'.step # "none" /\ worker'.office \in Rel!Offices /\ worker'.office.place = whose'
<1>11. CASE Rel!Connect
  <2>1. worker.step # "none" /\ UNCHANGED whose
    BY <1>11 DEF Rel!Connect, Rel!Does, Rel!stored
  <2>2. \E r \in Nat, n \in Nat : worker' = [step |-> "read", office |-> worker.office, remaining |-> r, at |-> n]
    <3>1. \/ worker' = [step |-> "read", office |-> worker.office, remaining |-> cursor, at |-> 0]
          \/ worker' = [step |-> "read", office |-> worker.office, remaining |-> worker.remaining, at |-> cursor]
      BY <1>11 DEF Rel!Connect
    <3> QED BY <3>1
  <2>3. Good
    BY <1>7, <1>10, <2>1, <2>2
  <2> QED BY <1>11, <2>3 DEF Rel!Connect, Rel!stored, Rel!Here
<1>12. CASE Rel!Read
  <2>1. worker.step # "none" /\ UNCHANGED whose
    BY <1>12 DEF Rel!Read, Rel!Does, Rel!stored
  <2>2. \E n \in Nat : worker' = [step |-> "event", office |-> worker.office, remaining |-> worker.remaining, at |-> n]
    <3>1. Rel!Here \in RelPlaces
      BY <2>1 DEF Rel!Here
    <3>2. PICK e \in Rel!Kept(Rel!Here) : worker' = [worker EXCEPT !.at = e, !.step = "event"]
      BY <1>12 DEF Rel!Read
    <3>3. e \in Nat
      BY <3>1 DEF Rel!Kept
    <3> QED BY <3>2, <3>3
  <2>3. Good
    BY <1>7, <1>10, <2>1, <2>2
  <2> QED BY <1>12, <2>3 DEF Rel!Read, Rel!stored, Rel!Here
<1>13. CASE Rel!FinishBackfill
  <2>1. worker.step # "none" /\ UNCHANGED whose
    BY <1>13 DEF Rel!FinishBackfill, Rel!Does, Rel!stored
  <2>2. \/ Rel!Again
        \/ \E s \in WorkerPhases \ {"none"} : worker' = [step |-> s, office |-> worker.office, remaining |-> 0, at |-> worker.at]
    <3>1. CASE Rel!Current /\ cursor = worker.remaining
      <4>1. worker' = [step |-> IF worker.step = "finish" THEN "read" ELSE worker.step, office |-> worker.office, remaining |-> 0, at |-> worker.at]
        BY <1>13, <3>1 DEF Rel!FinishBackfill
      <4>2. (IF worker.step = "finish" THEN "read" ELSE worker.step) \in WorkerPhases \ {"none"}
        BY <1>10, <2>1
      <4> QED BY <4>1, <4>2
    <3>2. CASE ~ (Rel!Current /\ cursor = worker.remaining)
      BY <1>13, <3>2 DEF Rel!FinishBackfill
    <3> QED BY <3>1, <3>2
  <2>3. Good
    BY <1>7, <1>9, <1>10, <2>1, <2>2
  <2>4. ready' \subseteq RelPlaces
    BY <1>13, <2>1 DEF Rel!FinishBackfill, Rel!Here
  <2> QED BY <1>13, <2>3, <2>4 DEF Rel!FinishBackfill, Rel!stored, Rel!Here
<1>14. CASE Rel!SkipOld \/ Rel!Reject \/ Rel!NotSeen
  <2>1. worker.step # "none" /\ UNCHANGED <<length, office, adding, Rel!stored, known, changes, faults>>
    BY <1>14 DEF Rel!SkipOld, Rel!Reject, Rel!NotSeen, Rel!Live, Rel!Does
  <2>2. \E s \in WorkerPhases \ {"none"} : Rel!Goes(s)
    BY <1>10, <1>14 DEF Rel!SkipOld, Rel!Reject, Rel!NotSeen
  <2>3. Good
    BY <1>7, <1>8, <2>1, <2>2 DEF Rel!stored
  <2> QED BY <2>1, <2>3 DEF Rel!stored, Rel!Here
<1>15. CASE Rel!Backfill \/ Rel!Seen
  <2>1. worker.step \in EntryInHand /\ UNCHANGED <<length, office, adding, cursor, whose, ready, egress, known, changes, faults>>
    BY <1>15 DEF Rel!Backfill, Rel!Seen, Rel!Live, Rel!Does, EntryInHand
  <2>2. \E s \in WorkerPhases \ {"none"} : Rel!Goes(s)
    BY <1>10, <1>15 DEF Rel!Backfill, Rel!Seen
  <2>3. Good
    BY <1>7, <1>8, <2>1, <2>2 DEF EntryInHand
  <2>4. ledger' \in [RelPlaces -> SUBSET Sightings]
    <3>1. CASE UNCHANGED ledger
      BY <3>1
    <3>2. CASE Rel!Remember
      BY <2>1, <3>2, HandTypes, SightedTypes DEF Rel!Remember, LedgersInv, GoodLedger
    <3> QED BY <1>15, <3>1, <3>2 DEF Rel!Backfill, Rel!Seen
  <2> QED BY <2>1, <2>3, <2>4 DEF Rel!Here
<1>16. CASE Rel!Admit \/ Rel!AdmitUnanswered
  <2>1. /\ worker.step \in EntryInHand /\ Rel!EnqueueOnce
        /\ UNCHANGED <<length, office, adding, cursor, whose, known, changes>>
    BY <1>16 DEF Rel!Admit, Rel!AdmitUnanswered, Rel!EnqueueOnce, Rel!Does, EntryInHand
  <2>2. Rel!Again \/ \E s \in WorkerPhases \ {"none"} : Rel!Goes(s)
    BY <1>10, <1>16 DEF Rel!Admit, Rel!AdmitUnanswered
  <2>3. Good
    BY <1>7, <1>8, <1>9, <1>10, <2>1, <2>2 DEF EntryInHand
  <2>4. ledger' \in [RelPlaces -> SUBSET Sightings]
    BY <2>1, HandTypes, SightedTypes DEF Rel!EnqueueOnce, Rel!Remember, LedgersInv, GoodLedger
  <2>5. egress' \in Seq(Admissions) /\ ready' \subseteq RelPlaces
    <3>1. [place |-> Rel!Here, message |-> Rel!This, at |-> worker.at] \in Admissions
      BY <2>1, HandTypes DEF Admissions
    <3>2. egress' \in Seq(Admissions)
      BY <2>1, <3>1 DEF Rel!EnqueueOnce, Rel!Admitted
    <3> QED BY <2>1, <3>2, HandTypes DEF Rel!EnqueueOnce
  <2>6. faults' \in 0 .. RelMaxFaults
    BY <1>16 DEF Rel!Admit, Rel!AdmitUnanswered, Rel!Fault, RelayConstants
  <2> QED BY <2>1, <2>3, <2>4, <2>5, <2>6 DEF Rel!Here
<1>17. CASE Rel!Checkpoint
  <2>1. worker.step # "none" /\ Rel!Goes("read")
        /\ UNCHANGED <<length, office, adding, whose, ledger, ready, egress, known, changes, faults, excused>>
    BY <1>17 DEF Rel!Checkpoint, Rel!Does
  <2>2. Good
    BY <1>7, <1>8, <1>10, <2>1
  <2>3. cursor' \in Nat
    BY <1>17, MaxPair DEF Rel!Checkpoint
  <2> QED BY <2>1, <2>2, <2>3 DEF Rel!Here
<1>18. CASE Rel!Fail
  <2>1. worker.step # "none" /\ Rel!Again
        /\ UNCHANGED <<length, office, adding, Rel!stored, known, changes, excused>>
    BY <1>18 DEF Rel!Fail
  <2>2. Good
    BY <1>7, <1>9, <1>10, <2>1 DEF Rel!stored
  <2>3. faults' \in 0 .. RelMaxFaults
    BY <1>18 DEF Rel!Fail, Rel!Fault, RelayConstants
  <2> QED BY <2>1, <2>2, <2>3 DEF Rel!stored, Rel!Here
<1>19. CASE Rel!Die
  <2>1. faults' \in 0 .. RelMaxFaults
    BY <1>19 DEF Rel!Die, Rel!Fault, RelayConstants
  <2> QED BY <1>0, <1>19, <2>1 DEF Rel!Die, Rel!stored, Rel!Here
<1> QED
  BY <1>1, <1>2, <1>3, <1>4, <1>5, <1>6, <1>11, <1>12, <1>13, <1>14, <1>15, <1>16, <1>17, <1>18,
     <1>19
  DEF Rel!Next

\* The steps in which the ledger is told of the entry in hand, and the others.
Sights == (Rel!Backfill /\ Rel!This \notin RelOther) \/ Rel!Seen \/ Rel!Admit \/ Rel!AdmitUnanswered

LEMMA LedgerMoves ==
    ASSUME WorkerInv, Rel!Next
    PROVE  /\ Sights => /\ Rel!Remember /\ Rel!This \notin RelOther /\ worker.step \in EntryInHand
                        /\ UNCHANGED <<length, excused>>
           /\ ~ Sights => UNCHANGED ledger
<1>1. Sights => /\ Rel!Remember /\ Rel!This \notin RelOther /\ worker.step \in EntryInHand
                /\ UNCHANGED <<length, excused>>
  BY DEF Sights, Rel!Backfill, Rel!Seen, Rel!Admit, Rel!AdmitUnanswered, Rel!EnqueueOnce,
     Rel!Live, Rel!Does, EntryInHand, WorkerInv
<1>2. ~ Sights => UNCHANGED ledger
  BY DEF Sights, Rel!Next, Rel!Mail, Rel!OfficeAdd, Rel!OfficeAdded, Rel!OfficeRm, Rel!Stop,
     Rel!Fail, Rel!Die, Rel!Start, Rel!Connect, Rel!Read,
     Rel!FinishBackfill, Rel!SkipOld, Rel!Reject, Rel!NotSeen, Rel!Checkpoint, Rel!Backfill, Rel!stored
<1> QED BY <1>1, <1>2

\* Mailboxes grow, and what was excused stays so.
LEMMA Grows ==
    ASSUME RelayConstants, RelayTypes, Rel!Next
    PROVE  /\ excused \subseteq excused' /\ \A p \in RelPlaces : length[p] <= length'[p]
           /\ egress' = egress \/ egress' = Append(egress, [place |-> Rel!Here, message |-> Rel!This, at |-> worker.at])
<1>0. \A p \in RelPlaces : length[p] \in Nat
  BY DEF RelayTypes
<1>1. ASSUME NEW p \in RelPlaces, Rel!Mail(p) PROVE \A q \in RelPlaces : length[q] <= length'[q]
  BY <1>0, <1>1 DEF Rel!Mail, RelayTypes
<1>2. \A p \in RelPlaces : length[p] <= length'[p]
  <2>1. UNCHANGED length \/ \E p \in RelPlaces : Rel!Mail(p)
    BY DEF Rel!Next, Rel!OfficeAdd, Rel!OfficeAdded, Rel!OfficeRm, Rel!Stop, Rel!Fail, Rel!Die,
       Rel!Start, Rel!Connect, Rel!Read, Rel!FinishBackfill,
       Rel!SkipOld, Rel!Reject, Rel!NotSeen, Rel!Checkpoint, Rel!Backfill, Rel!Seen, Rel!Admit, Rel!AdmitUnanswered
  <2> QED BY <1>0, <1>1, <2>1
<1>3. excused \subseteq excused'
  <2>1. CASE Rel!Start \/ Rel!Read \/ Rel!Reject
    BY <2>1 DEF Rel!Start, Rel!Read, Rel!Reject
  <2>2. UNCHANGED excused \/ Rel!Start \/ Rel!Read \/ Rel!Reject
    BY DEF Rel!Next, Rel!Mail, Rel!OfficeAdd, Rel!OfficeAdded, Rel!OfficeRm, Rel!Stop, Rel!Fail,
       Rel!Die, Rel!Connect, Rel!FinishBackfill,
       Rel!SkipOld, Rel!NotSeen, Rel!Checkpoint, Rel!Backfill, Rel!Seen, Rel!Admit, Rel!AdmitUnanswered
  <2> QED BY <2>1, <2>2
<1>4. egress' = egress \/ egress' = Append(egress, [place |-> Rel!Here, message |-> Rel!This, at |-> worker.at])
  <2>1. UNCHANGED egress \/ Rel!Admit \/ Rel!AdmitUnanswered
    BY DEF Rel!Next, Rel!Mail, Rel!OfficeAdd, Rel!OfficeAdded, Rel!OfficeRm, Rel!Stop, Rel!Fail,
       Rel!Die, Rel!Start, Rel!Connect, Rel!Read, Rel!FinishBackfill,
       Rel!SkipOld, Rel!Reject, Rel!NotSeen, Rel!Checkpoint, Rel!Backfill, Rel!Seen, Rel!stored
  <2>2. CASE Rel!Admit \/ Rel!AdmitUnanswered
    BY <2>2 DEF Rel!Admit, Rel!AdmitUnanswered, Rel!EnqueueOnce, Rel!Admitted
  <2> QED BY <2>1, <2>2
<1> QED BY <1>2, <1>3, <1>4

\* What the ledger remembers it goes on to remember.
LEMMA LedgersStay ==
    ASSUME RelayConstants, RelayTypes, LedgersInv, WorkerInv, Rel!Next
    PROVE  /\ \A p \in RelPlaces : GoodLedger(p, ledger[p])'
           /\ \A p \in RelPlaces : \A f \in Nat : Remembered(ledger[p], p, f) => Remembered(ledger[p], p, f)'
           /\ \A p \in RelPlaces : \A l \in ledger'[p] :
                 (\E k \in ledger[p] : k.at = l.at) \/ (Sights /\ p = Rel!Here /\ l.at = worker.at)
           /\ Sights => Remembered(ledger'[Rel!Here], Rel!Here, worker.at)
<1>0. \A p \in RelPlaces : length[p] \in Nat /\ length'[p] \in Nat /\ length[p] <= length'[p]
  <2>1. RelayTypes'
    BY TypesKept
  <2> QED BY <2>1, Grows DEF RelayTypes
<1>1. CASE UNCHANGED ledger /\ ~ Sights
  <2>1. ASSUME NEW p \in RelPlaces PROVE GoodLedger(p, ledger[p])'
    <3>1. \A l \in ledger[p] : l.at \in 1 .. length'[p]
      BY <1>0 DEF LedgersInv, GoodLedger
    <3> QED BY <1>1, <3>1 DEF LedgersInv, GoodLedger
  <2> QED BY <1>1, <2>1 DEF Remembered
<1>2. CASE Sights
  <2>1. Rel!This \notin RelOther /\ worker.step \in EntryInHand /\ UNCHANGED length
    BY <1>2, LedgerMoves
  <2>2. /\ Rel!Here \in RelPlaces /\ worker.at \in 1 .. length[Rel!Here] /\ Rel!This = RelMailbox[Rel!Here][worker.at]
        /\ worker.at \in Nat
    BY <2>1, HandTypes
  <2>3. GoodLedger(Rel!Here, ledger[Rel!Here])
    BY <2>2 DEF LedgersInv
  <2>4. PICK K : K = Rel!Sighted(Rel!Here, RelMailbox[Rel!Here][worker.at], worker.at)
    OBVIOUS
  <2>5. /\ GoodLedger(Rel!Here, K) /\ Remembered(K, Rel!Here, worker.at)
        /\ \A f \in Nat : Remembered(ledger[Rel!Here], Rel!Here, f) => Remembered(K, Rel!Here, f)
        /\ \A l \in K : l.at = worker.at \/ \E k \in ledger[Rel!Here] : k.at = l.at
    BY <1>0, <2>1, <2>2, <2>3, <2>4, SightedKeeps
  <2>6. ledger'[Rel!Here] = K /\ \A p \in RelPlaces : p # Rel!Here => ledger'[p] = ledger[p]
    BY <1>2, <2>2, <2>4, LedgerMoves DEF Rel!Remember, RelayTypes
  <2>7. \A p \in RelPlaces : GoodLedger(p, ledger[p])'
    BY <2>1, <2>5, <2>6 DEF LedgersInv, GoodLedger
  <2>8. \A p \in RelPlaces : \A f \in Nat : Remembered(ledger[p], p, f) => Remembered(ledger[p], p, f)'
    BY <2>5, <2>6 DEF Remembered
  <2>9. Remembered(ledger'[Rel!Here], Rel!Here, worker.at)
    BY <2>5, <2>6 DEF Remembered
  <2> QED BY <1>2, <2>5, <2>6, <2>7, <2>8, <2>9
<1> QED BY <1>1, <1>2, LedgerMoves

\* What was dealt with stays so, and what was accounted for.
LEMMA EntryStays ==
    ASSUME RelayConstants, RelayTypes, LedgersInv, WorkerInv, Rel!Next
    PROVE  /\ \A p \in RelPlaces : \A f \in Nat : Dealt(p, f) => Dealt(p, f)'
           /\ \A p \in RelPlaces : \A f \in Nat : Accounted(p, f) => Accounted(p, f)'
           /\ \A p \in RelPlaces : \A n \in Int : PassedBy(p, n) => PassedBy(p, n)'
<1>1. \A p \in RelPlaces : \A f \in Nat : Dealt(p, f) => Dealt(p, f)'
  BY Grows, LedgersStay DEF Dealt
<1>2. \A i \in DOMAIN egress : i \in DOMAIN egress' /\ egress'[i] = egress[i]
  <2>1. egress \in Seq(Admissions)
    BY DEF RelayTypes
  <2> QED BY <2>1, Grows
<1>3. \A p \in RelPlaces : \A f \in Nat : Accounted(p, f) => Accounted(p, f)'
  BY <1>2, Grows DEF Accounted
<1>4. \A p \in RelPlaces : \A n \in Int : PassedBy(p, n) => PassedBy(p, n)'
  BY <1>1, <1>3 DEF PassedBy
<1> QED BY <1>1, <1>3, <1>4

\* An excused entry is dealt with and accounted for.
LEMMA ExcusedCounts ==
    ASSUME NEW p, NEW f \in Nat \ {0}, Rel!Entry(p, f) \in excused
    PROVE  Dealt(p, f) /\ Accounted(p, f)
<1>1. f \in 1 .. f
  OBVIOUS
<1> QED BY <1>1 DEF Dealt, Accounted

\* When a worker has an entry in hand that was not dealt with before, what is in the ledger
\* of its message is the reason (the `duplicate` of the log).
LEMMA SeenCounts ==
    ASSUME RelayConstants, RelayInv, worker.step = "event", Rel!InLedger(Rel!Here, Rel!This)
    PROVE  Accounted(Rel!Here, worker.at)
<1> DEFINE e == worker.at
<1>0. Rel!Here \in RelPlaces /\ e \in 1 .. length[Rel!Here] /\ Rel!This = RelMailbox[Rel!Here][e] /\ e \in Nat
  BY HandTypes DEF RelayInv, EntryInHand
<1>1. PICK l \in ledger[Rel!Here] : l.message = Rel!This
  BY DEF Rel!InLedger
<1>2. l.at \in Nat \ {0} /\ RelMailbox[Rel!Here][l.at] = Rel!This /\ \A f \in 1 .. l.at : Accounted(Rel!Here, f)
  BY <1>0, <1>1 DEF RelayInv, LedgersInv, GoodLedger
<1>3. CASE e <= l.at
  BY <1>0, <1>2, <1>3
<1>4. CASE l.at < e
  <2>1. Accounted(Rel!Here, l.at)
    BY <1>2
  <2>2. \A g \in 1 .. l.at : g \in 1 .. e
    BY <1>0, <1>2, <1>4
  <2> QED BY <1>0, <1>2, <2>1, <2>2 DEF Accounted
<1> QED BY <1>0, <1>2, <1>3, <1>4

\* The entry in hand is dealt with once the ledger was told of it.
LEMMA SightedCounts ==
    ASSUME RelayConstants, RelayInv, Rel!Next, Sights, NEW p, p = Rel!Here, NEW e, e = worker.at
    PROVE  PassedBy(p, e)' /\ Remembered(ledger[p], p, e)'
<1> USE DEF RelayInv
<1>0. /\ p \in RelPlaces /\ e \in 1 .. length[p] /\ Rel!This = RelMailbox[p][e] /\ e \in Nat /\ p = whose
      /\ worker.step \in {"event", "admit"}
  <2>1. worker.step \in {"event", "admit"}
    BY DEF Sights, Rel!Backfill, Rel!Seen, Rel!Admit, Rel!AdmitUnanswered, Rel!EnqueueOnce,
       Rel!Live, Rel!Does
  <2> QED BY <2>1, LedgerMoves, HandTypes DEF EntryInHand
<1>1. PassedBy(p, e - 1)'
  <2>1. PassedBy(p, e - 1)
    BY <1>0 DEF WorkerInv, Reached
  <2> QED BY <1>0, <2>1, EntryStays
<1>2. Remembered(ledger[p], p, e)'
  BY LedgersStay DEF Remembered
<1>3. Accounted(p, e)'
  <2>1. CASE Rel!Backfill /\ Rel!This \notin RelOther
    <3>1. worker.remaining > 0 /\ e <= worker.remaining /\ cursor = worker.remaining
      BY <2>1 DEF Rel!Backfill, Rel!Historical, WorkerInv
    <3>2. e \in 1 .. cursor
      BY <1>0, <3>1
    <3>3. Accounted(p, e)
      BY <1>0, <3>2 DEF CursorInv, PassedBy
    <3> QED BY <1>0, <3>3, EntryStays
  <2>2. CASE Rel!Seen
    <3>1. Accounted(p, e)
      BY <2>2, SeenCounts DEF Rel!Seen, Rel!Live, Rel!Does
    <3> QED BY <1>0, <3>1, EntryStays
  <2>3. CASE Rel!Admit \/ Rel!AdmitUnanswered
    <3>1. egress' = Append(egress, [place |-> p, message |-> RelMailbox[p][e], at |-> e])
      BY <1>0, <2>3 DEF Rel!Admit, Rel!AdmitUnanswered, Rel!EnqueueOnce, Rel!Admitted
    <3>2. egress \in Seq(Admissions)
      BY DEF RelayTypes
    <3>3. Len(egress) + 1 \in DOMAIN egress' /\ egress'[Len(egress) + 1] = [place |-> p, message |-> RelMailbox[p][e], at |-> e]
      BY <3>1, <3>2
    <3> QED BY <3>3 DEF Accounted
  <2> QED BY <2>1, <2>2, <2>3 DEF Sights
<1>4. Dealt(p, e)'
  BY <1>2 DEF Dealt
<1>5. \A f \in 1 .. e : f = e \/ f \in 1 .. (e - 1)
  BY <1>0
<1> QED BY <1>1, <1>2, <1>3, <1>4, <1>5 DEF PassedBy

\* What lies up to a sighting that the ledger holds is accounted for.
LEMMA LedgersKept ==
    ASSUME RelayConstants, RelayInv, Rel!Next
    PROVE  LedgersInv'
<1> USE DEF RelayInv
<1>1. ASSUME NEW p \in RelPlaces, NEW l \in ledger'[p], NEW f \in 1 .. l.at PROVE Accounted(p, f)'
  <2>1. CASE \E k \in ledger[p] : k.at = l.at
    <3>1. Accounted(p, f)
      BY <2>1 DEF LedgersInv
    <3>2. f \in Nat
      BY <2>1 DEF LedgersInv, GoodLedger
    <3> QED BY <3>1, <3>2, EntryStays
  <2>2. CASE Sights /\ p = Rel!Here /\ l.at = worker.at
    BY <2>2, SightedCounts DEF PassedBy
  <2> QED BY <2>1, <2>2, LedgersStay
<1>2. \A p \in RelPlaces : \A l \in ledger'[p] : \A f \in 1 .. l.at : Accounted(p, f)'
  BY <1>1
<1> QED BY <1>2, LedgersStay DEF LedgersInv

\* A worker that begins again has nothing in hand.
LEMMA BeginsAgain ==
    ASSUME worker'.step \in {"none", "connect"}, worker'.remaining = 0, worker'.at = 0
    PROVE  WorkerInv'
BY DEF WorkerInv, EntryInHand, Reached, PassedBy

\* What the worker has in hand and behind it stays as it is said, whatever step is taken.
LEMMA WorkerKept ==
    ASSUME RelayConstants, RelayInv, Rel!Next
    PROVE  WorkerInv'
<1> USE DEF RelayInv
<1>0. /\ Rel!NoWorker.step = "none" /\ Rel!NoWorker.remaining = 0 /\ Rel!NoWorker.at = 0
      /\ Rel!NoWorker = [step |-> "none", office |-> Rel!NoOffice, remaining |-> 0, at |-> 0]
  BY DEF Rel!NoWorker
<1>1. CASE worker' = Rel!NoWorker \/ Rel!Again
  BY <1>0, <1>1, BeginsAgain DEF Rel!Again
<1>2. CASE Rel!Start
  BY <1>0, <1>2, BeginsAgain DEF Rel!Start
<1>3. PICK p, w, L : p = Rel!Here /\ w = worker /\ L = ledger[Rel!Here]
  OBVIOUS
<1>4. worker.step # "none" => p \in RelPlaces /\ p = whose
  BY <1>3 DEF RelayTypes, Rel!Here
<1>5. /\ worker \in [step : WorkerPhases, office : Rel!Offices \cup {Rel!NoOffice}, remaining : Nat, at : Nat]
      /\ cursor \in Nat /\ whose \in RelPlaces /\ length \in [RelPlaces -> Nat]
  BY DEF RelayTypes
<1>6. ASSUME UNCHANGED <<worker, ledger, cursor>> PROVE WorkerInv'
  <2>1. CASE worker.step = "none"
    <3>1. worker' = Rel!NoWorker
      BY <1>6, <2>1 DEF RelayTypes
    <3> QED BY <1>1, <3>1
  <2>2. CASE worker.step # "none"
    <3>1. Reached \in Int /\ Reached' = Reached /\ Rel!Here' = Rel!Here
      BY <1>5, <1>6 DEF Reached, Rel!Here
    <3>2. PassedBy(p, Reached)'
      <4>1. PICK n \in Int : n = Reached
        BY <3>1
      <4>2. PassedBy(p, n)'
        BY <1>3, <1>4, <2>2, <4>1, EntryStays DEF WorkerInv
      <4> QED BY <3>1, <4>1, <4>2
    <3>3. worker.step \in EntryInHand => worker.at \in 1 .. length'[p]
      <4>1. length'[p] \in Nat /\ length[p] \in Nat /\ length[p] <= length'[p]
        BY <1>4, <2>2, TypesKept, Grows DEF RelayTypes
      <4> QED BY <1>3, <1>5, <4>1 DEF WorkerInv
    <3>4. PassedBy(Rel!Here, Reached)'
      BY <1>3, <3>1, <3>2
    <3> QED BY <1>3, <1>6, <3>1, <3>3, <3>4 DEF WorkerInv, Rel!This, Rel!InLedger, Rel!Here
  <2> QED BY <2>1, <2>2
<1>7. CASE \E q \in RelPlaces : Rel!Mail(q) \/ Rel!OfficeAdd(q)
  BY <1>6, <1>7 DEF Rel!Mail, Rel!OfficeAdd, Rel!stored, Rel!relay
<1>8. CASE Rel!OfficeAdded \/ Rel!OfficeRm
  BY <1>6, <1>8 DEF Rel!OfficeAdded, Rel!OfficeRm, Rel!stored, Rel!relay
<1>9. ASSUME NEW s \in WorkerPhases, NEW r \in Nat, NEW n \in Nat, worker.step # "none",
             worker' = [step |-> s, office |-> worker.office, remaining |-> r, at |-> n]
      PROVE  Rel!Here' = p /\ worker'.step = s /\ worker'.remaining = r /\ worker'.at = n
  BY <1>3, <1>9 DEF Rel!Here
<1>10. ASSUME NEW s, Rel!Goes(s) PROVE worker' = [step |-> s, office |-> worker.office, remaining |-> worker.remaining, at |-> worker.at]
  BY <1>5, <1>10 DEF Rel!Goes
<1>11. CASE Rel!Connect
  <2>1. worker.step = "connect" /\ UNCHANGED Rel!stored /\ whose = p
    BY <1>3, <1>4, <1>11 DEF Rel!Connect, Rel!Does
  <2>2. CASE worker' = [step |-> "read", office |-> worker.office, remaining |-> cursor, at |-> 0]
    BY <1>5, <2>1, <2>2 DEF WorkerInv, EntryInHand, Reached, PassedBy, Rel!stored
  <2>3. CASE worker' = [step |-> "read", office |-> worker.office, remaining |-> worker.remaining, at |-> cursor]
    <3>1. Rel!Here' = p /\ Reached' = cursor /\ worker'.step = "read" /\ worker'.remaining = worker.remaining
      BY <1>3, <2>3 DEF Reached, Rel!Here
    <3>2. PassedBy(p, cursor)'
      <4>1. PICK n \in Int : n = cursor
        BY <1>5
      <4>2. PassedBy(p, n)'
        BY <1>5, <2>1, <4>1, EntryStays DEF CursorInv
      <4>3. cursor' = cursor
        BY <2>1 DEF Rel!stored
      <4> QED BY <4>1, <4>2, <4>3
    <3>3. cursor' = cursor
      BY <2>1 DEF Rel!stored
    <3>4. PassedBy(Rel!Here, Reached)'
      BY <3>1, <3>2, <3>3
    <3> QED BY <3>1, <3>3, <3>4 DEF WorkerInv, EntryInHand
  <2> QED BY <1>5, <1>11, <2>2, <2>3 DEF Rel!Connect
<1>12. CASE Rel!Read
  <2>1. worker.step = "read" /\ UNCHANGED <<length, Rel!stored>> /\ p \in RelPlaces
    BY <1>4, <1>12 DEF Rel!Read, Rel!Does
  <2>2. PICK e \in Rel!Kept(Rel!Here) : /\ e > worker.at
                                        /\ worker' = [worker EXCEPT !.at = e, !.step = "event"]
                                        /\ excused' = excused \cup {Rel!Entry(Rel!Here, f) : f \in (worker.at + 1) .. (e - 1)}
    BY <1>12 DEF Rel!Read
  <2>3. e \in 1 .. length[p] /\ e + RelRetained > length[p] /\ e \in Nat
    BY <1>3, <1>5, <2>1, <2>2 DEF Rel!Kept
  <2>4. worker' = [step |-> "event", office |-> worker.office, remaining |-> worker.remaining, at |-> e]
    BY <1>5, <2>2
  <2>5. Rel!Here' = p /\ Reached' = e - 1
    BY <1>3, <2>4 DEF Rel!Here, Reached
  <2>6. PassedBy(p, e - 1)'
    <3>1. PassedBy(p, worker.at)
      BY <1>3, <2>1 DEF WorkerInv, Reached
    <3>2. PICK n \in Nat : n = worker.at
      BY <1>5
    <3>3. PassedBy(p, n)'
      BY <2>1, <3>1, <3>2, EntryStays
    <3>4. ASSUME NEW f \in (n + 1) .. (e - 1) PROVE Dealt(p, f)' /\ Accounted(p, f)'
      <4>1. Rel!Entry(p, f) \in excused' /\ f \in Nat \ {0}
        BY <1>3, <2>2, <3>2
      <4>2. f \in 1 .. f
        BY <4>1
      <4> QED BY <4>1, <4>2 DEF Dealt, Accounted
    <3>5. \A f \in 1 .. (e - 1) : f \in 1 .. n \/ f \in (n + 1) .. (e - 1)
      BY <2>3
    <3> QED BY <3>3, <3>4, <3>5 DEF PassedBy
  <2>7. \A l \in ledger'[p] : l.at < e + RelRetained
    <3>1. \A l \in ledger[p] : l.at \in 1 .. length[p]
      BY <2>1 DEF LedgersInv, GoodLedger
    <3>2. length[p] \in Nat /\ RelRetained \in Nat
      BY <1>5, <2>1 DEF RelayConstants
    <3> QED BY <2>1, <2>3, <3>1, <3>2 DEF Rel!stored
  <2>8. PassedBy(Rel!Here, Reached)'
    BY <2>5, <2>6
  <2> QED BY <2>1, <2>3, <2>4, <2>5, <2>7, <2>8 DEF WorkerInv, Rel!stored
<1>13. ASSUME worker.step # "none", UNCHANGED <<length, cursor>>, NEW s \in WorkerPhases, NEW r \in Nat,
              r = worker.remaining \/ r = 0,
              worker' = [step |-> s, office |-> worker.office, remaining |-> r, at |-> worker.at],
              s \in {"event", "admit"} <=> worker.step \in {"event", "admit"},
              s \in EntryInHand => worker.step \in EntryInHand,
              s \in {"admit", "checkpoint"} => r = 0,
              s = "admit" => Rel!This \notin RelOther /\ ~ Rel!InLedger(Rel!Here, Rel!This), UNCHANGED ledger
       PROVE  WorkerInv'
  <2>1. Rel!Here' = p /\ worker'.step = s /\ worker'.remaining = r /\ worker'.at = worker.at /\ Rel!This' = Rel!This
    BY <1>3, <1>13 DEF Rel!Here, Rel!This
  <2>2. Reached' = Reached /\ Reached \in Int
    BY <1>5, <1>13, <2>1 DEF Reached
  <2>3. PassedBy(p, Reached)'
    <3>1. PICK n \in Int : n = Reached
      BY <2>2
    <3>2. PassedBy(p, n)'
      BY <1>3, <1>4, <1>13, <3>1, EntryStays DEF WorkerInv
    <3> QED BY <2>2, <3>1, <3>2
  <2>4. PassedBy(Rel!Here, Reached)'
    BY <2>1, <2>3
  <2>5. s = "admit" => Rel!This' \notin RelOther /\ ~ Rel!InLedger(Rel!Here, Rel!This)'
    BY <1>3, <1>13, <2>1 DEF Rel!InLedger
  <2> QED BY <1>3, <1>13, <2>1, <2>4, <2>5 DEF WorkerInv
<1>14. ASSUME worker.step \in {"event", "admit"}, UNCHANGED <<length, cursor>>,
              NEW s \in {"read", "checkpoint", "finish"}, Rel!Goes(s), s = "checkpoint" => worker.remaining = 0,
              PassedBy(p, w.at)'
       PROVE  WorkerInv'
  <2>0. w' = w /\ p \in RelPlaces
    BY <1>4, <1>14
  <2>1. Rel!Here' = p /\ worker'.step = s /\ worker'.remaining = worker.remaining /\ worker'.at = worker.at
        /\ Reached' = w.at
    BY <1>3, <1>10, <1>14 DEF Rel!Here, Reached
  <2>2. PassedBy(Rel!Here, Reached)'
    BY <1>14, <2>1
  <2>3. worker.at \in 1 .. length[p] /\ worker.at \in Nat /\ \A l \in ledger[p] : l.at < worker.at + RelRetained
    BY <1>3, <1>14, HandTypes DEF WorkerInv, EntryInHand
  <2>4. \A l \in ledger'[p] : l.at < worker.at + RelRetained
    <3>1. worker.at < worker.at + RelRetained
      BY <2>3 DEF RelayConstants
    <3> QED BY <2>0, <2>3, <3>1, LedgersStay
  <2> QED BY <1>14, <2>1, <2>2, <2>3, <2>4 DEF WorkerInv
<1>15. ASSUME Rel!Does("event") \/ Rel!Does("admit"), Dealt(p, w.at)', Accounted(p, w.at)' PROVE PassedBy(p, w.at)'
  <2>1. PassedBy(p, w.at - 1) /\ p \in RelPlaces /\ w.at \in Nat
    BY <1>3, <1>4, <1>5, <1>15 DEF WorkerInv, Reached, Rel!Does
  <2>2. PassedBy(p, w.at - 1)'
    BY <2>1, EntryStays
  <2>3. \A f \in 1 .. w.at : f = w.at \/ f \in 1 .. (w.at - 1)
    BY <2>1
  <2> QED BY <1>15, <2>2, <2>3 DEF PassedBy
<1>16. ASSUME Rel!Does("event"), w.at <= cursor, UNCHANGED Rel!stored PROVE PassedBy(p, w.at)'
  <2>1. w.at \in 1 .. cursor /\ p = whose /\ p \in RelPlaces /\ w.at \in Nat
    BY <1>3, <1>4, <1>5, <1>16, HandTypes DEF Rel!Does, EntryInHand
  <2>2. Dealt(p, w.at) /\ Accounted(p, w.at)
    BY <2>1 DEF CursorInv, PassedBy
  <2>3. Dealt(p, w.at)' /\ Accounted(p, w.at)'
    BY <2>1, <2>2, EntryStays
  <2> QED BY <1>15, <1>16, <2>3
<1>17. CASE Rel!FinishBackfill
  <2>1. worker.step # "none" /\ UNCHANGED <<length, cursor, ledger>>
    BY <1>17 DEF Rel!FinishBackfill, Rel!Does
  <2>2. CASE Rel!Current /\ cursor = worker.remaining
    <3> DEFINE s == IF worker.step = "finish" THEN "read" ELSE worker.step
    <3>1. worker' = [step |-> s, office |-> worker.office, remaining |-> 0, at |-> worker.at]
      BY <1>5, <1>17, <2>2 DEF Rel!FinishBackfill
    <3>2. s \in WorkerPhases /\ worker.step \in {"event", "finish", "read"}
      BY <1>17 DEF Rel!FinishBackfill, Rel!Does, WorkerPhases
    <3>3. s \in {"event", "read"} /\ (s = "event" <=> worker.step = "event")
      BY <3>2
    <3> HIDE DEF s
    <3> QED BY <1>13, <2>1, <3>1, <3>2, <3>3 DEF EntryInHand
  <2>3. CASE ~ (Rel!Current /\ cursor = worker.remaining)
    BY <1>1, <1>17, <2>3 DEF Rel!FinishBackfill
  <2> QED BY <2>2, <2>3
<1>18. CASE Rel!NotSeen
  <2>1. /\ worker.step = "event" /\ worker.remaining = 0 /\ UNCHANGED <<length, Rel!stored>>
        /\ Rel!This \notin RelOther /\ ~ Rel!InLedger(Rel!Here, Rel!This) /\ Rel!Goes("admit")
    BY <1>18 DEF Rel!NotSeen, Rel!Live, Rel!Does
  <2>2. worker' = [step |-> "admit", office |-> worker.office, remaining |-> worker.remaining, at |-> worker.at]
    BY <1>10, <2>1
  <2>3. "admit" \in WorkerPhases /\ worker.remaining \in Nat
    BY <1>5 DEF WorkerPhases
  <2> QED BY <1>13, <2>1, <2>2, <2>3 DEF EntryInHand, Rel!stored
<1>19. CASE Rel!SkipOld
  <2>1. worker.step = "event" /\ w.at <= cursor /\ UNCHANGED <<length, Rel!stored>> /\ Rel!Goes("read")
    BY <1>3, <1>19 DEF Rel!SkipOld, Rel!Does
  <2>2. PassedBy(p, w.at)'
    BY <1>16, <2>1 DEF Rel!Does
  <2> QED BY <1>14, <2>1, <2>2 DEF Rel!stored
<1>20. CASE Rel!Reject
  <2>1. worker.step = "event" /\ worker.remaining = 0 /\ UNCHANGED <<length, Rel!stored>> /\ Rel!Goes("checkpoint")
        /\ Rel!Entry(p, w.at) \in excused'
    BY <1>3, <1>20 DEF Rel!Reject, Rel!Live, Rel!Does
  <2>2. w.at \in Nat \ {0} /\ w.at \in 1 .. w.at
    BY <1>3, <2>1, HandTypes DEF EntryInHand
  <2>3. Dealt(p, w.at)' /\ Accounted(p, w.at)'
    BY <2>1, <2>2 DEF Dealt, Accounted
  <2>4. PassedBy(p, w.at)'
    BY <1>15, <2>1, <2>3 DEF Rel!Does
  <2> QED BY <1>14, <2>1, <2>4 DEF Rel!stored
<1>21. CASE Rel!Backfill /\ Rel!This \in RelOther
  <2>1. /\ worker.step = "event" /\ worker.remaining > 0 /\ w.at <= worker.remaining
        /\ UNCHANGED <<length, Rel!stored>> /\ \E s \in {"read", "finish"} : Rel!Goes(s)
    BY <1>3, <1>21 DEF Rel!Backfill, Rel!Does, Rel!Historical, Rel!stored
  <2>2. w.at <= cursor
    BY <2>1 DEF WorkerInv
  <2>3. PassedBy(p, w.at)'
    BY <1>16, <2>1, <2>2 DEF Rel!Does
  <2> QED BY <1>14, <2>1, <2>3 DEF Rel!stored
<1>22. CASE (Rel!Backfill /\ Rel!This \notin RelOther) \/ Rel!Seen \/ Rel!Admit
  <2>1. /\ worker.step \in {"event", "admit"} /\ UNCHANGED <<length, cursor>> /\ Sights
        /\ \E s \in {"read", "finish", "checkpoint"} : Rel!Goes(s) /\ (s = "checkpoint" => worker.remaining = 0)
    BY <1>22
    DEF Rel!Backfill, Rel!Seen, Rel!Admit, Rel!EnqueueOnce, Rel!Live, Rel!Does, Sights,
        WorkerInv
  <2>2. PassedBy(p, w.at)'
    BY <1>3, <2>1, SightedCounts
  <2> QED BY <1>14, <2>1, <2>2
<1>23. CASE Rel!Checkpoint
  <2>1. worker.step = "checkpoint" /\ worker.remaining = 0 /\ Rel!Goes("read") /\ UNCHANGED <<length, ledger>>
    BY <1>23 DEF Rel!Checkpoint, Rel!Does, WorkerInv
  <2>2. Rel!Here' = p /\ worker'.step = "read" /\ worker'.remaining = 0 /\ Reached' = w.at
    BY <1>3, <1>10, <2>1 DEF Rel!Here, Reached
  <2>3. PassedBy(p, w.at)
    BY <1>3, <2>1 DEF WorkerInv, Reached
  <2>4. PassedBy(p, w.at)'
    BY <1>3, <1>4, <1>5, <2>1, <2>3, EntryStays
  <2>5. PassedBy(Rel!Here, Reached)'
    BY <2>2, <2>4
  <2> QED BY <2>2, <2>5 DEF WorkerInv, EntryInHand
<1>24. CASE Rel!Stop \/ Rel!Fail \/ Rel!Die \/ Rel!AdmitUnanswered
  BY <1>1, <1>24 DEF Rel!Stop, Rel!Fail, Rel!Die, Rel!AdmitUnanswered
<1> QED
  BY <1>2, <1>7, <1>8, <1>11, <1>12, <1>17, <1>18, <1>19, <1>20, <1>21, <1>22, <1>23, <1>24
  DEF Rel!Next

\* What lies behind the cursor is dealt with and accounted for.
LEMMA CursorKept ==
    ASSUME RelayConstants, RelayInv, Rel!Next
    PROVE  CursorInv'
<1> USE DEF RelayInv
<1>0. cursor \in Nat /\ whose \in RelPlaces
  BY DEF RelayTypes
<1>1. PICK p, n : p = whose /\ n = cursor
  OBVIOUS
<1>2. PassedBy(p, n)'
  BY <1>0, <1>1, EntryStays DEF CursorInv
<1>3. CASE UNCHANGED <<cursor, whose>>
  BY <1>1, <1>2, <1>3 DEF CursorInv
<1>4. CASE Rel!Start
  <2>1. CASE whose = office.place
    <3>1. whose' = p /\ (cursor' = n \/ cursor' = 0)
      BY <1>1, <1>4, <2>1 DEF Rel!Start
    <3> QED BY <1>2, <3>1 DEF CursorInv, PassedBy
  <2>2. CASE whose # office.place
    <3>1. PICK q, m : q = office.place /\ m = cursor'
      OBVIOUS
    <3>2. excused' = excused \cup {Rel!Entry(q, e) : e \in 1 .. m} /\ whose' = q /\ m \in Nat
      BY <1>0, <1>4, <2>2, <3>1 DEF Rel!Start
    <3>3. ASSUME NEW f \in 1 .. m PROVE Dealt(q, f)' /\ Accounted(q, f)'
      <4>1. Rel!Entry(q, f) \in excused' /\ f \in 1 .. f
        BY <3>2
      <4> QED BY <4>1 DEF Dealt, Accounted
    <3>4. PassedBy(q, m)'
      BY <3>3 DEF PassedBy
    <3> QED BY <3>1, <3>2, <3>4 DEF CursorInv
  <2> QED BY <2>1, <2>2
<1>5. CASE Rel!Checkpoint
  <2>1. worker.step = "checkpoint" /\ whose' = whose
    BY <1>5 DEF Rel!Checkpoint, Rel!Does
  <2>2. PICK a : a = worker.at
    OBVIOUS
  <2>3. Rel!Here = p /\ p \in RelPlaces /\ a \in Nat
    BY <1>1, <2>1, <2>2, HandTypes DEF EntryInHand
  <2>4. PassedBy(p, a)
    BY <2>1, <2>2, <2>3 DEF WorkerInv, Reached
  <2>5. PassedBy(p, a)'
    BY <2>3, <2>4, EntryStays
  <2>6. cursor' = n \/ cursor' = a
    BY <1>0, <1>1, <1>5, <2>2, <2>3, MaxPair DEF Rel!Checkpoint
  <2> QED BY <1>1, <1>2, <2>1, <2>5, <2>6 DEF CursorInv
<1>6. UNCHANGED <<cursor, whose>> \/ Rel!Start \/ Rel!Checkpoint
  BY DEF Rel!Next, Rel!Mail, Rel!OfficeAdd, Rel!OfficeAdded, Rel!OfficeRm, Rel!Stop, Rel!Fail,
     Rel!Die, Rel!Connect, Rel!Read, Rel!FinishBackfill,
     Rel!SkipOld, Rel!Reject, Rel!NotSeen, Rel!Backfill, Rel!Seen, Rel!Admit, Rel!AdmitUnanswered, Rel!stored
<1> QED BY <1>3, <1>4, <1>5, <1>6

\* A message that is admitted was not before, and comes after what was but for an excuse.
LEMMA EgressKept ==
    ASSUME RelayConstants, RelayInv, Rel!Next
    PROVE  EgressInv'
<1> USE DEF RelayInv
<1>0. egress \in Seq(Admissions) /\ \A i \in DOMAIN egress : egress[i].place \in RelPlaces /\ egress[i].at \in Nat
  <2>1. egress \in Seq(Admissions)
    BY DEF RelayTypes
  <2>2. \A i \in DOMAIN egress : egress[i] \in Admissions
    BY <2>1
  <2> QED BY <2>1, <2>2 DEF Admissions
<1>1. \A p \in RelPlaces : length[p] \in Nat /\ length'[p] \in Nat /\ length[p] <= length'[p]
  BY TypesKept, Grows DEF RelayTypes
<1>2. ASSUME NEW i \in DOMAIN egress
      PROVE  /\ egress[i].at \in 1 .. length'[egress[i].place]
             /\ \A p, a : p = egress[i].place /\ a = egress[i].at =>
                   Remembered(ledger[p], p, a)' /\ \A f \in 1 .. a : Dealt(p, f)'
  <2>1. PICK p, a : p = egress[i].place /\ a = egress[i].at
    OBVIOUS
  <2>2. p \in RelPlaces /\ a \in Nat /\ a \in 1 .. length[p] /\ Remembered(ledger[p], p, a) /\ \A f \in 1 .. a : Dealt(p, f)
    BY <1>0, <2>1 DEF EgressInv
  <2>3. Remembered(ledger[p], p, a)'
    BY <2>2, LedgersStay
  <2>4. \A f \in 1 .. a : Dealt(p, f)'
    BY <2>2, EntryStays
  <2>5. a \in 1 .. length'[p]
    BY <1>1, <2>2
  <2> QED BY <2>1, <2>3, <2>4, <2>5
<1>3. CASE UNCHANGED egress
  <2>1. Rel!AdmittedOnce'
    BY <1>3, Grows DEF EgressInv, Rel!AdmittedOnce
  <2> QED BY <1>2, <1>3, <2>1 DEF EgressInv, Remembered, Dealt
<1>4. CASE Rel!Admit \/ Rel!AdmitUnanswered
  <2>1. worker.step = "admit" /\ Sights /\ UNCHANGED <<length, excused>>
    BY <1>4, LedgerMoves DEF Rel!Admit, Rel!AdmitUnanswered, Rel!EnqueueOnce, Rel!Does, Sights
  <2>2. PICK p, e, L : p = Rel!Here /\ e = worker.at /\ L = ledger[p]
    OBVIOUS
  <2>3. /\ p \in RelPlaces /\ e \in 1 .. length[p] /\ e \in Nat /\ length[p] \in 0 .. Len(RelMailbox[p]) /\ Rel!This = RelMailbox[p][e]
        /\ Rel!This \notin RelOther /\ ~ Rel!InLedger(p, RelMailbox[p][e]) /\ \A l \in ledger[p] : l.at < e + RelRetained
    BY <2>1, <2>2, HandTypes DEF WorkerInv, EntryInHand
  <2>4. GoodLedger(p, ledger[p])
    BY <2>3 DEF LedgersInv
  <2>5. PassedBy(p, e)' /\ Remembered(ledger[p], p, e)'
    BY <2>1, <2>2, SightedCounts
  <2> DEFINE new == [place |-> p, message |-> RelMailbox[p][e], at |-> e]
             n == Len(egress) + 1
  <2>6. egress' = Append(egress, new)
    BY <1>4, <2>2, <2>3 DEF Rel!Admit, Rel!AdmitUnanswered, Rel!EnqueueOnce, Rel!Admitted
  <2>7. /\ DOMAIN egress' = 1 .. n /\ egress'[n] = new /\ \A i \in DOMAIN egress : egress'[i] = egress[i]
        /\ DOMAIN egress = 1 .. (n - 1) /\ n \in Nat
    BY <1>0, <2>6
  <2>8. new.place = p /\ new.message = RelMailbox[p][e] /\ new.at = e
    OBVIOUS
  <2> HIDE DEF new, n
  <2>9. ~ Remembered(ledger[p], p, e)
    BY <2>3, <2>4, ReachesBack
  <2>10. ASSUME NEW i \in DOMAIN egress, egress[i].place = p
         PROVE  egress[i].message # RelMailbox[p][e] /\ (egress[i].at < e \/ Rel!Entry(p, e) \in excused)
    <3>1. PICK a \in 1 .. length[p] : a = egress[i].at
      BY <2>10 DEF EgressInv
    <3>2. a \in Nat /\ RelMailbox[p][a] = egress[i].message /\ Remembered(ledger[p], p, a) /\ \A f \in 1 .. a : Dealt(p, f)
      BY <1>0, <2>10, <3>1 DEF EgressInv
    <3>3. CASE a < e
      <4>1. RelMailbox[p][a] # RelMailbox[p][e]
        BY <2>3, <2>4, <3>1, <3>2, <3>3, ReachesBack
      <4> QED BY <3>1, <3>2, <3>3, <4>1
    <3>4. CASE e <= a
      <4>1. Rel!Entry(p, e) \in excused
        <5>1. e \in 1 .. a
          BY <2>3, <3>2, <3>4
        <5> QED BY <2>9, <3>2, <5>1 DEF Dealt
      <4>2. RelMailbox[p][a] # RelMailbox[p][e]
        <5> SUFFICES ASSUME RelMailbox[p][a] = RelMailbox[p][e] PROVE Remembered(ledger[p], p, e)
          BY <2>9
        <5>1. \A l \in ledger[p] : l.at \in Nat
          BY <2>4 DEF GoodLedger
        <5> QED BY <2>3, <3>2, <3>4, <5>1 DEF Remembered
      <4> QED BY <3>2, <4>1, <4>2
    <3> QED BY <2>3, <3>2, <3>3, <3>4
  <2>11. Rel!AdmittedOnce'
    <3> SUFFICES ASSUME NEW i \in 1 .. n, NEW j \in 1 .. n, i < j, egress'[i].place = egress'[j].place
        PROVE  /\ egress'[i].message # egress'[j].message
               /\ egress'[i].at < egress'[j].at \/ Rel!Entry(egress'[j].place, egress'[j].at) \in excused'
      BY <2>7 DEF Rel!AdmittedOnce
    <3>1. CASE j = n
      <4>1. i \in DOMAIN egress
        BY <2>7, <3>1
      <4> QED BY <2>1, <2>7, <2>8, <2>10, <3>1, <4>1
    <3>2. CASE j # n
      <4>1. i \in DOMAIN egress /\ j \in DOMAIN egress
        BY <2>7, <3>2
      <4> QED BY <2>1, <2>7, <4>1 DEF EgressInv, Rel!AdmittedOnce
    <3> QED BY <3>1, <3>2
  <2>12. \A i \in 1 .. n : i = n \/ i \in DOMAIN egress
    BY <2>7
  <2>13. \A i \in 1 .. n :
           /\ egress'[i].at \in 1 .. length'[egress'[i].place]
           /\ egress'[i].message = RelMailbox[egress'[i].place][egress'[i].at]
           /\ \A q, a : q = egress'[i].place /\ a = egress'[i].at =>
                 Remembered(ledger[q], q, a)' /\ \A f \in 1 .. a : Dealt(q, f)'
    <3>1. ASSUME NEW i \in DOMAIN egress
          PROVE  egress[i].message = RelMailbox[egress[i].place][egress[i].at]
      BY DEF EgressInv
    <3>2. \A f \in 1 .. e : Dealt(p, f)'
      BY <2>5 DEF PassedBy
    <3> QED BY <1>2, <2>1, <2>3, <2>5, <2>7, <2>8, <2>12, <3>1, <3>2
  <2> QED BY <2>7, <2>11, <2>13 DEF EgressInv, Remembered, Dealt
<1>5. UNCHANGED egress \/ Rel!Admit \/ Rel!AdmitUnanswered
  BY DEF Rel!Next, Rel!Mail, Rel!OfficeAdd, Rel!OfficeAdded, Rel!OfficeRm, Rel!Stop, Rel!Fail,
     Rel!Die, Rel!Start, Rel!Connect, Rel!Read, Rel!FinishBackfill,
     Rel!SkipOld, Rel!Reject, Rel!NotSeen, Rel!Checkpoint, Rel!Backfill, Rel!Seen, Rel!stored
<1> QED BY <1>3, <1>4, <1>5

(* The theorem                                                             *)

\* Initially nothing was admitted, and what the cursor covers is excused.
LEMMA RelayInit == ASSUME RelayConstants, Rel!Init PROVE RelayInv
<1>0. /\ RelLimit \in Nat \ {0} /\ RelMaxChanges \in Nat /\ RelMaxFaults \in Nat
      /\ \A p \in RelPlaces : Len(RelMailbox[p]) \in Nat \ {0}
  BY DEF RelayConstants
<1>1. PICK p \in RelPlaces : office = [place |-> p, token |-> [of |-> p, n |-> 0]]
  BY DEF Rel!Init
<1>2. /\ Rel!NoOffice.place = "nowhere" /\ Rel!NoWorker.step = "none" /\ Rel!NoWorker.remaining = 0 /\ Rel!NoWorker.at = 0
      /\ Rel!NoWorker \in [step : WorkerPhases, office : Rel!Offices \cup {Rel!NoOffice}, remaining : Nat, at : Nat]
  BY DEF Rel!NoOffice, Rel!NoWorker, WorkerPhases
<1>3. length \in [RelPlaces -> 0 .. 1] /\ cursor \in 0 .. length[p] /\ whose = p
      /\ egress = <<>> /\ ledger = [q \in RelPlaces |-> {}] /\ ready = {} /\ worker = Rel!NoWorker /\ known = Rel!NoOffice
      /\ excused = {Rel!Entry(p, e) : e \in 1 .. cursor} /\ changes = 0 /\ faults = 0 /\ adding = "nowhere"
  BY <1>1 DEF Rel!Init
<1>4. RelayTypes
  <2>1. cursor \in Nat
    BY <1>3
  <2>2. office \in [place : RelPlaces \cup {"nowhere"}, token : [of : RelPlaces \cup {"nowhere"}, n : 0 .. RelMaxChanges]]
        /\ office.token.of \in RelPlaces
    BY <1>0, <1>1
  <2>3. \A q \in RelPlaces : length[q] <= Len(RelMailbox[q])
    BY <1>0, <1>3
  <2> QED BY <1>0, <1>2, <1>3, <2>1, <2>2, <2>3 DEF RelayTypes
<1>5. LedgersInv
  BY <1>0, <1>3, FS_EmptySet DEF LedgersInv, GoodLedger
<1>6. WorkerInv
  BY <1>2, <1>3 DEF WorkerInv, EntryInHand, Reached, PassedBy
<1>7. CursorInv
  <2>1. ASSUME NEW f \in 1 .. cursor PROVE Dealt(p, f) /\ Accounted(p, f)
    <3>1. Rel!Entry(p, f) \in excused /\ f \in Nat \ {0}
      BY <1>3
    <3> QED BY <3>1, ExcusedCounts
  <2> QED BY <1>3, <2>1 DEF CursorInv, PassedBy
<1>8. EgressInv
  <2>1. DOMAIN egress = {}
    BY <1>3
  <2> QED BY <2>1 DEF EgressInv, Rel!AdmittedOnce
<1> QED BY <1>4, <1>5, <1>6, <1>7, <1>8 DEF RelayInv

\* Every step keeps the invariant.
LEMMA RelayMoves == ASSUME RelayConstants, RelayInv, [Rel!Next]_Rel!rvars PROVE RelayInv'
<1>1. CASE Rel!Next
  <2>1. RelayTypes'
    BY <1>1, TypesKept DEF RelayInv
  <2> QED BY <1>1, <2>1, LedgersKept, WorkerKept, CursorKept, EgressKept DEF RelayInv
<1>2. CASE UNCHANGED Rel!rvars
  <2>1. UNCHANGED <<length, office, adding, cursor, whose, ledger, ready, egress, known, worker, changes, faults, excused>>
    BY <1>2 DEF Rel!rvars, Rel!stored, Rel!relay
  <2>2. RelayTypes'
    BY <2>1 DEF RelayInv, RelayTypes, Rel!Here
  <2>3. LedgersInv'
    BY <2>1 DEF RelayInv, LedgersInv, GoodLedger, Accounted
  <2>4. WorkerInv'
    BY <2>1
    DEF RelayInv, WorkerInv, Rel!Here, Rel!This, Reached, PassedBy, Dealt, Accounted,
        Remembered, Rel!InLedger
  <2>5. CursorInv'
    BY <2>1 DEF RelayInv, CursorInv, PassedBy, Dealt, Accounted, Remembered
  <2>6. EgressInv'
    BY <2>1 DEF RelayInv, EgressInv, Rel!AdmittedOnce, Dealt, Remembered
  <2> QED BY <2>2, <2>3, <2>4, <2>5, <2>6 DEF RelayInv
<1> QED BY <1>1, <1>2

\* The invariant says what is promised, and that everything is of its kind.
LEMMA RelayFollows == ASSUME RelayConstants, RelayInv PROVE Rel!RelayTrue /\ Rel!TypeOK
<1>1. Rel!AdmittedOnce
  BY DEF RelayInv, EgressInv
<1>2. cursor \in Nat /\ whose \in RelPlaces /\ length[whose] \in Nat
  BY DEF RelayInv, RelayTypes
<1>3. Rel!NothingPassed
  <2>1. PICK m : m = Rel!Min({cursor, length[whose]})
    OBVIOUS
  <2>2. m \in Nat /\ m <= cursor
    BY <1>2, <2>1, MinPair
  <2>3. ASSUME NEW e \in 1 .. m PROVE Accounted(whose, e)
    BY <1>2, <2>2 DEF RelayInv, CursorInv, PassedBy
  <2> QED BY <2>1, <2>3 DEF Rel!NothingPassed, Accounted
<1>4. Rel!TypeOK
  <2>1. \A p \in RelPlaces : Cardinality(ledger[p]) <= RelLimit
    BY DEF RelayInv, LedgersInv, GoodLedger
  <2> QED BY <2>1, CountsAlike DEF Rel!TypeOK, RelayInv, RelayTypes, WorkerPhases
<1> QED BY <1>1, <1>3, <1>4 DEF Rel!RelayTrue

\* A message of the other office reaches the egress once and in order, and nothing behind
\* the cursor was passed over: RelayTrue holds whatever fails, however the address book
\* changes and the relay is restarted, as long as the ledger reaches back as far as the
\* mailbox and the repeats in it do (OfficeWorker.receive, _ADMIT_ONCE).
THEOREM RelaySafe == ASSUME RelayConstants PROVE Rel!Spec => []Rel!RelayTrue
<1>1. Rel!Init => RelayInv
  BY RelayInit
<1>2. RelayInv /\ [Rel!Next]_Rel!rvars => RelayInv'
  BY RelayMoves
<1>3. RelayInv => Rel!RelayTrue
  BY RelayFollows
<1> QED BY <1>1, <1>2, <1>3, PTL DEF Rel!Spec
=============================================================================
