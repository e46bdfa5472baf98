----------------------------- MODULE BoardProofs -----------------------------
(***************************************************************************)
(* Proofs about Board: its types, one ticket in doing at a time, no ticket *)
(* lost or doubled, and no note, title or verdict lost, for every set of   *)
(* processes, tickets and ids, and every cap. And that Board implements    *)
(* BoardPromise: the reads and scripts of concurrent processes act as if   *)
(* each command were one step on one ticket.                               *)
(***************************************************************************)
EXTENDS Board, RedisListsProofs, FiniteSetTheorems

-----------------------------------------------------------------------------
(* The inductive invariant *)

Marks == Verdicts \cup {"note"}

\* Lists hold entries, each once, and no ticket has two entries.
ListInv ==
    /\ list \in [Lists -> Seq(Entry)]
    /\ \A s \in Lists : IsInjective(list[s])
    /\ \A s, r \in Lists, e, f \in Entry :
         In(list[s], e) /\ In(list[r], f) /\ e.add = f.add => s = r /\ e = f

\* What holds of an entry e of list s: its ticket is on the board, its status is
\* that list's, and it carries what the ticket was told. A finished ticket has a
\* verdict.
Carried(s, e) ==
    /\ e.add \in created /\ e.add \notin removed
    /\ IF e.ok THEN e.status = s \/ (s = "done" /\ e.status = "cancelled")
       ELSE s \in {"todo", "invalid"}
    /\ s # "invalid" =>
         /\ e.title = titled[e.add]
         /\ told[e.add] = IF s = "done" THEN Append(e.notes, Previous(e)) ELSE e.notes
    /\ s = "done" => Previous(e) \in Verdicts

\* Every entry is accounted for, every ticket on the board has an entry, and
\* doing has no two.
TicketInv ==
    /\ \A s \in Lists, e \in Entry : In(list[s], e) => Carried(s, e)
    /\ \A a \in created \ removed : \E s \in Lists, e \in Entry : In(list[s], e) /\ e.add = a
    /\ \A e, f \in Entry : In(list["doing"], e) /\ In(list["doing"], f) => e = f

\* An envelope in flight is a new ticket, the only one of its kind; nothing is
\* told of a ticket before it is written.
FlightInv ==
    /\ flight \subseteq Entry
    /\ \A e \in flight : /\ e = New(e.add, e.id, e.ok)
                         /\ e.add \notin created
                         /\ sent[e.add] # None
    /\ \A e, f \in flight : e.add = f.add => e = f
    /\ \A a \in Adds \ created : told[a] = <<>> /\ titled[a] = Original
    /\ \A a \in created : sent[a] # None

\* The lists that each command may act on.
Reach ==
    [take    |-> {"todo", "hold"},
     done    |-> {"doing"},
     cancel  |-> {"doing", "todo"},
     return  |-> {"doing"},
     hold    |-> {"doing", "todo"},
     note    |-> Open,
     retitle |-> Open,
     reopen  |-> {"done"},
     requeue |-> {"done"},
     delete  |-> States,
     add     |-> States]

\* A command has chosen among readable entries of the lists it may act on, and
\* next puts away an entry that is unreadable.
Sound(c) ==
    /\ c \in Process
    /\ c.do = "none" <=> c = Idle
    /\ c.do # "none" => /\ c.left \in Seq(Reach[c.do])
                        /\ \A x \in c.found : x.at \in Reach[c.do] /\ x.entry.ok
    /\ c.bad \in Seq({x \in Sighting : x.at \in States})
    /\ c.bad # <<>> => ~Head(c.bad).entry.ok
    /\ c.step = "check" => c.do = "take"
    /\ c.step = "apply" => c.found # {}
    /\ c.do = "add" => c.arg \in Adds /\ c.ref \in Ids

CommandInv ==
    /\ cmd \in [Procs -> Process]
    /\ \A p \in Procs : Sound(cmd[p])

HistoryInv ==
    /\ sent \in [Adds -> Ids \cup {None}]
    /\ created \subseteq Adds
    /\ removed \subseteq created
    /\ told \in [Adds -> Seq(Marks)]
    /\ titled \in [Adds -> Titles]
    /\ started \in 0 .. MaxCommands

Inv == ListInv /\ TicketInv /\ FlightInv /\ CommandInv /\ HistoryInv

\* Initially the board is empty and nothing was sent.
LEMMA InvInit == Init => Inv
<1> SUFFICES ASSUME Init PROVE Inv
  OBVIOUS
<1>1. /\ \A s \in Lists : list[s] = <<>>
      /\ \A s \in Lists : \A e : ~In(list[s], e)
  BY DEF Init, In
<1>2. ListInv
  BY <1>1 DEF Init, ListInv, IsInjective
<1>3. TicketInv
  BY <1>1 DEF Init, TicketInv, Lists, States, Open
<1>4. FlightInv
  BY DEF Init, FlightInv
<1>5. Idle \in Process
  BY DEF Idle, Process, Sighting
<1>6. Sound(Idle)
  BY <1>5 DEF Sound, Idle
<1>7. CommandInv
  BY <1>5, <1>6 DEF Init, CommandInv
<1>8. HistoryInv
  BY TicketsAssumption, CapsAssumption DEF Init, HistoryInv
<1> QED BY <1>2, <1>3, <1>4, <1>7, <1>8 DEF Inv

-----------------------------------------------------------------------------
(* What a script does to the lists *)

\* Entry old is gone from the lists, and new, when given, is in list s.
Rewrites(old, s, new) ==
    /\ list' \in [Lists -> Seq(Entry)]
    /\ \A r \in Lists : IsInjective(list'[r])
    /\ \A r \in Lists, e \in Entry :
         In(list'[r], e) <=> (In(list[r], e) /\ e # old) \/ (r = s /\ e = new)

\* The transition script moves one ticket from one list to another.
LEMMA TransferMoves ==
    ASSUME ListInv, NEW from \in Lists, NEW to \in Lists, from # to,
           NEW old \in Entry, NEW new \in Entry, new.add = old.add,
           Transfer(from, old, to, new)
    PROVE  Rewrites(old, to, new)
<1>1. /\ In(list[from], old)
      /\ list[from] \in Seq(Entry) /\ list[to] \in Seq(Entry)
      /\ IsInjective(list[from]) /\ IsInjective(list[to])
  BY DEF Transfer, ListInv
<1> DEFINE l == LRem(list[from], old)
           t == Append(list[to], new)
<1>2. /\ l \in Seq(Entry)
      /\ \A e : In(l, e) <=> In(list[from], e) /\ e # old
      /\ IsInjective(l)
  BY <1>1, LRemIn
<1>3. ~In(list[to], new) /\ ~In(list[to], old)
  BY <1>1 DEF ListInv
<1>4. /\ t \in Seq(Entry)
      /\ \A e : In(t, e) <=> In(list[to], e) \/ e = new
      /\ IsInjective(t)
  BY <1>1, <1>3, AppendIn
<1>5. list' = [list EXCEPT ![from] = l, ![to] = t]
  BY DEF Transfer
<1> HIDE DEF l, t
<1>6. /\ list' \in [Lists -> Seq(Entry)]
      /\ \A r \in Lists : list'[r] = IF r = to THEN t ELSE IF r = from THEN l ELSE list[r]
  BY <1>2, <1>4, <1>5 DEF ListInv
<1>7. \A r \in Lists : IsInjective(list'[r])
  BY <1>2, <1>4, <1>6 DEF ListInv
<1>8. ASSUME NEW r \in Lists, NEW e \in Entry
      PROVE In(list'[r], e) <=> (In(list[r], e) /\ e # old) \/ (r = to /\ e = new)
  <2>1. CASE r = to
    BY <1>3, <1>4, <1>6, <2>1
  <2>2. CASE r # to /\ r = from
    BY <1>2, <1>6, <2>2
  <2>3. CASE r # to /\ r # from
    BY <1>1, <1>6, <2>3 DEF ListInv
  <2> QED BY <2>1, <2>2, <2>3
<1> QED BY <1>6, <1>7, <1>8 DEF Rewrites

\* LSET rewrites one entry in its list.
LEMMA ReplaceMoves ==
    ASSUME ListInv, NEW at \in Lists, NEW old \in Entry, NEW new \in Entry,
           new.add = old.add, In(list[at], old),
           list' = [list EXCEPT ![at] = Replace(@, old, new)]
    PROVE  Rewrites(old, at, new)
<1> DEFINE s == list[at]
           t == Replace(s, old, new)
<1>1. s \in Seq(Entry) /\ IsInjective(s) /\ DOMAIN s = 1 .. Len(s) /\ Len(s) \in Nat
  BY LenProperties DEF ListInv
<1>2. PICK k \in DOMAIN s : s[k] = old
  BY DEF In
<1>3. t = [s EXCEPT ![k] = new]
  <2> DEFINE First(i) == s[i] = old /\ \A j \in 1 .. i - 1 : s[j] # old
  <2>1. First(k)
    BY <1>1, <1>2 DEF IsInjective
  <2>2. \A i \in DOMAIN s : First(i) => i = k
    BY <1>1, <1>2 DEF IsInjective
  <2>3. (CHOOSE i \in DOMAIN s : First(i)) = k
    <3> HIDE DEF First
    <3> QED BY <2>1, <2>2
  <2> QED BY <2>3 DEF Replace
<1> HIDE DEF s, t
<1>4. /\ t \in Seq(Entry) /\ DOMAIN t = DOMAIN s
      /\ \A i \in DOMAIN s : t[i] = IF i = k THEN new ELSE s[i]
  <2>1. /\ t \in Seq(Entry) /\ Len(t) = Len(s)
        /\ \A i \in 1 .. Len(s) : t[i] = IF i = k THEN new ELSE s[i]
    BY <1>1, <1>2, <1>3, ExceptSeq
  <2> QED BY <1>1, <2>1, LenProperties
<1>5. \A e \in Entry : In(s, e) /\ e.add = old.add => e = old
  BY DEF ListInv, s
<1>6. ASSUME NEW e \in Entry PROVE In(t, e) <=> (In(s, e) /\ e # old) \/ e = new
  <2>1. ASSUME In(t, e) PROVE (In(s, e) /\ e # old) \/ e = new
    <3>1. PICK i \in DOMAIN s : t[i] = e
      BY <1>4, <2>1 DEF In
    <3>2. i # k => s[i] = e /\ s[i] # old
      BY <1>1, <1>2, <1>4, <3>1 DEF IsInjective
    <3> QED BY <1>4, <3>1, <3>2 DEF In
  <2>2. ASSUME In(s, e), e # old PROVE In(t, e)
    <3>1. PICK i \in DOMAIN s : s[i] = e
      BY <2>2 DEF In
    <3> QED BY <1>2, <1>4, <2>2, <3>1 DEF In
  <2>3. In(t, new)
    BY <1>2, <1>4 DEF In
  <2> QED BY <2>1, <2>2, <2>3
<1>7. IsInjective(t)
  <2> SUFFICES ASSUME NEW i \in DOMAIN t, NEW j \in DOMAIN t, t[i] = t[j]
               PROVE  i = j
    BY DEF IsInjective
  <2>1. \A n \in DOMAIN s : s[n] \in Entry /\ In(s, s[n])
    BY <1>1, ElementOfSeq DEF In
  <2>2. \A n \in DOMAIN s : n # k => s[n].add # old.add
    <3>1. \A n \in DOMAIN s : s[n].add = old.add => s[n] = s[k]
      BY <1>2, <1>5, <2>1
    <3> QED BY <1>1, <1>2, <3>1 DEF IsInjective
  <2>3. CASE i # k /\ j # k
    BY <1>1, <1>4, <2>3 DEF IsInjective
  <2>4. CASE i = k \/ j = k
    BY <1>2, <1>4, <2>2, <2>4
  <2> QED BY <2>3, <2>4
<1>8. /\ list' \in [Lists -> Seq(Entry)]
      /\ \A r \in Lists : list'[r] = IF r = at THEN t ELSE list[r]
  BY <1>4 DEF ListInv, s, t
<1>9. \A r \in Lists : IsInjective(list'[r])
  BY <1>7, <1>8 DEF ListInv
<1>10. ASSUME NEW r \in Lists, NEW e \in Entry
       PROVE In(list'[r], e) <=> (In(list[r], e) /\ e # old) \/ (r = at /\ e = new)
  <2>1. CASE r = at
    BY <1>6, <1>8, <2>1 DEF s
  <2>2. CASE r # at
    BY <1>8, <2>2 DEF ListInv
  <2> QED BY <2>1, <2>2
<1> QED BY <1>8, <1>9, <1>10 DEF Rewrites

\* A command that ends leaves the other commands as they are.
LEMMA EndsSound ==
    ASSUME CommandInv, NEW p \in Procs, Ends(p)
    PROVE  CommandInv'
<1>1. Idle \in Process
  BY DEF Idle, Process, Sighting
<1>2. Sound(Idle)
  BY <1>1 DEF Sound, Idle
<1> QED BY <1>1, <1>2 DEF CommandInv, Ends

\* A script that rewrites the entry of one ticket, and keeps its record true,
\* keeps the invariant.
LEMMA RewriteStep ==
    ASSUME Inv, NEW p \in Procs, NEW from \in Lists, NEW to \in Lists,
           NEW old \in Entry, NEW new \in Entry,
           In(list[from], old), new.add = old.add, Rewrites(old, to, new),
           to = "doing" => from = "doing" \/ list["doing"] = <<>>,
           UNCHANGED <<flight, sent, created, removed, started>>,
           told' \in [Adds -> Seq(Marks)], titled' \in [Adds -> Titles],
           \A a \in Adds : a # old.add => told'[a] = told[a] /\ titled'[a] = titled[a],
           Carried(to, new)', CommandInv'
    PROVE  Inv'
<1>1. old.add \in Adds /\ old.add \in created /\ old.add \notin removed
  BY DEF Inv, TicketInv, Carried, Entry
<1>2. ListInv'
  <2>1. \A r \in Lists, e \in Entry : In(list[r], e) /\ e.add = old.add => r = from /\ e = old
    BY DEF Inv, ListInv
  <2>2. ASSUME NEW s \in Lists, NEW r \in Lists, NEW e \in Entry, NEW f \in Entry,
               In(list'[s], e), In(list'[r], f), e.add = f.add
        PROVE  s = r /\ e = f
    <3>1. CASE e = new \/ f = new
      BY <2>1, <2>2, <3>1 DEF Rewrites
    <3>2. CASE e # new /\ f # new
      BY <2>2, <3>2 DEF Rewrites, Inv, ListInv
    <3> QED BY <3>1, <3>2
  <2> QED BY <2>2 DEF ListInv, Rewrites
<1>3. ASSUME NEW s \in Lists, NEW e \in Entry, In(list'[s], e)
      PROVE  Carried(s, e)'
  <2>1. CASE In(list[s], e) /\ e # old
    <3>1. e.add # old.add /\ e.add \in Adds /\ Carried(s, e)
      <4>1. e.add # old.add
        BY <2>1 DEF Inv, ListInv
      <4>2. e.add \in Adds
        BY DEF Entry
      <4>3. Carried(s, e)
        BY <2>1 DEF Inv, TicketInv
      <4> QED BY <4>1, <4>2, <4>3
    <3>2. told'[e.add] = told[e.add] /\ titled'[e.add] = titled[e.add]
      BY <3>1
    <3> QED BY <3>1, <3>2 DEF Carried
  <2>2. CASE s = to /\ e = new
    BY <2>2
  <2> QED BY <1>3, <2>1, <2>2 DEF Rewrites
<1>4. ASSUME NEW a \in (created \ removed)'
      PROVE  \E s \in Lists, e \in Entry : In(list'[s], e) /\ e.add = a
  <2>1. CASE a = old.add
    BY <2>1 DEF Rewrites
  <2>2. CASE a # old.add
    <3>1. PICK s \in Lists, e \in Entry : In(list[s], e) /\ e.add = a
      BY <1>4 DEF Inv, TicketInv
    <3> QED BY <2>2, <3>1 DEF Rewrites
  <2> QED BY <2>1, <2>2
<1>5. ASSUME NEW e \in Entry, NEW f \in Entry,
             In(list'["doing"], e), In(list'["doing"], f)
      PROVE  e = f
  <2>0. "doing" \in Lists
    BY DEF Lists, States, Open
  <2>1. CASE list["doing"] = <<>>
    BY <1>5, <2>0, <2>1 DEF Rewrites, In
  <2>2. CASE to # "doing"
    BY <1>5, <2>0, <2>2 DEF Rewrites, Inv, TicketInv
  <2>3. CASE from = "doing"
    BY <1>5, <2>0, <2>3 DEF Rewrites, Inv, TicketInv
  <2> QED BY <2>1, <2>2, <2>3
<1>6. TicketInv'
  BY <1>3, <1>4, <1>5 DEF TicketInv
<1>7. FlightInv'
  <2>1. \A a \in Adds \ created : told'[a] = told[a] /\ titled'[a] = titled[a]
    BY <1>1
  <2> QED BY <2>1 DEF Inv, FlightInv
<1>8. HistoryInv'
  BY DEF Inv, HistoryInv
<1> QED BY <1>2, <1>6, <1>7, <1>8 DEF Inv

-----------------------------------------------------------------------------
(* What a command has chosen *)

\* The choice of a command that may act is a readable entry of a list it may act
\* on; where it still is there, its status is that list's and it carries what its
\* ticket was told.
LEMMA Chosen ==
    ASSUME Inv, NEW p \in Procs, NEW Kinds \in SUBSET Commands, Applies(p, Kinds),
           NEW x, x = Choice(cmd[p])
    PROVE  /\ cmd[p].do \in Kinds
           /\ x \in cmd[p].found
           /\ x.at \in Reach[cmd[p].do] /\ x.at \in Lists
           /\ x.entry \in Entry /\ x.entry.ok
           /\ x.entry.add \in Adds
           /\ In(list[x.at], x.entry) => Carried(x.at, x.entry)
<1>1. Sound(cmd[p]) /\ cmd[p] \in Process
  BY DEF Inv, CommandInv
<1>2. cmd[p].do \in Kinds /\ cmd[p].do # "none"
  BY DEF Applies, Commands, ScansById
<1>3. cmd[p].found # {}
  <2>1. CASE cmd[p].do = "reopen"
    BY <1>1, <2>1 DEF Applies, Sound
  <2>2. CASE cmd[p].do # "reopen"
    BY <2>2, FS_EmptySet DEF Applies, Eligible
  <2> QED BY <2>1, <2>2
<1>4. x \in cmd[p].found
  BY <1>3 DEF Choice
<1>5. x \in Sighting /\ x.at \in Reach[cmd[p].do] /\ x.entry.ok
  BY <1>1, <1>2, <1>4 DEF Sound, Process
<1>6. x.at \in Lists /\ x.entry \in Entry /\ x.entry.add \in Adds
  BY <1>5 DEF Sighting, Entry
<1> QED BY <1>2, <1>4, <1>5, <1>6 DEF Inv, TicketInv

-----------------------------------------------------------------------------
(* The commands that change the board *)

\* A transition to another list keeps the invariant when it keeps the record.
LEMMA TransitionStep ==
    ASSUME Inv, NEW p \in Procs, NEW Kinds \in SUBSET Commands, Applies(p, Kinds),
           NEW x, x = Choice(cmd[p]), NEW to \in Lists, x.at # to,
           NEW new \in Entry, new.add = x.entry.add, Transition(p, x, to, new),
           to = "doing" => list["doing"] = <<>>,
           told' \in [Adds -> Seq(Marks)],
           \A a \in Adds : a # x.entry.add => told'[a] = told[a],
           Carried(x.at, x.entry) => Carried(to, new)'
    PROVE  Inv'
<1>1. x.at \in Lists /\ x.entry \in Entry /\ Carried(x.at, x.entry)
  BY Chosen DEF Transition, Transfer
<1>2. /\ In(list[x.at], x.entry)
      /\ Rewrites(x.entry, to, new)
  BY <1>1, TransferMoves DEF Transition, Transfer, Inv
<1>3. CommandInv'
  BY EndsSound DEF Transition, Inv
<1>4. titled' = titled /\ titled \in [Adds -> Titles]
  BY DEF Transition, Inv, HistoryInv
<1>5. UNCHANGED <<flight, sent, created, removed, started>>
  BY DEF Transition
<1> QED BY <1>1, <1>2, <1>3, <1>4, <1>5, RewriteStep

\* The commands that act, and the lists, spelled out.
LEMMA Names ==
    /\ \A s : s \in Lists <=> s \in {"todo", "doing", "hold", "done", "invalid"}
    /\ \A s : s \in States <=> s \in {"todo", "doing", "hold", "done"}
    /\ \A c : c \in Commands <=>
         c \in {"take", "done", "cancel", "return", "hold", "note", "retitle",
                "reopen", "requeue", "delete", "add"}
BY DEF Lists, States, Open, Commands, ScansById

\* take: an open ticket that is not being done becomes the one that is.
LEMMA TakeStep == ASSUME Inv, NEW p \in Procs, Take(p) PROVE Inv'
<1>1. PICK x : x = Choice(cmd[p])
  OBVIOUS
<1> DEFINE new == [x.entry EXCEPT !.status = "doing"]
<1>2. Applies(p, {"take"}) /\ Transition(p, x, "doing", new) /\ told' = told
  BY <1>1 DEF Take
<1>3. cmd[p].do = "take" /\ x.at \in {"todo", "hold"} /\ x.entry \in Entry /\ x.entry.ok
  BY <1>1, <1>2, Chosen, Names DEF Reach
<1>4. list["doing"] = <<>>
  BY <1>3 DEF Take, Busy
<1>5. new \in Entry /\ new.add = x.entry.add /\ new.status = "doing" /\ new.ok
      /\ new.title = x.entry.title /\ new.notes = x.entry.notes
  BY <1>3, Names DEF Entry
<1>6. titled' = titled /\ created' = created /\ removed' = removed
  BY <1>2 DEF Transition
<1> HIDE DEF new
<1>7. Carried(x.at, x.entry) => Carried("doing", new)'
  BY <1>2, <1>3, <1>5, <1>6 DEF Carried
<1>8. told \in [Adds -> Seq(Marks)]
  BY DEF Inv, HistoryInv
<1> QED BY <1>1, <1>2, <1>3, <1>4, <1>5, <1>7, <1>8, TransitionStep, Names

\* What a ticket is told is one more mark for this ticket, and for no other.
LEMMA TellsMarks ==
    ASSUME HistoryInv, NEW a \in Adds, NEW what \in Marks, Tells(a, what)
    PROVE  /\ told' \in [Adds -> Seq(Marks)]
           /\ told'[a] = Append(told[a], what)
           /\ \A b \in Adds : b # a => told'[b] = told[b]
<1>1. Append(told[a], what) \in Seq(Marks)
  BY AppendProperties DEF HistoryInv
<1> QED BY <1>1 DEF HistoryInv, Tells

\* done: the outcome is the verdict of this round.
LEMMA DoneStep == ASSUME Inv, NEW p \in Procs, NEW outcome \in Outcomes, Done(p, outcome)
                  PROVE  Inv'
<1>1. PICK x : x = Choice(cmd[p])
  OBVIOUS
<1> DEFINE new == [x.entry EXCEPT !.status = "done", !.outcome = outcome]
<1>2. /\ Applies(p, {"done"}) /\ Transition(p, x, "done", new)
      /\ Tells(x.entry.add, outcome)
  BY <1>1 DEF Done
<1>3. x.at = "doing" /\ x.entry \in Entry /\ x.entry.ok /\ x.entry.add \in Adds
  BY <1>1, <1>2, Chosen, Names DEF Reach
<1>4. new \in Entry /\ new.add = x.entry.add /\ new.status = "done" /\ new.ok
      /\ new.outcome = outcome /\ new.title = x.entry.title /\ new.notes = x.entry.notes
  BY <1>3, Names DEF Entry
<1>5. titled' = titled /\ created' = created /\ removed' = removed
  BY <1>2 DEF Transition
<1>6. /\ told' \in [Adds -> Seq(Marks)]
      /\ told'[x.entry.add] = Append(told[x.entry.add], outcome)
      /\ \A b \in Adds : b # x.entry.add => told'[b] = told[b]
  BY <1>2, <1>3, TellsMarks DEF Inv, Marks, Verdicts
<1> HIDE DEF new
<1>7. Previous(new) = outcome /\ outcome \in Verdicts
  BY <1>4 DEF Previous, Verdicts
<1>8. Carried(x.at, x.entry) => Carried("done", new)'
  BY <1>3, <1>4, <1>5, <1>6, <1>7 DEF Carried
<1>9. {"done"} \in SUBSET Commands /\ "done" \in Lists /\ x.at # "done"
  BY <1>3, Names
<1> QED BY <1>1, <1>2, <1>3, <1>4, <1>6, <1>8, <1>9, TransitionStep

\* cancel: the verdict is the new status; the outcome is left as it was.
LEMMA CancelStep == ASSUME Inv, NEW p \in Procs, Cancel(p) PROVE Inv'
<1>1. PICK x : x = Choice(cmd[p])
  OBVIOUS
<1> DEFINE new == [x.entry EXCEPT !.status = "cancelled"]
<1>2. /\ Applies(p, {"cancel"}) /\ Transition(p, x, "done", new)
      /\ Tells(x.entry.add, "cancelled")
  BY <1>1 DEF Cancel
<1>3. x.at \in {"doing", "todo"} /\ x.entry \in Entry /\ x.entry.ok /\ x.entry.add \in Adds
  BY <1>1, <1>2, Chosen, Names DEF Reach
<1>4. new \in Entry /\ new.add = x.entry.add /\ new.status = "cancelled" /\ new.ok
      /\ new.title = x.entry.title /\ new.notes = x.entry.notes
  BY <1>3 DEF Entry
<1>5. titled' = titled /\ created' = created /\ removed' = removed
  BY <1>2 DEF Transition
<1>6. /\ told' \in [Adds -> Seq(Marks)]
      /\ told'[x.entry.add] = Append(told[x.entry.add], "cancelled")
      /\ \A b \in Adds : b # x.entry.add => told'[b] = told[b]
  BY <1>2, <1>3, TellsMarks DEF Inv, Marks, Verdicts
<1> HIDE DEF new
<1>7. Previous(new) = "cancelled" /\ "cancelled" \in Verdicts
  BY <1>4 DEF Previous, Verdicts
<1>8. Carried(x.at, x.entry) => Carried("done", new)'
  BY <1>3, <1>4, <1>5, <1>6, <1>7 DEF Carried
<1>9. {"cancel"} \in SUBSET Commands /\ "done" \in Lists /\ x.at # "done"
  BY <1>3, Names
<1> QED BY <1>1, <1>2, <1>3, <1>4, <1>6, <1>8, <1>9, TransitionStep

\* return: the ticket goes back to todo, without an outcome.
LEMMA ReturnStep == ASSUME Inv, NEW p \in Procs, Return(p) PROVE Inv'
<1>1. PICK x : x = Choice(cmd[p])
  OBVIOUS
<1> DEFINE new == [x.entry EXCEPT !.status = "todo", !.outcome = "none"]
<1>2. Applies(p, {"return"}) /\ Transition(p, x, "todo", new) /\ told' = told
  BY <1>1 DEF Return
<1>3. x.at = "doing" /\ x.entry \in Entry /\ x.entry.ok
  BY <1>1, <1>2, Chosen, Names DEF Reach
<1>4. new \in Entry /\ new.add = x.entry.add /\ new.status = "todo" /\ new.ok
      /\ new.title = x.entry.title /\ new.notes = x.entry.notes
  BY <1>3, Names DEF Entry
<1>5. titled' = titled /\ created' = created /\ removed' = removed
  BY <1>2 DEF Transition
<1> HIDE DEF new
<1>6. Carried(x.at, x.entry) => Carried("todo", new)'
  BY <1>2, <1>3, <1>4, <1>5 DEF Carried
<1>7. told \in [Adds -> Seq(Marks)]
  BY DEF Inv, HistoryInv
<1> QED BY <1>1, <1>2, <1>3, <1>4, <1>6, <1>7, TransitionStep, Names

\* hold: the ticket is set aside.
LEMMA HoldStep == ASSUME Inv, NEW p \in Procs, Hold(p) PROVE Inv'
<1>1. PICK x : x = Choice(cmd[p])
  OBVIOUS
<1> DEFINE new == [x.entry EXCEPT !.status = "hold"]
<1>2. Applies(p, {"hold"}) /\ Transition(p, x, "hold", new) /\ told' = told
  BY <1>1 DEF Hold
<1>3. x.at \in {"doing", "todo"} /\ x.entry \in Entry /\ x.entry.ok
  BY <1>1, <1>2, Chosen, Names DEF Reach
<1>4. new \in Entry /\ new.add = x.entry.add /\ new.status = "hold" /\ new.ok
      /\ new.title = x.entry.title /\ new.notes = x.entry.notes
  BY <1>3, Names DEF Entry
<1>5. titled' = titled /\ created' = created /\ removed' = removed
  BY <1>2 DEF Transition
<1> HIDE DEF new
<1>6. Carried(x.at, x.entry) => Carried("hold", new)'
  BY <1>2, <1>3, <1>4, <1>5 DEF Carried
<1>7. told \in [Adds -> Seq(Marks)]
  BY DEF Inv, HistoryInv
<1> QED BY <1>1, <1>2, <1>3, <1>4, <1>6, <1>7, TransitionStep, Names

\* reopen, to doing or to todo: the verdict becomes the last note, so that the
\* notes alone are all that the ticket was told.
LEMMA ReopenStep ==
    ASSUME Inv, NEW p \in Procs, Reopen(p) \/ Requeue(p) PROVE Inv'
<1>1. PICK x : x = Choice(cmd[p])
  OBVIOUS
<1>2. PICK to \in {"doing", "todo"} :
        /\ Applies(p, {"reopen", "requeue"})
        /\ to = "doing" => list["doing"] = <<>>
        /\ Transition(p, x, to, Reopened(x.entry, to)) /\ told' = told
  <2>1. CASE Reopen(p)
    <3>1. cmd[p].do = "reopen"
      BY <2>1 DEF Reopen, Applies
    <3>2. list["doing"] = <<>>
      BY <2>1, <3>1 DEF Reopen, Busy
    <3> QED BY <1>1, <2>1, <3>1, <3>2 DEF Reopen, Applies
  <2>2. CASE Requeue(p)
    BY <1>1, <2>2 DEF Requeue, Applies
  <2> QED BY <2>1, <2>2
<1> DEFINE new == Reopened(x.entry, to)
<1>3. x.at = "done" /\ x.entry \in Entry /\ x.entry.ok /\ x.entry.add \in Adds
      /\ Carried(x.at, x.entry)
  BY <1>1, <1>2, Chosen, Names DEF Reach, Transition, Transfer
<1>4. Previous(x.entry) \in Marks
  BY <1>3 DEF Carried, Marks
<1>5. Append(x.entry.notes, Previous(x.entry)) \in Seq(Marks)
  BY <1>3, <1>4, AppendProperties DEF Entry, Marks
<1>6. new \in Entry /\ new.add = x.entry.add /\ new.status = to /\ new.ok
      /\ new.title = x.entry.title
      /\ new.notes = Append(x.entry.notes, Previous(x.entry))
  BY <1>3, <1>5, Names DEF Entry, Reopened, Marks
<1>7. titled' = titled /\ created' = created /\ removed' = removed
  BY <1>2 DEF Transition
<1> HIDE DEF new
<1>8. Carried(to, new)'
  BY <1>2, <1>3, <1>6, <1>7 DEF Carried
<1>9. told \in [Adds -> Seq(Marks)]
  BY DEF Inv, HistoryInv
<1> QED BY <1>1, <1>2, <1>3, <1>6, <1>8, <1>9, TransitionStep, Names DEF new

\* retitle: the entry keeps its list; only the title changes.
LEMMA RetitleStep == ASSUME Inv, NEW p \in Procs, NEW title \in Titles, Retitle(p, title)
                     PROVE  Inv'
<1>1. PICK x : x = Choice(cmd[p])
  OBVIOUS
<1> DEFINE new == [x.entry EXCEPT !.title = title]
<1>2. /\ Applies(p, {"retitle"}) /\ In(list[x.at], x.entry) /\ Ends(p)
      /\ list' = [list EXCEPT ![x.at] = Replace(@, x.entry, new)]
      /\ titled' = [titled EXCEPT ![x.entry.add] = title]
      /\ UNCHANGED <<flight, sent, created, removed, told, started>>
  BY <1>1 DEF Retitle
<1>3. /\ x.at \in Lists /\ x.at \in Open /\ x.entry \in Entry /\ x.entry.ok
      /\ x.entry.add \in Adds /\ Carried(x.at, x.entry)
  BY <1>1, <1>2, Chosen, Names DEF Reach
<1>4. new \in Entry /\ new.add = x.entry.add /\ new.status = x.entry.status /\ new.ok
      /\ new.title = title /\ new.notes = x.entry.notes
  BY <1>3 DEF Entry
<1>5. /\ titled' \in [Adds -> Titles] /\ titled'[x.entry.add] = title
      /\ \A a \in Adds : a # x.entry.add => titled'[a] = titled[a]
  BY <1>2, <1>3 DEF Inv, HistoryInv
<1> HIDE DEF new
<1>6. Rewrites(x.entry, x.at, new)
  BY <1>2, <1>3, <1>4, ReplaceMoves DEF Inv
<1>7. Carried(x.at, new)'
  BY <1>2, <1>3, <1>4, <1>5 DEF Carried, Open
<1>8. CommandInv' /\ told' \in [Adds -> Seq(Marks)] /\ told' = told
  BY <1>2, EndsSound DEF Inv, HistoryInv
<1> QED BY <1>2, <1>3, <1>4, <1>5, <1>6, <1>7, <1>8, RewriteStep

\* note: the entry keeps its list and gets one more note.
LEMMA NoteStep == ASSUME Inv, NEW p \in Procs, Note(p) PROVE Inv'
<1>1. PICK x : x = Choice(cmd[p])
  OBVIOUS
<1> DEFINE new == [x.entry EXCEPT !.notes = Append(@, "note")]
<1>2. /\ Applies(p, {"note"}) /\ In(list[x.at], x.entry) /\ Ends(p)
      /\ list' = [list EXCEPT ![x.at] = Replace(@, x.entry, new)]
      /\ Tells(x.entry.add, "note")
      /\ UNCHANGED <<flight, sent, created, removed, titled, started>>
  BY <1>1 DEF Note
<1>3. /\ x.at \in Lists /\ x.at \in Open /\ x.entry \in Entry /\ x.entry.ok
      /\ x.entry.add \in Adds /\ Carried(x.at, x.entry)
  BY <1>1, <1>2, Chosen, Names DEF Reach
<1>4. Append(x.entry.notes, "note") \in Seq(Marks)
  BY <1>3, AppendProperties DEF Entry, Marks
<1>5. new \in Entry /\ new.add = x.entry.add /\ new.status = x.entry.status /\ new.ok
      /\ new.title = x.entry.title /\ new.notes = Append(x.entry.notes, "note")
  BY <1>3, <1>4 DEF Entry, Marks
<1>6. /\ told' \in [Adds -> Seq(Marks)]
      /\ told'[x.entry.add] = Append(told[x.entry.add], "note")
      /\ \A b \in Adds : b # x.entry.add => told'[b] = told[b]
  BY <1>2, <1>3, TellsMarks DEF Inv, Marks
<1> HIDE DEF new
<1>7. Rewrites(x.entry, x.at, new)
  BY <1>2, <1>3, <1>5, ReplaceMoves DEF Inv
<1>8. Carried(x.at, new)'
  BY <1>2, <1>3, <1>5, <1>6 DEF Carried, Open
<1>9. CommandInv' /\ titled' \in [Adds -> Titles] /\ titled' = titled
  BY <1>2, EndsSound DEF Inv, HistoryInv
<1>10. \A a \in Adds : a # x.entry.add => told'[a] = told[a] /\ titled'[a] = titled[a]
  BY <1>6, <1>9
<1>11. /\ In(list[x.at], x.entry)
       /\ UNCHANGED <<flight, sent, created, removed, started>>
  BY <1>2
<1> QED BY <1>3, <1>5, <1>6, <1>7, <1>8, <1>9, <1>10, <1>11, RewriteStep

\* delete: the entry goes, and its ticket counts as removed.
LEMMA DeleteStep == ASSUME Inv, NEW p \in Procs, Delete(p) PROVE Inv'
<1>1. PICK x : x = Choice(cmd[p])
  OBVIOUS
<1> DEFINE at == x.at
           old == x.entry
<1>2. /\ Applies(p, {"delete"}) /\ In(list[at], old) /\ Ends(p)
      /\ list' = [list EXCEPT ![at] = LRem(@, old)]
      /\ removed' = removed \cup {old.add}
      /\ UNCHANGED <<flight, sent, created, told, titled, started>>
  BY <1>1 DEF Delete
<1>3. at \in Lists /\ old \in Entry /\ old.add \in Adds /\ Carried(at, old)
  BY <1>1, <1>2, Chosen, Names
<1> HIDE DEF at, old
<1>4. /\ LRem(list[at], old) \in Seq(Entry)
      /\ \A e : In(LRem(list[at], old), e) <=> In(list[at], e) /\ e # old
      /\ IsInjective(LRem(list[at], old))
  BY <1>2, <1>3, LRemIn DEF Inv, ListInv
<1>5. /\ list' \in [Lists -> Seq(Entry)]
      /\ \A r \in Lists : list'[r] = IF r = at THEN LRem(list[at], old) ELSE list[r]
  BY <1>2, <1>4 DEF Inv, ListInv
<1>6. \A r \in Lists : IsInjective(list'[r])
  BY <1>4, <1>5 DEF Inv, ListInv
<1>7. \A r \in Lists, e \in Entry : In(list[r], e) /\ e.add = old.add => e = old /\ r = at
  BY <1>2, <1>3 DEF Inv, ListInv
<1>8. ASSUME NEW r \in Lists, NEW e \in Entry
      PROVE  In(list'[r], e) <=> In(list[r], e) /\ e.add # old.add
  BY <1>4, <1>5, <1>7
<1>9. ListInv'
  BY <1>5, <1>6, <1>8 DEF Inv, ListInv
<1>10. TicketInv'
  <2>1. ASSUME NEW s \in Lists, NEW e \in Entry, In(list'[s], e) PROVE Carried(s, e)'
    <3>1. Carried(s, e) /\ e.add # old.add
      BY <1>8, <2>1 DEF Inv, TicketInv
    <3> QED BY <1>2, <3>1 DEF Carried
  <2>2. ASSUME NEW a \in (created \ removed)'
        PROVE  \E s \in Lists, e \in Entry : In(list'[s], e) /\ e.add = a
    <3>1. a \in created \ removed /\ a # old.add
      BY <1>2
    <3>2. PICK s \in Lists, e \in Entry : In(list[s], e) /\ e.add = a
      BY <3>1 DEF Inv, TicketInv
    <3> QED BY <1>8, <3>1, <3>2
  <2>3. \A e, f \in Entry : In(list'["doing"], e) /\ In(list'["doing"], f) => e = f
    BY <1>8, Names DEF Inv, TicketInv
  <2> QED BY <2>1, <2>2, <2>3 DEF TicketInv
<1>11. FlightInv' /\ CommandInv'
  BY <1>2, EndsSound DEF Inv, FlightInv
<1>12. HistoryInv'
  BY <1>2, <1>3 DEF Inv, HistoryInv, Carried
<1> QED BY <1>9, <1>10, <1>11, <1>12 DEF Inv

-----------------------------------------------------------------------------
(* The steps that leave the board as it is *)

\* Nothing but the commands changes.
LEMMA BoardSame ==
    ASSUME Inv, CommandInv', UNCHANGED <<list, flight, history>>
    PROVE  Inv'
<1>1. ListInv'
  BY DEF Inv, ListInv
<1>2. TicketInv'
  BY DEF Inv, TicketInv, Carried, history
<1>3. FlightInv'
  BY DEF Inv, FlightInv, history
<1>4. HistoryInv'
  BY DEF Inv, HistoryInv, history
<1> QED BY <1>1, <1>2, <1>3, <1>4 DEF Inv

\* One command advances.
LEMMA CommandAdvances ==
    ASSUME CommandInv, NEW p \in Procs, NEW c, Sound(c), cmd' = [cmd EXCEPT ![p] = c]
    PROVE  CommandInv'
BY DEF CommandInv, Sound

\* The ends of a command that leave the board as it is.
LEMMA EndStep ==
    ASSUME Inv, NEW p \in Procs, Ends(p), UNCHANGED <<list, flight, history>>
    PROVE  Inv'
BY EndsSound, BoardSame DEF Inv

\* Every command reads lists that it may act on.
LEMMA ScansReach ==
    /\ \A do \in Commands : Reach[do] \in SUBSET States /\ ScansById[do] \in Seq(Reach[do])
    /\ \A do \in DOMAIN ScansBare :
         do \in Commands /\ do # "add" /\ ScansBare[do] \in Seq(Reach[do])
<1>1. \A do \in Commands : Reach[do] \in SUBSET States
  BY Names DEF Reach, States, Open
<1>2. ASSUME NEW do \in Commands PROVE ScansById[do] \in Seq(Reach[do])
  <2>1. /\ <<"doing">> \in Seq({"doing"})
        /\ <<"done">> \in Seq({"done"})
        /\ <<"todo", "hold">> \in Seq({"todo", "hold"})
        /\ <<"doing", "todo">> \in Seq({"doing", "todo"})
        /\ <<"todo", "doing", "hold">> \in Seq({"todo", "doing", "hold"})
        /\ <<"todo", "doing", "hold", "done">> \in Seq({"todo", "doing", "hold", "done"})
    OBVIOUS
  <2>2. /\ Open = {"todo", "doing", "hold"}
        /\ States = {"todo", "doing", "hold", "done"}
    BY DEF States, Open
  <2>3. CASE do \in {"done", "return"}
    <3>1. ScansById[do] = <<"doing">> /\ Reach[do] = {"doing"}
      BY <2>3 DEF ScansById, Reach
    <3> QED BY <2>1, <3>1
  <2>4. CASE do \in {"reopen", "requeue"}
    <3>1. ScansById[do] = <<"done">> /\ Reach[do] = {"done"}
      BY <2>4 DEF ScansById, Reach
    <3> QED BY <2>1, <3>1
  <2>5. CASE do = "take"
    <3>1. ScansById[do] = <<"todo", "hold">> /\ Reach[do] = {"todo", "hold"}
      BY <2>5 DEF ScansById, Reach
    <3> QED BY <2>1, <3>1
  <2>6. CASE do \in {"cancel", "hold"}
    <3>1. ScansById[do] = <<"doing", "todo">> /\ Reach[do] = {"doing", "todo"}
      BY <2>6 DEF ScansById, Reach
    <3> QED BY <2>1, <3>1
  <2>7. CASE do \in {"note", "retitle"}
    <3>1. ScansById[do] = <<"todo", "doing", "hold">> /\ Reach[do] = Open
      BY <2>7 DEF ScansById, Reach
    <3> QED BY <2>1, <2>2, <3>1
  <2>8. CASE do \in {"delete", "add"}
    <3>1. ScansById[do] = <<"todo", "doing", "hold", "done">> /\ Reach[do] = States
      BY <2>8 DEF ScansById, Reach
    <3> QED BY <2>1, <2>2, <3>1
  <2> QED BY <2>3, <2>4, <2>5, <2>6, <2>7, <2>8, Names
<1>3. ASSUME NEW do \in DOMAIN ScansBare
      PROVE do \in Commands /\ do # "add" /\ ScansBare[do] \in Seq(Reach[do])
  <2>1. do \in {"take", "done", "cancel", "return", "hold", "note", "retitle"}
    BY DEF ScansBare
  <2>2. CASE do \in {"take", "done", "cancel", "return", "hold", "note"}
    BY <2>2, Names DEF ScansBare, Reach, Open
  <2>3. CASE do = "retitle"
    BY <2>3, Names DEF ScansBare, Reach, Open
  <2> QED BY <2>1, <2>2, <2>3
<1> QED BY <1>1, <1>2, <1>3

\* A command that starts has chosen nothing yet.
LEMMA StartSound ==
    ASSUME CommandInv, NEW p \in Procs, NEW do \in Commands, NEW ref \in Ids \cup {None},
           NEW arg \in Adds \cup {None}, NEW left \in Seq(Reach[do]),
           do = "add" => arg \in Adds /\ ref \in Ids,
           Starts(p, do, ref, arg, left)
    PROVE  CommandInv'
<1> DEFINE c == [Idle EXCEPT !.do = do, !.ref = ref, !.arg = arg, !.left = left,
                             !.step = IF do = "take" THEN "check" ELSE "read"]
<1>1. left \in Seq(States)
  BY ScansReach, SeqMonotonic
<1>2. /\ c.do = do /\ c.ref = ref /\ c.arg = arg /\ c.left = left
      /\ c.step = (IF do = "take" THEN "check" ELSE "read") /\ c.found = {} /\ c.bad = <<>>
  BY DEF Idle
<1>3. c \in Process
  <2>1. Idle \in Process
    BY DEF Idle, Process, Sighting
  <2> QED BY <1>1, <2>1 DEF Process
<1>4. do # "none"
  BY Names
<1>5. c # Idle
  BY <1>2, <1>4 DEF Idle
<1>6. cmd' = [cmd EXCEPT ![p] = c]
  BY DEF Starts
<1> HIDE DEF c
<1>7. Sound(c)
  BY <1>2, <1>3, <1>4, <1>5 DEF Sound
<1> QED BY <1>6, <1>7, CommandAdvances

\* Starting a command changes nothing but the command.
LEMMA CommandStep == ASSUME Inv, NEW p \in Procs, Command(p) PROVE Inv'
<1> USE DEF Inv
<1>1. ASSUME NEW do \in DOMAIN ScansBare, Bare(p, do) PROVE Inv'
  <2>1. CommandInv'
    BY <1>1, ScansReach, StartSound DEF Bare
  <2>2. ListInv' /\ TicketInv'
    BY <1>1 DEF Bare, Counts, ListInv, TicketInv, Carried
  <2>3. FlightInv' /\ HistoryInv'
    BY <1>1, CapsAssumption DEF Bare, Counts, FlightInv, HistoryInv
  <2> QED BY <2>1, <2>2, <2>3
<1>2. ASSUME NEW do \in DOMAIN ScansById, NEW ref \in Ids, ById(p, do, ref) PROVE Inv'
  <2>1. CommandInv'
    BY <1>2, ScansReach, StartSound DEF ById, Commands
  <2>2. ListInv' /\ TicketInv'
    BY <1>2 DEF ById, Counts, ListInv, TicketInv, Carried
  <2>3. FlightInv' /\ HistoryInv'
    BY <1>2, CapsAssumption DEF ById, Counts, FlightInv, HistoryInv
  <2> QED BY <2>1, <2>2, <2>3
<1>3. ASSUME NEW a \in Adds, NEW id \in Ids, AddSame(p, a, id) PROVE Inv'
  <2>1. ScansById.add \in Seq(Reach["add"]) /\ "add" \in Commands
    BY ScansReach, Names
  <2>2. CommandInv'
    BY <1>3, <2>1, StartSound DEF AddSame
  <2> QED BY <1>3, <2>2, BoardSame DEF AddSame
<1> QED BY <1>1, <1>2, <1>3 DEF Command

-----------------------------------------------------------------------------
(* The steps in which a command looks *)

\* What is left of a reading starts with an unreadable entry.
LEMMA FromBadFacts ==
    ASSUME NEW S \in SUBSET Sighting, NEW q \in Seq(S)
    PROVE  /\ FromBad(q) \in Seq(S)
           /\ FromBad(q) # <<>> => ~Head(FromBad(q)).entry.ok
<1> DEFINE B == {i \in DOMAIN q : Bad(q[i].entry)}
<1>1. DOMAIN q = 1 .. Len(q) /\ Len(q) \in Nat
  BY LenProperties
<1>2. CASE B = {}
  BY <1>2, EmptySeq DEF FromBad
<1>3. CASE B # {}
  <2>1. Min(B) \in B
    <3>1. B \in SUBSET Nat
      BY <1>1
    <3> HIDE DEF B
    <3> QED BY <1>3, <3>1, LeastNatural
  <2>2. FromBad(q) = SubSeq(q, Min(B), Len(q))
    BY <1>3 DEF FromBad
  <2>3. Min(B) \in DOMAIN q /\ ~q[Min(B)].entry.ok
    BY <2>1 DEF Bad
  <2> HIDE DEF B
  <2> QED BY <2>2, <2>3, SuffixFacts
<1> QED BY <1>2, <1>3

\* What a command sees in the next list: sightings there, the matches readable.
LEMMA SeenFacts ==
    ASSUME Inv, NEW p \in Procs, NEW c, c = cmd[p], c.left # <<>>
    PROVE  /\ Head(c.left) \in Reach[c.do]
           /\ Head(c.left) \in States
           /\ Tail(c.left) \in Seq(Reach[c.do])
           /\ \A x \in Matches(c) : x \in Sighting /\ x.at = Head(c.left) /\ x.entry.ok
           /\ Quarry(c) \in Seq({x \in Sighting : x.at \in States})
           /\ Quarry(c) # <<>> => ~Head(Quarry(c)).entry.ok
<1>1. Sound(c) /\ c \in Process
  BY DEF Inv, CommandInv
<1>2. c.do \in Commands
  BY <1>1 DEF Sound, Process, Idle
<1>3. /\ c.left \in Seq(Reach[c.do])
      /\ Head(c.left) \in Reach[c.do] /\ Tail(c.left) \in Seq(Reach[c.do])
  <2>1. c.left \in Seq(Reach[c.do])
    BY <1>1, <1>2, Names DEF Sound
  <2> QED BY <2>1, HeadTailProperties
<1>4. Head(c.left) \in States /\ Head(c.left) \in Lists
  BY <1>2, <1>3, ScansReach DEF Lists
<1> DEFINE s == list[Head(c.left)]
<1>5. s \in Seq(Entry)
  BY <1>4 DEF Inv, ListInv
<1> DEFINE h == IF s = <<>> THEN 0 ELSE 1
<1>6. Seen(c) \in Seq(Entry)
  <2>1. Len(s) \in Nat /\ (s # <<>> => Len(s) >= 1)
    BY <1>5, EmptySeq, LenProperties
  <2>2. SubSeq(s, 1, h) \in Seq(Entry)
    BY <1>5, <2>1, SubSeqProperties
  <2> QED BY <1>5, <2>2 DEF Seen
<1> DEFINE t == Seen(c)
           at == Head(c.left)
<1> HIDE DEF s, h
<1>7. /\ DOMAIN t = 1 .. Len(t) /\ Len(t) \in Nat
      /\ \A i \in 1 .. Len(t) : t[i] \in Entry
  BY <1>6, LenProperties, ElementOfSeq
<1>8. ASSUME NEW x \in Matches(c)
      PROVE  x \in Sighting /\ x.at = at /\ x.entry.ok
  BY <1>4, <1>7, <1>8 DEF Matches, Range, Sighting
<1> DEFINE S == {x \in Sighting : x.at \in States}
           q == [i \in DOMAIN t |-> [at |-> at, entry |-> t[i]]]
<1>9. q \in Seq(S)
  <2>1. \A i \in 1 .. Len(t) : [at |-> at, entry |-> t[i]] \in S
    BY <1>4, <1>7 DEF Sighting
  <2>2. q \in [1 .. Len(t) -> S]
    BY <1>7, <2>1
  <2> HIDE DEF q, S
  <2> QED BY <1>7, <2>2, SeqDef
<1>10. Quarry(c) = FromBad(q)
  BY DEF Quarry
<1> HIDE DEF q
<1>11. Quarry(c) \in Seq(S) /\ (Quarry(c) # <<>> => ~Head(Quarry(c)).entry.ok)
  BY <1>9, <1>10, FromBadFacts
<1> QED BY <1>3, <1>4, <1>8, <1>11

\* Reading one list changes only what the command has seen.
LEMMA ReadStep == ASSUME Inv, NEW p \in Procs, Read(p) PROVE Inv'
<1>1. PICK c : c = cmd[p]
  OBVIOUS
<1> DEFINE d == [c EXCEPT !.left = Tail(@), !.found = @ \cup Matches(c),
                          !.bad = IF c.do = "take" THEN Quarry(c) ELSE <<>>]
<1>2. /\ c.step = "read" /\ c.left # <<>> /\ c.bad = <<>>
      /\ Ends(p) \/ cmd' = [cmd EXCEPT ![p] = d]
      /\ UNCHANGED <<list, flight, history>>
  BY <1>1 DEF Read
<1>3. CASE Ends(p)
  BY <1>2, <1>3, EndStep
<1>4. CASE cmd' = [cmd EXCEPT ![p] = d]
  <2>1. Sound(c) /\ c \in Process
    BY <1>1 DEF Inv, CommandInv
  <2>2. c.do \in Commands
    BY <1>2, <2>1 DEF Sound, Process, Idle
  <2>3. Reach[c.do] \in SUBSET States
    BY <2>2, ScansReach
  <2>4. PICK M, Q : M = Matches(c) /\ Q = Quarry(c)
    OBVIOUS
  <2>5. /\ \A x \in M : x \in Sighting /\ x.at \in Reach[c.do] /\ x.entry.ok
        /\ Q \in Seq({x \in Sighting : x.at \in States})
        /\ Q # <<>> => ~Head(Q).entry.ok
        /\ Tail(c.left) \in Seq(Reach[c.do])
    BY <1>1, <1>2, <2>4, SeenFacts
  <2>6. Q \in Seq(Sighting) /\ Tail(c.left) \in Seq(States)
    BY <2>3, <2>5, SeqMonotonic
  <2>7. /\ d \in Process
        /\ d.do = c.do /\ d.ref = c.ref /\ d.arg = c.arg /\ d.step = c.step
        /\ d.left = Tail(c.left) /\ d.found = c.found \cup M
        /\ d.bad = IF c.do = "take" THEN Q ELSE <<>>
    <3>1. <<>> \in Seq(Sighting)
      BY EmptySeq
    <3> QED BY <2>1, <2>4, <2>5, <2>6, <3>1 DEF Process
  <2> HIDE DEF d
  <2>8. c.do # "none" /\ d # Idle
    BY <2>2, <2>7, Names DEF Idle
  <2>9. <<>> \in Seq({x \in Sighting : x.at \in States})
    BY EmptySeq
  <2>10. \A x \in d.found : x.at \in Reach[d.do] /\ x.entry.ok
    BY <2>1, <2>5, <2>7, <2>8 DEF Sound
  <2>11. Sound(d)
    BY <1>2, <2>1, <2>5, <2>7, <2>8, <2>9, <2>10 DEF Sound
  <2>12. CommandInv'
    BY <1>4, <2>11, CommandAdvances DEF Inv
  <2> QED BY <1>2, <2>12, BoardSame
<1> QED BY <1>2, <1>3, <1>4

\* An unreadable entry is put away as it is.
LEMMA QuarantineStep == ASSUME Inv, NEW p \in Procs, Quarantine(p) PROVE Inv'
<1>1. PICK c : c = cmd[p]
  OBVIOUS
<1>2. PICK x : x = Head(c.bad)
  OBVIOUS
<1> DEFINE d == [c EXCEPT !.bad = FromBad(Tail(@))]
<1>3. /\ c.bad # <<>> /\ Transfer(x.at, x.entry, "invalid", x.entry)
      /\ Ends(p) \/ cmd' = [cmd EXCEPT ![p] = d]
      /\ UNCHANGED <<flight, history>>
  BY <1>1, <1>2 DEF Quarantine
<1> DEFINE S == {y \in Sighting : y.at \in States}
<1>4. Sound(c) /\ c \in Process /\ c.bad \in Seq(S) /\ ~x.entry.ok
  BY <1>1, <1>2, <1>3 DEF Inv, CommandInv, Sound
<1>5. x \in S /\ Tail(c.bad) \in Seq(S)
  BY <1>2, <1>3, <1>4, HeadTailProperties
<1>6. CommandInv'
  <2>1. CASE Ends(p)
    BY <2>1, EndsSound DEF Inv
  <2>2. CASE cmd' = [cmd EXCEPT ![p] = d]
    <3>1. PICK q : q = FromBad(Tail(c.bad))
      OBVIOUS
    <3>2. q \in Seq(S) /\ (q # <<>> => ~Head(q).entry.ok)
      BY <1>5, <3>1, FromBadFacts
    <3>3. q \in Seq(Sighting)
      BY <3>2, SeqMonotonic
    <3>4. /\ d \in Process
          /\ d.do = c.do /\ d.ref = c.ref /\ d.arg = c.arg /\ d.step = c.step
          /\ d.left = c.left /\ d.found = c.found /\ d.bad = q
      BY <1>4, <3>1, <3>3 DEF Process
    <3> HIDE DEF d, S
    <3>5. c # Idle
      BY <1>3 DEF Idle
    <3>6. c.do # "none" /\ d # Idle
      BY <1>4, <3>4, <3>5 DEF Sound, Idle
    <3>7. Sound(d)
      BY <1>4, <3>2, <3>4, <3>6 DEF Sound, S
    <3> QED BY <2>2, <3>7, CommandAdvances DEF Inv
  <2> QED BY <1>3, <2>1, <2>2
<1>7. x.at \in Lists /\ x.at # "invalid" /\ x.entry \in Entry /\ In(list[x.at], x.entry)
  BY <1>3, <1>5, Names DEF Sighting, Transfer
<1>8. Rewrites(x.entry, "invalid", x.entry)
  BY <1>3, <1>7, Names, TransferMoves DEF Inv
<1>9. Carried(x.at, x.entry)
  BY <1>7 DEF Inv, TicketInv
<1>10. Carried("invalid", x.entry)'
  BY <1>3, <1>4, <1>9 DEF Carried, history
<1>11. /\ told' \in [Adds -> Seq(Marks)] /\ titled' \in [Adds -> Titles]
       /\ told' = told /\ titled' = titled
       /\ UNCHANGED <<flight, sent, created, removed, started>>
  BY <1>3 DEF Inv, HistoryInv, history
<1> QED BY <1>6, <1>7, <1>8, <1>10, <1>11, Names, RewriteStep

\* take and reopen look whether a ticket is being done.
LEMMA CheckStep == ASSUME Inv, NEW p \in Procs, CheckDoing(p) PROVE Inv'
<1>1. PICK c : c = cmd[p]
  OBVIOUS
<1> DEFINE d == [c EXCEPT !.step = IF c.do = "take" THEN "read" ELSE "apply"]
<1>2. /\ c.step = "check" \/ (c.do = "reopen" /\ Eligible(c))
      /\ Ends(p) \/ cmd' = [cmd EXCEPT ![p] = d]
      /\ UNCHANGED <<list, flight, history>>
  BY <1>1 DEF CheckDoing
<1>3. CASE Ends(p)
  BY <1>2, <1>3, EndStep
<1>4. CASE cmd' = [cmd EXCEPT ![p] = d]
  <2>0. Sound(c) /\ c \in Process
    BY <1>1 DEF Inv, CommandInv
  <2>1. (c.do = "reopen" /\ Eligible(c)) \/ c.do = "take"
    BY <1>2, <2>0 DEF Sound
  <2>2. /\ d \in Process
        /\ d.do = c.do /\ d.ref = c.ref /\ d.arg = c.arg
        /\ d.step = IF c.do = "take" THEN "read" ELSE "apply"
        /\ d.left = c.left /\ d.found = c.found /\ d.bad = c.bad
    BY <2>0 DEF Process
  <2> HIDE DEF d
  <2>3. c.do # "none" /\ d # Idle
    BY <2>1, <2>2 DEF Idle
  <2>4. d.step = "apply" => d.found # {}
    <3>1. Eligible(c) => c.found # {}
      <4>1. Cardinality({}) = 0
        BY FS_EmptySet
      <4>2. Eligible(c) => Cardinality(c.found) = 1
        BY DEF Eligible
      <4> QED BY <4>1, <4>2
    <3>2. c.do = "take" => d.step = "read"
      BY <2>2
    <3> QED BY <2>1, <2>2, <3>1, <3>2
  <2>5. Sound(d)
    BY <2>0, <2>1, <2>2, <2>3, <2>4 DEF Sound
  <2> QED BY <1>2, <1>4, <2>5, CommandAdvances, BoardSame DEF Inv
<1> QED BY <1>2, <1>3, <1>4

-----------------------------------------------------------------------------
(* Tickets are sent, arrive and are trimmed *)

\* A ticket that is sent was not sent before, so that nothing of it is on the
\* board or in flight.
LEMMA SendsNew ==
    ASSUME Inv, NEW a \in Adds, NEW id \in Ids, NEW ok \in BOOLEAN, Sends(a, id, ok),
           UNCHANGED <<created, told, titled>>
    PROVE  FlightInv' /\ sent' \in [Adds -> Ids \cup {None}]
<1> DEFINE n == New(a, id, ok)
<1>1. n \in Entry /\ n.add = a /\ n = New(n.add, n.id, n.ok)
  <2>1. <<>> \in Seq(Marks)
    BY EmptySeq
  <2>2. "todo" \in States /\ Original \in Titles
    BY Names, TicketsAssumption
  <2> QED BY <2>1, <2>2 DEF New, Entry, Marks
<1>2. /\ sent[a] = None /\ None \notin Ids
      /\ flight' = flight \cup {n}
      /\ sent' \in [Adds -> Ids \cup {None}]
      /\ \A b \in Adds : sent'[b] = IF b = a THEN id ELSE sent[b]
  BY TicketsAssumption DEF Inv, HistoryInv, Sends
<1> HIDE DEF n
<1>3. a \notin created /\ (\A e \in flight : e.add # a)
  BY <1>2 DEF Inv, FlightInv
<1>4. \A e \in flight : e.add \in Adds
  BY DEF Inv, FlightInv, Entry
<1>5. created' = created /\ told' = told /\ titled' = titled /\ created \subseteq Adds
  BY DEF Inv, HistoryInv
<1>6. flight' \subseteq Entry
  BY <1>1, <1>2 DEF Inv, FlightInv
<1>7. \A e \in flight' : /\ e = New(e.add, e.id, e.ok)
                         /\ e.add \notin created
                         /\ sent'[e.add] # None
  <2>1. \A e \in flight : /\ e = New(e.add, e.id, e.ok)
                          /\ e.add \notin created
                          /\ sent[e.add] # None
    BY DEF Inv, FlightInv
  <2> QED BY <1>1, <1>2, <1>3, <1>4, <2>1
<1>8. \A e, f \in flight' : e.add = f.add => e = f
  BY <1>1, <1>2, <1>3 DEF Inv, FlightInv
<1>9. \A b \in created : sent'[b] # None
  BY <1>2, <1>3, <1>5 DEF Inv, FlightInv
<1>10. \A b \in Adds \ created : told[b] = <<>> /\ titled[b] = Original
  BY DEF Inv, FlightInv
<1> QED BY <1>2, <1>5, <1>6, <1>7, <1>8, <1>9, <1>10 DEF FlightInv

\* add, with an id of its own or with a new one.
LEMMA SendStep ==
    ASSUME Inv,
           \/ \E p \in Procs : Send(p)
           \/ \E a \in Adds, id \in Ids, ok \in BOOLEAN : AddNew(a, id, ok)
    PROVE  Inv'
<1>1. /\ CommandInv'
      /\ \E a \in Adds, id \in Ids, ok \in BOOLEAN : Sends(a, id, ok)
      /\ UNCHANGED <<list, created, removed, told, titled, started>>
  <2>1. CASE \E p \in Procs : Send(p)
    <3>1. PICK p \in Procs : Send(p)
      BY <2>1
    <3>2. cmd[p].arg \in Adds /\ cmd[p].ref \in Ids
      BY <3>1 DEF Send, Inv, CommandInv, Sound
    <3>3. Sends(cmd[p].arg, cmd[p].ref, TRUE) /\ Ends(p)
          /\ UNCHANGED <<list, created, removed, told, titled, started>>
      BY <3>1 DEF Send
    <3>4. CommandInv'
      BY <3>3, EndsSound DEF Inv
    <3> QED BY <3>2, <3>3, <3>4
  <2>2. CASE \E a \in Adds, id \in Ids, ok \in BOOLEAN : AddNew(a, id, ok)
    BY <2>2 DEF AddNew, Inv, CommandInv
  <2> QED BY <2>1, <2>2
<1>2. FlightInv' /\ sent' \in [Adds -> Ids \cup {None}]
  BY <1>1, SendsNew
<1>3. ListInv' /\ TicketInv'
  BY <1>1 DEF Inv, ListInv, TicketInv, Carried
<1>4. HistoryInv'
  BY <1>1, <1>2 DEF Inv, HistoryInv
<1> QED BY <1>1, <1>2, <1>3, <1>4 DEF Inv

\* A ticket arrives in todo, or its envelope ends elsewhere.
LEMMA ArriveStep ==
    ASSUME Inv, NEW e \in flight, Create(e) \/ Stray(e)
    PROVE  Inv'
<1>1. /\ e \in Entry /\ e.add \in Adds /\ e = New(e.add, e.id, e.ok)
      /\ e.add \notin created /\ e.add \notin removed /\ sent[e.add] # None
      /\ told[e.add] = <<>> /\ titled[e.add] = Original
  BY DEF Inv, FlightInv, HistoryInv, Entry
<1>2. \A f \in flight \ {e} : f.add # e.add
  BY DEF Inv, FlightInv
<1>3. CASE Stray(e)
  <2>1. ListInv' /\ TicketInv'
    BY <1>3 DEF Stray, history, Inv, ListInv, TicketInv, Carried
  <2>2. FlightInv' /\ HistoryInv' /\ CommandInv'
    BY <1>3 DEF Stray, history, Inv, FlightInv, HistoryInv, CommandInv
  <2> QED BY <2>1, <2>2 DEF Inv
<1>4. CASE Create(e)
  <2>1. /\ flight' = flight \ {e} /\ created' = created \cup {e.add}
        /\ list' = [list EXCEPT !["todo"] = Append(@, e)]
        /\ UNCHANGED <<cmd, sent, removed, told, titled, started>>
    BY <1>4 DEF Create
  <2>2. \A s \in Lists, f \in Entry : In(list[s], f) => f.add # e.add
    BY <1>1 DEF Inv, TicketInv, Carried
  <2>3. /\ list["todo"] \in Seq(Entry) /\ ~In(list["todo"], e)
        /\ IsInjective(list["todo"]) /\ "todo" \in Lists
    BY <1>1, <2>2, Names DEF Inv, ListInv
  <2>4. /\ Append(list["todo"], e) \in Seq(Entry)
        /\ \A f : In(Append(list["todo"], e), f) <=> In(list["todo"], f) \/ f = e
        /\ IsInjective(Append(list["todo"], e))
    BY <1>1, <2>3, AppendIn
  <2>5. /\ list' \in [Lists -> Seq(Entry)]
        /\ \A s \in Lists : list'[s] = IF s = "todo" THEN Append(list["todo"], e) ELSE list[s]
    BY <2>1, <2>4 DEF Inv, ListInv
  <2>6. \A s \in Lists : IsInjective(list'[s])
    BY <2>4, <2>5 DEF Inv, ListInv
  <2>7. \A s \in Lists, f \in Entry :
          In(list'[s], f) <=> In(list[s], f) \/ (s = "todo" /\ f = e)
    BY <2>4, <2>5
  <2>8. ASSUME NEW s \in Lists, NEW r \in Lists, NEW f \in Entry, NEW g \in Entry,
               In(list'[s], f), In(list'[r], g), f.add = g.add
        PROVE  s = r /\ f = g
    <3>1. CASE f = e \/ g = e
      BY <2>2, <2>7, <2>8, <3>1
    <3>2. CASE f # e /\ g # e
      BY <2>7, <2>8, <3>2 DEF Inv, ListInv
    <3> QED BY <3>1, <3>2
  <2>9. ListInv'
    BY <2>5, <2>6, <2>8 DEF ListInv
  <2>10. Carried("todo", e)'
    <3>1. e.ok \in BOOLEAN /\ e.status = "todo" /\ e.title = Original /\ e.notes = <<>>
      BY <1>1 DEF New, Entry
    <3> QED BY <1>1, <2>1, <3>1 DEF Carried
  <2>11. TicketInv'
    <3>1. ASSUME NEW s \in Lists, NEW f \in Entry, In(list'[s], f) PROVE Carried(s, f)'
      <4>1. CASE In(list[s], f)
        <5>1. Carried(s, f)
          BY <4>1 DEF Inv, TicketInv
        <5> QED BY <2>1, <5>1 DEF Carried
      <4>2. CASE s = "todo" /\ f = e
        BY <2>10, <4>2
      <4> QED BY <2>7, <3>1, <4>1, <4>2
    <3>2. ASSUME NEW a \in (created \ removed)'
          PROVE  \E s \in Lists, f \in Entry : In(list'[s], f) /\ f.add = a
      <4>1. CASE a = e.add
        BY <1>1, <2>3, <2>7, <4>1
      <4>2. CASE a # e.add
        <5>1. PICK s \in Lists, f \in Entry : In(list[s], f) /\ f.add = a
          BY <2>1, <4>2 DEF Inv, TicketInv
        <5> QED BY <2>7, <5>1
      <4> QED BY <4>1, <4>2
    <3>3. \A f, g \in Entry : In(list'["doing"], f) /\ In(list'["doing"], g) => f = g
      BY <2>7, Names DEF Inv, TicketInv
    <3> QED BY <3>1, <3>2, <3>3 DEF TicketInv
  <2>12. FlightInv'
    <3>1. /\ flight' \subseteq flight
          /\ \A f \in flight' : f.add # e.add
      BY <1>2, <2>1
    <3>2. \A f \in flight' : f.add \notin created'
      BY <2>1, <3>1 DEF Inv, FlightInv
    <3>3. \A a \in created' : sent[a] # None
      BY <1>1, <2>1 DEF Inv, FlightInv
    <3> QED BY <2>1, <3>1, <3>2, <3>3 DEF Inv, FlightInv
  <2>13. HistoryInv' /\ CommandInv'
    BY <1>1, <2>1 DEF Inv, HistoryInv, CommandInv
  <2> QED BY <2>9, <2>11, <2>12, <2>13 DEF Inv
<1> QED BY <1>3, <1>4

\* Retention removes the oldest entries of done, and their tickets with them.
LEMMA TrimStep == ASSUME Inv, TrimDone PROVE Inv'
<1> DEFINE s == list["done"]
           t == LTrim(s, DoneMax)
           m == Len(s) - DoneMax
           Gone == {s[i].add : i \in 1 .. m}
<1>1. /\ s \in Seq(Entry) /\ IsInjective(s) /\ "done" \in Lists
      /\ Len(s) \in Nat /\ DOMAIN s = 1 .. Len(s) /\ Len(s) > DoneMax /\ m \in Nat
      /\ \A i \in 1 .. Len(s) : s[i] \in Entry /\ In(s, s[i])
      /\ \A i \in 1 .. m : i \in 1 .. Len(s)
  <2>1. s \in Seq(Entry) /\ IsInjective(s) /\ "done" \in Lists
    BY Names DEF Inv, ListInv
  <2>2. Len(s) \in Nat /\ DOMAIN s = 1 .. Len(s)
    BY <2>1, LenProperties
  <2>3. Len(s) > DoneMax
    BY DEF TrimDone
  <2>4. \A i \in 1 .. Len(s) : s[i] \in Entry /\ In(s, s[i])
    BY <2>1, <2>2, ElementOfSeq DEF In
  <2> HIDE DEF s
  <2> QED BY <2>1, <2>2, <2>3, <2>4, CapsAssumption
<1>2. /\ list' = [list EXCEPT !["done"] = t]
      /\ removed' = removed \cup Gone
      /\ UNCHANGED <<cmd, flight, sent, created, told, titled, started>>
  BY DEF TrimDone
<1>3. \A f, g \in Entry, r, q \in Lists :
        In(list[r], f) /\ In(list[q], g) /\ f.add = g.add => r = q /\ f = g
  BY DEF Inv, ListInv
<1>4. /\ t \in Seq(Entry) /\ IsInjective(t)
      /\ \A f : In(t, f) <=> \E i \in m + 1 .. Len(s) : s[i] = f
  <2> HIDE DEF s
  <2>1. t \in Seq(Entry) /\ IsInjective(t)
    BY <1>1, LTrimIn, CapsAssumption
  <2>2. \A f : In(t, f) <=> \E i \in m + 1 .. Len(s) : s[i] = f
    BY <1>1, LTrimPlaces, CapsAssumption
  <2> QED BY <2>1, <2>2
<1> HIDE DEF t
<1>5. /\ list' \in [Lists -> Seq(Entry)]
      /\ \A r \in Lists : list'[r] = IF r = "done" THEN t ELSE list[r]
  BY <1>2, <1>4 DEF Inv, ListInv
<1>6. ASSUME NEW r \in Lists, NEW f \in Entry
      PROVE  In(list'[r], f) <=> In(list[r], f) /\ f.add \notin Gone
  <2>1. \A i \in 1 .. m : i \in 1 .. Len(s) /\ s[i] \in Entry /\ In(s, s[i])
    <3> HIDE DEF s
    <3> QED BY <1>1
  <2>2. CASE r # "done"
    <3>1. ASSUME In(list[r], f), f.add \in Gone PROVE FALSE
      <4>1. PICK i \in 1 .. m : f.add = s[i].add
        BY <3>1
      <4>2. s[i] \in Entry /\ In(list["done"], s[i])
        BY <2>1, <4>1
      <4> HIDE DEF s
      <4> QED BY <1>1, <1>3, <2>2, <3>1, <4>1, <4>2
    <3> QED BY <1>5, <2>2, <3>1
  <2>3. CASE r = "done"
    <3>1. In(list'[r], f) <=> \E i \in m + 1 .. Len(s) : s[i] = f
      BY <1>1, <1>4, <1>5, <2>3
    <3>2. ASSUME NEW i \in m + 1 .. Len(s), s[i] = f
          PROVE  In(list[r], f) /\ f.add \notin Gone
      <4>1. i \in 1 .. Len(s)
        BY <1>1, CapsAssumption
      <4>2. ASSUME NEW j \in 1 .. m, f.add = s[j].add PROVE FALSE
        <5>1. s[j] = s[i] /\ j \in 1 .. Len(s)
          BY <1>1, <1>3, <2>1, <3>2, <4>1, <4>2
        <5>2. i = j
          BY <1>1, <4>1, <5>1 DEF IsInjective
        <5> QED BY <1>1, <5>2
      <4> QED BY <1>1, <2>3, <3>2, <4>1, <4>2
    <3>3. ASSUME In(list[r], f), f.add \notin Gone
          PROVE  \E i \in m + 1 .. Len(s) : s[i] = f
      <4>1. PICK i \in 1 .. Len(s) : s[i] = f
        BY <1>1, <2>3, <3>3 DEF In
      <4>2. i \notin 1 .. m
        BY <3>3, <4>1
      <4>3. i \in m + 1 .. Len(s)
        BY <1>1, <4>2
      <4> QED BY <4>1, <4>3
    <3> QED BY <3>1, <3>2, <3>3
  <2> QED BY <2>2, <2>3
<1>7. \A r \in Lists : IsInjective(list'[r])
  BY <1>4, <1>5 DEF Inv, ListInv
<1>8. Gone \subseteq created
  <2>1. \A i \in 1 .. m : s[i] \in Entry /\ In(list["done"], s[i])
    <3>1. \A i \in 1 .. m : s[i] \in Entry /\ In(s, s[i])
      <4> HIDE DEF s
      <4> QED BY <1>1
    <3> QED BY <3>1
  <2>2. \A i \in 1 .. m : s[i].add \in created
    BY <1>1, <2>1 DEF Inv, TicketInv, Carried
  <2> QED BY <2>2
<1> HIDE DEF Gone, s
<1>9. ListInv'
  BY <1>5, <1>6, <1>7, <1>3 DEF ListInv
<1>10. TicketInv'
  <2>1. ASSUME NEW r \in Lists, NEW f \in Entry, In(list'[r], f) PROVE Carried(r, f)'
    <3>1. Carried(r, f) /\ f.add \notin Gone
      BY <1>6, <2>1 DEF Inv, TicketInv
    <3> QED BY <1>2, <3>1 DEF Carried
  <2>2. ASSUME NEW a \in (created \ removed)'
        PROVE  \E r \in Lists, f \in Entry : In(list'[r], f) /\ f.add = a
    <3>1. a \in created \ removed /\ a \notin Gone
      BY <1>2
    <3>2. PICK r \in Lists, f \in Entry : In(list[r], f) /\ f.add = a
      BY <3>1 DEF Inv, TicketInv
    <3> QED BY <1>6, <3>1, <3>2
  <2>3. \A f, g \in Entry : In(list'["doing"], f) /\ In(list'["doing"], g) => f = g
    BY <1>6, Names DEF Inv, TicketInv
  <2> QED BY <2>1, <2>2, <2>3 DEF TicketInv
<1>11. FlightInv' /\ CommandInv' /\ HistoryInv'
  BY <1>2, <1>8 DEF Inv, FlightInv, CommandInv, HistoryInv
<1> QED BY <1>9, <1>10, <1>11 DEF Inv

-----------------------------------------------------------------------------
(* The invariant holds *)

\* Every step keeps the invariant.
LEMMA InvStep == ASSUME Inv, [Next]_vars PROVE Inv'
<1>1. CASE UNCHANGED vars
  BY <1>1, BoardSame DEF vars, Inv, CommandInv
<1>2. ASSUME NEW p \in Procs, Look(p) PROVE Inv'
  <2>1. CASE CheckDoing(p)
    BY <2>1, CheckStep
  <2>2. CASE Read(p)
    BY <2>2, ReadStep
  <2>3. CASE Refuse(p)
    BY <2>3, EndStep DEF Refuse
  <2>4. CASE Quarantine(p)
    BY <2>4, QuarantineStep
  <2>5. CASE QuarantineFails(p)
    BY <2>5, EndStep DEF QuarantineFails
  <2> QED BY <1>2, <2>1, <2>2, <2>3, <2>4, <2>5 DEF Look
<1>3. ASSUME NEW p \in Procs, Act(p) PROVE Inv'
  <2>1. CASE Take(p)
    BY <2>1, TakeStep
  <2>2. CASE Cancel(p)
    BY <2>2, CancelStep
  <2>3. CASE Return(p)
    BY <2>3, ReturnStep
  <2>4. CASE Hold(p)
    BY <2>4, HoldStep
  <2>5. CASE Reopen(p) \/ Requeue(p)
    BY <2>5, ReopenStep
  <2>6. CASE \E outcome \in Outcomes : Done(p, outcome)
    BY <2>6, DoneStep
  <2>7. CASE \E title \in Titles : Retitle(p, title)
    BY <2>7, RetitleStep
  <2>8. CASE Note(p)
    BY <2>8, NoteStep
  <2>9. CASE Delete(p)
    BY <2>9, DeleteStep
  <2>10. CASE Changed(p)
    BY <2>10, EndStep DEF Changed
  <2>11. CASE Send(p)
    BY <2>11, SendStep
  <2> QED BY <1>3, <2>1, <2>2, <2>3, <2>4, <2>5, <2>6, <2>7, <2>8, <2>9, <2>10, <2>11
          DEF Act
<1>4. ASSUME NEW p \in Procs, Interrupt(p) PROVE Inv'
  BY <1>4, EndStep DEF Interrupt
<1>5. CASE \E a \in Adds, id \in Ids, ok \in BOOLEAN : AddNew(a, id, ok)
  BY <1>5, SendStep
<1>6. CASE \E e \in flight : Create(e) \/ Stray(e)
  BY <1>6, ArriveStep
<1>7. CASE TrimDone
  BY <1>7, TrimStep
<1> QED BY <1>1, <1>2, <1>3, <1>4, <1>5, <1>6, <1>7, CommandStep DEF Next

\* The invariant holds throughout.
THEOREM Invariance == Spec => []Inv
BY InvInit, InvStep, PTL DEF Spec

-----------------------------------------------------------------------------
(* What the runs check *)

\* An element of a list, by its place.
LEMMA Elements ==
    ASSUME ListInv, NEW s \in Lists, NEW i \in DOMAIN list[s]
    PROVE  list[s][i] \in Entry /\ In(list[s], list[s][i])
<1>1. list[s] \in Seq(Entry)
  BY DEF ListInv
<1>2. DOMAIN list[s] = 1 .. Len(list[s])
  BY <1>1, LenProperties
<1> QED BY <1>1, <1>2, ElementOfSeq DEF In

\* Every variable keeps its type.
THEOREM TypeCorrect == Spec => []TypeOK
<1>1. Inv => TypeOK
  BY DEF Inv, ListInv, FlightInv, CommandInv, HistoryInv, Sound, Marks, TypeOK
<1> QED BY <1>1, Invariance, PTL

\* At most one ticket is being done.
THEOREM OneDoingHolds == Spec => []OneDoing
<1>1. ASSUME Inv PROVE OneDoing
  <2> DEFINE s == list["doing"]
  <2>1. "doing" \in Lists
    BY Names
  <2>2. s \in Seq(Entry) /\ IsInjective(s)
    BY <1>1, <2>1 DEF Inv, ListInv
  <2>3. Len(s) \in Nat /\ DOMAIN s = 1 .. Len(s)
    BY <2>2, LenProperties
  <2>4. \A i \in DOMAIN s : s[i] \in Entry /\ In(s, s[i])
    BY <1>1, <2>1, Elements DEF Inv
  <2>5. \A i, j \in DOMAIN s : s[i] = s[j]
    BY <1>1, <2>4 DEF Inv, TicketInv
  <2> HIDE DEF s
  <2>6. \A i, j \in DOMAIN s : i = j
    BY <2>2, <2>5 DEF IsInjective
  <2>7. ~(Len(s) > 1)
    <3>1. Len(s) > 1 => 1 \in DOMAIN s /\ 2 \in DOMAIN s
      BY <2>3
    <3> QED BY <2>6, <3>1
  <2> QED BY <2>3, <2>7 DEF OneDoing, s
<1> QED BY <1>1, Invariance, PTL

\* The places of a ticket: one while it is on the board, else none.
LEMMA PlacesCounted ==
    ASSUME Inv, NEW a \in Adds
    PROVE  Cardinality(Places(a)) = IF a \in created \ removed THEN 1 ELSE 0
<1>1. \A x : x \in Places(a) <=>
        \E s \in Lists : \E i \in DOMAIN list[s] : x = <<s, i>> /\ list[s][i].add = a
  BY DEF Places
<1>2. \A s \in Lists : \A i \in DOMAIN list[s] : list[s][i] \in Entry /\ In(list[s], list[s][i])
  BY Elements DEF Inv
<1>3. CASE a \in created \ removed
  <2>1. PICK s \in Lists, e \in Entry : In(list[s], e) /\ e.add = a
    BY <1>3 DEF Inv, TicketInv
  <2>2. PICK i \in DOMAIN list[s] : list[s][i] = e
    BY <2>1 DEF In
  <2>3. ASSUME NEW r \in Lists, NEW j \in DOMAIN list[r], list[r][j].add = a
        PROVE  r = s /\ j = i
    <3>1. r = s /\ list[r][j] = e
      BY <1>2, <2>1, <2>3 DEF Inv, ListInv
    <3>2. IsInjective(list[s])
      BY DEF Inv, ListInv
    <3> QED BY <2>2, <3>1, <3>2 DEF IsInjective
  <2>4. Places(a) = {<<s, i>>}
    <3>1. <<s, i>> \in Places(a)
      BY <1>1, <2>1, <2>2
    <3>2. ASSUME NEW x \in Places(a) PROVE x = <<s, i>>
      <4>1. PICK r \in Lists : \E j \in DOMAIN list[r] : x = <<r, j>> /\ list[r][j].add = a
        BY <1>1
      <4>2. PICK j \in DOMAIN list[r] : x = <<r, j>> /\ list[r][j].add = a
        BY <4>1
      <4> QED BY <2>3, <4>2
    <3> QED BY <3>1, <3>2
  <2>5. Cardinality({<<s, i>>}) = 1
    BY FS_Singleton
  <2> QED BY <1>3, <2>4, <2>5
<1>4. CASE a \notin created \ removed
  <2>1. Places(a) = {}
    <3> SUFFICES ASSUME NEW x \in Places(a) PROVE FALSE
      OBVIOUS
    <3>1. PICK s \in Lists : \E i \in DOMAIN list[s] : list[s][i].add = a
      BY <1>1
    <3>2. PICK i \in DOMAIN list[s] : list[s][i].add = a
      BY <3>1
    <3> QED BY <1>2, <1>4, <3>2 DEF Inv, TicketInv, Carried
  <2> QED BY <1>4, <2>1, FS_EmptySet
<1> QED BY <1>3, <1>4

\* A ticket that was written and not removed is in one list, once, and its status
\* says which; any other is in none.
THEOREM TicketKeptHolds == Spec => []TicketKept
<1>1. ASSUME Inv PROVE TicketKept
  <2>1. \A s \in Lists : \A i \in DOMAIN list[s] : Carried(s, list[s][i])
    BY <1>1, Elements DEF Inv, TicketInv
  <2> QED BY <1>1, <2>1, PlacesCounted DEF TicketKept, Carried, Bad
<1> QED BY <1>1, Invariance, PTL

\* A ticket carries every note, title and verdict that took effect.
THEOREM RecordKeptHolds == Spec => []RecordKept
<1>1. ASSUME Inv PROVE RecordKept
  <2> SUFFICES ASSUME NEW s \in States, NEW i \in DOMAIN list[s]
               PROVE  LET e == list[s][i]
                      IN /\ e.title = titled[e.add]
                         /\ told[e.add] = IF s = "done" THEN Append(e.notes, Previous(e))
                                          ELSE e.notes
    BY DEF RecordKept
  <2>1. s \in Lists /\ s # "invalid"
    BY Names
  <2>2. Carried(s, list[s][i])
    BY <1>1, <2>1, Elements DEF Inv, TicketInv
  <2> QED BY <2>1, <2>2 DEF Carried
<1> QED BY <1>1, Invariance, PTL

-----------------------------------------------------------------------------
(* The card of a ticket *)

\* Card, for given lists and removed tickets.
HeldIn(l, a) == {s \in Lists : \E i \in DOMAIN l[s] : l[s][i].add = a}

StoredIn(l, a, s) == l[s][CHOOSE i \in DOMAIN l[s] : l[s][i].add = a]

\* The card of a ticket without an entry, and of one with entry e in list s.
Away(gone, a) == [state |-> IF a \in gone THEN "gone" ELSE "absent",
                  title |-> Original, notes |-> <<>>, verdict |-> "none"]

View(s, e) == [state |-> IF s = "todo" /\ Bad(e) THEN "unread" ELSE s,
               title |-> e.title, notes |-> e.notes,
               verdict |-> IF s = "done" THEN Previous(e) ELSE "none"]

CardIn(l, gone, a) ==
    IF HeldIn(l, a) = {} THEN Away(gone, a)
    ELSE LET s == CHOOSE s \in HeldIn(l, a) : TRUE IN View(s, StoredIn(l, a, s))

\* Lists in which no ticket has two entries (ListInv).
Apart(l) ==
    /\ l \in [Lists -> Seq(Entry)]
    /\ \A s, r \in Lists, e, f \in Entry :
         In(l[s], e) /\ In(l[r], f) /\ e.add = f.add => s = r /\ e = f

\* The elements of such lists, by their places.
LEMMA ApartElements ==
    ASSUME NEW l, Apart(l), NEW s \in Lists, NEW i \in DOMAIN l[s]
    PROVE  l[s][i] \in Entry /\ In(l[s], l[s][i])
<1>1. l[s] \in Seq(Entry)
  BY DEF Apart
<1>2. DOMAIN l[s] = 1 .. Len(l[s])
  BY <1>1, LenProperties
<1> QED BY <1>1, <1>2, ElementOfSeq DEF In

\* A ticket's card shows its only entry.
LEMMA CardShows ==
    ASSUME NEW l, Apart(l), NEW gone, NEW s \in Lists, NEW e \in Entry, In(l[s], e)
    PROVE  CardIn(l, gone, e.add) = View(s, e)
<1> DEFINE a == e.add
<1>1. PICK k \in DOMAIN l[s] : l[s][k] = e
  BY DEF In
<1>2. ASSUME NEW r \in Lists, NEW i \in DOMAIN l[r], l[r][i].add = a
      PROVE  r = s /\ l[r][i] = e
  BY <1>2, ApartElements DEF Apart
<1>3. HeldIn(l, a) = {s}
  BY <1>1, <1>2 DEF HeldIn
<1>4. StoredIn(l, a, s) = e
  <2>1. (CHOOSE i \in DOMAIN l[s] : l[s][i].add = a) \in DOMAIN l[s]
        /\ l[s][CHOOSE i \in DOMAIN l[s] : l[s][i].add = a].add = a
    BY <1>1
  <2> QED BY <1>2, <2>1 DEF StoredIn
<1>5. (CHOOSE r \in {s} : TRUE) = s
  OBVIOUS
<1> QED BY <1>3, <1>4, <1>5 DEF CardIn

\* A ticket without an entry is gone or absent.
LEMMA CardAway ==
    ASSUME NEW l, Apart(l), NEW gone, NEW a,
           \A s \in Lists, e \in Entry : In(l[s], e) => e.add # a
    PROVE  CardIn(l, gone, a) = Away(gone, a)
<1>1. HeldIn(l, a) = {}
  BY ApartElements DEF HeldIn
<1> QED BY <1>1 DEF CardIn

\* The mapped variable, now and after a step.
LEMMA CardIsCardIn ==
    /\ card = [a \in Adds |-> CardIn(list, removed, a)]
    /\ card' = [a \in Adds |-> CardIn(list', removed', a)]
BY DEF card, Card, CardIn, Held, HeldIn, Stored, StoredIn, View, Away

\* A script that rewrites one entry changes the card of its ticket alone.
LEMMA CardRewritten ==
    ASSUME Inv, Inv', NEW from \in Lists, NEW to \in Lists, NEW old \in Entry,
           NEW new \in Entry, In(list[from], old), new.add = old.add,
           Rewrites(old, to, new), removed' = removed
    PROVE  /\ old.add \in Adds
           /\ card[old.add] = View(from, old)
           /\ card' = [card EXCEPT ![old.add] = View(to, new)]
<1>1. Apart(list) /\ Apart(list')
  BY DEF Inv, ListInv, Apart
<1>2. old.add \in Adds
  BY DEF Entry
<1>3. CardIn(list, removed, old.add) = View(from, old)
  BY <1>1, CardShows
<1>4. In(list'[to], new)
  BY DEF Rewrites
<1>5. CardIn(list', removed', new.add) = View(to, new)
  BY <1>1, <1>4, CardShows
<1>6. ASSUME NEW a \in Adds, a # old.add
      PROVE  CardIn(list', removed', a) = CardIn(list, removed, a)
  <2>1. CASE \E s \in Lists, e \in Entry : In(list[s], e) /\ e.add = a
    <3>1. PICK s \in Lists, e \in Entry : In(list[s], e) /\ e.add = a
      BY <2>1
    <3>2. In(list'[s], e)
      BY <1>6, <3>1 DEF Rewrites
    <3>3. CardIn(list, removed, e.add) = View(s, e)
      BY <1>1, <3>1, CardShows
    <3>4. CardIn(list', removed', e.add) = View(s, e)
      BY <1>1, <3>2, CardShows
    <3> QED BY <3>1, <3>3, <3>4
  <2>2. CASE \A s \in Lists, e \in Entry : In(list[s], e) => e.add # a
    <3>1. \A s \in Lists, e \in Entry : In(list'[s], e) => e.add # a
      BY <1>6, <2>2 DEF Rewrites
    <3>2. CardIn(list, removed, a) = Away(removed, a)
      BY <1>1, <2>2, CardAway
    <3>3. CardIn(list', removed', a) = Away(removed', a)
      BY <1>1, <3>1, CardAway
    <3> QED BY <3>2, <3>3
  <2> QED BY <2>1, <2>2
<1> HIDE DEF Inv, Rewrites
<1> QED BY <1>2, <1>3, <1>5, <1>6, CardIsCardIn

\* While the list doing is empty, no card is in doing.
LEMMA NoneDoingNow ==
    ASSUME Inv, list["doing"] = <<>>
    PROVE  \A b \in Adds : card[b].state # "doing"
<1>1. Apart(list)
  BY DEF Inv, ListInv, Apart
<1> SUFFICES ASSUME NEW b \in Adds PROVE CardIn(list, removed, b).state # "doing"
  BY CardIsCardIn
<1>2. CASE \E s \in Lists, e \in Entry : In(list[s], e) /\ e.add = b
  <2>1. PICK s \in Lists, e \in Entry : In(list[s], e) /\ e.add = b
    BY <1>2
  <2>2. s # "doing"
    BY <2>1 DEF In
  <2>3. CardIn(list, removed, e.add) = View(s, e)
    BY <1>1, <2>1, CardShows
  <2> QED BY <2>1, <2>2, <2>3 DEF View
<1>3. CASE \A s \in Lists, e \in Entry : In(list[s], e) => e.add # b
  <2>1. CardIn(list, removed, b) = Away(removed, b)
    BY <1>1, <1>3, CardAway
  <2> QED BY <2>1 DEF Away
<1> QED BY <1>2, <1>3

-----------------------------------------------------------------------------
(* Every command is one step on one ticket *)

\* The ticket that a transition moves, before and after.
LEMMA TransitionShows ==
    ASSUME Inv, Inv', NEW p \in Procs, NEW Kinds \in SUBSET Commands, Applies(p, Kinds),
           NEW x, x = Choice(cmd[p]), NEW to \in Lists, x.at # to,
           NEW new \in Entry, new.add = x.entry.add, Transition(p, x, to, new)
    PROVE  /\ x.entry.add \in Adds
           /\ card[x.entry.add] = View(x.at, x.entry)
           /\ card' = [card EXCEPT ![x.entry.add] = View(to, new)]
<1>1. /\ x.at \in Lists /\ x.entry \in Entry /\ In(list[x.at], x.entry)
      /\ Transfer(x.at, x.entry, to, new) /\ removed' = removed
  BY Chosen DEF Transition, Transfer
<1>2. Rewrites(x.entry, to, new)
  BY <1>1, TransferMoves DEF Inv
<1> QED BY <1>1, <1>2, CardRewritten

\* take puts an open ticket in doing, where there is none.
LEMMA TakeKept == ASSUME Inv, Inv', NEW p \in Procs, Take(p)
                  PROVE  \E a \in Adds : Promise!Take(a)
<1>1. PICK x : x = Choice(cmd[p])
  OBVIOUS
<1> DEFINE new == [x.entry EXCEPT !.status = "doing"]
<1>2. Applies(p, {"take"}) /\ Transition(p, x, "doing", new)
  BY <1>1 DEF Take
<1>3. cmd[p].do = "take" /\ x.at \in {"todo", "hold"} /\ x.entry \in Entry /\ x.entry.ok
  BY <1>1, <1>2, Chosen, Names DEF Reach
<1>4. new \in Entry /\ new.add = x.entry.add /\ new.ok
      /\ new.title = x.entry.title /\ new.notes = x.entry.notes
  BY <1>3, Names DEF Entry
<1> HIDE DEF new
<1>5. /\ x.entry.add \in Adds /\ card[x.entry.add] = View(x.at, x.entry)
      /\ card' = [card EXCEPT ![x.entry.add] = View("doing", new)]
  BY <1>1, <1>2, <1>3, <1>4, TransitionShows, Names
<1>6. \A b \in Adds : card[b].state # "doing"
  BY <1>2, <1>3, NoneDoingNow DEF Take, Busy
<1>7. /\ View(x.at, x.entry).state \in {"todo", "hold"}
      /\ View("doing", new) = [View(x.at, x.entry) EXCEPT !.state = "doing"]
  BY <1>3, <1>4 DEF View, Bad
<1> HIDE DEF Inv
<1> QED BY <1>5, <1>6, <1>7 DEF Promise!Take, Promise!NoneDoing, Promise!Becomes

\* done gives the ticket in doing its verdict.
LEMMA DoneKept == ASSUME Inv, Inv', NEW p \in Procs, NEW outcome \in Outcomes, Done(p, outcome)
                  PROVE  \E a \in Adds : Promise!Finish(a, outcome)
<1>1. PICK x : x = Choice(cmd[p])
  OBVIOUS
<1> DEFINE new == [x.entry EXCEPT !.status = "done", !.outcome = outcome]
<1>2. Applies(p, {"done"}) /\ Transition(p, x, "done", new)
  BY <1>1 DEF Done
<1>3. x.at = "doing" /\ x.entry \in Entry /\ x.entry.ok
  BY <1>1, <1>2, Chosen, Names DEF Reach
<1>4. new \in Entry /\ new.add = x.entry.add /\ new.status = "done" /\ new.ok
      /\ new.outcome = outcome /\ new.title = x.entry.title /\ new.notes = x.entry.notes
  BY <1>3, Names DEF Entry
<1> HIDE DEF new
<1>5. /\ x.entry.add \in Adds /\ card[x.entry.add] = View(x.at, x.entry)
      /\ card' = [card EXCEPT ![x.entry.add] = View("done", new)]
  BY <1>1, <1>2, <1>3, <1>4, TransitionShows, Names
<1>6. /\ View(x.at, x.entry).state = "doing"
      /\ View("done", new) = [View(x.at, x.entry) EXCEPT !.state = "done", !.verdict = outcome]
  <2>1. View("done", new) = [state |-> "done", title |-> x.entry.title,
                             notes |-> x.entry.notes, verdict |-> outcome]
    BY <1>4 DEF View, Previous
  <2>2. View(x.at, x.entry) = [state |-> "doing", title |-> x.entry.title,
                               notes |-> x.entry.notes, verdict |-> "none"]
    BY <1>3 DEF View
  <2> DEFINE C == [state : {"doing", "done"}, title : {x.entry.title},
                   notes : {x.entry.notes}, verdict : {"none", outcome}]
             d == [View(x.at, x.entry) EXCEPT !.state = "done", !.verdict = outcome]
  <2>3. /\ d \in C /\ d.state = "done" /\ d.title = x.entry.title
        /\ d.notes = x.entry.notes /\ d.verdict = outcome
    <3>1. /\ View(x.at, x.entry) \in C
          /\ View(x.at, x.entry).title = x.entry.title
          /\ View(x.at, x.entry).notes = x.entry.notes
      BY <2>2
    <3> QED BY <3>1
  <2>4. /\ View("done", new) \in C /\ View("done", new).state = "done"
        /\ View("done", new).title = x.entry.title
        /\ View("done", new).notes = x.entry.notes /\ View("done", new).verdict = outcome
    BY <2>1
  <2> HIDE DEF d
  <2>5. View("done", new) = d
    BY <2>3, <2>4
  <2> QED BY <2>2, <2>5 DEF d
<1> QED BY <1>5, <1>6 DEF Promise!Finish, Promise!Becomes

\* cancel gives an unfinished ticket the verdict "cancelled".
LEMMA CancelKept == ASSUME Inv, Inv', NEW p \in Procs, Cancel(p)
                    PROVE  \E a \in Adds : Promise!Cancel(a)
<1>1. PICK x : x = Choice(cmd[p])
  OBVIOUS
<1> DEFINE new == [x.entry EXCEPT !.status = "cancelled"]
<1>2. Applies(p, {"cancel"}) /\ Transition(p, x, "done", new)
  BY <1>1 DEF Cancel
<1>3. x.at \in {"doing", "todo"} /\ x.entry \in Entry /\ x.entry.ok
  BY <1>1, <1>2, Chosen, Names DEF Reach
<1>4. new \in Entry /\ new.add = x.entry.add /\ new.status = "cancelled" /\ new.ok
      /\ new.title = x.entry.title /\ new.notes = x.entry.notes
  BY <1>3 DEF Entry
<1> HIDE DEF new
<1>5. {"cancel"} \in SUBSET Commands /\ "done" \in Lists /\ x.at # "done"
  BY <1>3, Names
<1>6. /\ x.entry.add \in Adds /\ card[x.entry.add] = View(x.at, x.entry)
      /\ card' = [card EXCEPT ![x.entry.add] = View("done", new)]
  BY <1>1, <1>2, <1>4, <1>5, TransitionShows
<1>7. /\ View(x.at, x.entry).state \in {"doing", "todo"}
      /\ View("done", new) = [View(x.at, x.entry) EXCEPT !.state = "done",
                                                         !.verdict = "cancelled"]
  <2>1. View("done", new) = [state |-> "done", title |-> x.entry.title,
                             notes |-> x.entry.notes, verdict |-> "cancelled"]
    BY <1>4 DEF View, Previous
  <2>2. View(x.at, x.entry) = [state |-> x.at, title |-> x.entry.title,
                               notes |-> x.entry.notes, verdict |-> "none"]
    BY <1>3 DEF View, Bad
  <2> DEFINE C == [state : {x.at, "done"}, title : {x.entry.title},
                   notes : {x.entry.notes}, verdict : {"none", "cancelled"}]
             d == [View(x.at, x.entry) EXCEPT !.state = "done", !.verdict = "cancelled"]
  <2>3. /\ d \in C /\ d.state = "done" /\ d.title = x.entry.title
        /\ d.notes = x.entry.notes /\ d.verdict = "cancelled"
    <3>1. /\ View(x.at, x.entry) \in C
          /\ View(x.at, x.entry).title = x.entry.title
          /\ View(x.at, x.entry).notes = x.entry.notes
      BY <2>2
    <3> QED BY <3>1
  <2>4. /\ View("done", new) \in C /\ View("done", new).state = "done"
        /\ View("done", new).title = x.entry.title
        /\ View("done", new).notes = x.entry.notes /\ View("done", new).verdict = "cancelled"
    BY <2>1
  <2> HIDE DEF d
  <2>5. View("done", new) = d
    BY <2>3, <2>4
  <2> QED BY <1>3, <2>2, <2>5 DEF d
<1> QED BY <1>6, <1>7 DEF Promise!Cancel, Promise!Becomes

\* return and hold put an unfinished ticket back or aside.
LEMMA PutBackKept ==
    ASSUME Inv, Inv', NEW p \in Procs, Return(p) \/ Hold(p)
    PROVE  \E a \in Adds : Promise!Return(a) \/ Promise!Hold(a)
<1>1. PICK x : x = Choice(cmd[p])
  OBVIOUS
<1>2. CASE Return(p)
  <2> DEFINE new == [x.entry EXCEPT !.status = "todo", !.outcome = "none"]
  <2>1. Applies(p, {"return"}) /\ Transition(p, x, "todo", new)
    BY <1>1, <1>2 DEF Return
  <2>2. x.at = "doing" /\ x.entry \in Entry /\ x.entry.ok
    BY <1>1, <2>1, Chosen, Names DEF Reach
  <2>3. new \in Entry /\ new.add = x.entry.add /\ new.ok
        /\ new.title = x.entry.title /\ new.notes = x.entry.notes
    BY <2>2, Names DEF Entry
  <2> HIDE DEF new
  <2>4. {"return"} \in SUBSET Commands /\ "todo" \in Lists /\ x.at # "todo"
    BY <2>2, Names
  <2>5. /\ x.entry.add \in Adds /\ card[x.entry.add] = View(x.at, x.entry)
        /\ card' = [card EXCEPT ![x.entry.add] = View("todo", new)]
    BY <1>1, <2>1, <2>3, <2>4, TransitionShows
  <2>6. /\ View(x.at, x.entry).state = "doing"
        /\ View("todo", new) = [View(x.at, x.entry) EXCEPT !.state = "todo"]
    BY <2>2, <2>3 DEF View, Bad
  <2> QED BY <2>5, <2>6 DEF Promise!Return, Promise!Becomes
<1>3. CASE Hold(p)
  <2> DEFINE new == [x.entry EXCEPT !.status = "hold"]
  <2>1. Applies(p, {"hold"}) /\ Transition(p, x, "hold", new)
    BY <1>1, <1>3 DEF Hold
  <2>2. x.at \in {"doing", "todo"} /\ x.entry \in Entry /\ x.entry.ok
    BY <1>1, <2>1, Chosen, Names DEF Reach
  <2>3. new \in Entry /\ new.add = x.entry.add /\ new.ok
        /\ new.title = x.entry.title /\ new.notes = x.entry.notes
    BY <2>2, Names DEF Entry
  <2> HIDE DEF new
  <2>4. {"hold"} \in SUBSET Commands /\ "hold" \in Lists /\ x.at # "hold"
    BY <2>2, Names
  <2>5. /\ x.entry.add \in Adds /\ card[x.entry.add] = View(x.at, x.entry)
        /\ card' = [card EXCEPT ![x.entry.add] = View("hold", new)]
    BY <1>1, <2>1, <2>3, <2>4, TransitionShows
  <2>6. /\ View(x.at, x.entry).state \in {"doing", "todo"}
        /\ View("hold", new) = [View(x.at, x.entry) EXCEPT !.state = "hold"]
    BY <2>2, <2>3 DEF View, Bad
  <2> QED BY <2>5, <2>6 DEF Promise!Hold, Promise!Becomes
<1> QED BY <1>2, <1>3

\* reopen takes a finished ticket up again; its verdict becomes a note.
LEMMA ReopenKept ==
    ASSUME Inv, Inv', NEW p \in Procs, Reopen(p) \/ Requeue(p)
    PROVE  \E a \in Adds, to \in {"todo", "doing"} : Promise!Reopen(a, to)
<1>1. PICK x : x = Choice(cmd[p])
  OBVIOUS
<1>2. PICK to \in {"doing", "todo"} :
        /\ Applies(p, {"reopen", "requeue"})
        /\ to = "doing" => list["doing"] = <<>>
        /\ Transition(p, x, to, Reopened(x.entry, to))
  <2>1. CASE Reopen(p)
    <3>1. cmd[p].do = "reopen"
      BY <2>1 DEF Reopen, Applies
    <3>2. list["doing"] = <<>>
      BY <2>1, <3>1 DEF Reopen, Busy
    <3> QED BY <1>1, <2>1, <3>1, <3>2 DEF Reopen, Applies
  <2>2. CASE Requeue(p)
    BY <1>1, <2>2 DEF Requeue, Applies
  <2> QED BY <2>1, <2>2
<1> DEFINE new == Reopened(x.entry, to)
<1>3. x.at = "done" /\ x.entry \in Entry /\ x.entry.ok /\ Carried(x.at, x.entry)
  BY <1>1, <1>2, Chosen, Names DEF Reach, Transition, Transfer
<1>4. Append(x.entry.notes, Previous(x.entry)) \in Seq(Marks)
  <2>1. Previous(x.entry) \in Marks
    BY <1>3 DEF Carried, Marks
  <2> QED BY <1>3, <2>1, AppendProperties DEF Entry, Marks
<1>5. new \in Entry /\ new.add = x.entry.add /\ new.ok /\ new.title = x.entry.title
      /\ new.notes = Append(x.entry.notes, Previous(x.entry))
  BY <1>3, <1>4, Names DEF Entry, Reopened, Marks
<1>6. {"reopen", "requeue"} \in SUBSET Commands /\ to \in Lists /\ x.at # to
  BY <1>3, Names
<1>7. /\ x.entry.add \in Adds /\ card[x.entry.add] = View(x.at, x.entry)
      /\ card' = [card EXCEPT ![x.entry.add] = View(to, new)]
  <2> HIDE DEF new
  <2> QED BY <1>1, <1>2, <1>5, <1>6, TransitionShows DEF new
<1> HIDE DEF new
<1>8. to = "doing" => \A b \in Adds : card[b].state # "doing"
  BY <1>2, NoneDoingNow
<1>9. /\ View(x.at, x.entry).state = "done"
      /\ View(x.at, x.entry).verdict = Previous(x.entry)
      /\ View(x.at, x.entry).notes = x.entry.notes
      /\ View(to, new) = [View(x.at, x.entry) EXCEPT !.state = to, !.verdict = "none",
                            !.notes = Append(x.entry.notes, Previous(x.entry))]
  <2>1. View(to, new) = [state |-> to, title |-> x.entry.title,
                         notes |-> Append(x.entry.notes, Previous(x.entry)),
                         verdict |-> "none"]
    BY <1>2, <1>5 DEF View, Bad
  <2>2. View(x.at, x.entry) = [state |-> "done", title |-> x.entry.title,
                               notes |-> x.entry.notes, verdict |-> Previous(x.entry)]
    BY <1>3 DEF View
  <2> DEFINE C == [state : {"done", to}, title : {x.entry.title},
                   notes : {x.entry.notes, Append(x.entry.notes, Previous(x.entry))}, verdict : {Previous(x.entry), "none"}]
             d == [View(x.at, x.entry) EXCEPT !.state = to, !.verdict = "none",
                                            !.notes = Append(x.entry.notes, Previous(x.entry))]
  <2>3. /\ d \in C /\ d.state = to /\ d.title = x.entry.title
        /\ d.notes = Append(x.entry.notes, Previous(x.entry)) /\ d.verdict = "none"
    <3>1. /\ View(x.at, x.entry) \in C
          /\ View(x.at, x.entry).title = x.entry.title
          /\ View(x.at, x.entry).notes = x.entry.notes
      BY <2>2
    <3> QED BY <3>1
  <2>4. /\ View(to, new) \in C /\ View(to, new).state = to
        /\ View(to, new).title = x.entry.title
        /\ View(to, new).notes = Append(x.entry.notes, Previous(x.entry)) /\ View(to, new).verdict = "none"
    BY <2>1
  <2> HIDE DEF d
  <2>5. View(to, new) = d
    BY <2>3, <2>4
  <2> QED BY <2>2, <2>5 DEF d
<1> QED BY <1>7, <1>8, <1>9 DEF Promise!Reopen, Promise!NoneDoing, Promise!Becomes

\* retitle and note write on an open ticket.
LEMMA RetitleKept ==
    ASSUME Inv, Inv', NEW p \in Procs, NEW title \in Titles, Retitle(p, title)
    PROVE  \E a \in Adds : Promise!Retitle(a, title)
<1>1. PICK x : x = Choice(cmd[p])
  OBVIOUS
<1> DEFINE new == [x.entry EXCEPT !.title = title]
<1>2. /\ Applies(p, {"retitle"}) /\ In(list[x.at], x.entry)
      /\ list' = [list EXCEPT ![x.at] = Replace(@, x.entry, new)]
      /\ removed' = removed
  BY <1>1 DEF Retitle
<1>3. x.at \in Lists /\ x.at \in Open /\ x.entry \in Entry /\ x.entry.ok
  BY <1>1, <1>2, Chosen, Names DEF Reach
<1>4. new \in Entry /\ new.add = x.entry.add /\ new.ok
      /\ new.title = title /\ new.notes = x.entry.notes
  BY <1>3 DEF Entry
<1> HIDE DEF new
<1>5. Rewrites(x.entry, x.at, new)
  BY <1>2, <1>3, <1>4, ReplaceMoves DEF Inv
<1>6. /\ x.entry.add \in Adds /\ card[x.entry.add] = View(x.at, x.entry)
      /\ card' = [card EXCEPT ![x.entry.add] = View(x.at, new)]
  BY <1>2, <1>3, <1>4, <1>5, CardRewritten
<1>7. /\ View(x.at, x.entry).state \in {"todo", "doing", "hold"}
      /\ View(x.at, new) = [View(x.at, x.entry) EXCEPT !.title = title]
  BY <1>3, <1>4 DEF View, Bad, Open
<1> QED BY <1>6, <1>7 DEF Promise!Retitle, Promise!Becomes

\* A card with another note differs in its notes.
LEMMA Noted ==
    ASSUME NEW s, NEW t, NEW n, NEW more, NEW old, NEW new,
           old = [state |-> s, title |-> t, notes |-> n, verdict |-> "none"],
           new = [state |-> s, title |-> t, notes |-> more, verdict |-> "none"]
    PROVE  new = [old EXCEPT !.notes = more] /\ old.notes = n /\ old.state = s
OBVIOUS

\* The limit of notes is looked at in the reading; the script fails unless the
\* ticket is still as it was read.
LEMMA NoteKept == ASSUME Inv, Inv', NEW p \in Procs, Note(p)
                  PROVE  \E a \in Adds : Promise!Note(a)
<1>1. PICK x : x = Choice(cmd[p])
  OBVIOUS
<1> DEFINE new == [x.entry EXCEPT !.notes = Append(@, "note")]
<1>2. /\ Applies(p, {"note"}) /\ In(list[x.at], x.entry)
      /\ list' = [list EXCEPT ![x.at] = Replace(@, x.entry, new)]
      /\ removed' = removed
  BY <1>1 DEF Note
<1>3. x.at \in Lists /\ x.at \in Open /\ x.entry \in Entry /\ x.entry.ok
  BY <1>1, <1>2, Chosen, Names DEF Reach
<1>4. Append(x.entry.notes, "note") \in Seq(Marks)
  BY <1>3, AppendProperties DEF Entry, Marks
<1>5. new \in Entry /\ new.add = x.entry.add /\ new.ok
      /\ new.title = x.entry.title /\ new.notes = Append(x.entry.notes, "note")
  BY <1>3, <1>4 DEF Entry, Marks
<1>6. Len(x.entry.notes) < NotesMax
  <2>1. cmd[p].do = "note"
    BY <1>2 DEF Applies
  <2> QED BY <1>1, <1>2, <2>1 DEF Applies, Eligible
<1> HIDE DEF new
<1>7. Rewrites(x.entry, x.at, new)
  BY <1>2, <1>3, <1>5, ReplaceMoves DEF Inv
<1>8. /\ x.entry.add \in Adds /\ card[x.entry.add] = View(x.at, x.entry)
      /\ card' = [card EXCEPT ![x.entry.add] = View(x.at, new)]
  BY <1>2, <1>3, <1>5, <1>7, CardRewritten
<1>9. /\ View(x.at, x.entry).state \in {"todo", "doing", "hold"}
      /\ View(x.at, x.entry).notes = x.entry.notes
      /\ View(x.at, new) = [View(x.at, x.entry) EXCEPT !.notes = Append(@, "note")]
  <2>1. View(x.at, new) = [state |-> x.at, title |-> x.entry.title,
                           notes |-> Append(x.entry.notes, "note"), verdict |-> "none"]
    BY <1>3, <1>5 DEF View, Bad, Open
  <2>2. View(x.at, x.entry) = [state |-> x.at, title |-> x.entry.title,
                               notes |-> x.entry.notes, verdict |-> "none"]
    BY <1>3 DEF View, Bad, Open
  <2>3. PICK s, t, n, more : /\ s = x.at /\ t = x.entry.title
                             /\ n = x.entry.notes /\ more = Append(n, "note")
    OBVIOUS
  <2>4. PICK c, d : c = View(x.at, x.entry) /\ d = View(x.at, new)
    OBVIOUS
  <2>5. /\ c = [state |-> s, title |-> t, notes |-> n, verdict |-> "none"]
        /\ d = [state |-> s, title |-> t, notes |-> more, verdict |-> "none"]
    BY <2>1, <2>2, <2>3, <2>4
  <2>6. d = [c EXCEPT !.notes = more] /\ c.notes = n /\ c.state = s
    BY <2>5, Noted
  <2> QED BY <1>3, <2>3, <2>4, <2>6 DEF Open
<1> QED BY <1>6, <1>8, <1>9 DEF Promise!Note, Promise!Becomes

\* An unreadable ticket is put away.
LEMMA QuarantineKept == ASSUME Inv, Inv', NEW p \in Procs, Quarantine(p)
                        PROVE  \E a \in Adds : Promise!PutAway(a)
<1>1. PICK c : c = cmd[p]
  OBVIOUS
<1>2. PICK x : x = Head(c.bad)
  OBVIOUS
<1>3. c.bad # <<>> /\ Transfer(x.at, x.entry, "invalid", x.entry) /\ removed' = removed
  BY <1>1, <1>2 DEF Quarantine, history
<1> DEFINE S == {y \in Sighting : y.at \in States}
<1>4. c.bad \in Seq(S) /\ ~x.entry.ok
  BY <1>1, <1>2, <1>3 DEF Inv, CommandInv, Sound
<1>5. x \in S
  BY <1>2, <1>3, <1>4, HeadTailProperties
<1>6. x.at \in Lists /\ x.at # "invalid" /\ x.entry \in Entry /\ In(list[x.at], x.entry)
  BY <1>3, <1>5, Names DEF Sighting, Transfer
<1>7. Rewrites(x.entry, "invalid", x.entry)
  BY <1>3, <1>6, Names, TransferMoves DEF Inv
<1>8. Carried(x.at, x.entry)
  BY <1>6 DEF Inv, TicketInv
<1>9. x.at = "todo"
  BY <1>4, <1>6, <1>8 DEF Carried
<1>10. /\ x.entry.add \in Adds /\ card[x.entry.add] = View("todo", x.entry)
       /\ card' = [card EXCEPT ![x.entry.add] = View("invalid", x.entry)]
  BY <1>3, <1>6, <1>7, <1>9, Names, CardRewritten
<1>11. /\ View("todo", x.entry).state = "unread"
       /\ View("invalid", x.entry) = [View("todo", x.entry) EXCEPT !.state = "invalid"]
  BY <1>4 DEF View, Bad
<1> QED BY <1>10, <1>11 DEF Promise!PutAway, Promise!Becomes

\* A deleted ticket is gone.
LEMMA DeleteKept == ASSUME Inv, Inv', NEW p \in Procs, Delete(p)
                    PROVE  \E a \in Adds : Promise!Delete(a)
<1>1. PICK x : x = Choice(cmd[p])
  OBVIOUS
<1> DEFINE at == x.at
           old == x.entry
<1>2. /\ Applies(p, {"delete"}) /\ In(list[at], old)
      /\ list' = [list EXCEPT ![at] = LRem(@, old)]
      /\ removed' = removed \cup {old.add}
  BY <1>1 DEF Delete
<1>3. at \in States /\ at \in Lists /\ old \in Entry /\ old.ok /\ old.add \in Adds
  BY <1>1, <1>2, Chosen, Names DEF Reach
<1> HIDE DEF at, old
<1>4. Apart(list) /\ Apart(list')
  BY DEF Inv, ListInv, Apart
<1>5. \A e : In(LRem(list[at], old), e) <=> In(list[at], e) /\ e # old
  BY <1>2, <1>3, LRemIn DEF Inv, ListInv
<1>6. \A r \in Lists : list'[r] = IF r = at THEN LRem(list[at], old) ELSE list[r]
  BY <1>2, <1>3 DEF Inv, ListInv
<1>7. \A r \in Lists, e \in Entry : In(list[r], e) /\ e.add = old.add => e = old /\ r = at
  BY <1>2, <1>3, <1>4 DEF Apart
<1>8. \A r \in Lists, e \in Entry : In(list'[r], e) <=> In(list[r], e) /\ e.add # old.add
  BY <1>5, <1>6, <1>7
<1>9. CardIn(list, removed, old.add) = View(at, old)
  BY <1>2, <1>3, <1>4, CardShows
<1>10. CardIn(list', removed', old.add) = Away(removed', old.add)
  BY <1>4, <1>8, CardAway
<1>11. ASSUME NEW a \in Adds, a # old.add
       PROVE  CardIn(list', removed', a) = CardIn(list, removed, a)
  <2>1. CASE \E s \in Lists, e \in Entry : In(list[s], e) /\ e.add = a
    <3>1. PICK s \in Lists, e \in Entry : In(list[s], e) /\ e.add = a
      BY <2>1
    <3>2. In(list'[s], e)
      BY <1>8, <1>11, <3>1
    <3>3. CardIn(list, removed, e.add) = View(s, e)
      BY <1>4, <3>1, CardShows
    <3>4. CardIn(list', removed', e.add) = View(s, e)
      BY <1>4, <3>2, CardShows
    <3> QED BY <3>1, <3>3, <3>4
  <2>2. CASE \A s \in Lists, e \in Entry : In(list[s], e) => e.add # a
    <3>1. \A s \in Lists, e \in Entry : In(list'[s], e) => e.add # a
      BY <1>8, <2>2
    <3>2. CardIn(list, removed, a) = Away(removed, a)
      BY <1>4, <2>2, CardAway
    <3>3. CardIn(list', removed', a) = Away(removed', a)
      BY <1>4, <3>1, CardAway
    <3> QED BY <1>2, <1>11, <3>2, <3>3 DEF Away
  <2> QED BY <2>1, <2>2
<1>12. Away(removed', old.add) = [Promise!Absent EXCEPT !.state = "gone"]
  BY <1>2 DEF Away, Promise!Absent
<1>13. View(at, old).state \in {"todo", "doing", "hold", "done"}
  BY <1>3, Names DEF View, Bad
<1> HIDE DEF Inv
<1>14. card' = [card EXCEPT ![old.add] = [Promise!Absent EXCEPT !.state = "gone"]]
  BY <1>3, <1>10, <1>11, <1>12, CardIsCardIn
<1>15. card[old.add] = View(at, old)
  BY <1>3, <1>9, CardIsCardIn
<1> QED BY <1>3, <1>13, <1>14, <1>15 DEF Promise!Delete, Promise!Becomes

\* Retention takes finished tickets, and no others.
LEMMA TrimKept == ASSUME Inv, Inv', TrimDone PROVE Promise!Trim
<1> DEFINE s == list["done"]
           Gone == {s[i].add : i \in 1 .. Len(s) - DoneMax}
<1>1. /\ \A r \in Lists : r # "done" => list'[r] = list[r]
      /\ list'["done"] = LTrim(s, DoneMax)
      /\ removed' = removed \cup Gone
      /\ s \in Seq(Entry) /\ "done" \in Lists
  BY Names DEF TrimDone, Inv, ListInv
<1>2. Apart(list) /\ Apart(list')
  BY DEF Inv, ListInv, Apart
<1>3. \A r \in Lists, e \in Entry : In(list'[r], e) => In(list[r], e)
  <2>1. \A e : In(LTrim(s, DoneMax), e) => In(s, e)
    BY <1>1, LTrimIn, CapsAssumption
  <2> QED BY <1>1, <2>1
<1>4. ASSUME NEW a \in Gone
      PROVE  a \in Adds /\ \E e \in Entry : In(s, e) /\ e.add = a
  <2>1. PICK i \in 1 .. Len(s) - DoneMax : a = s[i].add
    BY <1>4
  <2>2. i \in 1 .. Len(s) /\ DOMAIN s = 1 .. Len(s)
    BY <1>1, <2>1, LenProperties, CapsAssumption
  <2>3. s[i] \in Entry
    BY <1>1, <2>2, ElementOfSeq
  <2>4. In(s, s[i])
    BY <2>2 DEF In
  <2> QED BY <2>1, <2>3, <2>4 DEF Entry
<1>5. \A r \in Lists, e \in Entry :
        In(list[r], e) => e.add \in created /\ e.add \notin removed
  BY DEF Inv, TicketInv, Carried
<1>6. \A r \in Lists, e \in Entry :
        In(list'[r], e) => e.add \notin removed'
  BY DEF Inv, TicketInv, Carried
<1>7. \A a \in created : a \notin removed' =>
        \E r \in Lists, e \in Entry : In(list'[r], e) /\ e.add = a
  <2>1. created' = created
    BY DEF TrimDone
  <2> QED BY <2>1 DEF Inv, TicketInv
<1> HIDE DEF Gone
<1>8. ASSUME NEW a \in Adds, a \in Gone
      PROVE  /\ CardIn(list, removed, a).state = "done"
             /\ CardIn(list', removed', a) = [Promise!Absent EXCEPT !.state = "gone"]
  <2>1. PICK e \in Entry : In(s, e) /\ e.add = a
    BY <1>4, <1>8
  <2>2. CardIn(list, removed, e.add) = View("done", e)
    BY <1>1, <1>2, <2>1, CardShows
  <2>3. \A r \in Lists, f \in Entry : In(list'[r], f) => f.add # a
    BY <1>1, <1>6, <1>8
  <2>4. CardIn(list', removed', a) = Away(removed', a)
    BY <1>2, <2>3, CardAway
  <2>5. Away(removed', a) = [Promise!Absent EXCEPT !.state = "gone"]
    BY <1>1, <1>8 DEF Away, Promise!Absent
  <2> QED BY <2>1, <2>2, <2>4, <2>5 DEF View
<1>9. ASSUME NEW a \in Adds, a \notin Gone
      PROVE  CardIn(list', removed', a) = CardIn(list, removed, a)
  <2>1. CASE \E r \in Lists, e \in Entry : In(list[r], e) /\ e.add = a
    <3>1. PICK r \in Lists, e \in Entry : In(list[r], e) /\ e.add = a
      BY <2>1
    <3>2. a \in created /\ a \notin removed'
      BY <1>1, <1>5, <1>9, <3>1
    <3>3. PICK q \in Lists, f \in Entry : In(list'[q], f) /\ f.add = a
      BY <1>7, <3>2
    <3>4. q = r /\ f = e
      BY <1>2, <1>3, <3>1, <3>3 DEF Apart
    <3>5. CardIn(list, removed, e.add) = View(r, e)
      BY <1>2, <3>1, CardShows
    <3>6. CardIn(list', removed', e.add) = View(r, e)
      BY <1>2, <3>3, <3>4, CardShows
    <3> QED BY <3>1, <3>5, <3>6
  <2>2. CASE \A r \in Lists, e \in Entry : In(list[r], e) => e.add # a
    <3>1. \A r \in Lists, e \in Entry : In(list'[r], e) => e.add # a
      BY <1>3, <2>2
    <3>2. CardIn(list, removed, a) = Away(removed, a)
      BY <1>2, <2>2, CardAway
    <3>3. CardIn(list', removed', a) = Away(removed', a)
      BY <1>2, <3>1, CardAway
    <3> QED BY <1>1, <1>9, <3>2, <3>3 DEF Away
  <2> QED BY <2>1, <2>2
<1>10. Gone \in SUBSET {a \in Adds : card[a].state = "done"}
  BY <1>4, <1>8, CardIsCardIn
<1>11. card' = [a \in Adds |-> IF a \in Gone THEN [Promise!Absent EXCEPT !.state = "gone"]
                               ELSE card[a]]
  BY <1>8, <1>9, CardIsCardIn
<1> QED BY <1>10, <1>11 DEF Promise!Trim

\* A ticket that arrives was never there.
LEMMA ArriveKept == ASSUME Inv, Inv', NEW e \in flight, Create(e)
                    PROVE  \E a \in Adds : Promise!Arrive(a)
<1>1. /\ e \in Entry /\ e.add \in Adds /\ e = New(e.add, e.id, e.ok)
      /\ e.add \notin created /\ e.add \notin removed
  BY DEF Inv, FlightInv, HistoryInv, Entry
<1>2. /\ list' = [list EXCEPT !["todo"] = Append(@, e)] /\ removed' = removed
      /\ list["todo"] \in Seq(Entry) /\ "todo" \in Lists
  BY Names DEF Create, Inv, ListInv
<1>3. \A f : In(Append(list["todo"], e), f) <=> In(list["todo"], f) \/ f = e
  BY <1>1, <1>2, AppendIn
<1>4. \A s \in Lists, f \in Entry : In(list'[s], f) <=> In(list[s], f) \/ (s = "todo" /\ f = e)
  BY <1>2, <1>3 DEF Inv, ListInv
<1>5. \A s \in Lists, f \in Entry : In(list[s], f) => f.add # e.add
  BY <1>1 DEF Inv, TicketInv, Carried
<1>6. Apart(list) /\ Apart(list')
  BY DEF Inv, ListInv, Apart
<1>7. CardIn(list, removed, e.add) = Away(removed, e.add)
  BY <1>5, <1>6, CardAway
<1>8. CardIn(list', removed', e.add) = View("todo", e)
  BY <1>1, <1>2, <1>4, <1>6, CardShows
<1>9. ASSUME NEW a \in Adds, a # e.add
      PROVE  CardIn(list', removed', a) = CardIn(list, removed, a)
  <2>1. CASE \E s \in Lists, f \in Entry : In(list[s], f) /\ f.add = a
    <3>1. PICK s \in Lists, f \in Entry : In(list[s], f) /\ f.add = a
      BY <2>1
    <3>2. In(list'[s], f)
      BY <1>4, <3>1
    <3>3. CardIn(list, removed, f.add) = View(s, f)
      BY <1>6, <3>1, CardShows
    <3>4. CardIn(list', removed', f.add) = View(s, f)
      BY <1>6, <3>2, CardShows
    <3> QED BY <3>1, <3>3, <3>4
  <2>2. CASE \A s \in Lists, f \in Entry : In(list[s], f) => f.add # a
    <3>1. \A s \in Lists, f \in Entry : In(list'[s], f) => f.add # a
      BY <1>4, <1>9, <2>2
    <3>2. CardIn(list, removed, a) = Away(removed, a)
      BY <1>6, <2>2, CardAway
    <3>3. CardIn(list', removed', a) = Away(removed', a)
      BY <1>6, <3>1, CardAway
    <3> QED BY <1>2, <3>2, <3>3
  <2> QED BY <2>1, <2>2
<1>10. PICK state \in {"todo", "unread"} :
         View("todo", e) = [Away(removed, e.add) EXCEPT !.state = state]
  <2> DEFINE state == IF Bad(e) THEN "unread" ELSE "todo"
  <2>1. e.title = Original /\ e.notes = <<>>
    BY <1>1 DEF New
  <2>2. View("todo", e) = [Away(removed, e.add) EXCEPT !.state = state]
    BY <2>1 DEF View, Away
  <2> QED BY <2>2
<1> HIDE DEF Inv
<1>11. card' = [card EXCEPT ![e.add].state = state]
  BY <1>1, <1>7, <1>8, <1>9, <1>10, CardIsCardIn
<1>12. card[e.add].state = "absent"
  BY <1>1, <1>7, CardIsCardIn DEF Away
<1> QED BY <1>1, <1>11, <1>12 DEF Promise!Arrive

-----------------------------------------------------------------------------
(* Every step *)

\* The lists and removed tickets are all that a card shows.
LEMMA CardUnchanged == list' = list /\ removed' = removed => card' = card
BY CardIsCardIn

\* Starting, reading, sending and giving up touch no ticket.
LEMMA IdleStep ==
    ASSUME NEW p \in Procs,
           \/ Command(p) \/ CheckDoing(p) \/ Read(p) \/ Refuse(p) \/ QuarantineFails(p)
           \/ Changed(p) \/ Send(p) \/ Interrupt(p)
    PROVE  card' = card
<1>1. list' = list /\ removed' = removed
  <2>1. CASE Command(p)
    BY <2>1 DEF Command, Bare, ById, AddSame, Counts, history
  <2>2. CASE CheckDoing(p) \/ Read(p) \/ Refuse(p) \/ QuarantineFails(p)
    BY <2>2 DEF CheckDoing, Read, Refuse, QuarantineFails, history
  <2>3. CASE Changed(p) \/ Send(p) \/ Interrupt(p)
    BY <2>3 DEF Changed, Send, Interrupt, history
  <2> QED BY <2>1, <2>2, <2>3
<1> QED BY <1>1, CardUnchanged

\* A command that takes effect is one step of the promise.
LEMMA ActStep ==
    ASSUME Inv, Inv', NEW p \in Procs, Act(p)
    PROVE  card' = card \/ \E a \in Adds : Promise!Step(a)
<1> USE DEF Promise!Step
<1>1. CASE Take(p)
  BY <1>1, TakeKept
<1>2. CASE Cancel(p)
  BY <1>2, CancelKept
<1>3. CASE Return(p) \/ Hold(p)
  BY <1>3, PutBackKept
<1>4. CASE Reopen(p) \/ Requeue(p)
  BY <1>4, ReopenKept
<1>5. CASE \E outcome \in Outcomes : Done(p, outcome)
  BY <1>5, DoneKept
<1>6. CASE \E title \in Titles : Retitle(p, title)
  BY <1>6, RetitleKept
<1>7. CASE Note(p)
  BY <1>7, NoteKept
<1>8. CASE Delete(p)
  BY <1>8, DeleteKept
<1>9. CASE Changed(p) \/ Send(p)
  BY <1>9, IdleStep
<1> QED BY <1>1, <1>2, <1>3, <1>4, <1>5, <1>6, <1>7, <1>8, <1>9 DEF Act

\* Every step of the board is a step of the promise or leaves every card alone.
LEMMA StepKept == ASSUME Inv, Inv', [Next]_vars PROVE [Promise!Next]_card
<1> SUFFICES card' = card \/ (\E a \in Adds : Promise!Step(a)) \/ Promise!Trim
  BY DEF Promise!Next
<1>1. ASSUME NEW p \in Procs, Command(p) \/ Interrupt(p) PROVE card' = card
  BY <1>1, IdleStep
<1>2. ASSUME NEW p \in Procs, Look(p)
      PROVE  card' = card \/ \E a \in Adds : Promise!Step(a)
  <2>1. CASE Quarantine(p)
    BY <2>1, QuarantineKept DEF Promise!Step
  <2>2. CASE CheckDoing(p) \/ Read(p) \/ Refuse(p) \/ QuarantineFails(p)
    BY <2>2, IdleStep
  <2> QED BY <1>2, <2>1, <2>2 DEF Look
<1>3. CASE \E a \in Adds, id \in Ids, ok \in BOOLEAN : AddNew(a, id, ok)
  BY <1>3, CardUnchanged DEF AddNew
<1>4. ASSUME NEW e \in flight, Create(e) PROVE \E a \in Adds : Promise!Step(a)
  BY <1>4, ArriveKept DEF Promise!Step
<1>5. ASSUME NEW e \in flight, Stray(e) PROVE card' = card
  BY <1>5, CardUnchanged DEF Stray, history
<1>6. CASE TrimDone
  BY <1>6, TrimKept
<1>7. CASE UNCHANGED vars
  BY <1>7, CardUnchanged DEF vars, history
<1> QED BY <1>1, <1>2, <1>3, <1>4, <1>5, <1>6, <1>7, ActStep DEF Next

\* The empty board is the promise's initial state.
LEMMA InitKept == Init => Promise!Init
<1> SUFFICES ASSUME Init PROVE Promise!Init
  OBVIOUS
<1>1. \A a \in Adds : HeldIn(list, a) = {}
  BY DEF Init, HeldIn
<1>2. \A a \in Adds : CardIn(list, removed, a) = Promise!Absent
  BY <1>1 DEF Init, CardIn, Away, Promise!Absent
<1> QED BY <1>2, CardIsCardIn DEF Promise!Init

\* The board keeps what it promises the owner of its tickets: the reads and
\* scripts of any number of concurrent processes act as if each command were one
\* step on one ticket as it is at that moment.
THEOREM BoardImplementsPromise == Spec => PromiseKept
BY Invariance, InitKept, StepKept, PTL DEF Spec, PromiseKept, Promise!Spec
===============================================================================
