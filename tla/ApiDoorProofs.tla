---------------------------- MODULE ApiDoorProofs ---------------------------
(***************************************************************************)
(* What is done on a cooperation token is done while the token holds; a    *)
(* port without a window runs an envelope once; the watchdog tells the lead*)
(* once; and of the run windows of a label one runs, and what is called    *)
(* removed is gone; and of what an agent writes every line is accounted for*)
(* once; and what is said in the bot's chat is done in order and once. Each*)
(* is of an instance of its own, for every value of its constants.         *)
(***************************************************************************)
EXTENDS ApiDoor, SequencesExt, FiniteSetTheorems, SequenceTheorems,
        WellFoundedInduction, TLAPS

\* Of the constants: a name is none that the API gives a meaning of its own, a token is not
\* the office's, a request speaks of names, and the recheck is not continuous.
DoorConstants ==
    /\ Names \cap ({NoOne, "all"} \cup DOMAIN Fixed) = {}
    /\ Tokens \cap {NoOne, "office"} = {}
    /\ \A r \in Requests : /\ r.to \in Names \cup {"all"} \cup DOMAIN Fixed
                           /\ r.as \in Names \cup {NoOne} \cup DOMAIN Fixed
    /\ Recheck \in Nat \ {0}

-----------------------------------------------------------------------------
(* The inductive invariant *)

Holder(t) == tokens[t].participant

\* A token that was minted has its participant for ever; one that is live was not revoked.
OfficeInv ==
    /\ now \in Nat \ {0}
    /\ registry \in [Names -> {"none", "api", "tmux"}]
    /\ {starting, granting} \subseteq Names \cup {NoOne}
    /\ tokens \in [Tokens -> [participant : Names \cup {NoOne}, live : BOOLEAN]]
    /\ revoked \in [Tokens -> Nat]
    /\ \A t \in Tokens : /\ tokens[t].live => Holder(t) # NoOne /\ revoked[t] = 0
                         /\ revoked[t] # 0 => Holder(t) # NoOne
                         /\ revoked[t] <= now

\* What a request has passed was true of it when it passed, which is among what has
\* held since it came.
RequestInv ==
    /\ at \in {"rest", "authorize", "rules", "member", "source", "send"}
    /\ coop \in Tokens \cup {"office", NoOne}
    /\ at # "rest" => request \in Requests
    /\ at \in {"rules", "member", "source", "send"} =>
         /\ coop # NoOne
         /\ coop \in Tokens => Holder(coop) # NoOne /\ <<"live", coop>> \in held
    /\ at \in {"member", "source", "send"} /\ coop \in Tokens =>
         /\ request.as \in {NoOne, Holder(coop)} /\ request.kind = "Message"
         /\ {<<"tmux", request.to>>, <<"none", request.to>>} \cap held # {}
    /\ at = "send" =>
         /\ coop \in Tokens => <<"api", Source>> \in held
         /\ coop = "office" /\ Source # "api" =>
              request.key = Source /\ <<"api", Source>> \in held

\* What CoopHeld says of an envelope.
Sound(e) ==
    IF e.token \in Tokens
      THEN /\ Holder(e.token) # NoOne /\ e.source = Holder(e.token) /\ e.kind = "Message"
           /\ {<<"live", e.token>>, <<"api", e.source>>} \subseteq e.held
           /\ {<<"tmux", e.to>>, <<"none", e.to>>} \cap e.held # {}
      ELSE e.source # "api" => e.key = e.source /\ <<"api", e.source>> \in e.held

EgressInv == \A e \in egress : Sound(e)

Feeds ==
    [at : {"closed", "opening", "loop", "verify", "read"}, token : Tokens \cup {NoOne},
     started : Nat, checked : Nat, began : Nat]

\* A stream that is served was checked when its token held, or when it began.
FeedInv ==
    /\ feed \in Feeds
    /\ feed.at # "closed" => feed.token \in Tokens
    /\ feed.at \in {"loop", "verify", "read"} => feed.checked <= now
    /\ feed.at \in {"loop", "read"} /\ revoked[feed.token] # 0 =>
         feed.checked <= Later(revoked[feed.token], feed.started)
    /\ feed.at = "verify" => feed.began = feed.checked
    /\ feed.at = "read" => feed.began <= now /\ feed.began < feed.checked + Recheck

PageInv ==
    page # NoPage =>
      /\ page.token \in Tokens /\ page.began \in Nat /\ page.started \in Nat
      /\ page.began <= now
      /\ revoked[page.token] # 0 => page.began < Later(revoked[page.token], page.started) + Recheck

DoorInv == OfficeInv /\ RequestInv /\ EgressInv /\ FeedInv /\ PageInv

-----------------------------------------------------------------------------
(* The steps *)

\* Nobody is enrolled, nothing is minted, requested or served.
LEMMA DoorInit == ASSUME DoorConstants, Init PROVE DoorInv
<1>1. OfficeInv
  BY DEF Init, OfficeInv, Holder
<1>2. RequestInv /\ EgressInv
  BY DEF Init, RequestInv, EgressInv, NoRequest
<1>3. FeedInv /\ PageInv
  BY DEF Init, FeedInv, Feeds, PageInv, NoFeed
<1> QED BY <1>1, <1>2, <1>3 DEF DoorInv

OfficeStep ==
    \/ Tick \/ Started
    \/ \E n \in Names : Hire(n) \/ Retire(n) \/ Grant(n)
    \/ \E t \in Tokens : Mint(t) \/ Revoke(t)

\* A step of the office leaves the minted tokens their participants, and revokes a token
\* now or not at all.
LEMMA OfficeMoves ==
    ASSUME DoorConstants, OfficeInv, OfficeStep
    PROVE  /\ OfficeInv' /\ UNCHANGED <<post, stream>> /\ now <= now'
           /\ \A t \in Tokens : /\ Holder(t) # NoOne => Holder(t)' = Holder(t)
                                /\ revoked'[t] = revoked[t] \/ (revoked[t] = 0 /\ revoked'[t] = now)
<1> USE DEF OfficeInv, Holder
<1>1. CASE Tick
  BY <1>1 DEF Tick, office
<1>2. CASE Started
  BY <1>2 DEF Started
<1>3. ASSUME NEW n \in Names, Hire(n) \/ Retire(n) \/ Grant(n)
      PROVE  /\ OfficeInv' /\ UNCHANGED <<post, stream, now, tokens, revoked>>
  BY <1>3 DEF Hire, Retire, Grant, Change
<1>4. ASSUME NEW t \in Tokens, Mint(t)
      PROVE  /\ OfficeInv' /\ UNCHANGED <<post, stream, now, revoked>>
             /\ \A u \in Tokens : Holder(u) # NoOne => Holder(u)' = Holder(u)
  <2>1. tokens' = [tokens EXCEPT ![t] = [participant |-> granting, live |-> TRUE]]
    BY <1>4 DEF Mint
  <2>2. granting \in Names /\ Holder(t) = NoOne
    BY <1>4 DEF Mint
  <2>3. tokens' \in [Tokens -> [participant : Names \cup {NoOne}, live : BOOLEAN]]
    BY <2>1, <2>2
  <2>4. tokens'[t].participant = granting /\ \A u \in Tokens \ {t} : tokens'[u] = tokens[u]
    BY <2>1
  <2>5. UNCHANGED <<now, registry, starting, revoked, post, stream>> /\ granting' = NoOne
    BY <1>4 DEF Mint
  <2>6. granting # NoOne /\ revoked[t] = 0
    BY <1>4 DEF Mint
  <2> QED BY <2>2, <2>3, <2>4, <2>5, <2>6
<1>5. ASSUME NEW t \in Tokens, Revoke(t)
      PROVE  /\ OfficeInv' /\ UNCHANGED <<post, stream, now>>
             /\ \A u \in Tokens : Holder(u)' = Holder(u)
             /\ \A u \in Tokens : revoked'[u] = revoked[u] \/ (revoked[u] = 0 /\ revoked'[u] = now)
  <2>1. /\ tokens' = [tokens EXCEPT ![t].live = FALSE] /\ tokens[t].live
        /\ revoked' = [revoked EXCEPT ![t] = now]
        /\ UNCHANGED <<now, registry, starting, granting, post, stream>>
    BY <1>5 DEF Revoke
  <2>2. /\ tokens' \in [Tokens -> [participant : Names \cup {NoOne}, live : BOOLEAN]]
        /\ \A u \in Tokens : tokens'[u].participant = tokens[u].participant
        /\ ~tokens'[t].live /\ \A u \in Tokens \ {t} : tokens'[u] = tokens[u]
    BY <2>1
  <2>3. /\ revoked' \in [Tokens -> Nat] /\ revoked'[t] = now
        /\ \A u \in Tokens \ {t} : revoked'[u] = revoked[u]
    BY <2>1
  <2>4. revoked[t] = 0
    BY <2>1
  <2> QED BY <2>1, <2>2, <2>3, <2>4
<1> QED BY <1>1, <1>2, <1>3, <1>4, <1>5 DEF OfficeStep

Remembered == held' = IF at' = "rest" THEN {} ELSE held \cup Facts'

\* What the office does changes neither what a request has passed nor what was accepted,
\* and a stream's token is revoked after its last check.
LEMMA OfficeKeeps ==
    ASSUME DoorConstants, DoorInv, OfficeStep, Remembered
    PROVE  DoorInv'
<1> USE DEF DoorInv
<1>1. /\ OfficeInv' /\ UNCHANGED <<post, stream>> /\ now <= now' /\ now \in Nat /\ now' \in Nat
      /\ \A t \in Tokens : /\ Holder(t) # NoOne => Holder(t)' = Holder(t)
                           /\ revoked'[t] = revoked[t] \/ (revoked[t] = 0 /\ revoked'[t] = now)
                           /\ revoked[t] \in Nat /\ revoked'[t] \in Nat
  BY OfficeMoves DEF OfficeInv
<1>2. UNCHANGED <<request, at, coop, requests, egress, feed, page>>
  BY <1>1 DEF post, stream
<1>3. at # "rest" => held \subseteq held'
  BY <1>2 DEF Remembered
<1>4. RequestInv'
  <2>1. coop \in Tokens /\ at \in {"rules", "member", "source", "send"} =>
          Holder(coop)' = Holder(coop)
    BY <1>1, <1>2 DEF RequestInv
  <2>2. at = "send" => Source' = Source
    BY <1>2, <2>1 DEF RequestInv, Source, Participant, Holder
  <2> QED BY <1>2, <1>3, <2>1, <2>2 DEF RequestInv
<1>5. EgressInv'
  <2> SUFFICES ASSUME NEW e \in egress PROVE Sound(e)'
    BY <1>2 DEF EgressInv
  <2>1. Sound(e)
    BY DEF EgressInv
  <2>2. e.token \in Tokens => Holder(e.token)' = Holder(e.token)
    BY <1>1, <2>1 DEF Sound
  <2> QED BY <2>1, <2>2 DEF Sound
<1>6. FeedInv'
  BY <1>1, <1>2 DEF FeedInv, Feeds, Later
<1>7. PageInv'
  BY <1>1, <1>2 DEF PageInv, Later, FeedInv, Feeds, DoorConstants
<1> QED BY <1>1, <1>4, <1>5, <1>6, <1>7

PostStep == Arrive \/ Authorize \/ CoopRules \/ Member \/ Admissible \/ Send

\* A request passes one check after the other, each against what is true at that moment,
\* which from then on is among what has held.
LEMMA PostKeeps ==
    ASSUME DoorConstants, DoorInv, PostStep, Remembered
    PROVE  DoorInv'
<1> USE DEF DoorInv
<1>1. UNCHANGED <<now, office, stream>>
  BY DEF PostStep, Arrive, Authorize, CoopRules, Member, Admissible, Send, Pass
<1>2. UNCHANGED <<registry, tokens, revoked, starting, granting, feed, page>> /\ Facts' = Facts
  BY <1>1 DEF office, stream, Facts
<1>3. OfficeInv' /\ FeedInv' /\ PageInv' /\ \A t : Holder(t)' = Holder(t)
  BY <1>1, <1>2 DEF OfficeInv, FeedInv, Feeds, PageInv, Holder
<1>4. at' # "rest" => held \subseteq held' /\ Facts \subseteq held'
  BY <1>2 DEF Remembered
<1>5. at' = "rest" /\ coop' \in {coop, NoOne} => RequestInv'
  BY DEF RequestInv
<1>6. egress' = egress => EgressInv'
  BY <1>3 DEF EgressInv, Sound
<1>7. Refuse => RequestInv' /\ EgressInv'
  BY <1>5, <1>6 DEF Refuse
<1>8. ASSUME NEW step, Turned(step), step \in {"member", "source", "send"}
      PROVE  EgressInv' /\ UNCHANGED <<request, coop>> /\ at' = step
             /\ held \subseteq held' /\ Facts \subseteq held'
  BY <1>4, <1>6, <1>8 DEF Turned
<1>9. Arrive => RequestInv' /\ EgressInv'
  BY <1>6 DEF Arrive, RequestInv
<1>10. Authorize => RequestInv' /\ EgressInv'
  <2> SUFFICES ASSUME Authorize, ~Refuse PROVE RequestInv' /\ EgressInv'
    BY <1>7
  <2> DEFINE b == request.bearer
  <2>1. /\ at = "authorize" /\ coop' = b /\ UNCHANGED <<request, requests, egress>>
        /\ b = "office" \/ (b \in Tokens /\ Verified(b))
        /\ at' = IF b = "office" THEN "member" ELSE "rules"
    BY DEF Authorize
  <2>2. b \in Tokens => Holder(b) # NoOne /\ <<"live", b>> \in Facts
    BY <2>1 DEF Verified, Holder, Facts, DoorConstants
  <2>3. b \in Tokens => <<"live", b>> \in held'
    BY <1>4, <2>1, <2>2
  <2>4. b \in Tokens => tokens'[b].participant # NoOne
    BY <1>2, <2>2 DEF Holder
  <2> HIDE DEF b
  <2>5. b # NoOne /\ request \in Requests
    BY <2>1 DEF RequestInv, DoorConstants, NoOne
  <2>6. RequestInv'
    BY <2>1, <2>3, <2>4, <2>5 DEF RequestInv, Holder, DoorConstants
  <2> QED BY <1>6, <2>1, <2>6
<1>11. CoopRules => RequestInv' /\ EgressInv'
  <2> SUFFICES ASSUME CoopRules, ~Refuse PROVE RequestInv' /\ EgressInv'
    BY <1>7
  <2>1. /\ at = "rules" /\ Turned("member") /\ request.kind = "Message"
        /\ request.to \notin {"all", "host", "api"} /\ Type(request.to) \notin {"api", "office"}
        /\ request.as \in {NoOne, Participant}
    BY DEF CoopRules, Pass
  <2>2. request \in Requests
    BY <2>1 DEF RequestInv
  <2>3. request.to \in Names
    BY <2>1, <2>2 DEF DoorConstants, Fixed
  <2>4. registry[request.to] \in {"tmux", "none"}
    BY <2>1, <2>3 DEF Type, OfficeInv, DoorConstants
  <2>5. <<registry[request.to], request.to>> \in Facts
    BY <2>3 DEF Facts
  <2>6. {<<"tmux", request.to>>, <<"none", request.to>>} \cap held' # {}
    BY <1>8, <2>1, <2>4, <2>5
  <2>7. coop \in Tokens => request.as \in {NoOne, Holder(coop)}
    BY <2>1 DEF Participant, Holder
  <2>8. EgressInv' /\ UNCHANGED <<request, coop, tokens>> /\ at' = "member" /\ held \subseteq held'
    BY <1>2, <1>8, <2>1
  <2> QED BY <2>1, <2>2, <2>6, <2>7, <2>8 DEF RequestInv, Holder
<1>12. Member => RequestInv' /\ EgressInv'
  <2> SUFFICES ASSUME Member, ~Refuse PROVE RequestInv' /\ EgressInv'
    BY <1>7
  <2>1. at = "member" /\ Turned("source")
    BY DEF Member, Pass
  <2> QED BY <1>3, <1>8, <2>1 DEF RequestInv
<1>13. Admissible => RequestInv' /\ EgressInv'
  <2> SUFFICES ASSUME Admissible, ~Refuse PROVE RequestInv' /\ EgressInv'
    BY <1>7
  <2>1. /\ at = "source" /\ Turned("send")
        /\ request.as # NoOne \/ coop # "office" =>
             Type(Source) = "api" /\ (coop = "office" => Signed)
    BY DEF Admissible, Pass
  <2>2. EgressInv' /\ UNCHANGED <<request, coop, tokens>> /\ at' = "send" /\ held \subseteq held'
        /\ Facts \subseteq held'
    BY <1>2, <1>8, <2>1
  <2>3. request \in Requests /\ coop \in Tokens \cup {"office"}
        /\ request.as \in Names \cup {NoOne} \cup DOMAIN Fixed
    BY <2>1 DEF RequestInv, DoorConstants
  <2>4. coop \in Tokens => Source = Holder(coop) /\ Holder(coop) \in Names /\ Type(Source) = "api"
    BY <2>1, <2>3 DEF RequestInv, OfficeInv, Source, Participant, Holder, DoorConstants
  <2>5. \A n \in Names : Type(n) = "api" => <<"api", n>> \in Facts
    BY DEF Type, Facts, DoorConstants
  <2>6. coop \in Tokens => <<"api", Source>> \in held'
    BY <2>2, <2>4, <2>5
  <2>7. coop = "office" /\ Source # "api" => request.as # NoOne /\ Source = request.as
    BY DEF Source
  <2>8. coop = "office" /\ Source # "api" =>
          /\ request.key = Source /\ Source \in Names /\ Type(Source) = "api"
    BY <2>1, <2>3, <2>7 DEF Signed, Type, Fixed
  <2>9. coop = "office" /\ Source # "api" => request.key = Source /\ <<"api", Source>> \in held'
    BY <2>2, <2>5, <2>8
  <2>10. Source' = Source
    BY <2>2 DEF Source, Participant
  <2> QED BY <2>1, <2>2, <2>3, <2>6, <2>9, <2>10 DEF RequestInv, Holder
<1>14. Send => RequestInv' /\ EgressInv'
  <2> SUFFICES ASSUME Send PROVE RequestInv' /\ EgressInv'
    OBVIOUS
  <2> DEFINE e == [token |-> coop, source |-> Source, to |-> request.to,
                   kind |-> request.kind, key |-> request.key, held |-> held]
  <2>1. at = "send" /\ at' = "rest" /\ coop' = NoOne /\ egress' \subseteq egress \cup {e}
    BY DEF Send
  <2>2. coop \in Tokens => Source = Holder(coop)
    BY <2>1 DEF RequestInv, Source, Participant, Holder, DoorConstants
  <2>3. Sound(e)
    BY <2>1, <2>2 DEF RequestInv, Sound
  <2> HIDE DEF e
  <2>4. \A x \in egress' : Sound(x)
    BY <2>1, <2>3 DEF EgressInv
  <2>5. EgressInv'
    BY <1>3, <2>4 DEF EgressInv, Sound
  <2> QED BY <1>5, <2>1, <2>5
<1> QED BY <1>3, <1>9, <1>10, <1>11, <1>12, <1>13, <1>14 DEF PostStep

FeedStep ==
    \/ StartFeed \/ Loop \/ Reverify \/ ServePage \/ CloseFeed
    \/ \E t \in Tokens : OpenFeed(t)

\* A stream is served between two looks at the clock only, and its check is young.
LEMMA FeedKeeps ==
    ASSUME DoorConstants, DoorInv, FeedStep, Remembered
    PROVE  DoorInv'
<1> USE DEF DoorInv
<1>1. UNCHANGED <<now, office, request, at, coop, egress>>
  BY DEF FeedStep, StartFeed, Loop, Reverify, ServePage, CloseFeed, OpenFeed, post
<1>2. UNCHANGED <<registry, tokens, revoked, starting, granting>>
  BY <1>1 DEF office
<1>3. OfficeInv' /\ \A t : Holder(t)' = Holder(t)
  BY <1>1, <1>2 DEF OfficeInv, Holder
<1>4. at # "rest" => held \subseteq held'
  BY <1>1 DEF Remembered
<1>5. RequestInv' /\ EgressInv'
  BY <1>1, <1>2, <1>3, <1>4 DEF RequestInv, EgressInv, Sound, Source, Participant
<1>6. now \in Nat /\ \A t \in Tokens : revoked[t] \in Nat /\ revoked[t] <= now
  BY DEF OfficeInv
<1>7. StartFeed => FeedInv' /\ PageInv'
  <2> SUFFICES ASSUME StartFeed PROVE FeedInv' /\ PageInv'
    OBVIOUS
  <2>1. feed' = NoFeed \/ feed' = [feed EXCEPT !.at = "loop", !.started = now, !.checked = now]
    BY DEF StartFeed
  <2>2. page' = page /\ feed.token \in Tokens
    BY DEF StartFeed, FeedInv, Feeds
  <2>3. PageInv'
    BY <1>1, <1>2, <2>2 DEF PageInv
  <2>4. CASE feed' = NoFeed
    BY <2>3, <2>4 DEF FeedInv, Feeds, NoFeed
  <2>5. CASE feed' = [feed EXCEPT !.at = "loop", !.started = now, !.checked = now]
    <3>1. /\ feed'.at = "loop" /\ feed'.started = now /\ feed'.checked = now
          /\ feed'.token = feed.token
          /\ feed' \in Feeds
      BY <1>6, <2>5 DEF FeedInv, Feeds
    <3> QED BY <1>1, <1>2, <1>6, <2>2, <2>3, <3>1 DEF FeedInv, Feeds, Later
  <2> QED BY <2>1, <2>4, <2>5
<1>8. Loop => FeedInv' /\ PageInv'
  <2> SUFFICES ASSUME Loop PROVE FeedInv' /\ PageInv'
    OBVIOUS
  <2>1. /\ feed.at = "loop" /\ page' = page /\ feed.token \in Tokens
        /\ feed.checked \in Nat /\ feed.checked <= now
    BY DEF Loop, FeedInv, Feeds
  <2>2. PageInv'
    BY <1>1, <1>2, <2>1 DEF PageInv
  <2>3. CASE now - feed.checked >= Recheck
    <3>1. feed' = [feed EXCEPT !.at = "verify", !.checked = now, !.began = now]
      BY <2>3 DEF Loop
    <3>2. /\ feed'.at = "verify" /\ feed'.checked = now /\ feed'.began = now
          /\ feed'.token = feed.token
          /\ feed' \in Feeds
      BY <1>6, <3>1 DEF FeedInv, Feeds
    <3> QED BY <1>1, <1>6, <2>1, <2>2, <3>2 DEF FeedInv, Feeds
  <2>4. CASE ~(now - feed.checked >= Recheck)
    <3>1. feed' = [feed EXCEPT !.at = "read", !.began = now]
      BY <2>4 DEF Loop
    <3>2. /\ feed'.at = "read" /\ feed'.checked = feed.checked /\ feed'.began = now
          /\ feed'.token = feed.token /\ feed'.started = feed.started
          /\ feed' \in Feeds
      BY <1>6, <3>1 DEF FeedInv, Feeds
    <3>3. now < feed.checked + Recheck
      BY <1>6, <2>1, <2>4 DEF DoorConstants
    <3> QED BY <1>1, <1>2, <1>6, <2>1, <2>2, <3>2, <3>3 DEF FeedInv, Feeds, Later
  <2> QED BY <2>3, <2>4
<1>9. Reverify => FeedInv' /\ PageInv'
  BY <1>1, <1>2, <1>6
  DEF Reverify, Verified, FeedInv, Feeds, PageInv, NoFeed, Later, DoorConstants, OfficeInv
<1>10. ServePage => FeedInv' /\ PageInv'
  BY <1>1, <1>2, <1>6 DEF ServePage, FeedInv, Feeds, PageInv, NoFeed, Later, DoorConstants
<1>11. CloseFeed => FeedInv' /\ PageInv'
  BY <1>1, <1>2, <1>6 DEF CloseFeed, FeedInv, Feeds, PageInv, NoFeed
<1>12. ASSUME NEW t \in Tokens, OpenFeed(t) PROVE FeedInv' /\ PageInv'
  BY <1>1, <1>2, <1>6, <1>12 DEF OpenFeed, FeedInv, Feeds, PageInv, NoFeed
<1>13. FeedInv' /\ PageInv'
  BY <1>7, <1>8, <1>9, <1>10, <1>11, <1>12 DEF FeedStep
<1> QED BY <1>3, <1>5, <1>13

\* Every step of the door keeps the invariant.
LEMMA DoorStep ==
    ASSUME DoorConstants, DoorInv, Next \/ UNCHANGED dvars
    PROVE  DoorInv'
<1>1. CASE Next
  <2>1. Remembered
    BY <1>1 DEF Next, Remembered
  <2>2. OfficeStep \/ PostStep \/ FeedStep
    BY <1>1 DEF Next, Step, OfficeStep, PostStep, FeedStep
  <2> QED BY <2>1, <2>2, OfficeKeeps, PostKeeps, FeedKeeps
<1>2. CASE UNCHANGED dvars
  <2>1. UNCHANGED <<now, registry, starting, granting, tokens, revoked, request, at, coop,
                    egress, feed, page, held>>
    BY <1>2 DEF dvars, office, post, stream
  <2>2. OfficeInv' /\ FeedInv' /\ PageInv'
    BY <2>1 DEF DoorInv, OfficeInv, FeedInv, Feeds, PageInv, Holder
  <2>3. RequestInv' /\ EgressInv'
    BY <2>1 DEF DoorInv, RequestInv, EgressInv, Sound, Source, Participant, Holder
  <2> QED BY <2>2, <2>3 DEF DoorInv
<1> QED BY <1>1, <1>2

\* What the invariant says of envelopes and of pages is CoopHeld.
LEMMA CoopHeldFollows == DoorInv => CoopHeld
BY DEF DoorInv, EgressInv, Sound, Holder, PageInv, CoopHeld

\* The types of the door.
LEMMA DoorTypesFollow == DoorInv => TypeOK
BY DEF DoorInv, OfficeInv, RequestInv, FeedInv, Feeds, TypeOK

\* The invariant of the door, for all constants that DoorConstants allows.
THEOREM DoorSafe == ASSUME DoorConstants PROVE Spec => []DoorInv
<1>1. Init => DoorInv
  BY DoorInit
<1>2. DoorInv /\ [Next]_dvars => DoorInv'
  BY DoorStep
<1> QED BY <1>1, <1>2, PTL DEF Spec

\* CoopHeld: an envelope accepted on a cooperation token is a Message of the token's
\* participant, and a page is begun less than Recheck after the token was revoked, or
\* after the stream began (authorize, _enforce_coop_post, COOP_STREAM_RECHECK_INTERVAL_S).
THEOREM TokensHold == ASSUME DoorConstants PROVE Spec => []CoopHeld
BY DoorSafe, CoopHeldFollows, PTL

-----------------------------------------------------------------------------
(* The ports without a window                                               *)

CONSTANTS RunMessages, RunInContext, RunInvalid, RunAttachments, RunSilent, RunKeep,
          RunMaxFaults
VARIABLES flavor, place, prompt, turns, expired, filed, credential, delivered, replies,
          faults, runs, answered, prompts, torn

Run == INSTANCE Headless WITH
    Messages <- RunMessages, InContext <- RunInContext, Invalid <- RunInvalid,
    Attachments <- RunAttachments, Silent <- RunSilent, Keep <- RunKeep,
    MaxFaults <- RunMaxFaults

\* Of the constants: envelopes are numbered, in the order they come, and Keep is a number.
HeadlessConstants ==
    /\ RunMessages \subseteq Nat /\ RunAttachments \subseteq RunMessages
    /\ RunKeep \in Nat

OpenerSteps == {"rest", "read", "sandbox", "attach", "credential", "run", "wipe", "wipe and fail",
                "user", "assistant", "record", "reply"}
BeforeRun == {"read", "sandbox", "attach", "credential", "run"}
AfterRun  == {"wipe", "user", "assistant", "record", "reply"}

Turns == [of : RunMessages, role : {"user", "assistant"}]

\* Envelopes leave the ingress in order, one at a time.
PlaceInv ==
    /\ place \in [RunMessages -> {"ingress", "opening", "opened", "dead", "unresolved"}]
    /\ at \in OpenerSteps /\ (at # "rest" => Run!Opening # {})
    /\ \A m, n \in Run!Opening : m = n
    /\ \A m, n \in RunMessages : n < m /\ place[m] # "ingress" => place[n] # "ingress"
    /\ \A m \in Run!Opening, n \in RunMessages : m < n => place[n] = "ingress"
    /\ filed \subseteq RunMessages

\* An envelope that waits, or is a dead letter, or is opened and not run yet, did not run.
RunsInv ==
    /\ runs \in [RunMessages -> 0 .. 1]
    /\ \A m \in RunMessages :
          \/ place[m] \in {"ingress", "dead"}
          \/ m \in Run!Opening /\ at \in BeforeRun
          => runs[m] = 0

\* Who was answered, and what of it was sent.
AnswersInv ==
    /\ answered \subseteq RunMessages /\ replies \subseteq answered /\ delivered \subseteq RunMessages
    /\ \A m \in answered : place[m] # "ingress"
    /\ \A m \in Run!Opening : at \in AfterRun => m \in answered
    /\ faults \in Nat
    /\ faults = 0 => /\ replies \subseteq delivered
                     /\ at = "reply" => \A m \in Run!Opening : m \in delivered
    /\ credential \in BOOLEAN
    /\ credential => faults > 0 \/ at \in {"run", "wipe"}

\* Of a sequence of turns, where A were answered and T are torn: they are of answered
\* messages, in order and in pairs, but that it may begin with an answer, and that a
\* message that is torn has no answer.
Paired(s, A, T) ==
    \A i \in 1 .. Len(s) :
        /\ s[i].of \in A
        /\ s[i].role = "user" =>
              s[i].of \in T \/ (i < Len(s) /\ s[i + 1] = Run!Turn(s[i].of, "assistant"))
        /\ s[i].role = "assistant" /\ i > 1 => s[i - 1] = Run!Turn(s[i].of, "user")
        /\ i > 1 => s[i - 1].of <= s[i].of

\* What was written: of envelopes that are being opened, no more than the steps so far.
ChatInv ==
    /\ turns \in Seq(Turns) /\ expired \in 0 .. Len(turns)
    /\ torn \subseteq answered
    /\ Paired(turns, answered, torn)
    /\ \A m \in Run!Opening :
         /\ at \in BeforeRun \cup {"wipe", "wipe and fail", "user"} =>
              \A i \in 1 .. Len(turns) : turns[i].of # m
         /\ at = "assistant" =>
              /\ turns # <<>> /\ turns[Len(turns)] = Run!Turn(m, "user")
              /\ \A i \in 1 .. Len(turns) - 1 : turns[i].of # m

\* What a run is shown: such a sequence, of earlier envelopes.
Shows(s, m, A, T) ==
    s \in Seq(Turns) /\ Paired(s, A, T) /\ \A i \in 1 .. Len(s) : s[i].of < m

PromptInv ==
    /\ at = "rest" => prompt = <<>>
    /\ \A m \in Run!Opening : Shows(prompt, m, answered, torn)
    /\ \A m \in RunMessages : /\ Shows(prompts[m], m, answered, torn)
                              /\ place[m] = "ingress" => prompts[m] = <<>>
    /\ DOMAIN prompts = RunMessages

HeadlessInv == PlaceInv /\ RunsInv /\ AnswersInv /\ ChatInv /\ PromptInv

(* Lemmas *)

\* The envelope that is being opened is the one there is.
LEMMA TheCurrent ==
    ASSUME PlaceInv, at # "rest"
    PROVE  Run!Current \in Run!Opening /\ \A m \in Run!Opening : m = Run!Current
BY DEF PlaceInv, Run!Current, Run!Opening

\* Those that were answered came no later than the one that is being opened.
LEMMA Earlier ==
    ASSUME HeadlessConstants, PlaceInv, AnswersInv, NEW m \in Run!Opening, NEW n \in answered
    PROVE  n \in Nat /\ m \in Nat /\ n <= m
BY DEF HeadlessConstants, PlaceInv, AnswersInv, Run!Opening

\* What Append does.
LEMMA Appended ==
    ASSUME NEW S, NEW s \in Seq(S), NEW e \in S
    PROVE  /\ Len(s) \in Nat /\ Append(s, e) # s
           /\ Len(Append(s, e)) = Len(s) + 1 /\ Append(s, e)[Len(s) + 1] = e
           /\ \A i \in 1 .. Len(s) : Append(s, e)[i] = s[i]
<1>1. Len(Append(s, e)) = Len(s) + 1 /\ Len(s) \in Nat
  OBVIOUS
<1> QED BY <1>1

\* A part of such a sequence is one.
LEMMA PartPaired ==
    ASSUME NEW A, NEW T, NEW s \in Seq(Turns), Paired(s, A, T), NEW lo \in 0 .. Len(s)
    PROVE  LET p == SubSeq(s, lo + 1, Len(s))
           IN  /\ p \in Seq(Turns) /\ Paired(p, A, T)
               /\ \A i \in 1 .. Len(p) : \E j \in 1 .. Len(s) : p[i] = s[j]
<1> DEFINE p == SubSeq(s, lo + 1, Len(s))
<1>1. p \in Seq(Turns) /\ Len(p) = Len(s) - lo
  OBVIOUS
<1>2. \A i \in 1 .. Len(p) : i + lo \in 1 .. Len(s) /\ p[i] = s[i + lo]
  OBVIOUS
<1>3. ASSUME NEW i \in 1 .. Len(p)
      PROVE  /\ p[i].of \in A
             /\ p[i].role = "user" =>
                   p[i].of \in T \/ (i < Len(p) /\ p[i + 1] = Run!Turn(p[i].of, "assistant"))
             /\ p[i].role = "assistant" /\ i > 1 => p[i - 1] = Run!Turn(p[i].of, "user")
             /\ i > 1 => p[i - 1].of <= p[i].of
  <2> HIDE DEF p
  <2> DEFINE j == i + lo
  <2>1. /\ j \in 1 .. Len(s) /\ p[i] = s[j] /\ i \in Nat /\ lo \in Nat /\ Len(s) \in Nat
    BY <1>1, <1>2
  <2>2. j < Len(s) => i < Len(p) /\ p[i + 1] = s[j + 1]
    <3>1. CASE j < Len(s)
      <4>1. i + 1 \in 1 .. Len(p) /\ (i + 1) + lo = j + 1
        BY <1>1, <2>1, <3>1
      <4> QED BY <1>1, <1>2, <2>1, <3>1, <4>1
    <3> QED BY <3>1
  <2>3. i > 1 => j > 1 /\ p[i - 1] = s[j - 1]
    <3>1. CASE i > 1
      <4>1. i - 1 \in 1 .. Len(p) /\ (i - 1) + lo = j - 1
        BY <1>1, <2>1, <3>1
      <4> QED BY <1>2, <2>1, <3>1, <4>1
    <3> QED BY <3>1
  <2> HIDE DEF j
  <2> QED BY <2>1, <2>2, <2>3 DEF Paired
<1> QED BY <1>1, <1>2, <1>3 DEF Paired

\* It stays one where more is answered, and nothing of it is mended.
LEMMA StaysPaired ==
    ASSUME NEW A, NEW T, NEW B, NEW U, NEW s, Paired(s, A, T), A \subseteq B,
           \A i \in 1 .. Len(s) : s[i].of \in T => s[i].of \in U
    PROVE  Paired(s, B, U)
BY DEF Paired

\* The message is written behind it, and is torn so far.
LEMMA UserPaired ==
    ASSUME NEW A, NEW T, NEW s \in Seq(Turns), Paired(s, A, T), RunMessages \subseteq Nat,
           NEW m \in RunMessages, m \in A, \A i \in 1 .. Len(s) : s[i].of <= m
    PROVE  /\ Paired(Append(s, Run!Turn(m, "user")), A, T \cup {m})
           /\ Append(s, Run!Turn(m, "user")) \in Seq(Turns)
<1> DEFINE z == Append(s, Run!Turn(m, "user"))
<1>1. Run!Turn(m, "user") \in Turns
  BY DEF Run!Turn, Turns
<1>2. /\ z \in Seq(Turns) /\ Len(z) = Len(s) + 1 /\ z[Len(z)] = Run!Turn(m, "user")
      /\ \A i \in 1 .. Len(s) : z[i] = s[i]
  BY <1>1
<1>3. Run!Turn(m, "user").of = m /\ Run!Turn(m, "user").role = "user"
  BY DEF Run!Turn
<1> HIDE DEF z
<1>4. ASSUME NEW i \in 1 .. Len(z)
      PROVE  /\ z[i].of \in A
             /\ z[i].role = "user" =>
                   z[i].of \in T \cup {m} \/ (i < Len(z) /\ z[i + 1] = Run!Turn(z[i].of, "assistant"))
             /\ z[i].role = "assistant" /\ i > 1 => z[i - 1] = Run!Turn(z[i].of, "user")
             /\ i > 1 => z[i - 1].of <= z[i].of
  <2>1. CASE i \in 1 .. Len(s)
    <3>1. z[i] = s[i] /\ (i > 1 => z[i - 1] = s[i - 1]) /\ (i < Len(s) => z[i + 1] = s[i + 1])
      BY <1>2, <2>1
    <3> QED BY <1>2, <2>1, <3>1 DEF Paired
  <2>2. CASE i = Len(z)
    <3>1. z[i] = Run!Turn(m, "user") /\ (i > 1 => z[i - 1] = s[i - 1] /\ i - 1 \in 1 .. Len(s))
      BY <1>2, <2>2
    <3> QED BY <1>3, <3>1
  <2> QED BY <1>2, <2>1, <2>2
<1> QED BY <1>2, <1>4 DEF Paired, z

\* Then the answer, behind the message: it is whole.
LEMMA AssistantPaired ==
    ASSUME NEW A, NEW T, NEW s \in Seq(Turns), Paired(s, A, T), RunMessages \subseteq Nat,
           NEW m \in RunMessages, m \in A, s # <<>>, s[Len(s)] = Run!Turn(m, "user"),
           \A i \in 1 .. Len(s) - 1 : s[i].of # m
    PROVE  /\ Paired(Append(s, Run!Turn(m, "assistant")), A, T \ {m})
           /\ Append(s, Run!Turn(m, "assistant")) \in Seq(Turns)
<1> DEFINE z == Append(s, Run!Turn(m, "assistant"))
<1>1. Run!Turn(m, "assistant") \in Turns
  BY DEF Run!Turn, Turns
<1>2. /\ z \in Seq(Turns) /\ Len(z) = Len(s) + 1 /\ z[Len(z)] = Run!Turn(m, "assistant")
      /\ \A i \in 1 .. Len(s) : z[i] = s[i]
  BY <1>1
<1>3. /\ Run!Turn(m, "assistant").of = m /\ Run!Turn(m, "assistant").role = "assistant"
      /\ Run!Turn(m, "user").of = m /\ Run!Turn(m, "user").role = "user"
  BY DEF Run!Turn
<1>4. Len(s) \in Nat /\ Len(s) > 0
  OBVIOUS
<1> HIDE DEF z
<1>5. ASSUME NEW i \in 1 .. Len(z)
      PROVE  /\ z[i].of \in A
             /\ z[i].role = "user" =>
                   z[i].of \in T \ {m} \/ (i < Len(z) /\ z[i + 1] = Run!Turn(z[i].of, "assistant"))
             /\ z[i].role = "assistant" /\ i > 1 => z[i - 1] = Run!Turn(z[i].of, "user")
             /\ i > 1 => z[i - 1].of <= z[i].of
  <2>1. CASE i \in 1 .. Len(s) - 1
    <3>1. /\ z[i] = s[i] /\ (i > 1 => z[i - 1] = s[i - 1]) /\ z[i + 1] = s[i + 1]
          /\ i \in 1 .. Len(s) /\ i < Len(s) /\ s[i].of # m
      BY <1>2, <1>4, <2>1
    <3> QED BY <1>2, <3>1 DEF Paired
  <2>2. CASE i = Len(s)
    <3>1. /\ z[i] = s[i] /\ (i > 1 => z[i - 1] = s[i - 1]) /\ z[i + 1] = Run!Turn(m, "assistant")
          /\ i \in 1 .. Len(s) /\ i < Len(z)
      BY <1>2, <1>4, <2>2
    <3>2. s[i] = Run!Turn(m, "user")
      BY <2>2
    <3> QED BY <1>3, <3>1, <3>2 DEF Paired
  <2>3. CASE i = Len(z)
    <3>1. z[i] = Run!Turn(m, "assistant") /\ z[i - 1] = Run!Turn(m, "user")
      BY <1>2, <1>4, <2>3
    <3> QED BY <1>3, <3>1
  <2> QED BY <1>2, <1>4, <2>1, <2>2, <2>3
<1> QED BY <1>2, <1>5 DEF Paired, z

\* What is shown stays so.
LEMMA StaysShown ==
    ASSUME NEW A, NEW T, NEW B, NEW U, NEW s, NEW m, Shows(s, m, A, T), A \subseteq B,
           \A i \in 1 .. Len(s) : s[i].of \in T => s[i].of \in U
    PROVE  Shows(s, m, B, U)
BY StaysPaired DEF Shows

\* Nothing is shown of nothing.
LEMMA NothingShown == ASSUME NEW A, NEW T, NEW m PROVE Shows(<<>>, m, A, T)
<1>1. <<>> \in Seq(Turns) /\ Len(<<>>) = 0
  OBVIOUS
<1> QED BY <1>1 DEF Shows, Paired

(* The beginning, and what a step does to each part *)

\* At first all envelopes wait.
LEMMA HeadlessInit == ASSUME HeadlessConstants, Run!Init PROVE HeadlessInv
<1>1. Run!Opening = {}
  BY DEF Run!Init, Run!Opening
<1>2. PlaceInv /\ RunsInv
  BY <1>1 DEF Run!Init, PlaceInv, RunsInv, OpenerSteps, BeforeRun, Run!Opening
<1>3. AnswersInv
  BY <1>1 DEF Run!Init, AnswersInv
<1>4. ChatInv
  <2>1. turns = <<>> /\ <<>> \in Seq(Turns) /\ Len(<<>>) = 0
    BY DEF Run!Init
  <2> QED BY <1>1, <2>1 DEF Run!Init, ChatInv, Paired
<1>5. PromptInv
  BY <1>1, NothingShown DEF Run!Init, PromptInv
<1> QED BY <1>2, <1>3, <1>4, <1>5 DEF HeadlessInv

\* What every step but Take and Recover does to the envelopes: the current one stays
\* where it is, or leaves for good.
Handles(w) ==
    /\ at # "rest"
    /\ \/ place' = place
       \/ place' = [place EXCEPT ![Run!Current] = w] /\ at' = "rest"
    /\ at' \in OpenerSteps

\* So envelopes still leave the ingress in order, one at a time.
LEMMA PlaceKept ==
    ASSUME PlaceInv, NEW w \in {"opened", "dead", "unresolved"}, Handles(w),
           filed' \subseteq RunMessages
    PROVE  /\ PlaceInv' /\ Run!Opening' \subseteq Run!Opening
           /\ \A n \in RunMessages : place[n] = "ingress" <=> place'[n] = "ingress"
           /\ at' # "rest" => Run!Opening' = Run!Opening
<1>1. Run!Current \in Run!Opening /\ \A m \in Run!Opening : m = Run!Current
  BY TheCurrent DEF Handles
<1>2. CASE place' = place
  <2>1. Run!Opening' = Run!Opening
    BY <1>2 DEF Run!Opening
  <2> QED BY <1>1, <1>2, <2>1 DEF PlaceInv, Handles
<1>3. CASE place' = [place EXCEPT ![Run!Current] = w] /\ at' = "rest"
  <2>1. /\ Run!Opening' = {} /\ Run!Current \in RunMessages /\ place[Run!Current] = "opening"
        /\ \A n \in RunMessages : n # Run!Current => place'[n] = place[n]
        /\ place'[Run!Current] = w
    BY <1>1, <1>3 DEF Run!Opening, PlaceInv
  <2> QED BY <1>1, <1>3, <2>1 DEF PlaceInv, Handles
<1> QED BY <1>2, <1>3 DEF Handles

\* The prompts, where nothing is read and the turns of nobody but x are mended.
LEMMA PromptKept ==
    ASSUME HeadlessConstants, PlaceInv, AnswersInv, PromptInv, Run!Opening' \subseteq Run!Opening,
           \A n \in RunMessages : place'[n] = "ingress" => place[n] = "ingress",
           answered \subseteq answered', at # "rest",
           torn \ {Run!Current} \subseteq torn',
           prompt' \in {prompt, <<>>}, at' = "rest" => prompt' = <<>>,
           prompts' \in {prompts, [prompts EXCEPT ![Run!Current] = prompt]}
    PROVE  PromptInv'
<1>1. Run!Current \in Run!Opening /\ \A m \in Run!Opening : m = Run!Current
  BY TheCurrent
<1>2. /\ Run!Current \in RunMessages /\ place[Run!Current] = "opening" /\ Run!Current \in Nat
      /\ \A n \in RunMessages : n \in Nat /\ (Run!Current < n => place[n] = "ingress")
  BY <1>1 DEF Run!Opening, PlaceInv, HeadlessConstants
<1>3. ASSUME NEW m \in RunMessages, NEW s, Shows(s, m, answered, torn),
             place[m] # "ingress" \/ s = <<>>
      PROVE  Shows(s, m, answered', torn')
  <2>1. CASE s = <<>>
    BY <2>1, NothingShown
  <2>2. CASE s # <<>>
    <3>1. m <= Run!Current
      BY <1>2, <1>3, <2>2
    <3>2. \A i \in 1 .. Len(s) : s[i].of # Run!Current
      <4>1. \A i \in 1 .. Len(s) : s[i].of < m /\ s[i] \in Turns
        BY <1>3 DEF Shows
      <4>2. \A i \in 1 .. Len(s) : s[i].of < m /\ s[i].of \in Nat
        BY <1>2, <4>1 DEF Turns
      <4> QED BY <1>2, <3>1, <4>2
    <3>3. \A i \in 1 .. Len(s) : s[i].of \in torn => s[i].of \in torn'
      BY <3>2
    <3> QED BY <1>3, <3>3, StaysShown
  <2> QED BY <2>1, <2>2
<1>4. Shows(prompt, Run!Current, answered', torn')
  BY <1>1, <1>2, <1>3 DEF PromptInv
<1>5. \A m \in Run!Opening' : Shows(prompt', m, answered', torn')
  BY <1>1, <1>4, NothingShown
<1>6. \A m \in RunMessages : Shows(prompts[m], m, answered', torn')
  BY <1>3 DEF PromptInv
<1>7. DOMAIN prompts' = RunMessages /\ \A m \in RunMessages :
          prompts'[m] = prompts[m] \/ (m = Run!Current /\ prompts'[m] = prompt)
  BY <1>2 DEF PromptInv
<1>8. \A m \in RunMessages :
         /\ Shows(prompts'[m], m, answered', torn')
         /\ place'[m] = "ingress" => prompts'[m] = <<>>
  BY <1>2, <1>4, <1>6, <1>7 DEF PromptInv
<1> QED BY <1>5, <1>7, <1>8 DEF PromptInv

(* The steps *)

\* The next envelope: everything that was written is of earlier ones.
LEMMA TakeKeeps == ASSUME HeadlessConstants, HeadlessInv, Run!Take PROVE HeadlessInv'
<1>1. PICK m \in RunMessages :
         /\ Run!Next_(m)
         /\ IF m \in RunInvalid
               THEN place' = [place EXCEPT ![m] = "dead"] /\ at' = at
               ELSE /\ place' = [place EXCEPT ![m] = "opening"]
                    /\ at' \in {"read", "sandbox", "run"}
  BY DEF Run!Take
<1>2. /\ at = "rest" /\ Run!Opening = {} /\ prompt = <<>>
      /\ UNCHANGED <<flavor, filed, prompt, turns, expired, credential, delivered, replies,
                     faults, runs, answered, prompts, torn>>
  BY DEF Run!Take, Run!chat, Run!shown, HeadlessInv, PromptInv
<1>3. /\ place \in [RunMessages -> {"ingress", "opening", "opened", "dead", "unresolved"}]
      /\ place[m] = "ingress" /\ \A n \in RunMessages : n < m => place[n] # "ingress"
  BY <1>1 DEF Run!Next_, HeadlessInv, PlaceInv
<1>4. /\ \A n \in RunMessages : n # m => place'[n] = place[n]
      /\ place' \in [RunMessages -> {"ingress", "opening", "opened", "dead", "unresolved"}]
      /\ \/ m \in RunInvalid /\ place'[m] = "dead" /\ at' = "rest" /\ Run!Opening' = {}
         \/ place'[m] = "opening" /\ at' \in {"read", "sandbox", "run"} /\ Run!Opening' = {m}
  BY <1>1, <1>2, <1>3 DEF Run!Opening
<1>5. PlaceInv'
  <2>1. \A k, n \in RunMessages : n < k /\ place[k] # "ingress" => place[n] # "ingress"
    BY DEF HeadlessInv, PlaceInv
  <2>2. ASSUME NEW k \in RunMessages, NEW n \in RunMessages, n < k, place'[k] # "ingress"
        PROVE  place'[n] # "ingress"
    BY <1>3, <1>4, <2>1, <2>2
  <2>3. ASSUME NEW k \in Run!Opening', NEW n \in RunMessages, k < n PROVE place'[n] = "ingress"
    <3>1. k = m
      BY <1>4, <2>3
    <3>2. ~ n < m /\ n # m
      BY <2>3, <3>1 DEF HeadlessConstants
    <3> QED BY <1>3, <1>4, <2>1, <2>3, <3>1, <3>2
  <2>4. at' \in OpenerSteps /\ (at' # "rest" => Run!Opening' # {})
    BY <1>4 DEF OpenerSteps
  <2>5. (filed \subseteq RunMessages)'
    BY <1>2 DEF HeadlessInv, PlaceInv
  <2>6. \A k, n \in Run!Opening' : k = n
    BY <1>4
  <2> QED BY <1>4, <2>2, <2>3, <2>4, <2>5, <2>6 DEF PlaceInv
<1>6. RunsInv'
  BY <1>2, <1>3, <1>4 DEF HeadlessInv, RunsInv, BeforeRun
<1>7. AnswersInv'
  BY <1>2, <1>3, <1>4 DEF HeadlessInv, AnswersInv, AfterRun
<1>8. ChatInv'
  <2>1. m \notin answered
    BY <1>3 DEF HeadlessInv, AnswersInv
  <2>2. \A i \in 1 .. Len(turns) : turns[i].of # m
    BY <2>1 DEF HeadlessInv, ChatInv, Paired
  <2> QED BY <1>2, <1>4, <2>2 DEF HeadlessInv, ChatInv
<1>9. PromptInv'
  BY <1>2, <1>3, <1>4, NothingShown DEF HeadlessInv, PromptInv
<1> QED BY <1>5, <1>6, <1>7, <1>8, <1>9 DEF HeadlessInv

\* What a dead port was opening is surfaced, whatever became of it.
LEMMA RecoverKeeps == ASSUME HeadlessConstants, HeadlessInv, Run!Recover PROVE HeadlessInv'
<1>1. /\ at = "rest"
      /\ UNCHANGED <<flavor, at, filed, prompt, turns, expired, credential, delivered, replies,
                     faults, runs, answered, prompts, torn>>
  BY DEF Run!Recover, Run!opener, Run!chat, Run!shown
<1>2. /\ place \in [RunMessages -> {"ingress", "opening", "opened", "dead", "unresolved"}]
      /\ \A m \in RunMessages :
            place'[m] = IF place[m] = "opening" THEN "unresolved" ELSE place[m]
      /\ place' \in [RunMessages -> {"ingress", "opening", "opened", "dead", "unresolved"}]
  BY DEF Run!Recover, Run!Surface, HeadlessInv, PlaceInv
<1>3. Run!Opening' = {}
  BY <1>2 DEF Run!Opening
<1>4. PlaceInv'
  BY <1>1, <1>2, <1>3 DEF HeadlessInv, PlaceInv
<1>5. RunsInv' /\ AnswersInv'
  BY <1>1, <1>2, <1>3 DEF HeadlessInv, RunsInv, AnswersInv
<1>6. ChatInv'
  BY <1>1, <1>3 DEF HeadlessInv, ChatInv
<1>7. PromptInv'
  BY <1>1, <1>2, <1>3 DEF HeadlessInv, PromptInv
<1> QED BY <1>4, <1>5, <1>6, <1>7 DEF HeadlessInv

\* read_turns: what is left of the last Keep turns, none of them of this envelope.
LEMMA ReadTurnsKeeps == ASSUME HeadlessConstants, HeadlessInv, Run!ReadTurns PROVE HeadlessInv'
<1>1. /\ at = "read" /\ at' = "run" /\ prompt' = Run!Live
      /\ UNCHANGED <<flavor, filed, place, turns, expired, credential, delivered, replies,
                     faults, runs, answered, prompts, torn>>
  BY DEF Run!ReadTurns, Run!chat, Run!shown
<1>2. Run!Opening' = Run!Opening
  BY <1>1 DEF Run!Opening
<1>3. PlaceInv' /\ RunsInv' /\ AnswersInv' /\ ChatInv'
  BY <1>1, <1>2
  DEF HeadlessInv, PlaceInv, RunsInv, AnswersInv, ChatInv, OpenerSteps, BeforeRun, AfterRun
<1>s. /\ turns \in Seq(Turns) /\ Paired(turns, answered, torn)
      /\ expired \in 0 .. Len(turns) /\ RunKeep \in Nat
  BY DEF HeadlessInv, ChatInv, HeadlessConstants
<1>t. Len(turns) \in Nat
  BY <1>s
<1>4. PICK lo \in 0 .. Len(turns) : Run!Live = SubSeq(turns, lo + 1, Len(turns))
  <2> DEFINE lo == IF Len(turns) - RunKeep > expired THEN Len(turns) - RunKeep ELSE expired
  <2>1. lo \in 0 .. Len(turns)
    BY <1>s, <1>t
  <2> QED BY <2>1 DEF Run!Live
<1>5. /\ Run!Live \in Seq(Turns) /\ Paired(Run!Live, answered, torn)
      /\ \A i \in 1 .. Len(Run!Live) : \E j \in 1 .. Len(turns) : Run!Live[i] = turns[j]
  BY <1>s, <1>4, PartPaired
<1>6. ASSUME NEW m \in Run!Opening PROVE Shows(Run!Live, m, answered, torn)
  <2>1. \A i \in 1 .. Len(turns) : turns[i].of # m /\ turns[i].of \in answered
    BY <1>1, <1>6 DEF HeadlessInv, ChatInv, BeforeRun, Paired
  <2>2. \A n \in answered : n \in Nat /\ m \in Nat /\ n <= m
    BY <1>6, Earlier DEF HeadlessInv
  <2>3. \A i \in 1 .. Len(turns) : turns[i].of < m
    BY <2>1, <2>2
  <2> QED BY <1>5, <2>3 DEF Shows
<1>7. PromptInv'
  BY <1>1, <1>2, <1>6 DEF HeadlessInv, PromptInv
<1> QED BY <1>3, <1>7 DEF HeadlessInv

\* A turn expires.
LEMMA ExpireKeeps == ASSUME HeadlessInv, Run!Expire PROVE HeadlessInv'
<1>s. turns \in Seq(Turns) /\ expired \in 0 .. Len(turns)
  BY DEF HeadlessInv, ChatInv
<1>t. Len(turns) \in Nat
  BY <1>s
<1>1. /\ expired' \in 0 .. Len(turns)
      /\ UNCHANGED <<flavor, place, at, filed, prompt, turns, credential, delivered, replies,
                     faults, runs, answered, prompts, torn>>
  BY <1>s, <1>t DEF Run!Expire, Run!opener, Run!shown
<1>2. Run!Opening' = Run!Opening
  BY <1>1 DEF Run!Opening
<1>3. PlaceInv' /\ RunsInv' /\ AnswersInv' /\ ChatInv' /\ PromptInv'
  BY <1>1, <1>2 DEF HeadlessInv, PlaceInv, RunsInv, AnswersInv, ChatInv, PromptInv
<1> QED BY <1>3 DEF HeadlessInv

\* The steps of an opener that has an envelope in hand.
Opens == \/ Run!FindSandbox \/ Run!WriteAttachment \/ Run!WriteCredential \/ Run!Run \/ Run!Wipe \/ Run!WriteTurn
         \/ Run!RecordDelivered \/ Run!Reply \/ Run!Fails \/ Run!WipeFails \/ Run!Die

\* Of each of them: where the envelope goes, and what of the prompts and turns changes.
Handled ==
    /\ \E w \in {"opened", "dead", "unresolved"} :
          Handles(w) /\ (place' # place /\ w = "dead" => at \in {"sandbox", "attach"})
    /\ filed' \subseteq RunMessages
    /\ answered \subseteq answered' /\ torn \ {Run!Current} \subseteq torn'
    /\ prompt' \in {prompt, <<>>} /\ (at' = "rest" => prompt' = <<>>)
    /\ prompts' \in {prompts, [prompts EXCEPT ![Run!Current] = prompt]}

\* Every step of an opener is of this kind.
LEMMA OpensHandled == ASSUME HeadlessConstants, HeadlessInv, Opens PROVE Handled
<1>1. at \in OpenerSteps /\ filed \subseteq RunMessages
  BY DEF HeadlessInv, PlaceInv
<1>2. at # "rest" => Run!Current \in RunMessages
  BY TheCurrent DEF HeadlessInv, Run!Opening
<1>3. CASE Run!FindSandbox
  BY <1>1, <1>2, <1>3
  DEF Run!FindSandbox, Run!Leave, Handled, Handles, OpenerSteps, Run!chat, Run!shown
<1>4. CASE Run!WriteAttachment
  BY <1>1, <1>2, <1>4
  DEF Run!WriteAttachment, Run!Leave, Handled, Handles, OpenerSteps, Run!chat, Run!shown
<1>5. CASE Run!WriteCredential
  BY <1>1, <1>2, <1>5
  DEF Run!WriteCredential, Run!Leave, Handled, Handles, OpenerSteps, Run!chat, Run!shown
<1>6. CASE Run!Run
  BY <1>1, <1>2, <1>6 DEF Run!Run, Run!Leave, Handled, Handles, OpenerSteps, Run!chat, Run!shown
<1>7. CASE Run!Wipe
  BY <1>1, <1>2, <1>7
  DEF Run!Wipe, Run!Leave, Handled, Handles, OpenerSteps, Run!chat, Run!shown
<1>8. CASE Run!WriteTurn
  BY <1>1, <1>2, <1>8
  DEF Run!WriteTurn, Run!Leave, Handled, Handles, OpenerSteps, Run!chat, Run!shown
<1>9. CASE Run!RecordDelivered
  BY <1>1, <1>2, <1>9
  DEF Run!RecordDelivered, Run!Leave, Handled, Handles, OpenerSteps, Run!chat, Run!shown
<1>10. CASE Run!Reply
  BY <1>1, <1>2, <1>10
  DEF Run!Reply, Run!Leave, Handled, Handles, OpenerSteps, Run!chat, Run!shown
<1>11. CASE Run!Fails
  BY <1>1, <1>2, <1>11
  DEF Run!Fails, Run!Leave, Handled, Handles, OpenerSteps, Run!chat, Run!shown
<1>12. CASE Run!WipeFails
  BY <1>1, <1>2, <1>12
  DEF Run!WipeFails, Run!Leave, Handled, Handles, OpenerSteps, Run!chat, Run!shown
<1>13. CASE Run!Die
  BY <1>1, <1>2, <1>13
  DEF Run!Die, Run!Leave, Handled, Handles, OpenerSteps, Run!chat, Run!shown
<1> QED BY <1>3, <1>4, <1>5, <1>6, <1>7, <1>8, <1>9, <1>10, <1>11, <1>12, <1>13 DEF Opens

\* What each of them does beside that: it runs once, in order.
RunEffect ==
    /\ at # "run" => runs' = runs
    /\ at = "run" => runs' \in {runs, [runs EXCEPT ![Run!Current] = @ + 1]} /\ at' \notin BeforeRun
    /\ at' \in BeforeRun => at \in BeforeRun

\* It sends what was answered, after that was recorded, and removes the credential.
AnswerEffect ==
    /\ answered' \in {answered, answered \cup {Run!Current}}
    /\ delivered' \in {delivered, delivered \cup {Run!Current}}
    /\ at' \in AfterRun => at \in AfterRun \/ Run!Current \in answered'
    /\ replies' \in {replies, replies \cup {Run!Current}}
    /\ replies' # replies => at = "reply"
    /\ faults' \in {faults, faults + 1}
    /\ faults' = faults /\ at' = "reply" => Run!Current \in delivered'
    /\ credential' \in BOOLEAN
    /\ credential' => faults' = faults + 1 \/ at' = "run"
                      \/ (credential /\ (at = "run" => at' = "wipe") /\ at # "wipe")

\* It writes the message, and then the answer.
TurnEffect ==
    /\ expired' = expired
    /\ \/ /\ turns' = turns /\ torn' = torn /\ at' # "assistant"
          /\ at' \in BeforeRun \cup {"wipe", "wipe and fail", "user"} =>
               at \in BeforeRun \cup {"wipe", "wipe and fail", "user"}
       \/ /\ at \in {"user", "assistant"} /\ turns' = Append(turns, Run!Turn(Run!Current, at))
          /\ torn' = IF at = "user" THEN torn \cup {Run!Current} ELSE torn \ {Run!Current}
          /\ at' = (IF at = "user" THEN "assistant" ELSE "record") \/ at' = "rest"
          /\ answered' = answered

Effect == RunEffect /\ AnswerEffect /\ TurnEffect

\* Every step of an opener has these effects.
LEMMA OpensEffect == ASSUME HeadlessConstants, HeadlessInv, Opens PROVE Effect
<1>1. /\ at \in OpenerSteps /\ credential \in BOOLEAN /\ faults \in Nat
      /\ turns \in Seq(Turns) /\ torn \subseteq answered
  BY DEF HeadlessInv, PlaceInv, AnswersInv, ChatInv
<1>0. faults + 1 # faults
  <2>1. faults \in Nat
    BY DEF HeadlessInv, AnswersInv
  <2> QED BY <2>1
<1> USE DEF Run!Leave, BeforeRun, AfterRun, OpenerSteps, Effect, RunEffect, AnswerEffect, TurnEffect,
           Run!chat, Run!shown, Run!Fault
<1>2. CASE Run!FindSandbox
  BY <1>1, <1>2 DEF Run!FindSandbox
<1>3. CASE Run!WriteAttachment
  BY <1>1, <1>3 DEF Run!WriteAttachment
<1>4. CASE Run!WriteCredential
  BY <1>1, <1>4 DEF Run!WriteCredential
<1>5. CASE Run!Run
  BY <1>1, <1>5 DEF Run!Run
<1>6. CASE Run!Wipe
  BY <1>1, <1>6 DEF Run!Wipe
<1>7. CASE Run!WriteTurn
  BY <1>1, <1>7 DEF Run!WriteTurn
<1>8. CASE Run!RecordDelivered
  BY <1>1, <1>8 DEF Run!RecordDelivered
<1>9. CASE Run!Reply
  BY <1>1, <1>9 DEF Run!Reply
<1>10. CASE Run!Fails
  <2>1. at \in {"user", "assistant"} => Append(turns, Run!Turn(Run!Current, at)) # turns
    <3>1. at # "rest" => Run!Turn(Run!Current, at) = [of |-> Run!Current, role |-> at] /\ Run!Current \in RunMessages
      BY TheCurrent DEF HeadlessInv, Run!Opening, Run!Turn
    <3>2. at \in {"user", "assistant"} => Run!Turn(Run!Current, at) \in Turns
      BY <3>1 DEF Turns
    <3> QED BY <1>1, <3>2, Appended
  <2>2. CASE at \in {"user", "assistant"}
    <3>1. RunEffect
      BY <1>1, <1>10, <2>2 DEF Run!Fails
    <3>2. AnswerEffect
      BY <1>1, <1>10, <2>2 DEF Run!Fails
    <3>3. TurnEffect
      <4>1. at' = "rest" /\ UNCHANGED <<expired, answered>>
        BY <1>10, <2>2 DEF Run!Fails
      <4>2. turns' \in {turns, Append(turns, Run!Turn(Run!Current, at))}
        BY <1>10, <2>2 DEF Run!Fails
      <4>3. torn' = IF turns' = turns THEN torn
                    ELSE IF at = "user" THEN torn \cup {Run!Current} ELSE torn \ {Run!Current}
        BY <1>10, <2>2 DEF Run!Fails
      <4> QED BY <2>1, <2>2, <4>1, <4>2, <4>3
    <3> QED BY <3>1, <3>2, <3>3
  <2>3. CASE at \notin {"user", "assistant"}
    <3>1. RunEffect
      BY <1>1, <1>10, <2>3 DEF Run!Fails
    <3>2. AnswerEffect
      <4>1. /\ UNCHANGED <<answered, delivered>> /\ faults' = faults + 1
            /\ credential' \in {credential, credential \/ at = "credential"}
            /\ replies' \in {replies} \cup (IF at = "reply" THEN {replies \cup {Run!Current}} ELSE {})
        BY <1>10 DEF Run!Fails
      <4>2. at' \in AfterRun => at \in AfterRun
        BY <1>10, <2>3 DEF Run!Fails
      <4>3. credential' \in BOOLEAN
        <5>1. credential \in BOOLEAN /\ (credential \/ at = "credential") \in BOOLEAN
          BY <1>1
        <5> QED BY <4>1, <5>1
      <4> QED BY <1>0, <4>1, <4>2, <4>3
    <3>3. TurnEffect
      <4>1. UNCHANGED <<turns, torn, expired>> /\ at' \notin BeforeRun \cup {"user", "assistant", "wipe"}
            /\ (at' = "wipe and fail" => at = "run")
        BY <1>10, <2>3 DEF Run!Fails
      <4> QED BY <4>1
    <3> QED BY <3>1, <3>2, <3>3
  <2> QED BY <2>2, <2>3
<1>11. CASE Run!WipeFails
  BY <1>1, <1>11 DEF Run!WipeFails
<1>12. CASE Run!Die
  BY <1>1, <1>12 DEF Run!Die
<1> QED BY <1>2, <1>3, <1>4, <1>5, <1>6, <1>7, <1>8, <1>9, <1>10, <1>11, <1>12 DEF Opens

\* They keep who ran: a run is the first of its envelope, and a dead letter never ran.
LEMMA OpensRuns == ASSUME HeadlessConstants, HeadlessInv, Opens PROVE RunsInv'
<1>1. Handled
  BY OpensHandled
<1>2. PICK w \in {"opened", "dead", "unresolved"} :
         Handles(w) /\ (place' # place /\ w = "dead" => at \in {"sandbox", "attach"})
  BY <1>1 DEF Handled
<1>3. PlaceInv' /\ Run!Opening' \subseteq Run!Opening /\ Run!Opening = {Run!Current} /\ at # "rest"
  BY <1>1, <1>2, PlaceKept, TheCurrent DEF HeadlessInv, Handled, Handles
<1>4. Run!Current \in RunMessages /\ place[Run!Current] = "opening" /\ runs \in [RunMessages -> 0 .. 1]
      /\ (at \in BeforeRun => runs[Run!Current] = 0)
  BY <1>3 DEF Run!Opening, HeadlessInv, RunsInv
<1>5. RunEffect
  BY OpensEffect DEF Effect
<1>e. runs' \in {runs, [runs EXCEPT ![Run!Current] = 1]}
  BY <1>4, <1>5 DEF RunEffect, BeforeRun
<1>6. /\ runs' \in [RunMessages -> 0 .. 1]
      /\ \A n \in RunMessages : n # Run!Current => runs'[n] = runs[n]
      /\ runs'[Run!Current] = runs[Run!Current] \/ (at = "run" /\ at' \notin BeforeRun)
  BY <1>4, <1>5, <1>e DEF RunEffect, BeforeRun
<1>7. ASSUME NEW m \in RunMessages,
             place'[m] \in {"ingress", "dead"} \/ (m \in Run!Opening' /\ at' \in BeforeRun)
      PROVE  runs'[m] = 0
  <2>1. CASE m = Run!Current
    <3>1. (at \in BeforeRun /\ at' \in BeforeRun) \/ at \in {"sandbox", "attach"}
      BY <1>2, <1>3, <1>4, <1>5, <1>7, <2>1 DEF Handles, HeadlessInv, PlaceInv, RunEffect
    <3> QED BY <1>4, <1>5, <1>6, <2>1, <3>1 DEF BeforeRun
  <2>2. CASE m # Run!Current
    <3>1. place'[m] = place[m] /\ m \notin Run!Opening'
      BY <1>2, <1>3, <2>2 DEF Handles, HeadlessInv, PlaceInv
    <3> QED BY <1>6, <1>7, <2>2, <3>1 DEF HeadlessInv, RunsInv
  <2> QED BY <2>1, <2>2
<1> QED BY <1>6, <1>7 DEF RunsInv

\* They keep what was answered and sent, and where the credential is.
LEMMA OpensAnswers == ASSUME HeadlessConstants, HeadlessInv, Opens PROVE AnswersInv'
<1>1. Handled
  BY OpensHandled
<1>2. PICK w \in {"opened", "dead", "unresolved"} : Handles(w)
  BY <1>1 DEF Handled
<1>3. /\ Run!Opening' \subseteq Run!Opening /\ Run!Opening = {Run!Current} /\ at # "rest"
      /\ \A n \in RunMessages : place[n] = "ingress" <=> place'[n] = "ingress"
      /\ at \in OpenerSteps /\ Run!Current \in RunMessages /\ place[Run!Current] = "opening"
  BY <1>1, <1>2, PlaceKept, TheCurrent DEF HeadlessInv, PlaceInv, Handled, Handles, Run!Opening
<1>4. /\ answered \subseteq RunMessages /\ replies \subseteq answered /\ delivered \subseteq RunMessages
      /\ \A m \in answered : place[m] # "ingress"
      /\ at \in AfterRun => Run!Current \in answered
      /\ faults \in Nat
      /\ faults = 0 => replies \subseteq delivered /\ (at = "reply" => Run!Current \in delivered)
      /\ credential \in BOOLEAN
      /\ credential => faults > 0 \/ at \in {"run", "wipe"}
  BY <1>3 DEF HeadlessInv, AnswersInv
<1>5. AnswerEffect
  BY OpensEffect DEF Effect
<1>6. /\ at' \in AfterRun => Run!Current \in answered'
      /\ faults' \in Nat /\ faults' >= faults
      /\ faults' = 0 /\ at' = "reply" => Run!Current \in delivered'
  BY <1>4, <1>5 DEF AnswerEffect, AfterRun
<1>7. /\ credential' \in BOOLEAN
      /\ credential' => faults' > 0 \/ at' \in {"run", "wipe"}
  BY <1>4, <1>5 DEF AnswerEffect
<1>8. /\ answered' \subseteq RunMessages /\ replies' \subseteq answered'
      /\ delivered' \subseteq RunMessages
      /\ \A m \in answered' : place'[m] # "ingress"
      /\ faults' = 0 => replies' \subseteq delivered'
  BY <1>3, <1>4, <1>5, <1>6 DEF AfterRun, AnswerEffect
<1> QED BY <1>3, <1>6, <1>7, <1>8 DEF AnswersInv

\* They keep the turns: the message is written, then the answer to it.
LEMMA OpensChat == ASSUME HeadlessConstants, HeadlessInv, Opens PROVE ChatInv'
<1>1. Handled
  BY OpensHandled
<1>2. PICK w \in {"opened", "dead", "unresolved"} : Handles(w)
  BY <1>1 DEF Handled
<1>3. /\ Run!Opening' \subseteq Run!Opening /\ Run!Opening = {Run!Current} /\ at # "rest"
      /\ at \in OpenerSteps /\ Run!Current \in RunMessages
  BY <1>1, <1>2, PlaceKept, TheCurrent DEF HeadlessInv, PlaceInv, Handled, Handles, Run!Opening
<1>4. /\ turns \in Seq(Turns) /\ expired \in 0 .. Len(turns)
      /\ torn \subseteq answered /\ Paired(turns, answered, torn)
      /\ at \in BeforeRun \cup {"wipe", "wipe and fail", "user"} =>
           \A i \in 1 .. Len(turns) : turns[i].of # Run!Current
      /\ at = "assistant" =>
           /\ turns # <<>> /\ turns[Len(turns)] = Run!Turn(Run!Current, "user")
           /\ \A i \in 1 .. Len(turns) - 1 : turns[i].of # Run!Current
  BY <1>3 DEF HeadlessInv, ChatInv
<1>5. answered \subseteq answered' /\ (at \in AfterRun => Run!Current \in answered)
  BY <1>1, <1>3 DEF Handled, HeadlessInv, AnswersInv
<1>6. TurnEffect
  BY OpensEffect DEF Effect
<1>7. CASE /\ turns' = turns /\ torn' = torn /\ at' # "assistant"
           /\ at' \in BeforeRun \cup {"wipe", "wipe and fail", "user"} =>
                at \in BeforeRun \cup {"wipe", "wipe and fail", "user"}
  <2>1. Paired(turns, answered', torn) /\ torn \subseteq answered'
    BY <1>4, <1>5, StaysPaired
  <2>2. expired' = expired
    BY <1>6 DEF TurnEffect
  <2> QED BY <1>3, <1>4, <1>7, <2>1, <2>2 DEF ChatInv
<1>8. CASE /\ at \in {"user", "assistant"} /\ turns' = Append(turns, Run!Turn(Run!Current, at))
           /\ torn' = IF at = "user" THEN torn \cup {Run!Current} ELSE torn \ {Run!Current}
           /\ at' = (IF at = "user" THEN "assistant" ELSE "record") \/ at' = "rest"
           /\ answered' = answered
  <2>1. expired' = expired
    BY <1>6 DEF TurnEffect
  <2>2. Run!Current \in answered /\ RunMessages \subseteq Nat
    BY <1>5, <1>8 DEF AfterRun, HeadlessConstants
  <2>3. \A i \in 1 .. Len(turns) : turns[i].of <= Run!Current
    <3>1. \A n \in answered : n <= Run!Current
      BY <1>3, Earlier DEF HeadlessInv
    <3> QED BY <1>4, <3>1 DEF Paired
  <2>t. Run!Turn(Run!Current, at) = [of |-> Run!Current, role |-> at]
    BY DEF Run!Turn
  <2>4. Run!Turn(Run!Current, at) \in Turns
    BY <1>3, <1>8, <2>t DEF Turns
  <2>5. /\ Len(turns') = Len(turns) + 1 /\ Len(turns) \in Nat /\ turns'[Len(turns')] = Run!Turn(Run!Current, at)
        /\ \A i \in 1 .. Len(turns') - 1 : i \in 1 .. Len(turns) /\ turns'[i] = turns[i]
    <3>1. turns \in Seq(Turns) /\ turns' = Append(turns, Run!Turn(Run!Current, at))
      BY <1>4, <1>8
    <3>2. /\ Len(turns) \in Nat /\ Len(turns') = Len(turns) + 1
          /\ turns'[Len(turns) + 1] = Run!Turn(Run!Current, at)
          /\ \A i \in 1 .. Len(turns) : turns'[i] = turns[i]
      BY <2>4, <3>1, Appended
    <3> QED BY <3>2
  <2>6. Paired(turns', answered, torn') /\ turns' \in Seq(Turns)
    <3>1. CASE at = "user"
      BY <1>3, <1>4, <1>8, <2>2, <2>3, <3>1, UserPaired
    <3>2. CASE at = "assistant"
      BY <1>3, <1>4, <1>8, <2>2, <3>2, AssistantPaired
    <3> QED BY <1>8, <3>1, <3>2
  <2>7. expired' \in 0 .. Len(turns') /\ torn' \subseteq answered
    <3>1. expired' \in 0 .. Len(turns')
      <4>1. expired \in 0 .. Len(turns)
        BY <1>4
      <4>2. Len(turns') = Len(turns) + 1 /\ Len(turns) \in Nat
        BY <2>5
      <4> QED BY <2>1, <4>1, <4>2
    <3>2. torn' \subseteq answered
      BY <1>4, <1>8, <2>2
    <3> QED BY <3>1, <3>2
  <2>8. at' \notin BeforeRun \cup {"wipe", "wipe and fail", "user"}
    BY <1>8 DEF BeforeRun
  <2>9. at' = "assistant" => at = "user" /\ turns' # <<>>
    <3>1. turns' # <<>>
      BY <2>5
    <3> QED BY <1>8, <3>1
  <2>10. at = "user" => \A i \in 1 .. Len(turns') - 1 : turns'[i].of # Run!Current
    BY <1>4, <2>5
  <2> QED BY <1>3, <1>8, <2>5, <2>6, <2>7, <2>8, <2>9, <2>10 DEF ChatInv
<1> QED BY <1>6, <1>7, <1>8 DEF TurnEffect

\* An opener's step keeps the invariant.
LEMMA OpensKeep == ASSUME HeadlessConstants, HeadlessInv, Opens PROVE HeadlessInv'
<1>1. Handled
  BY OpensHandled
<1>2. PICK w \in {"opened", "dead", "unresolved"} : Handles(w)
  BY <1>1 DEF Handled
<1>3. /\ PlaceInv' /\ Run!Opening' \subseteq Run!Opening /\ at # "rest"
      /\ \A n \in RunMessages : place[n] = "ingress" <=> place'[n] = "ingress"
  BY <1>1, <1>2, PlaceKept DEF HeadlessInv, Handled, Handles
<1>4. PromptInv'
  BY <1>1, <1>3, PromptKept DEF HeadlessInv, Handled
<1> QED BY <1>3, <1>4, OpensRuns, OpensAnswers, OpensChat DEF HeadlessInv

\* Every step keeps it.
LEMMA HeadlessStep ==
    ASSUME HeadlessConstants, HeadlessInv, Run!Next \/ UNCHANGED Run!hvars PROVE HeadlessInv'
<1>1. CASE UNCHANGED Run!hvars
  <2>1. UNCHANGED <<place, at, filed, prompt, turns, expired, credential, delivered, replies,
                    faults, runs, answered, prompts, torn>>
    BY <1>1 DEF Run!hvars, Run!opener, Run!chat, Run!shown
  <2>2. Run!Opening' = Run!Opening
    BY <2>1 DEF Run!Opening
  <2>3. PlaceInv' /\ RunsInv' /\ AnswersInv' /\ ChatInv' /\ PromptInv'
    BY <2>1, <2>2 DEF HeadlessInv, PlaceInv, RunsInv, AnswersInv, ChatInv, PromptInv
  <2> QED BY <2>3 DEF HeadlessInv
<1>2. CASE Run!Next
  BY <1>2, TakeKeeps, RecoverKeeps, ReadTurnsKeeps, ExpireKeeps, OpensKeep DEF Run!Next, Opens
<1> QED BY <1>1, <1>2

\* What the invariant says of runs, answers and turns is RunOnce.
LEMMA RunOnceFollows == ASSUME HeadlessConstants, HeadlessInv PROVE Run!RunOnce
<1>1. /\ runs \in [RunMessages -> 0 .. 1]
      /\ \A m \in RunMessages : place[m] = "dead" => runs[m] = 0
      /\ replies \subseteq answered /\ (faults = 0 => replies \subseteq delivered)
      /\ credential => faults > 0 \/ at \in {"run", "wipe"}
  BY DEF HeadlessInv, RunsInv, AnswersInv
<1>2. \A m \in RunMessages : Shows(prompts[m], m, answered, torn)
  BY DEF HeadlessInv, PromptInv
<1> QED BY <1>1, <1>2 DEF Run!RunOnce, Shows, Paired

\* Its types follow too.
LEMMA HeadlessTypes == ASSUME HeadlessInv PROVE Run!TypeOK
<1>2. expired \in 0 .. Len(turns)
  BY DEF HeadlessInv, ChatInv
<1>3. delivered \cup replies \cup answered \cup torn \cup filed \subseteq RunMessages
  BY DEF HeadlessInv, ChatInv, AnswersInv, PlaceInv
<1> QED BY <1>2, <1>3 DEF HeadlessInv, PlaceInv, Run!TypeOK

\* An envelope is run once at most, a dead letter never; an answer is sent of a run that
\* ended well, and what a run is shown of the context is whole turns of earlier envelopes.
THEOREM HeadlessSafe == ASSUME HeadlessConstants PROVE Run!Spec => []Run!RunOnce
<1>1. Run!Init => HeadlessInv
  BY HeadlessInit
<1>2. HeadlessInv /\ [Run!Next]_Run!hvars => HeadlessInv'
  BY HeadlessStep
<1>3. HeadlessInv => Run!RunOnce
  BY RunOnceFollows
<1> QED BY <1>1, <1>2, <1>3, PTL DEF Run!Spec

-----------------------------------------------------------------------------
(* The watchdog and the lead                                                *)

CONSTANTS LeadTickets, LeadClients, LeadStatuses, LeadNothing, LeadThreshold,
          LeadCooldown, LeadMaxTime, LeadMaxMoves, LeadMaxFaults
VARIABLES moves, slot, created, entered, backlog, lead, found, told, reported, standing,
          rule, polled, due, present, storing, nags, again, last

Lead == INSTANCE LeadAlerts WITH
    Tickets <- LeadTickets, Clients <- LeadClients, Statuses <- LeadStatuses,
    Nothing <- LeadNothing, Threshold <- LeadThreshold, Cooldown <- LeadCooldown,
    MaxTime <- LeadMaxTime, MaxMoves <- LeadMaxMoves, MaxFaults <- LeadMaxFaults

\* Of the constants: thresholds are positive, a status is something, and what marks a
\* list that was read is no ticket.
LeadConstants ==
    /\ \A r \in {"stall", "doing", "todo", "hold", "unreplied"} : LeadThreshold[r] \in Nat \ {0}
    /\ "looked" \notin LeadTickets \cup LeadClients
    /\ LeadNothing \notin LeadStatuses \cup {"present"}

Telling == {"doing", "todo", "hold", "unreplied"}
Someone == LeadTickets \cup LeadClients

\* Of the clock, the board and the clients; of what the polls remember; of a poll.
WorldTypes ==
    /\ now \in Nat
    /\ slot \in [LeadTickets -> {"away", "todo", "doing", "hold"}]
    /\ created \in [LeadTickets -> Nat] /\ entered \in [LeadTickets -> Nat]
    /\ backlog \in [LeadClients -> Nat]
    /\ \A t, u \in LeadTickets : slot[t] = "doing" /\ slot[u] = "doing" => t = u
    /\ found \in LeadStatuses
KeptTypes ==
    /\ told = [r \in Lead!Hashes \cup {"doing"} |-> told[r]]
    /\ \A r \in Lead!Hashes : told[r] \in [Someone -> Nat]
    /\ told["doing"] \in [subject : Someone \cup {LeadNothing}, level : Nat]
RuleNames == {"rest", "stall", "credential"} \cup Telling
PollTypes ==
    /\ rule \in RuleNames
    /\ polled \in Nat /\ polled <= now
    /\ due \subseteq [subject : Someone, since : Nat]
    /\ \A d \in due : d.subject \in present
    /\ storing \in [subject : Someone \cup LeadStatuses \cup {LeadNothing}, level : Nat]
    /\ storing # Lead!NoStore => rule # "rest" /\ storing.level > 0
    /\ IsFiniteSet(nags)
    /\ nags \subseteq [rule : Telling, subject : Someone, since : Nat, level : Nat]
    /\ \A n \in nags : n.since < now
    /\ faults \in Nat /\ again \in Nat

\* What rule r goes through now.
List(r) == CASE r = "doing" -> Lead!InDoing [] r = "todo" -> Lead!InTodo
             [] r = "hold" -> Lead!OnHold [] r = "unreplied" -> Lead!Waiting [] OTHER -> {}

\* What the poll is at was there when it looked, or was never told of.
SeenInv ==
    /\ present # {} => \A n \in nags :
         n.rule = rule /\ Lead!Item(n.subject, n.since) \in List(n.rule) => n.subject \in present
    /\ rule = "doing" => \A s, t \in present \ {"looked"} : s = t
    /\ rule \in Telling /\ storing # Lead!NoStore =>
         /\ storing.subject \in present /\ storing.subject \in Someone
         /\ Lead!Told(storing.subject) < storing.level
    /\ rule = "credential" /\ storing # Lead!NoStore => storing.subject = last

\* What was told of something that is still so, and is not remembered nor about to be.
ToldOf(n) == IF n.rule = "doing"
               THEN (IF told["doing"].subject = n.subject THEN told["doing"].level ELSE 0)
               ELSE told[n.rule][n.subject]
Live(n) == \/ Lead!Item(n.subject, n.since) \in List(n.rule)
           \/ n.rule = rule /\ Lead!Item(n.subject, n.since) \in due
Stored(n) == /\ storing # Lead!NoStore
             /\ n.rule = rule /\ n.subject = storing.subject /\ n.level = storing.level
Open == {n \in nags : Live(n) /\ ToldOf(n) < n.level /\ ~Stored(n)}

\* The same of the status of the credential.
AsStanding(status) == IF status = "present" THEN LeadNothing ELSE status
Unsettled == standing # AsStanding(last) /\ ~(rule = "credential" /\ storing # Lead!NoStore)
Pending == IF Unsettled THEN 1 ELSE 0

\* What may be told again, a fault has lost.
CountInv == again + Cardinality(Open) + Pending <= faults

\* The status that was reported, and the one that stands.
StandingInv ==
    /\ standing \in LeadStatuses \cup {LeadNothing} /\ standing # "present"
    /\ last \in LeadStatuses \cup {LeadNothing}

LeadInv == WorldTypes /\ KeptTypes /\ PollTypes /\ SeenInv /\ StandingInv /\ CountInv

\* The rules that tell the lead, of which rule follows which nothing is needed.
LEMMA Crosses ==
    ASSUME NEW a \in Int, NEW b \in Nat \ {0}, a \div b > 0
    PROVE  a > 0
OBVIOUS

\* What Level tells of: something that is older than the poll, and more than was told.
LEMMA LevelFacts ==
    ASSUME LeadConstants, WorldTypes, KeptTypes, PollTypes, rule \in Telling, NEW d \in due
    PROVE  /\ Lead!Level(d) \in Nat
           /\ Lead!Level(d) # 0 => /\ Lead!Told(d.subject) < Lead!Level(d) /\ Lead!Told(d.subject) \in Nat
                                   /\ d.since < now
<1>1. /\ d.subject \in Someone /\ d.since \in Nat /\ polled \in Nat /\ polled <= now /\ now \in Nat
  BY DEF PollTypes, WorldTypes
<1>2. LeadThreshold[rule] \in Nat \ {0} /\ LeadThreshold["unreplied"] \in Nat \ {0}
  BY DEF LeadConstants, Telling
<1>3. Lead!Told(d.subject) \in Nat
  <2>1. rule # "doing" => told[rule] \in [Someone -> Nat]
    BY DEF KeptTypes, Telling, Lead!Hashes
  <2>2. told["doing"].level \in Nat
    BY DEF KeptTypes
  <2> QED BY <1>1, <2>1, <2>2 DEF Lead!Told
<1>4. Lead!Age(d) \in Int /\ (Lead!Age(d) > 0 => d.since < now)
  BY <1>1 DEF Lead!Age
<1>5. Lead!Crossing(d) \in Int /\ (Lead!Crossing(d) > 0 => Lead!Age(d) > 0)
  <2>1. Lead!Crossing(d) = Lead!Age(d) \div LeadThreshold[rule]
    BY DEF Lead!Crossing
  <2>2. Lead!Age(d) \div LeadThreshold[rule] \in Int
    BY <1>2, <1>4
  <2> QED BY <1>2, <1>4, <2>1, <2>2, Crosses
<1>6. CASE rule = "unreplied"
  <2> DEFINE required == IF Lead!Told(d.subject) = 0 THEN LeadThreshold["unreplied"] ELSE 2 * Lead!Told(d.subject)
  <2>1. required \in Nat /\ required > 0 /\ Lead!Told(d.subject) < required
    BY <1>2, <1>3
  <2>2. Lead!Level(d) = IF Lead!Age(d) >= required THEN required ELSE 0
    BY <1>6 DEF Lead!Level, Lead!Outwaited
  <2> HIDE DEF required
  <2>3. Lead!Level(d) # 0 => Lead!Age(d) > 0 /\ Lead!Level(d) = required
    BY <1>4, <2>1, <2>2
  <2> QED BY <1>3, <1>4, <2>1, <2>2, <2>3
<1>7. CASE rule # "unreplied"
  <2>1. Lead!Level(d) = IF Lead!Told(d.subject) >= Lead!Crossing(d) THEN 0 ELSE Lead!Crossing(d)
    BY <1>7 DEF Lead!Level, Lead!Crossed
  <2> QED BY <1>3, <1>4, <1>5, <2>1
<1> QED BY <1>6, <1>7

\* The list a rule goes through.
LEMMA ListTypes ==
    ASSUME WorldTypes, NEW r
    PROVE  /\ List(r) \subseteq [subject : Someone, since : Nat]
           /\ \A d, e \in List(r) : d.subject = e.subject => d = e
           /\ \A d, e \in List("doing") : d = e
<1>1. \A t \in LeadTickets : entered[t] \in Nat /\ created[t] \in Nat
  BY DEF WorldTypes
<1>2. \A c \in LeadClients : backlog[c] \in Nat
  BY DEF WorldTypes
<1>3. /\ Lead!InDoing \subseteq [subject : Someone, since : Nat]
      /\ \A d, e \in Lead!InDoing : d = e
  BY <1>1 DEF Lead!InDoing, Lead!Item, Lead!InSlot, Someone, WorldTypes
<1>4. /\ Lead!InTodo \subseteq [subject : Someone, since : Nat]
      /\ \A d, e \in Lead!InTodo : d.subject = e.subject => d = e
  BY <1>1 DEF Lead!InTodo, Lead!Item, Lead!InSlot, Someone
<1>5. /\ Lead!OnHold \subseteq [subject : Someone, since : Nat]
      /\ \A d, e \in Lead!OnHold : d.subject = e.subject => d = e
  BY <1>1 DEF Lead!OnHold, Lead!Item, Lead!InSlot, Someone
<1>6. /\ Lead!Waiting \subseteq [subject : Someone, since : Nat]
      /\ \A d, e \in Lead!Waiting : d.subject = e.subject => d = e
  BY <1>2 DEF Lead!Waiting, Lead!Item, Someone
<1> QED BY <1>3, <1>4, <1>5, <1>6 DEF List

\* The office, and the clock, as far as the invariant is concerned.
LEMMA WorldTypesKept ==
    ASSUME WorldTypes, Lead!Next \/ UNCHANGED Lead!lvars
    PROVE  WorldTypes'
<1>1. CASE UNCHANGED <<now, slot, created, entered, backlog, found>>
  BY <1>1 DEF WorldTypes
<1>2. CASE Lead!Tick
  BY <1>2 DEF Lead!Tick, WorldTypes
<1>3. ASSUME NEW t \in LeadTickets, NEW from \in {"away", "todo", "doing", "hold"},
             NEW to \in {"away", "todo", "doing", "hold"}, Lead!Move(t, from, to)
      PROVE  WorldTypes'
  <2>1. /\ slot' = [slot EXCEPT ![t] = to]
        /\ to = "doing" => \A u \in LeadTickets : slot[u] # "doing"
        /\ created' \in {created, [created EXCEPT ![t] = now]}
        /\ entered' \in {[entered EXCEPT ![t] = now], [entered EXCEPT ![t] = 0]}
        /\ UNCHANGED <<now, backlog, found>>
    BY <1>3 DEF Lead!Move
  <2>2. created' \in [LeadTickets -> Nat] /\ entered' \in [LeadTickets -> Nat]
    BY <2>1 DEF WorldTypes
  <2>3. \A u, v \in LeadTickets : slot'[u] = "doing" /\ slot'[v] = "doing" => u = v
    BY <2>1 DEF WorldTypes
  <2>4. slot' \in [LeadTickets -> {"away", "todo", "doing", "hold"}]
    BY <2>1 DEF WorldTypes
  <2> QED BY <2>1, <2>2, <2>3, <2>4 DEF WorldTypes
<1>4. ASSUME NEW c \in LeadClients, Lead!Writes(c) \/ Lead!Answers(c) PROVE WorldTypes'
  BY <1>4 DEF Lead!Writes, Lead!Answers, WorldTypes
<1>5. CASE Lead!CredentialChanges
  BY <1>5 DEF Lead!CredentialChanges, WorldTypes
<1>6. CASE Lead!Board
  BY <1>3, <1>6 DEF Lead!Board
<1> QED BY <1>1, <1>2, <1>4, <1>5, <1>6
    DEF Lead!Next, Lead!lvars, Lead!world, Lead!LeadGoes, Lead!Start, Lead!Look, Lead!Tell,
        Lead!Remember, Lead!Prune, Lead!Stall, Lead!RememberStall,
        Lead!CheckCredential, Lead!RememberCredential, Lead!Fail, Lead!Die

\* Which rule follows which.
LEMMA RuleFollows ==
    ASSUME rule \in RuleNames, rule # "rest"
    PROVE  Lead!RuleAfter(rule) \in RuleNames
<1>1. /\ DOMAIN Lead!Rules = 1 .. 6 /\ Len(Lead!Rules) = 6
      /\ \A i \in 1 .. 6 : Lead!Rules[i] \in RuleNames
      /\ \E i \in 1 .. 6 : Lead!Rules[i] = rule
  BY DEF Lead!Rules, RuleNames, Telling
<1> DEFINE k == CHOOSE j \in DOMAIN Lead!Rules : Lead!Rules[j] = rule
<1>2. k \in 1 .. 6
  BY <1>1
<1>3. Lead!RuleAfter(rule) = IF k = Len(Lead!Rules) THEN "rest" ELSE Lead!Rules[k + 1]
  BY DEF Lead!RuleAfter
<1> HIDE DEF k
<1>4. k # 6 => k + 1 \in 1 .. 6
  BY <1>2
<1> QED BY <1>1, <1>3, <1>4 DEF RuleNames

\* What is remembered of one subject, as it was told.
LEMMA RememberTold ==
    ASSUME KeptTypes, PollTypes, SeenInv, Lead!Remember
    PROVE  /\ KeptTypes' /\ rule \in Telling
           /\ rule = "doing" => told'["doing"] = storing
           /\ rule # "doing" => told'["doing"] = told["doing"]
           /\ \A r \in Lead!Hashes, s \in Someone :
                 told'[r][s] = IF r = rule /\ s = storing.subject
                                 THEN storing.level ELSE told[r][s]
<1>0. /\ \A r \in Lead!Hashes : told[r] \in [Someone -> Nat]
      /\ told = [r \in Lead!Hashes \cup {"doing"} |-> told[r]]
  BY DEF KeptTypes
<1>1. rule \in Telling
  BY DEF Lead!Remember, PollTypes, RuleNames
<1>2. /\ storing.subject \in Someone /\ storing.level \in Nat
      /\ storing \in [subject : Someone \cup LeadStatuses \cup {LeadNothing}, level : Nat]
  BY <1>1 DEF Lead!Remember, PollTypes, SeenInv
<1>3. "doing" \notin Lead!Hashes
  BY DEF Lead!Hashes
<1>4. CASE rule = "doing"
  <2>1. told' = [told EXCEPT !["doing"] = storing]
    BY <1>4 DEF Lead!Remember
  <2>2. /\ told' = [r \in Lead!Hashes \cup {"doing"} |-> told'[r]]
        /\ told'["doing"] = storing
        /\ \A r \in Lead!Hashes : told'[r] = told[r]
    BY <1>0, <1>3, <2>1
  <2>3. storing \in [subject : Someone \cup {LeadNothing}, level : Nat]
    BY <1>2
  <2>4. KeptTypes'
    BY <1>0, <2>2, <2>3 DEF KeptTypes
  <2> QED BY <1>1, <1>3, <1>4, <2>2, <2>4
<1>5. CASE rule # "doing"
  <2> DEFINE f == [told[rule] EXCEPT ![storing.subject] = storing.level]
  <2>1. rule \in Lead!Hashes /\ told' = [told EXCEPT ![rule] = f]
    <3>1. rule \in Lead!Hashes
      BY <1>1, <1>5 DEF Lead!Hashes, Telling
    <3>2. told' = [told EXCEPT ![rule][storing.subject] = storing.level]
      BY <1>5 DEF Lead!Remember
    <3> QED BY <3>1, <3>2
  <2>2. /\ f \in [Someone -> Nat]
        /\ \A s \in Someone : f[s] = IF s = storing.subject THEN storing.level ELSE told[rule][s]
    BY <1>0, <1>2, <2>1
  <2> HIDE DEF f
  <2>3. /\ told' = [r \in Lead!Hashes \cup {"doing"} |-> told'[r]]
        /\ told'[rule] = f
        /\ \A r \in Lead!Hashes \cup {"doing"} : r # rule => told'[r] = told[r]
    BY <1>0, <2>1
  <2>4. KeptTypes'
    BY <1>0, <1>5, <2>2, <2>3 DEF KeptTypes
  <2> QED BY <1>1, <1>5, <2>2, <2>3, <2>4
<1> QED BY <1>4, <1>5

\* What is forgotten of those that were not seen.
LEMMA PruneTold ==
    ASSUME KeptTypes, Lead!Prune
    PROVE  /\ KeptTypes' /\ rule \in Telling
           /\ told'["doing"] = told["doing"]
           /\ \A r \in Lead!Hashes, s \in Someone :
                 told'[r][s] = IF r = rule /\ s \notin present THEN 0 ELSE told[r][s]
<1>0. /\ \A r \in Lead!Hashes : told[r] \in [Someone -> Nat]
      /\ told = [r \in Lead!Hashes \cup {"doing"} |-> told[r]]
  BY DEF KeptTypes
<1>1. rule \in Telling
  BY DEF Lead!Prune, Telling
<1>2. CASE rule = "doing"
  BY <1>0, <1>1, <1>2 DEF Lead!Prune, KeptTypes, Lead!Hashes
<1>3. CASE rule # "doing"
  <2> DEFINE f == [s \in DOMAIN told[rule] |-> IF s \in present THEN told[rule][s] ELSE 0]
  <2>1. rule \in Lead!Hashes /\ told' = [told EXCEPT ![rule] = f]
    BY <1>1, <1>3 DEF Lead!Prune, Lead!Hashes, Telling
  <2>2. /\ f \in [Someone -> Nat]
        /\ \A s \in Someone : f[s] = IF s \in present THEN told[rule][s] ELSE 0
    BY <1>0, <2>1
  <2> HIDE DEF f
  <2>3. /\ told' = [r \in Lead!Hashes \cup {"doing"} |-> told'[r]]
        /\ told'[rule] = f
        /\ \A r \in Lead!Hashes \cup {"doing"} : r # rule => told'[r] = told[r]
    BY <1>0, <2>1
  <2>4. "doing" \notin Lead!Hashes
    BY DEF Lead!Hashes
  <2>5. KeptTypes'
    BY <1>0, <1>3, <2>2, <2>3 DEF KeptTypes
  <2> QED BY <1>1, <1>3, <2>2, <2>3, <2>5
<1> QED BY <1>2, <1>3

\* Nothing else is.
LEMMA NothingTold ==
    ASSUME Lead!Next \/ UNCHANGED Lead!lvars, ~Lead!Remember, ~Lead!Prune
    PROVE  told' = told
BY DEF Lead!Next, Lead!lvars, Lead!kept, Lead!Tick, Lead!Board, Lead!Move, Lead!Writes,
   Lead!Answers, Lead!CredentialChanges,
       Lead!LeadGoes, Lead!Start, Lead!Look, Lead!Tell, Lead!Stall, Lead!RememberStall,
       Lead!CheckCredential, Lead!RememberCredential, Lead!Fail, Lead!Die

\* So what the polls remember keeps its types.
LEMMA KeptTypesKept ==
    ASSUME KeptTypes, PollTypes, SeenInv, Lead!Next \/ UNCHANGED Lead!lvars
    PROVE  KeptTypes'
<1>1. CASE told' = told
  BY <1>1 DEF KeptTypes
<1> QED BY <1>1, RememberTold, PruneTold, NothingTold

\* A poll.
LEMMA PollTypesKept ==
    ASSUME LeadConstants, WorldTypes, KeptTypes, PollTypes, Lead!Next \/ UNCHANGED Lead!lvars
    PROVE  PollTypes'
<1>0. Lead!NoStore \in [subject : Someone \cup LeadStatuses \cup {LeadNothing}, level : Nat]
  BY DEF Lead!NoStore
<1>1. \/ /\ UNCHANGED <<rule, polled, due, present, storing, faults, again>>
         /\ now <= now' /\ nags' \subseteq nags
      \/ Lead!Start \/ Lead!Look \/ Lead!Tell \/ Lead!Remember \/ Lead!Prune \/ Lead!Stall \/ Lead!RememberStall
      \/ Lead!CheckCredential \/ Lead!RememberCredential \/ Lead!Fail \/ Lead!Die
  <2>1. now \in Nat
    BY DEF WorldTypes
  <2>2. \A S : Lead!Forgets(S) => nags' \subseteq nags
    BY DEF Lead!Forgets
  <2>3. CASE Lead!Tick
    BY <2>1, <2>3 DEF Lead!Tick, Lead!polling
  <2>4. CASE Lead!Board
    BY <2>1, <2>2, <2>4 DEF Lead!Board, Lead!Move, Lead!polling
  <2>5. ASSUME NEW c \in LeadClients, Lead!Writes(c) \/ Lead!Answers(c)
        PROVE  /\ UNCHANGED <<rule, polled, due, present, storing, faults, again>>
               /\ now <= now' /\ nags' \subseteq nags
    BY <2>1, <2>2, <2>5 DEF Lead!Writes, Lead!Answers, Lead!polling
  <2>6. CASE Lead!LeadGoes \/ Lead!CredentialChanges \/ UNCHANGED Lead!lvars
    BY <2>1, <2>6
    DEF Lead!LeadGoes, Lead!CredentialChanges, Lead!lvars, Lead!world, Lead!polling
  <2> QED BY <2>3, <2>4, <2>5, <2>6 DEF Lead!Next
<1>2. CASE /\ UNCHANGED <<rule, polled, due, present, storing, faults, again>> /\ now <= now'
           /\ nags' \subseteq nags /\ now' \in Nat
  BY <1>2, FS_Subset DEF PollTypes, WorldTypes
<1>3. now' \in Nat
  BY WorldTypesKept DEF WorldTypes
<1>4. ASSUME Lead!Leave, UNCHANGED <<now, nags>>, rule # "rest", faults' \in Nat, again' \in Nat
      PROVE  PollTypes'
  <2>1. rule' \in RuleNames
    BY <1>4, RuleFollows DEF Lead!Leave, PollTypes
  <2> QED BY <1>0, <1>4, <2>1 DEF Lead!Leave, PollTypes, WorldTypes
<1>5. CASE Lead!Start
  BY <1>5 DEF Lead!Start, PollTypes, WorldTypes, RuleNames, Lead!world
<1>6. CASE Lead!Look
  <2>1. rule \in Telling \cup {"stall"} /\ UNCHANGED <<now, nags, faults, again>>
    BY <1>6 DEF Lead!Look, Telling, Lead!world
  <2>2. \/ Lead!Leave
        \/ /\ due' = Lead!Subjects /\ present' = {d.subject : d \in Lead!Subjects} \cup {"looked"}
           /\ UNCHANGED <<rule, polled, storing>>
    BY <1>6 DEF Lead!Look
  <2>3. Lead!Subjects = IF rule = "stall" THEN List("doing") ELSE List(rule)
    BY <2>1 DEF Lead!Subjects, List, Telling
  <2>4. Lead!Subjects \subseteq [subject : Someone, since : Nat]
    BY <2>3, ListTypes
  <2>5. rule # "rest" /\ faults' \in Nat /\ again' \in Nat
    BY <2>1 DEF PollTypes, Telling
  <2> QED BY <1>4, <2>1, <2>2, <2>4, <2>5 DEF PollTypes, WorldTypes
<1>7. CASE Lead!Tell
  <2>1. PICK d \in due :
          /\ due' = due \ {d}
          /\ \/ UNCHANGED <<storing, nags, again>>
             \/ /\ Lead!Level(d) # 0
                /\ storing' = [subject |-> d.subject, level |-> Lead!Level(d)]
                /\ nags' = nags \cup {Lead!Nag(d)}
                /\ again' \in {again, again + 1}
    BY <1>7 DEF Lead!Tell
  <2>2. rule \in Telling /\ UNCHANGED <<rule, polled, present, faults, now>>
    BY <1>7 DEF Lead!Tell, Lead!world, Telling
  <2>3. /\ Lead!Level(d) \in Nat
        /\ Lead!Level(d) # 0 => d.since < now
    BY <2>2, LevelFacts
  <2>4. d.subject \in Someone /\ d.since \in Nat
    BY DEF PollTypes
  <2>5. CASE UNCHANGED <<storing, nags, again>>
    BY <2>1, <2>2, <2>5 DEF PollTypes, WorldTypes
  <2>6. CASE /\ Lead!Level(d) # 0
             /\ storing' = [subject |-> d.subject, level |-> Lead!Level(d)]
             /\ nags' = nags \cup {Lead!Nag(d)}
             /\ again' \in {again, again + 1}
    <3>1. /\ Lead!Nag(d) \in [rule : Telling, subject : Someone, since : Nat, level : Nat]
          /\ Lead!Nag(d).since < now
      BY <2>2, <2>3, <2>4, <2>6 DEF Lead!Nag
    <3>2. IsFiniteSet(nags')
      BY <2>6, FS_AddElement DEF PollTypes
    <3>3. /\ storing' \in [subject : Someone \cup LeadStatuses \cup {LeadNothing}, level : Nat]
          /\ storing'.level > 0
      BY <2>3, <2>4, <2>6
    <3>4. rule' # "rest" /\ again' \in Nat
      BY <2>2, <2>6 DEF Telling, PollTypes
    <3> QED BY <2>1, <2>2, <2>6, <3>1, <3>2, <3>3, <3>4 DEF PollTypes, WorldTypes
  <2> QED BY <2>1, <2>5, <2>6
<1>8. CASE Lead!Remember
  BY <1>0, <1>8 DEF Lead!Remember, PollTypes, WorldTypes, Lead!world
<1>9. CASE Lead!Prune \/ Lead!RememberStall \/ Lead!RememberCredential \/ Lead!Fail
  <2>1. /\ Lead!Leave /\ UNCHANGED <<now, nags, again>> /\ faults' \in {faults, faults + 1}
        /\ rule # "rest"
    BY <1>9
    DEF Lead!Prune, Lead!RememberStall, Lead!RememberCredential, Lead!Fail, Lead!Fault,
        Lead!world
  <2> QED BY <1>4, <2>1 DEF PollTypes
<1>10. CASE Lead!Stall
  <2>1. /\ rule = "stall" /\ UNCHANGED <<now, nags, again, faults>>
        /\ \/ Lead!Leave
           \/ \E d \in due : /\ storing' = [subject |-> d.subject, level |-> 1] /\ due' = {}
                             /\ UNCHANGED <<rule, polled, present>>
    BY <1>10 DEF Lead!Stall, Lead!world
  <2>2. CASE Lead!Leave
    BY <1>4, <2>1, <2>2 DEF PollTypes
  <2>3. ASSUME NEW d \in due, storing' = [subject |-> d.subject, level |-> 1], due' = {},
               UNCHANGED <<rule, polled, present>>
        PROVE  PollTypes'
    BY <2>1, <2>3 DEF PollTypes, WorldTypes
  <2> QED BY <2>1, <2>2, <2>3
<1>11. CASE Lead!CheckCredential
  <2>1. /\ rule = "credential" /\ UNCHANGED <<now, nags, faults>>
        /\ again' \in {again, again + 1}
        /\ \/ Lead!Leave
           \/ /\ storing' = [subject |-> found, level |-> 1]
              /\ UNCHANGED <<rule, polled, due, present>>
    BY <1>11 DEF Lead!CheckCredential, Lead!world
  <2>2. CASE Lead!Leave
    BY <1>4, <2>1, <2>2 DEF PollTypes
  <2>3. found \in LeadStatuses
    BY DEF WorldTypes
  <2> QED BY <2>1, <2>2, <2>3 DEF PollTypes, WorldTypes
<1>12. CASE Lead!Die
  BY <1>0, <1>12 DEF Lead!Die, Lead!Fault, PollTypes, WorldTypes, RuleNames, Lead!world
<1> QED BY <1>1, <1>2, <1>3, <1>5, <1>6, <1>7, <1>8, <1>9, <1>10, <1>11, <1>12

\* What is in a list, and what will be.
LEMMA ListIs ==
    ASSUME NEW s, NEW x
    PROVE  /\ Lead!Item(s, x) \in List("doing") <=> s \in LeadTickets /\ slot[s] = "doing" /\ x = entered[s]
           /\ Lead!Item(s, x) \in List("todo") <=> s \in LeadTickets /\ slot[s] = "todo" /\ x = created[s]
           /\ Lead!Item(s, x) \in List("hold") <=> s \in LeadTickets /\ slot[s] = "hold" /\ x = entered[s]
           /\ Lead!Item(s, x) \in List("unreplied") <=> s \in LeadClients /\ backlog[s] # 0 /\ x = backlog[s]
BY DEF List, Lead!Item, Lead!InDoing, Lead!InTodo, Lead!OnHold, Lead!Waiting, Lead!InSlot

\* The same of the next state.
LEMMA ListWillBe ==
    ASSUME NEW s, NEW x
    PROVE  /\ Lead!Item(s, x) \in List("doing")' <=> s \in LeadTickets /\ slot'[s] = "doing" /\ x = entered'[s]
           /\ Lead!Item(s, x) \in List("todo")' <=> s \in LeadTickets /\ slot'[s] = "todo" /\ x = created'[s]
           /\ Lead!Item(s, x) \in List("hold")' <=> s \in LeadTickets /\ slot'[s] = "hold" /\ x = entered'[s]
           /\ Lead!Item(s, x) \in List("unreplied")' <=> s \in LeadClients /\ backlog'[s] # 0 /\ x = backlog'[s]
BY DEF List, Lead!Item, Lead!InDoing, Lead!InTodo, Lead!OnHold, Lead!Waiting, Lead!InSlot

OfficeActs == \/ Lead!Tick \/ Lead!Board \/ Lead!LeadGoes \/ Lead!CredentialChanges \/ UNCHANGED Lead!lvars
              \/ \E c \in LeadClients : Lead!Writes(c) \/ Lead!Answers(c)
PollActs == \/ Lead!Start \/ Lead!Look \/ Lead!Tell \/ Lead!Remember \/ Lead!Prune \/ Lead!Stall \/ Lead!RememberStall
            \/ Lead!CheckCredential \/ Lead!RememberCredential \/ Lead!Fail \/ Lead!Die

\* What the office changes it has the nags of forgotten, or nobody was told of it.
LEMMA OfficeForgets ==
    ASSUME WorldTypes, PollTypes, OfficeActs
    PROVE  /\ nags' \subseteq nags /\ UNCHANGED <<Lead!kept, Lead!polling, faults, again, last>>
           /\ \A n \in nags' : Lead!Item(n.subject, n.since) \in List(n.rule)'
                                  => Lead!Item(n.subject, n.since) \in List(n.rule)
<1>1. CASE UNCHANGED <<slot, created, entered, backlog, nags, Lead!kept, Lead!polling, faults, again, last>>
  <2>1. \A r : List(r)' = List(r)
    BY <1>1 DEF List, Lead!InDoing, Lead!InTodo, Lead!OnHold, Lead!Waiting, Lead!InSlot
  <2> QED BY <1>1, <2>1
<1>2. ASSUME NEW n \in nags
      PROVE  n.rule = "doing" \/ n.rule = "todo" \/ n.rule = "hold" \/ n.rule = "unreplied"
  BY DEF PollTypes, Telling
<1>3. CASE Lead!Board
  <2>1. PICK t \in LeadTickets, from \in {"away", "todo", "doing", "hold"},
             to \in {"away", "todo", "doing", "hold"} : Lead!Move(t, from, to)
    BY <1>3 DEF Lead!Board
  <2>2. /\ \A u \in LeadTickets : u # t => /\ slot'[u] = slot[u]
                                           /\ created'[u] = created[u] /\ entered'[u] = entered[u]
        /\ backlog' = backlog
        /\ nags' = {n \in nags : n.subject # t}
        /\ UNCHANGED <<Lead!kept, Lead!polling, faults, again, last>>
    BY <2>1 DEF Lead!Move, Lead!Forgets, WorldTypes
  <2>3. ASSUME NEW n \in nags', Lead!Item(n.subject, n.since) \in List(n.rule)'
        PROVE  Lead!Item(n.subject, n.since) \in List(n.rule)
    BY <1>2, <2>2, <2>3, ListIs, ListWillBe
  <2> QED BY <2>2, <2>3
<1>4. ASSUME NEW c \in LeadClients, Lead!Writes(c) \/ Lead!Answers(c)
      PROVE  /\ nags' \subseteq nags /\ UNCHANGED <<Lead!kept, Lead!polling, faults, again, last>>
             /\ \A n \in nags' : Lead!Item(n.subject, n.since) \in List(n.rule)'
                                    => Lead!Item(n.subject, n.since) \in List(n.rule)
  <2>1. /\ UNCHANGED <<slot, created, entered, Lead!kept, Lead!polling, faults, again, last>>
        /\ nags' \subseteq nags
        /\ \A d \in LeadClients : backlog'[d] = backlog[d] \/ backlog'[d] = 0 \/ backlog'[d] = now
    BY <1>4 DEF Lead!Writes, Lead!Answers, Lead!Forgets, WorldTypes
  <2>2. ASSUME NEW n \in nags', Lead!Item(n.subject, n.since) \in List(n.rule)'
        PROVE  Lead!Item(n.subject, n.since) \in List(n.rule)
    <3>1. n \in nags /\ n.since # now /\ n.since \in Nat
      BY <2>1 DEF PollTypes, WorldTypes
    <3> QED BY <1>2, <2>1, <2>2, <3>1, ListIs, ListWillBe
  <2> QED BY <2>1, <2>2
<1>5. CASE Lead!Tick \/ Lead!LeadGoes \/ Lead!CredentialChanges \/ UNCHANGED Lead!lvars
  BY <1>1, <1>5 DEF Lead!Tick, Lead!LeadGoes, Lead!CredentialChanges, Lead!lvars, Lead!world
<1> QED BY <1>3, <1>4, <1>5 DEF OfficeActs

\* A poll changes nothing in the office.
LEMMA PollLists == PollActs => \A r : List(r)' = List(r)
<1>1. PollActs => UNCHANGED Lead!world
  BY DEF PollActs, Lead!Start, Lead!Look, Lead!Tell, Lead!Remember, Lead!Prune, Lead!Stall,
     Lead!RememberStall, Lead!CheckCredential,
         Lead!RememberCredential, Lead!Fail, Lead!Die
<1> QED BY <1>1 DEF Lead!world, List, Lead!InDoing, Lead!InTodo, Lead!OnHold, Lead!Waiting, Lead!InSlot

\* What the poll is at was there when it looked.
LEMMA SeenKept ==
    ASSUME LeadConstants, WorldTypes, KeptTypes, PollTypes, SeenInv, Lead!Next \/ UNCHANGED Lead!lvars
    PROVE  SeenInv'
<1>1. ASSUME present' = {}, storing' = Lead!NoStore PROVE SeenInv'
  BY <1>1 DEF SeenInv
<1>2. ASSUME Lead!Leave PROVE SeenInv'
  BY <1>1, <1>2 DEF Lead!Leave
<1>3. CASE OfficeActs
  BY <1>3, OfficeForgets DEF SeenInv, Lead!kept, Lead!polling, Lead!Told
<1>4. ASSUME PollActs PROVE \A r : List(r)' = List(r)
  BY <1>4, PollLists
<1>5. \A n \in nags : n.rule \in Telling
  BY DEF PollTypes
<1>6. CASE Lead!Start
  BY <1>5, <1>6 DEF Lead!Start, SeenInv, Telling
<1>7. CASE Lead!Look
  <2>1. rule \in Telling \cup {"stall"} /\ UNCHANGED nags
    BY <1>7 DEF Lead!Look, Telling
  <2>2. \/ Lead!Leave
        \/ /\ present' = {d.subject : d \in Lead!Subjects} \cup {"looked"}
           /\ UNCHANGED <<rule, storing>> /\ storing = Lead!NoStore
    BY <1>7 DEF Lead!Look
  <2>3. rule \in Telling => Lead!Subjects = List(rule)
    BY DEF Lead!Subjects, List, Telling
  <2>4. \A r : List(r)' = List(r)
    BY <1>4, <1>7 DEF PollActs
  <2>5. CASE /\ present' = {d.subject : d \in Lead!Subjects} \cup {"looked"}
             /\ UNCHANGED <<rule, storing>> /\ storing = Lead!NoStore
    <3>1. ASSUME NEW n \in nags, n.rule = rule, Lead!Item(n.subject, n.since) \in List(n.rule)
          PROVE  n.subject \in present'
      <4>1. Lead!Item(n.subject, n.since) \in Lead!Subjects
        BY <1>5, <2>3, <3>1
      <4>2. Lead!Item(n.subject, n.since).subject = n.subject
        BY DEF Lead!Item
      <4> QED BY <2>5, <4>1, <4>2
    <3>2. rule = "doing" => \A s, t \in present' \ {"looked"} : s = t
      <4>1. \A d, e \in List("doing") : d = e
        BY ListTypes
      <4> QED BY <2>3, <2>5, <4>1 DEF Telling
    <3> QED BY <2>1, <2>4, <2>5, <3>1, <3>2 DEF SeenInv
  <2> QED BY <1>2, <2>2, <2>5
<1>8. CASE Lead!Tell
  <2>1. PICK d \in due :
          \/ UNCHANGED <<storing, nags>>
          \/ /\ Lead!Level(d) # 0
             /\ storing' = [subject |-> d.subject, level |-> Lead!Level(d)]
             /\ nags' = nags \cup {Lead!Nag(d)}
    BY <1>8 DEF Lead!Tell
  <2>2. rule \in Telling /\ UNCHANGED <<rule, present, told, last>>
    BY <1>8 DEF Lead!Tell, Lead!kept, Telling
  <2>3. \A r : List(r)' = List(r)
    BY <1>4, <1>8 DEF PollActs
  <2>4. d.subject \in present /\ d.subject \in Someone
    BY DEF PollTypes
  <2>5. CASE UNCHANGED <<storing, nags>>
    BY <2>2, <2>3, <2>5 DEF SeenInv, Lead!Told
  <2>6. CASE /\ Lead!Level(d) # 0
             /\ storing' = [subject |-> d.subject, level |-> Lead!Level(d)]
             /\ nags' = nags \cup {Lead!Nag(d)}
    <3>1. Lead!Told(d.subject) < Lead!Level(d)
      BY <2>2, <2>6, LevelFacts
    <3>2. storing'.subject = d.subject /\ storing'.level = Lead!Level(d)
      BY <2>6
    <3>3. Lead!Told(d.subject)' = Lead!Told(d.subject)
      BY <2>2 DEF Lead!Told
    <3>4. Lead!Nag(d).subject = d.subject
      BY DEF Lead!Nag
    <3>5. \A n \in nags' : n.rule = rule' /\ Lead!Item(n.subject, n.since) \in List(n.rule)' => n.subject \in present'
      BY <2>2, <2>3, <2>4, <2>6, <3>4 DEF SeenInv
    <3>6. rule' # "credential"
      BY <2>2 DEF Telling
    <3>7. Lead!Told(storing.subject)' = Lead!Told(d.subject)'
      BY <3>2 DEF Lead!Told
    <3> QED BY <2>2, <2>4, <3>1, <3>2, <3>3, <3>5, <3>6, <3>7 DEF SeenInv
  <2> QED BY <2>1, <2>5, <2>6
<1>9. CASE Lead!Remember
  <2>1. \A r : List(r)' = List(r)
    BY <1>4, <1>9 DEF PollActs
  <2> QED BY <1>9, <2>1 DEF Lead!Remember, SeenInv
<1>10. CASE Lead!Stall
  <2>1. Lead!Leave \/ (rule = "stall" /\ UNCHANGED <<rule, nags>>)
    BY <1>10 DEF Lead!Stall
  <2> QED BY <1>2, <1>5, <2>1 DEF SeenInv, Telling
<1>11. CASE Lead!CheckCredential
  <2>1. \/ Lead!Leave
        \/ /\ rule = "credential" /\ UNCHANGED <<rule, nags>>
           /\ storing' = [subject |-> found, level |-> 1] /\ last' = found
    BY <1>11 DEF Lead!CheckCredential
  <2> QED BY <1>2, <1>5, <2>1 DEF SeenInv, Telling
<1>12. CASE Lead!Prune \/ Lead!RememberStall \/ Lead!RememberCredential \/ Lead!Fail
  BY <1>2, <1>12 DEF Lead!Prune, Lead!RememberStall, Lead!RememberCredential, Lead!Fail
<1>13. CASE Lead!Die
  BY <1>1, <1>13 DEF Lead!Die
<1> QED BY <1>3, <1>6, <1>7, <1>8, <1>9, <1>10, <1>11, <1>12, <1>13 DEF Lead!Next, OfficeActs

\* What is open is finite.
LEMMA OpenFinite ==
    ASSUME PollTypes
    PROVE  IsFiniteSet(Open) /\ Cardinality(Open) \in Nat /\ Pending \in {0, 1}
<1>1. Open \subseteq nags
  BY DEF Open
<1>2. IsFiniteSet(Open)
  BY <1>1, FS_Subset DEF PollTypes
<1> QED BY <1>2, FS_CardinalityType DEF Pending

\* No more is open, and no more was told again.
LEMMA CountStays ==
    ASSUME PollTypes, CountInv, PollTypes', Open' \subseteq Open,
           again' = again, faults' = faults, Unsettled' => Unsettled
    PROVE  CountInv'
<1>1. IsFiniteSet(Open) /\ Cardinality(Open) \in Nat
  BY OpenFinite
<1>2. Cardinality(Open') \in Nat /\ Cardinality(Open') <= Cardinality(Open)
  BY <1>1, FS_Subset, FS_CardinalityType
<1>3. Pending' <= Pending /\ Pending \in {0, 1} /\ Pending' \in {0, 1}
  BY DEF Pending
<1> QED BY <1>1, <1>2, <1>3 DEF CountInv, PollTypes

\* What the lead was told of stays told, unless it is no longer so.
LEMMA OpenKept ==
    ASSUME LeadConstants, WorldTypes, KeptTypes, PollTypes, SeenInv,
           Lead!Next \/ UNCHANGED Lead!lvars, ~Lead!Fail, ~Lead!Die
    PROVE  /\ Open' \subseteq Open
           /\ Lead!Tell => \A n \in nags : Stored(n)' => n \notin Open'
<1>1. ASSUME NEW n \in Open' PROVE n \in Open
  <2>1. n \in nags' /\ Live(n)' /\ ToldOf(n)' < n.level /\ ~Stored(n)'
    BY DEF Open
  <2>2. CASE OfficeActs
    <3>1. /\ nags' \subseteq nags /\ UNCHANGED <<Lead!kept, Lead!polling>>
          /\ Lead!Item(n.subject, n.since) \in List(n.rule)' => Lead!Item(n.subject, n.since) \in List(n.rule)
      BY <2>1, <2>2, OfficeForgets
    <3> QED BY <2>1, <3>1 DEF Lead!kept, Lead!polling, Open, Live, ToldOf, Stored
  <2>3. CASE PollActs
    <3>1. n \in nags
      <4>1. CASE Lead!Tell
        <5>1. PICK d \in due :
                  \/ nags' = nags
                  \/ /\ storing' = [subject |-> d.subject, level |-> Lead!Level(d)] /\ Lead!Level(d) # 0
                     /\ nags' = nags \cup {Lead!Nag(d)}
          BY <4>1 DEF Lead!Tell
        <5>2. rule' = rule
          BY <4>1 DEF Lead!Tell
        <5>3. ASSUME n = Lead!Nag(d), Lead!Level(d) # 0, storing' = [subject |-> d.subject, level |-> Lead!Level(d)]
              PROVE  Stored(n)'
          <6>1. n.rule = rule /\ n.subject = d.subject /\ n.level = Lead!Level(d)
            BY <5>3 DEF Lead!Nag
          <6>2. storing'.subject = d.subject /\ storing'.level = Lead!Level(d)
            BY <5>3
          <6>3. storing' # Lead!NoStore
            BY <5>3, <6>2 DEF Lead!NoStore
          <6> QED BY <5>2, <6>1, <6>2, <6>3 DEF Stored
        <5> QED BY <2>1, <5>1, <5>3
      <4>2. CASE ~Lead!Tell
        BY <2>1, <2>3, <4>2
        DEF PollActs, Lead!Start, Lead!Look, Lead!Remember, Lead!Prune, Lead!Stall,
            Lead!RememberStall, Lead!CheckCredential,
            Lead!RememberCredential, Lead!Fail, Lead!Die
      <4> QED BY <4>1, <4>2
    <3>2. n.rule \in Telling /\ n.subject \in Someone /\ n.level \in Nat /\ n.since \in Nat
      BY <3>1 DEF PollTypes
    <3>3. Live(n)
      <4>1. List(n.rule)' = List(n.rule)
        BY <2>3, PollLists
      <4>2. CASE Lead!Item(n.subject, n.since) \in List(n.rule)'
        BY <4>1, <4>2 DEF Live
      <4>3. CASE n.rule = rule' /\ Lead!Item(n.subject, n.since) \in due'
        <5>1. \/ rule' = rule /\ due' \subseteq due
              \/ due' = {}
              \/ rule' = rule /\ rule \in Telling /\ due' = List(rule)
              \/ rule' = "stall"
          BY <2>3
          DEF PollActs, Lead!Start, Lead!Look, Lead!Tell, Lead!Remember, Lead!Prune, Lead!Stall,
              Lead!RememberStall, Lead!CheckCredential,
              Lead!RememberCredential, Lead!Fail, Lead!Die, Lead!Leave, Lead!Subjects, List, Telling
        <5> QED BY <3>2, <4>3, <5>1 DEF Live, Telling
      <4> QED BY <2>1, <4>2, <4>3 DEF Live
    <3>4. ToldOf(n) < n.level /\ ~Stored(n)
      <4>0. n.rule # "doing" => n.rule \in Lead!Hashes
        BY <3>2 DEF Telling, Lead!Hashes
      <4>1. CASE Lead!Remember
        <5>1. /\ rule \in Telling /\ storing # Lead!NoStore /\ rule' = rule /\ due' = due
              /\ rule = "doing" => told'["doing"] = storing
              /\ rule # "doing" => told'["doing"] = told["doing"]
              /\ \A r \in Lead!Hashes, s \in Someone :
                    told'[r][s] = IF r = rule /\ s = storing.subject
                                    THEN storing.level ELSE told[r][s]
          BY <4>1, RememberTold DEF Lead!Remember
        <5>2. /\ storing.subject \in present /\ storing.subject \in Someone
              /\ Lead!Told(storing.subject) < storing.level /\ storing.level \in Nat
          BY <5>1 DEF SeenInv, PollTypes
        <5>3. CASE n.rule # rule
          BY <2>1, <3>2, <4>0, <5>1, <5>3 DEF ToldOf, Stored
        <5>4. CASE n.rule = rule /\ n.subject # storing.subject
          <6>1. rule # "doing"
            <7>1. n.subject \in present
              <8>1. CASE Lead!Item(n.subject, n.since) \in List(n.rule)
                BY <3>1, <5>2, <5>4, <8>1 DEF SeenInv
              <8>2. CASE Lead!Item(n.subject, n.since) \in due
                BY <8>2 DEF PollTypes, Lead!Item
              <8> QED BY <3>3, <8>1, <8>2 DEF Live
            <7>2. n.subject # "looked" /\ storing.subject # "looked"
              BY <3>2, <5>2 DEF LeadConstants, Someone
            <7> QED BY <5>2, <5>4, <7>1, <7>2 DEF SeenInv
          <6> QED BY <2>1, <3>2, <4>0, <5>1, <5>4, <6>1 DEF ToldOf, Stored
        <5>5. CASE n.rule = rule /\ n.subject = storing.subject
          <6>1. ToldOf(n)' = storing.level
            BY <3>2, <4>0, <5>1, <5>5 DEF ToldOf
          <6>2. ToldOf(n) = Lead!Told(storing.subject)
            BY <5>5 DEF ToldOf, Lead!Told
          <6>3. Lead!Told(storing.subject) \in Nat
            <7>1. rule # "doing" => told[rule] \in [Someone -> Nat]
              BY <4>0, <5>5 DEF KeptTypes
            <7>2. told["doing"].level \in Nat
              BY DEF KeptTypes
            <7> QED BY <5>2, <7>1, <7>2 DEF Lead!Told
          <6> QED BY <2>1, <3>2, <5>2, <6>1, <6>2, <6>3 DEF Stored
        <5> QED BY <5>3, <5>4, <5>5
      <4>2. CASE Lead!Prune
        <5>1. /\ told'["doing"] = told["doing"]
              /\ \A r \in Lead!Hashes, s \in Someone :
                    told'[r][s] = IF r = rule /\ s \notin present THEN 0 ELSE told[r][s]
              /\ present # {} /\ storing = Lead!NoStore /\ due = {}
          BY <4>2, PruneTold DEF Lead!Prune
        <5>2. n.rule = rule => n.subject \in present
          BY <3>1, <3>3, <5>1 DEF Live, SeenInv
        <5> QED BY <2>1, <3>2, <4>0, <5>1, <5>2 DEF ToldOf, Stored
      <4>3. CASE ~Lead!Remember /\ ~Lead!Prune
        <5>1. told' = told
          BY <4>3, NothingTold
        <5>2. storing = Lead!NoStore \/ rule \notin Telling \/ (rule' = rule /\ storing' = storing)
          BY <2>3, <4>3
          DEF PollActs, Lead!Start, Lead!Look, Lead!Tell, Lead!Stall, Lead!RememberStall,
              Lead!CheckCredential,
              Lead!RememberCredential, Lead!Fail, Lead!Die, Telling
        <5> QED BY <2>1, <3>2, <5>1, <5>2 DEF ToldOf, Stored
      <4> QED BY <4>1, <4>2, <4>3
    <3> QED BY <3>1, <3>3, <3>4 DEF Open
  <2> QED BY <2>2, <2>3 DEF Lead!Next, OfficeActs, PollActs
<1>2. Lead!Tell => \A n \in nags : Stored(n)' => n \notin Open'
  BY DEF Open
<1> QED BY <1>1, <1>2

\* The status that stands.
LEMMA StandingKept ==
    ASSUME LeadConstants, WorldTypes, SeenInv, StandingInv, Lead!Next \/ UNCHANGED Lead!lvars
    PROVE  StandingInv'
<1>1. CASE UNCHANGED <<standing, last>>
  BY <1>1 DEF StandingInv
<1>2. CASE Lead!CheckCredential
  BY <1>2 DEF Lead!CheckCredential, StandingInv, WorldTypes, Lead!kept
<1>3. CASE Lead!RememberCredential
  BY <1>3 DEF Lead!RememberCredential, StandingInv, SeenInv, LeadConstants
<1> QED BY <1>1, <1>2, <1>3
    DEF Lead!Next, Lead!lvars, Lead!kept, Lead!Tick, Lead!Board, Lead!Move, Lead!Writes,
        Lead!Answers, Lead!CredentialChanges, Lead!LeadGoes,
        Lead!Start, Lead!Look, Lead!Tell, Lead!Remember, Lead!Prune, Lead!Stall, Lead!RememberStall, Lead!Fail, Lead!Die

\* What may be told again, a fault has lost.
LEMMA CountKept ==
    ASSUME LeadConstants, WorldTypes, KeptTypes, PollTypes, SeenInv, StandingInv, CountInv,
           Lead!Next \/ UNCHANGED Lead!lvars
    PROVE  CountInv'
<1>0. PollTypes' /\ KeptTypes'
  BY PollTypesKept, KeptTypesKept
<1>1. ASSUME again' = again, faults' = faults, Unsettled' => Unsettled, ~Lead!Fail, ~Lead!Die
      PROVE  CountInv'
  BY <1>0, <1>1, OpenKept, CountStays
<1>2. CASE OfficeActs
  <2>1. UNCHANGED <<Lead!kept, Lead!polling, faults, again, last>>
    BY <1>2, OfficeForgets
  <2>2. Unsettled' <=> Unsettled
    BY <2>1 DEF Lead!kept, Lead!polling, Unsettled
  <2>3. Open' \subseteq Open
    <3>1. ASSUME NEW n \in Open' PROVE n \in Open
      <4>1. /\ nags' \subseteq nags
            /\ Lead!Item(n.subject, n.since) \in List(n.rule)' => Lead!Item(n.subject, n.since) \in List(n.rule)
        BY <1>2, OfficeForgets DEF Open
      <4> QED BY <2>1, <4>1 DEF Lead!kept, Lead!polling, Open, Live, ToldOf, Stored
    <3> QED BY <3>1
  <2> QED BY <1>0, <2>1, <2>2, <2>3, CountStays
<1>20. ASSUME faults' = faults PROVE ~Lead!Fail /\ ~Lead!Die
  <2>1. faults \in Nat
    BY DEF PollTypes
  <2> QED BY <1>20, <2>1 DEF Lead!Fail, Lead!Die, Lead!Fault
<1>3. CASE Lead!Start \/ Lead!Look \/ Lead!Remember \/ Lead!Prune \/ Lead!Stall \/ Lead!RememberStall
  <2>1. /\ UNCHANGED <<standing, last, again, faults>>
        /\ rule # "credential"
    BY <1>3
    DEF Lead!Start, Lead!Look, Lead!Remember, Lead!Prune, Lead!Stall, Lead!RememberStall,
        Lead!kept
  <2>2. Unsettled' => Unsettled
    BY <2>1 DEF Unsettled
  <2> QED BY <1>1, <1>20, <2>1, <2>2
<1>4. CASE Lead!Tell
  <2>1. PICK d \in due :
          \/ again' = again
          \/ /\ again' = again + 1 /\ Lead!Nag(d) \in nags /\ Lead!Level(d) # 0
             /\ storing' = [subject |-> d.subject, level |-> Lead!Level(d)]
    BY <1>4 DEF Lead!Tell
  <2>2. /\ UNCHANGED <<standing, last, faults, rule>> /\ rule \in Telling /\ storing = Lead!NoStore
    BY <1>4 DEF Lead!Tell, Lead!kept, Telling
  <2>3. Unsettled' => Unsettled
    BY <2>2 DEF Unsettled
  <2>4. CASE again' = again
    BY <1>1, <1>20, <2>2, <2>3, <2>4
  <2>5. CASE /\ again' = again + 1 /\ Lead!Nag(d) \in nags /\ Lead!Level(d) # 0
             /\ storing' = [subject |-> d.subject, level |-> Lead!Level(d)]
    <3>1. PICK n \in nags : /\ n.rule = rule /\ n.subject = d.subject
                           /\ n.level = Lead!Level(d) /\ n.since = d.since
      <4>1. /\ Lead!Nag(d).rule = rule /\ Lead!Nag(d).subject = d.subject
            /\ Lead!Nag(d).level = Lead!Level(d) /\ Lead!Nag(d).since = d.since
        BY DEF Lead!Nag
      <4> QED BY <2>5, <4>1
    <3>2. ToldOf(n) < n.level
      <4>1. Lead!Told(d.subject) < Lead!Level(d)
        BY <2>2, <2>5, LevelFacts
      <4> QED BY <3>1, <4>1 DEF ToldOf, Lead!Told
    <3>3. Live(n)
      <4>1. d = Lead!Item(d.subject, d.since)
        BY DEF PollTypes, Lead!Item
      <4> QED BY <3>1, <4>1 DEF Live
    <3>4. n \in Open
      BY <2>2, <2>5, <3>2, <3>3 DEF Open, Stored
    <3>5. n \notin Open'
      <4>1. storing'.subject = d.subject /\ storing'.level = Lead!Level(d)
        BY <2>5
      <4>2. storing' # Lead!NoStore
        BY <2>5, <4>1 DEF Lead!NoStore
      <4>3. Stored(n)'
        BY <2>2, <3>1, <4>1, <4>2 DEF Stored
      <4> QED BY <4>3 DEF Open
    <3>6. Open' \subseteq Open \ {n}
      BY <1>20, <2>2, <3>5, OpenKept
    <3>7. IsFiniteSet(Open) /\ Cardinality(Open) \in Nat
      BY OpenFinite
    <3>8. IsFiniteSet(Open \ {n}) /\ Cardinality(Open \ {n}) = Cardinality(Open) - 1
      BY <3>4, <3>7, FS_RemoveElement
    <3>9. Cardinality(Open') \in Nat /\ Cardinality(Open') <= Cardinality(Open) - 1
      BY <3>6, <3>8, FS_Subset, FS_CardinalityType
    <3>10. Pending' <= Pending /\ Pending \in {0, 1} /\ Pending' \in {0, 1}
      BY <2>3 DEF Pending
    <3>11. again \in Nat /\ faults \in Nat /\ again' = again + 1 /\ faults' = faults
      BY <2>2, <2>5 DEF PollTypes
    <3> QED BY <3>7, <3>9, <3>10, <3>11 DEF CountInv
  <2> QED BY <2>1, <2>4, <2>5
<1>5. CASE Lead!CheckCredential
  <2>1. /\ rule = "credential" /\ storing = Lead!NoStore /\ UNCHANGED <<standing, faults>>
    BY <1>5 DEF Lead!CheckCredential, Lead!kept
  <2>2. \/ Lead!Leave /\ UNCHANGED <<again, last>>
        \/ /\ standing # found /\ (found = "present" => standing # LeadNothing)
           /\ storing' = [subject |-> found, level |-> 1]
           /\ again' = IF last = found THEN again + 1 ELSE again
           /\ last' = found /\ rule' = rule
    BY <1>5 DEF Lead!CheckCredential
  <2>3. CASE Lead!Leave /\ UNCHANGED <<again, last>>
    <3>1. Unsettled' => Unsettled
      BY <2>1, <2>3 DEF Unsettled, Lead!Leave
    <3> QED BY <1>1, <1>20, <2>1, <2>3, <3>1
  <2>4. CASE /\ standing # found /\ (found = "present" => standing # LeadNothing)
             /\ storing' = [subject |-> found, level |-> 1]
             /\ again' = IF last = found THEN again + 1 ELSE again
             /\ last' = found /\ rule' = rule
    <3>1. storing' # Lead!NoStore
      <4>1. storing'.level = 1
        BY <2>4
      <4> QED BY <4>1 DEF Lead!NoStore
    <3>2. ~Unsettled'
      BY <2>1, <2>4, <3>1 DEF Unsettled
    <3>3. last = found => Unsettled
      BY <2>1, <2>4 DEF Unsettled, AsStanding
    <3>4. Pending' = 0 /\ (last = found => Pending = 1) /\ Pending \in {0, 1}
      BY <3>2, <3>3 DEF Pending
    <3>5. IsFiniteSet(Open) /\ Cardinality(Open) \in Nat /\ Open' \subseteq Open
      BY <1>20, <2>1, OpenFinite, OpenKept
    <3>6. Cardinality(Open') \in Nat /\ Cardinality(Open') <= Cardinality(Open)
      BY <3>5, FS_Subset, FS_CardinalityType
    <3>7. again \in Nat /\ faults \in Nat
      BY DEF PollTypes
    <3> QED BY <2>1, <2>4, <3>4, <3>5, <3>6, <3>7 DEF CountInv
  <2> QED BY <2>2, <2>3, <2>4
<1>6. CASE Lead!RememberCredential
  <2>1. /\ rule = "credential" /\ storing # Lead!NoStore /\ UNCHANGED <<last, again, faults>>
        /\ standing' = AsStanding(storing.subject)
    BY <1>6 DEF Lead!RememberCredential, AsStanding
  <2>2. standing' = AsStanding(last')
    BY <2>1 DEF SeenInv
  <2>3. ~Unsettled'
    BY <2>2 DEF Unsettled
  <2> QED BY <1>1, <1>20, <2>1, <2>3
<1>7. CASE Lead!Fail \/ Lead!Die
  <2> DEFINE X == {n \in nags : Lead!Item(n.subject, n.since) \in List(n.rule) /\ Stored(n)}
  <2>1. /\ UNCHANGED <<Lead!world, Lead!kept, nags, again, last>> /\ faults' = faults + 1
        /\ due' = {} /\ storing' = Lead!NoStore
    BY <1>7 DEF Lead!Fail, Lead!Die, Lead!Fault, Lead!Leave
  <2>2. ASSUME NEW n \in Open' PROVE n \in Open \/ n \in X
    <3>1. n \in nags /\ Live(n)' /\ ToldOf(n)' < n.level
      BY <2>1 DEF Open
    <3>2. Lead!Item(n.subject, n.since) \in List(n.rule)
      <4>1. List(n.rule)' = List(n.rule)
        BY <1>7, PollLists DEF PollActs
      <4> QED BY <2>1, <3>1, <4>1 DEF Live
    <3>3. ToldOf(n) < n.level
      BY <2>1, <3>1 DEF Lead!kept, ToldOf
    <3> QED BY <3>1, <3>2, <3>3 DEF Open, Live
  <2>3. ASSUME NEW n \in X, NEW k \in X PROVE n = k
    <3>1. /\ n \in nags /\ k \in nags /\ n.rule = k.rule /\ n.subject = k.subject /\ n.level = k.level
          /\ Lead!Item(n.subject, n.since) \in List(n.rule) /\ Lead!Item(k.subject, k.since) \in List(n.rule)
      BY DEF Stored
    <3>2. Lead!Item(n.subject, n.since) = Lead!Item(k.subject, k.since)
      <4>1. \A d, e \in List(n.rule) : d.subject = e.subject => d = e
        BY ListTypes
      <4>2. Lead!Item(n.subject, n.since).subject = Lead!Item(k.subject, k.since).subject
        BY <3>1 DEF Lead!Item
      <4> QED BY <3>1, <4>1, <4>2
    <3>3. n.since = k.since
      BY <3>2 DEF Lead!Item
    <3> QED BY <3>1, <3>3 DEF PollTypes
  <2>4. X # {} => rule \in Telling /\ storing # Lead!NoStore
    BY DEF Stored, PollTypes
  <2>5. IsFiniteSet(Open) /\ Cardinality(Open) \in Nat
    BY OpenFinite
  <2>6. /\ Cardinality(Open') \in Nat
        /\ Cardinality(Open') <= Cardinality(Open) + 1
        /\ X = {} => Cardinality(Open') <= Cardinality(Open)
    <3> HIDE DEF X
    <3>1. CASE X = {}
      <4>1. Open' \subseteq Open
        BY <2>2, <3>1
      <4> QED BY <2>5, <4>1, FS_Subset, FS_CardinalityType
    <3>2. CASE X # {}
      <4>1. PICK x \in X : TRUE
        BY <3>2
      <4>2. Open' \subseteq Open \cup {x}
        BY <2>2, <2>3, <4>1
      <4>3. /\ IsFiniteSet(Open \cup {x}) /\ Cardinality(Open \cup {x}) \in Nat
            /\ Cardinality(Open \cup {x}) <= Cardinality(Open) + 1
        <5>1. /\ IsFiniteSet(Open \cup {x})
              /\ Cardinality(Open \cup {x}) = IF x \in Open THEN Cardinality(Open)
                                                             ELSE Cardinality(Open) + 1
          BY <2>5, FS_AddElement
        <5> QED BY <2>5, <5>1
      <4>4. IsFiniteSet(Open') /\ Cardinality(Open') <= Cardinality(Open \cup {x})
        BY <4>2, <4>3, FS_Subset
      <4>5. Cardinality(Open') \in Nat
        BY <4>4, FS_CardinalityType
      <4> QED BY <2>5, <3>2, <4>3, <4>4, <4>5
    <3> QED BY <3>1, <3>2
  <2> HIDE DEF X
  <2>7. Pending \in {0, 1} /\ Pending' \in {0, 1}
    BY DEF Pending
  <2>8. Unsettled' => Unsettled \/ X = {}
    BY <2>1, <2>4 DEF Unsettled, Lead!kept, Telling
  <2>9. X # {} => Pending' <= Pending
    BY <2>8 DEF Pending
  <2>10. again \in Nat /\ faults \in Nat
    BY DEF PollTypes
  <2> QED BY <2>1, <2>5, <2>6, <2>7, <2>9, <2>10 DEF CountInv
<1> QED BY <1>2, <1>3, <1>4, <1>5, <1>6, <1>7 DEF Lead!Next, OfficeActs

\* Initially nothing was told.
LEMMA LeadInit == LeadConstants /\ Lead!Init => LeadInv
<1> SUFFICES ASSUME LeadConstants, Lead!Init PROVE LeadInv
  OBVIOUS
<1>1. WorldTypes
  BY DEF Lead!Init, WorldTypes
<1>2. KeptTypes
  <2>1. /\ DOMAIN told = Lead!Hashes \cup {"doing"}
        /\ told = [r \in Lead!Hashes \cup {"doing"} |-> told[r]]
        /\ \A r \in Lead!Hashes : told[r] = [s \in LeadTickets \cup LeadClients |-> 0]
        /\ told["doing"] = Lead!NoStore
    BY DEF Lead!Init, Lead!Hashes
  <2>2. Lead!NoStore \in [subject : Someone \cup {LeadNothing}, level : Nat]
    BY DEF Lead!NoStore
  <2> QED BY <2>1, <2>2 DEF KeptTypes, Someone
<1>3. PollTypes
  <2>1. Lead!NoStore \in [subject : Someone \cup LeadStatuses \cup {LeadNothing}, level : Nat]
    BY DEF Lead!NoStore
  <2> QED BY <2>1, FS_EmptySet DEF Lead!Init, PollTypes, RuleNames
<1>4. SeenInv
  BY DEF Lead!Init, SeenInv, Telling
<1>5. StandingInv
  BY DEF Lead!Init, StandingInv, LeadConstants
<1>6. CountInv
  <2>1. Open = {} /\ ~Unsettled
    BY DEF Lead!Init, Open, Unsettled, AsStanding
  <2>2. Cardinality(Open) = 0 /\ Pending = 0
    BY <2>1, FS_EmptySet DEF Pending
  <2> QED BY <2>2 DEF Lead!Init, CountInv
<1> QED BY <1>1, <1>2, <1>3, <1>4, <1>5, <1>6 DEF LeadInv

\* The invariant is inductive.
LEMMA LeadStep ==
    ASSUME LeadConstants, LeadInv, Lead!Next \/ UNCHANGED Lead!lvars
    PROVE  LeadInv'
BY WorldTypesKept, KeptTypesKept, PollTypesKept, SeenKept, StandingKept, CountKept DEF LeadInv

\* And gives what the run checks.
LEMMA ToldOnceFollows == LeadInv => Lead!ToldOnce /\ Lead!TypeOK
<1> SUFFICES ASSUME LeadInv PROVE Lead!ToldOnce /\ Lead!TypeOK
  OBVIOUS
<1>1. Cardinality(Open) \in Nat /\ Pending \in {0, 1} /\ again \in Nat /\ faults \in Nat
  BY OpenFinite DEF LeadInv, PollTypes
<1>2. Lead!ToldOnce
  BY <1>1 DEF LeadInv, CountInv, Lead!ToldOnce
<1>3. rule \in {"rest"} \cup {Lead!Rules[i] : i \in DOMAIN Lead!Rules}
  <2>1. /\ Lead!Rules[1] = "stall" /\ Lead!Rules[2] = "doing" /\ Lead!Rules[3] = "todo" /\ Lead!Rules[4] = "hold"
        /\ Lead!Rules[5] = "unreplied" /\ Lead!Rules[6] = "credential" /\ DOMAIN Lead!Rules = 1 .. 6
    BY DEF Lead!Rules
  <2> QED BY <2>1 DEF LeadInv, PollTypes, RuleNames, Telling
<1>4. Lead!TypeOK
  BY <1>3 DEF LeadInv, WorldTypes, PollTypes, StandingInv, Lead!TypeOK
<1> QED BY <1>2, <1>4

\* What is told again, a fault has lost.
THEOREM LeadSafe ==
    ASSUME LeadConstants
    PROVE  Lead!Spec => []Lead!ToldOnce
<1>1. Lead!Init => LeadInv
  BY LeadInit
<1>2. LeadInv /\ [Lead!Next]_Lead!lvars => LeadInv'
  BY LeadStep
<1>3. LeadInv => Lead!ToldOnce
  BY ToldOnceFollows
<1> QED BY <1>1, <1>2, <1>3, PTL DEF Lead!Spec

-----------------------------------------------------------------------------
(* Run windows                                                              *)

CONSTANTS WndOpeners, WndRemovers, WndLabel, WndNothing, WndMaxFaults
VARIABLES window, opener, record, asked, remover, pass, moved, mixed

Wnd == INSTANCE RunWindows WITH
    Openers <- WndOpeners, Removers <- WndRemovers, Label <- WndLabel,
    Nothing <- WndNothing, MaxFaults <- WndMaxFaults

\* Of the constants: what is no window is not one.
WindowsConstants == WndNothing \notin WndOpeners /\ WndMaxFaults \in Nat

\* The states of a run window, of the command that opens it, of the one that removes it
\* and of the pass; a window that is not made yet is none.
OpenTypes ==
    /\ window \in [WndOpeners -> Wnd!Exists \cup {"none", "gone"}]
    /\ opener \in [WndOpeners -> {"start", "make", "count", "retain", "respawn", "undo", "over"}]
    /\ \A o \in WndOpeners : opener[o] \in {"start", "make"} => window[o] = "none"
    /\ faults \in 0 .. WndMaxFaults

\* A record is none, or of a window of the label that was made.
OfMade(x, n, win) ==
    x = Wnd!NoRecord \/ (x.about \in WndOpeners /\ WndLabel[x.about] = n /\ win[x.about] # "none")

RecordTypes ==
    /\ asked \subseteq Wnd!Labels /\ mixed \subseteq Wnd!Labels
    /\ record = [n \in Wnd!Labels |-> record[n]]
    /\ \A n \in Wnd!Labels : OfMade(record[n], n, window)
    /\ remover = [r \in WndRemovers |-> [at |-> remover[r].at, about |-> remover[r].about]]
    /\ \A r \in WndRemovers : remover[r].at \in {"ask", "wait", "confirm", "removed"} =>
          /\ remover[r].about \in WndOpeners /\ WndLabel[remover[r].about] = WndLabel[r]
          /\ window[remover[r].about] # "none"

WatchPhases == {"rest", "look", "remove", "forget", "forget record", "publish", "write", "done"}
WatchTypes ==
    /\ pass = [at |-> pass.at, left |-> pass.left, seen |-> pass.seen]
    /\ pass.at \in WatchPhases /\ pass.left \subseteq Wnd!Labels
    /\ pass.seen = [n \in Wnd!Labels |-> pass.seen[n]]
    /\ \A n \in Wnd!Labels : OfMade(pass.seen[n], n, window)

\* Of the commands that open a window of one label one gets past the count, while its
\* window is there.
Won(o) == /\ window[o] \in Wnd!Exists
          /\ opener[o] \in {"retain", "respawn"} \/ window[o] # "held"
WonInv == \A o, p \in WndOpeners : Won(o) /\ Won(p) /\ WndLabel[o] = WndLabel[p] => o = p

\* The windows that a record or a run-rm knows of.
Known(w, n) ==
    \/ record[n].about = w
    \/ \E r \in WndRemovers : /\ remover[r].at \in {"ask", "wait", "confirm", "removed"}
                              /\ WndLabel[r] = n /\ remover[r].about = w
Done(win, mix, w, n) == win[w] = "gone" \/ n \in mix

\* Of a label that is dealt with, what is known is what was seen, or done with; so it is when
\* the request is forgotten; what is asked for and no longer requested is done with.
DealtInv ==
    pass.at \in {"remove", "forget", "forget record"} =>
        \A n \in pass.left, w \in WndOpeners :
            Known(w, n) => w = pass.seen[n].about \/ Done(window, mixed, w, n)
ForgetsInv ==
    pass.at = "forget" =>
        /\ pass.left # {}
        /\ \A w \in WndOpeners : LET n == CHOOSE m \in pass.left : TRUE
                                 IN  Known(w, n) => Done(window, mixed, w, n)
AskedInv ==
    \A r \in WndRemovers :
        /\ remover[r].at \in {"wait", "confirm"} =>
              WndLabel[r] \in asked \/ Done(window, mixed, remover[r].about, WndLabel[r])
        /\ remover[r].at = "removed" => Done(window, mixed, remover[r].about, WndLabel[r])
RemovedInv == DealtInv /\ ForgetsInv /\ AskedInv

\* What a record says of a label.
Says(x, n) == IF Wnd!Windows(n) = {} THEN x = Wnd!NoRecord ELSE x.is = Wnd!Shown(n)
PublishedInv ==
    ~moved => /\ pass.at = "write" =>
                   \A n \in Wnd!Labels : IF n \in pass.left THEN Says(pass.seen[n], n)
                                                            ELSE Says(record[n], n)
              /\ pass.at = "done" => \A n \in Wnd!Labels : Says(record[n], n)

WindowsInv == OpenTypes /\ RecordTypes /\ WatchTypes /\ WonInv /\ RemovedInv /\ PublishedInv


\* The steps of the commands that open a window, and of windows themselves.
OpenerActs == \E o \in WndOpeners :
    \/ Wnd!CheckLabel(o) \/ Wnd!MakeWindow(o) \/ Wnd!CountLabels(o) \/ Wnd!Retain(o) \/ Wnd!Respawn(o)
    \/ Wnd!CommandFails(o) \/ Wnd!UndoWindow(o) \/ Wnd!OpenerDies(o) \/ Wnd!Exits(o) \/ Wnd!Closes(o)
RemoverActs == \E r \in WndRemovers : Wnd!LookUp(r) \/ Wnd!Ask(r) \/ Wnd!AwaitRecord(r) \/ Wnd!Confirm(r) \/ Wnd!GiveUp(r)
WatchActs == \/ \E n \in Wnd!Labels : Wnd!KillWindow(n) \/ Wnd!Forget(n) \/ Wnd!ForgetRecord(n) \/ Wnd!Publish(n)
             \/ Wnd!ReadRequests \/ Wnd!Snapshot \/ Wnd!RemovalsDone \/ Wnd!LookAgain \/ Wnd!PassFails

\* A window that was made is not unmade, and one that is gone does not come back.
Lasts == \A w \in WndOpeners : /\ window[w] # "none" => window'[w] # "none"
                               /\ window[w] = "gone" => window'[w] = "gone"

\* Openers change windows, and a change is noticed; what others do is not theirs.
LEMMA OpenerStep ==
    ASSUME WindowsConstants, OpenTypes, OpenerActs
    PROVE  /\ OpenTypes' /\ Lasts /\ UNCHANGED Wnd!ofOthers
           /\ moved' = TRUE \/ UNCHANGED <<window, moved>>
<1>1. PICK o \in WndOpeners :
          \/ Wnd!CheckLabel(o) \/ Wnd!MakeWindow(o) \/ Wnd!CountLabels(o) \/ Wnd!Retain(o) \/ Wnd!Respawn(o)
          \/ Wnd!CommandFails(o) \/ Wnd!UndoWindow(o) \/ Wnd!OpenerDies(o) \/ Wnd!Exits(o) \/ Wnd!Closes(o)
  BY DEF OpenerActs
<1>2. CASE Wnd!CheckLabel(o)
  BY <1>2 DEF Wnd!CheckLabel, Wnd!OpenerTo, OpenTypes, Lasts
<1>3. CASE Wnd!MakeWindow(o)
  BY <1>3 DEF Wnd!MakeWindow, Wnd!OpenerTo, Wnd!Becomes, OpenTypes, Lasts, Wnd!Exists
<1>4. CASE Wnd!CountLabels(o)
  BY <1>4 DEF Wnd!CountLabels, Wnd!OpenerTo, OpenTypes, Lasts
<1>5. CASE Wnd!Retain(o)
  BY <1>5 DEF Wnd!Retain, Wnd!OpenerTo, OpenTypes, Lasts
<1>6. CASE Wnd!Respawn(o)
  BY <1>6 DEF Wnd!Respawn, Wnd!OpenerTo, Wnd!Becomes, OpenTypes, Lasts, Wnd!Exists
<1>7. CASE Wnd!CommandFails(o)
  BY <1>7 DEF Wnd!CommandFails, Wnd!OpenerTo, Wnd!Fault, OpenTypes, Lasts, WindowsConstants
<1>8. CASE Wnd!UndoWindow(o)
  BY <1>8
  DEF Wnd!UndoWindow, Wnd!OpenerTo, Wnd!Becomes, Wnd!Fault, OpenTypes, Lasts, Wnd!Exists,
      WindowsConstants
<1>9. CASE Wnd!OpenerDies(o)
  BY <1>9 DEF Wnd!OpenerDies, Wnd!OpenerTo, Wnd!Fault, OpenTypes, Lasts, WindowsConstants
<1>10. CASE Wnd!Exits(o)
  BY <1>10 DEF Wnd!Exits, Wnd!Becomes, OpenTypes, Lasts, Wnd!Exists
<1>11. CASE Wnd!Closes(o)
  BY <1>11 DEF Wnd!Closes, Wnd!Becomes, OpenTypes, Lasts, Wnd!Exists
<1> QED BY <1>1, <1>2, <1>3, <1>4, <1>5, <1>6, <1>7, <1>8, <1>9, <1>10, <1>11

\* Of a label at most one opener gets past the count with its window.
LEMMA WonKept ==
    ASSUME OpenTypes, WonInv, OpenerActs
    PROVE  WonInv'
<1>1. PICK o \in WndOpeners :
          \/ Wnd!CheckLabel(o) \/ Wnd!MakeWindow(o) \/ Wnd!CountLabels(o) \/ Wnd!Retain(o) \/ Wnd!Respawn(o)
          \/ Wnd!CommandFails(o) \/ Wnd!UndoWindow(o) \/ Wnd!OpenerDies(o) \/ Wnd!Exits(o) \/ Wnd!Closes(o)
  BY DEF OpenerActs
<1>2. \A p \in WndOpeners : p # o => window'[p] = window[p] /\ opener'[p] = opener[p]
  BY <1>1
  DEF Wnd!CheckLabel, Wnd!MakeWindow, Wnd!CountLabels, Wnd!Retain, Wnd!Respawn,
      Wnd!CommandFails, Wnd!UndoWindow, Wnd!OpenerDies,
      Wnd!Exits, Wnd!Closes, Wnd!OpenerTo, Wnd!Becomes, OpenTypes
<1>3. CASE Wnd!CountLabels(o)
  <2>1. UNCHANGED window /\ (opener'[o] = "retain" => \E w \in WndOpeners : Wnd!Windows(WndLabel[o]) = {w})
    BY <1>3 DEF Wnd!CountLabels, Wnd!OpenerTo, OpenTypes
  <2>2. opener'[o] \in {"retain", "undo"}
    BY <1>3 DEF Wnd!CountLabels, Wnd!OpenerTo, OpenTypes
  <2>3. ASSUME NEW p \in WndOpeners, Won(p)', Won(o)', WndLabel[p] = WndLabel[o], opener'[o] = "retain"
        PROVE  p = o
    <3>1. p \in Wnd!Windows(WndLabel[o]) /\ o \in Wnd!Windows(WndLabel[o])
      BY <2>1, <2>3 DEF Won, Wnd!Windows
    <3> QED BY <2>1, <2>3, <3>1
  <2>4. \A p \in WndOpeners : Won(p)' => Won(p) \/ (p = o /\ opener'[o] = "retain")
    BY <1>2, <2>1, <2>2 DEF Won
  <2> QED BY <2>3, <2>4 DEF WonInv
<1>4. CASE ~Wnd!CountLabels(o)
  <2>1. Won(o)' => Won(o)
    BY <1>1, <1>4
    DEF Won, Wnd!CheckLabel, Wnd!MakeWindow, Wnd!Retain, Wnd!Respawn, Wnd!CommandFails,
        Wnd!UndoWindow, Wnd!OpenerDies,
        Wnd!Exits, Wnd!Closes, Wnd!OpenerTo, Wnd!Becomes, OpenTypes, Wnd!Exists
  <2>2. \A p \in WndOpeners : Won(p)' => Won(p)
    BY <1>2, <2>1 DEF Won
  <2> QED BY <2>2 DEF WonInv
<1> QED BY <1>3, <1>4


\* A remover and a pass change neither windows, nor who opens them, but for a kill.
LEMMA OthersStep ==
    ASSUME WindowsConstants, OpenTypes, WatchTypes, RemoverActs \/ WatchActs
    PROVE  /\ OpenTypes' /\ Lasts /\ opener' = opener
           /\ WonInv => WonInv'
           /\ window' = window \/ moved' = TRUE
<1>0. \A n \in Wnd!Labels : pass.seen[n] # Wnd!NoRecord => pass.seen[n].about \in WndOpeners
  BY DEF WatchTypes, OfMade
<1>1. opener' = opener
  BY DEF RemoverActs, WatchActs, Wnd!LookUp, Wnd!Ask, Wnd!AwaitRecord, Wnd!Confirm, Wnd!GiveUp,
     Wnd!KillWindow, Wnd!Forget,
         Wnd!ForgetRecord, Wnd!Publish, Wnd!ReadRequests, Wnd!Snapshot, Wnd!RemovalsDone, Wnd!LookAgain, Wnd!PassFails, Wnd!ofTmux,
         Wnd!ofCommands
<1>2. CASE \E n \in Wnd!Labels : Wnd!KillWindow(n)
  <2>1. PICK n \in Wnd!Labels : Wnd!KillWindow(n)
    BY <1>2
  <2>2. \/ window' = window
        \/ /\ moved' = TRUE
           /\ \E w \in WndOpeners : window[w] \in Wnd!Exists /\ window' = [window EXCEPT ![w] = "gone"]
    BY <1>0, <2>1 DEF Wnd!KillWindow, Wnd!Becomes
  <2>3. faults' \in 0 .. WndMaxFaults
    BY <2>1 DEF Wnd!KillWindow, OpenTypes, Wnd!Fault, WindowsConstants
  <2>4. OpenTypes' /\ Lasts
    BY <1>1, <2>2, <2>3 DEF OpenTypes, Lasts, Wnd!Exists
  <2>5. \A o \in WndOpeners : Won(o)' => Won(o)
    BY <1>1, <2>2 DEF Won, OpenTypes, Wnd!Exists
  <2> QED BY <1>1, <2>2, <2>4, <2>5 DEF WonInv
<1>3. CASE ~\E n \in Wnd!Labels : Wnd!KillWindow(n)
  <2>1. window' = window
    BY <1>3
    DEF RemoverActs, WatchActs, Wnd!LookUp, Wnd!Ask, Wnd!AwaitRecord, Wnd!Confirm, Wnd!GiveUp,
        Wnd!Forget,
        Wnd!ForgetRecord, Wnd!Publish, Wnd!ReadRequests, Wnd!Snapshot, Wnd!RemovalsDone, Wnd!LookAgain, Wnd!PassFails, Wnd!ofTmux
  <2>2. faults' = faults \/ Wnd!Fault
    BY <1>3
    DEF RemoverActs, WatchActs, Wnd!LookUp, Wnd!Ask, Wnd!AwaitRecord, Wnd!Confirm, Wnd!GiveUp,
        Wnd!Forget,
        Wnd!ForgetRecord, Wnd!Publish, Wnd!ReadRequests, Wnd!Snapshot, Wnd!RemovalsDone, Wnd!LookAgain, Wnd!PassFails
  <2>3. faults' \in 0 .. WndMaxFaults
    BY <2>2 DEF OpenTypes, Wnd!Fault, WindowsConstants
  <2> QED BY <1>1, <2>1, <2>3 DEF OpenTypes, Lasts, WonInv, Won
<1> QED BY <1>2, <1>3

\* What is seen of a label is a window of it, which was made.
LEMMA Seen ==
    ASSUME OpenTypes, NEW n, NEW x \in Wnd!Sightings(n)
    PROVE  /\ OfMade(x, n, window)
           /\ Wnd!Windows(n) = {} => x = Wnd!NoRecord
           /\ Wnd!Windows(n) # {} => /\ x.is = Wnd!Shown(n) /\ x.about \in Wnd!Windows(n) /\ x # Wnd!NoRecord
<1>1. CASE Wnd!Windows(n) = {}
  BY <1>1 DEF Wnd!Sightings, OfMade
<1>2. CASE Wnd!Windows(n) # {}
  <2>1. x \in [is : {Wnd!Shown(n)}, about : Wnd!Windows(n)]
    BY <1>2 DEF Wnd!Sightings
  <2>2. Wnd!Shown(n) # "none"
    BY DEF Wnd!Shown
  <2> QED BY <1>2, <2>1, <2>2 DEF Wnd!Windows, OfMade, Wnd!Exists, Wnd!NoRecord
<1> QED BY <1>1, <1>2

\* How a pass goes on.
LEMMA WatchMoves ==
    ASSUME WatchTypes
    PROVE  /\ \A to : Wnd!PassTo(to) => /\ pass'.at = to /\ pass'.left = pass.left
                                        /\ pass'.seen = pass.seen
           /\ \A n, to : Wnd!Handled(n, to) =>
                /\ pass'.at = to /\ pass'.left = pass.left \ {n}
                /\ \A m \in pass'.left : pass'.seen[m] = pass.seen[m]
           /\ Wnd!Snapshot => pass'.at = "remove" /\ pass'.left = pass.left
BY DEF WatchTypes, Wnd!PassTo, Wnd!Handled, Wnd!Snapshot

\* What a pass does to itself.
LEMMA WatchTypesKept ==
    ASSUME OpenTypes, RecordTypes, WatchTypes, Lasts, Wnd!Next
    PROVE  WatchTypes'
<1>0. Wnd!NoRecord = [is |-> "none", about |-> WndNothing] /\ \A n : OfMade(Wnd!NoRecord, n, window')
  BY DEF Wnd!NoRecord, OfMade
<1>1. \A n, x : OfMade(x, n, window) => OfMade(x, n, window')
  BY DEF OfMade, Lasts
<1>2. CASE pass' = pass
  BY <1>1, <1>2 DEF WatchTypes
<1>3. ASSUME NEW n \in Wnd!Labels, NEW to \in WatchPhases, Wnd!Handled(n, to)
      PROVE  WatchTypes'
  <2>1. pass' = [at |-> to, left |-> pass.left \ {n}, seen |-> [pass.seen EXCEPT ![n] = Wnd!NoRecord]]
    BY <1>3 DEF Wnd!Handled, WatchTypes
  <2> QED BY <1>0, <1>1, <2>1 DEF WatchTypes
<1>4. ASSUME NEW to \in WatchPhases, Wnd!PassTo(to)
      PROVE  WatchTypes'
  <2>1. pass' = [at |-> to, left |-> pass.left, seen |-> pass.seen]
    BY <1>4 DEF Wnd!PassTo, WatchTypes
  <2> QED BY <1>1, <2>1 DEF WatchTypes
<1>5. ASSUME NEW to \in WatchPhases, NEW left \in SUBSET Wnd!Labels, NEW f,
             \A n \in Wnd!Labels : f[n] \in Wnd!Sightings(n), f = [n \in Wnd!Labels |-> f[n]],
             pass' = [at |-> to, left |-> left, seen |-> f], window' = window
      PROVE  WatchTypes'
  <2>1. \A n \in Wnd!Labels : OfMade(f[n], n, window)
    BY <1>5, Seen
  <2> QED BY <1>5, <2>1 DEF WatchTypes
<1>6. CASE Wnd!Snapshot
  <2>1. PICK f \in [Wnd!Labels -> UNION {Wnd!Sightings(n) : n \in Wnd!Labels}] :
          /\ \A n \in Wnd!Labels : f[n] \in Wnd!Sightings(n)
          /\ pass' = [pass EXCEPT !.at = "remove", !.seen = f]
    BY <1>6 DEF Wnd!Snapshot
  <2>2. pass' = [at |-> "remove", left |-> pass.left, seen |-> f] /\ pass.left \subseteq Wnd!Labels
    BY <2>1 DEF WatchTypes
  <2>3. window' = window /\ "remove" \in WatchPhases
    BY <1>6 DEF Wnd!Snapshot, WatchPhases
  <2> QED BY <1>5, <2>1, <2>2, <2>3
<1>7. CASE Wnd!LookAgain
  <2>1. PICK f \in [Wnd!Labels -> UNION {Wnd!Sightings(n) : n \in Wnd!Labels}] :
          /\ \A n \in Wnd!Labels : f[n] \in Wnd!Sightings(n)
          /\ pass' = [at |-> "write", left |-> Wnd!Labels, seen |-> f]
    BY <1>7 DEF Wnd!LookAgain
  <2>2. window' = window /\ "write" \in WatchPhases
    BY <1>7 DEF Wnd!LookAgain, WatchPhases
  <2> QED BY <1>5, <2>1, <2>2
<1>8. CASE Wnd!ReadRequests \/ Wnd!PassFails
  <2>1. \E to \in WatchPhases, left \in SUBSET Wnd!Labels : pass' = [at |-> to, left |-> left, seen |-> Wnd!Blank]
    BY <1>8 DEF Wnd!ReadRequests, Wnd!PassFails, Wnd!Start, RecordTypes, WatchPhases
  <2>2. Wnd!Blank = [n \in Wnd!Labels |-> Wnd!NoRecord]
    BY DEF Wnd!Blank
  <2> QED BY <1>0, <2>1, <2>2 DEF WatchTypes
<1>9. CASE \E n \in Wnd!Labels : Wnd!KillWindow(n)
  BY <1>3, <1>4, <1>9 DEF Wnd!KillWindow, WatchPhases
<1>10. CASE \E n \in Wnd!Labels : Wnd!Forget(n)
  BY <1>4, <1>10 DEF Wnd!Forget, WatchPhases
<1>11. CASE \E n \in Wnd!Labels : Wnd!ForgetRecord(n)
  BY <1>3, <1>11 DEF Wnd!ForgetRecord, WatchPhases
<1>12. CASE \E n \in Wnd!Labels : Wnd!Publish(n)
  BY <1>3, <1>12 DEF Wnd!Publish, WatchPhases
<1>13. CASE Wnd!RemovalsDone
  BY <1>4, <1>13 DEF Wnd!RemovalsDone, WatchPhases
<1>14. CASE \E o \in WndOpeners :
          \/ Wnd!CheckLabel(o) \/ Wnd!MakeWindow(o) \/ Wnd!CountLabels(o) \/ Wnd!Retain(o) \/ Wnd!Respawn(o)
          \/ Wnd!CommandFails(o) \/ Wnd!UndoWindow(o) \/ Wnd!OpenerDies(o) \/ Wnd!Exits(o) \/ Wnd!Closes(o)
  BY <1>2, <1>14
  DEF Wnd!CheckLabel, Wnd!MakeWindow, Wnd!CountLabels, Wnd!Retain, Wnd!Respawn,
      Wnd!CommandFails, Wnd!UndoWindow, Wnd!OpenerDies,
      Wnd!Exits, Wnd!Closes, Wnd!ofOthers
<1>15. CASE \E r \in WndRemovers : Wnd!LookUp(r) \/ Wnd!Ask(r) \/ Wnd!AwaitRecord(r) \/ Wnd!Confirm(r) \/ Wnd!GiveUp(r)
  BY <1>2, <1>15 DEF Wnd!LookUp, Wnd!Ask, Wnd!AwaitRecord, Wnd!Confirm, Wnd!GiveUp
<1> QED
  BY <1>6, <1>7, <1>8, <1>9, <1>10, <1>11, <1>12, <1>13, <1>14, <1>15 DEF Wnd!Next

\* What removers and a pass do to the records and the requests.
LEMMA RecordTypesKept ==
    ASSUME OpenTypes, RecordTypes, WatchTypes, Lasts, Wnd!Next
    PROVE  RecordTypes'
<1>1. \A n, x : OfMade(x, n, window) => OfMade(x, n, window')
  BY DEF OfMade, Lasts
<1>2. \A n : OfMade(Wnd!NoRecord, n, window')
  BY DEF OfMade
<1>3. asked' \subseteq Wnd!Labels /\ mixed' \subseteq Wnd!Labels
  <2>1. \A r \in WndRemovers : WndLabel[r] \in Wnd!Labels
    BY DEF Wnd!Labels
  <2> QED
    BY <2>1
    DEF Wnd!Next, RecordTypes, WatchTypes, Wnd!CheckLabel, Wnd!MakeWindow, Wnd!CountLabels,
        Wnd!Retain, Wnd!Respawn,
        Wnd!CommandFails, Wnd!UndoWindow, Wnd!OpenerDies, Wnd!Exits, Wnd!Closes, Wnd!ofOthers, Wnd!LookUp, Wnd!Ask, Wnd!AwaitRecord,
        Wnd!Confirm, Wnd!GiveUp, Wnd!ofTmux, Wnd!history, Wnd!ReadRequests, Wnd!Snapshot, Wnd!KillWindow, Wnd!Forget, Wnd!ForgetRecord,
        Wnd!RemovalsDone, Wnd!LookAgain, Wnd!Publish, Wnd!PassFails
<1>4. record' = [n \in Wnd!Labels |-> record'[n]] /\ \A n \in Wnd!Labels : OfMade(record'[n], n, window')
  <2>1. \/ record' = record
        \/ \E n \in Wnd!Labels : \/ record' = [record EXCEPT ![n] = Wnd!NoRecord]
                                 \/ record' = [record EXCEPT ![n] = pass.seen[n]]
    BY DEF Wnd!Next, Wnd!CheckLabel, Wnd!MakeWindow, Wnd!CountLabels, Wnd!Retain, Wnd!Respawn,
        Wnd!CommandFails, Wnd!UndoWindow, Wnd!OpenerDies, Wnd!Exits, Wnd!Closes, Wnd!ofOthers, Wnd!LookUp, Wnd!Ask, Wnd!AwaitRecord,
        Wnd!Confirm, Wnd!GiveUp, Wnd!ofTmux, Wnd!history, Wnd!ReadRequests, Wnd!Snapshot, Wnd!KillWindow, Wnd!Forget, Wnd!ForgetRecord,
        Wnd!RemovalsDone, Wnd!LookAgain, Wnd!Publish, Wnd!PassFails
  <2> QED BY <1>1, <1>2, <2>1 DEF RecordTypes, WatchTypes
<1>5. /\ remover' = [r \in WndRemovers |-> [at |-> remover'[r].at, about |-> remover'[r].about]]
      /\ \A r \in WndRemovers : remover'[r].at \in {"ask", "wait", "confirm", "removed"} =>
          /\ remover'[r].about \in WndOpeners /\ WndLabel[remover'[r].about] = WndLabel[r]
          /\ window'[remover'[r].about] # "none"
  <2>1. CASE remover' = remover
    BY <2>1 DEF RecordTypes, Lasts
  <2>2. ASSUME NEW r \in WndRemovers, Wnd!LookUp(r) \/ Wnd!Ask(r) \/ Wnd!AwaitRecord(r) \/ Wnd!Confirm(r) \/ Wnd!GiveUp(r)
        PROVE  /\ \E to, about : remover' = [remover EXCEPT ![r] = [at |-> to, about |-> about]]
               /\ remover'[r].at \in {"ask", "wait", "confirm", "removed"} =>
                     \/ /\ remover[r].at \in {"ask", "wait", "confirm", "removed"}
                        /\ remover'[r].about = remover[r].about
                     \/ remover'[r].about = record[WndLabel[r]].about /\ record[WndLabel[r]] # Wnd!NoRecord
    BY <2>2
    DEF RecordTypes, Wnd!LookUp, Wnd!Ask, Wnd!AwaitRecord, Wnd!Confirm, Wnd!GiveUp,
        Wnd!RemoverTo, Wnd!Over
  <2>3. ASSUME NEW r \in WndRemovers, Wnd!LookUp(r) \/ Wnd!Ask(r) \/ Wnd!AwaitRecord(r) \/ Wnd!Confirm(r) \/ Wnd!GiveUp(r)
        PROVE  /\ remover' = [q \in WndRemovers |-> [at |-> remover'[q].at, about |-> remover'[q].about]]
               /\ \A q \in WndRemovers : remover'[q].at \in {"ask", "wait", "confirm", "removed"} =>
                    /\ remover'[q].about \in WndOpeners /\ WndLabel[remover'[q].about] = WndLabel[q]
                    /\ window'[remover'[q].about] # "none"
    <3>1. WndLabel[r] \in Wnd!Labels
      BY DEF Wnd!Labels
    <3>2. record[WndLabel[r]] # Wnd!NoRecord =>
             /\ record[WndLabel[r]].about \in WndOpeners
             /\ WndLabel[record[WndLabel[r]].about] = WndLabel[r] /\ window[record[WndLabel[r]].about] # "none"
      BY <3>1 DEF RecordTypes, OfMade
    <3>3. PICK to, about : remover' = [remover EXCEPT ![r] = [at |-> to, about |-> about]]
      BY <2>2, <2>3
    <3>4. \A q \in WndRemovers : q # r => remover'[q] = remover[q]
      BY <3>3 DEF RecordTypes
    <3>5. remover'[r] = [at |-> to, about |-> about]
      BY <3>3 DEF RecordTypes
    <3>6. remover' = [q \in WndRemovers |-> [at |-> remover'[q].at, about |-> remover'[q].about]]
      BY <3>3 DEF RecordTypes
    <3>7. remover'[r].at \in {"ask", "wait", "confirm", "removed"} =>
            /\ remover'[r].about \in WndOpeners /\ WndLabel[remover'[r].about] = WndLabel[r]
            /\ window[remover'[r].about] # "none"
      BY <2>2, <2>3, <3>2 DEF RecordTypes
    <3>8. \A q \in WndRemovers : remover'[q].at \in {"ask", "wait", "confirm", "removed"} =>
            /\ remover'[q].about \in WndOpeners /\ WndLabel[remover'[q].about] = WndLabel[q]
            /\ window[remover'[q].about] # "none"
      BY <3>4, <3>7 DEF RecordTypes
    <3> QED BY <3>6, <3>8 DEF Lasts
  <2>4. CASE \A r \in WndRemovers : ~(Wnd!LookUp(r) \/ Wnd!Ask(r) \/ Wnd!AwaitRecord(r) \/ Wnd!Confirm(r) \/ Wnd!GiveUp(r))
    BY <2>1, <2>4
    DEF Wnd!Next, Wnd!CheckLabel, Wnd!MakeWindow, Wnd!CountLabels, Wnd!Retain, Wnd!Respawn,
        Wnd!CommandFails, Wnd!UndoWindow, Wnd!OpenerDies, Wnd!Exits, Wnd!Closes, Wnd!ofOthers, Wnd!ReadRequests, Wnd!Snapshot,
        Wnd!KillWindow, Wnd!Forget, Wnd!ForgetRecord, Wnd!RemovalsDone, Wnd!LookAgain, Wnd!Publish, Wnd!PassFails, Wnd!ofCommands
  <2> QED BY <2>3, <2>4
<1> QED BY <1>3, <1>4, <1>5 DEF RecordTypes


\* What is done with stays so, and a window becomes known by a publication only.
LEMMA DoneKept ==
    ASSUME Lasts, Wnd!Next
    PROVE  \A w, n : w \in WndOpeners /\ Done(window, mixed, w, n) => Done(window', mixed', w, n)
<1>1. mixed \subseteq mixed'
  BY DEF Wnd!Next, Wnd!CheckLabel, Wnd!MakeWindow, Wnd!CountLabels, Wnd!Retain, Wnd!Respawn,
        Wnd!CommandFails, Wnd!UndoWindow, Wnd!OpenerDies, Wnd!Exits, Wnd!Closes, Wnd!ofOthers, Wnd!LookUp, Wnd!Ask, Wnd!AwaitRecord,
        Wnd!Confirm, Wnd!GiveUp, Wnd!ofTmux, Wnd!history, Wnd!ReadRequests, Wnd!Snapshot, Wnd!KillWindow, Wnd!Forget, Wnd!ForgetRecord,
        Wnd!RemovalsDone, Wnd!LookAgain, Wnd!Publish, Wnd!PassFails
<1> QED BY <1>1 DEF Done, Lasts

\* What a run-rm does next.
Goes(r) ==
    \/ remover'[r].at = "over"
    \/ remover[r].at = "start" /\ remover'[r] = [at |-> "ask", about |-> record[WndLabel[r]].about]
    \/ /\ remover'[r].about = remover[r].about
       /\ \/ remover[r].at = "ask" /\ remover'[r].at = "wait" /\ WndLabel[r] \in asked'
          \/ remover[r].at \in {"wait", "confirm"} /\ remover'[r].at \in {"wait", "confirm"}
          \/ remover[r].at = "confirm" /\ remover'[r].at = "removed" /\ WndLabel[r] \notin asked

\* Each run-rm stays where it is, or goes on; nothing else changes them.
LEMMA RemoverStep ==
    ASSUME RecordTypes, Wnd!Next
    PROVE  /\ \A r \in WndRemovers : remover'[r] = remover[r] \/ Goes(r)
           /\ (\E n \in Wnd!Labels : Wnd!Forget(n)) \/ asked \subseteq asked'
           /\ remover' # remover => pass' = pass /\ record' = record
<1>1. ASSUME NEW r \in WndRemovers, Wnd!LookUp(r) \/ Wnd!Ask(r) \/ Wnd!AwaitRecord(r) \/ Wnd!Confirm(r) \/ Wnd!GiveUp(r)
      PROVE  /\ Goes(r) /\ \A q \in WndRemovers : q # r => remover'[q] = remover[q]
             /\ asked \subseteq asked' /\ pass' = pass /\ record' = record
  <2>0. remover = [q \in WndRemovers |-> [at |-> remover[q].at, about |-> remover[q].about]]
    BY DEF RecordTypes
  <2>1. CASE Wnd!LookUp(r)
    BY <2>0, <2>1 DEF Wnd!LookUp, Goes, Wnd!Over
  <2>2. CASE Wnd!Ask(r)
    BY <2>0, <2>2 DEF Wnd!Ask, Goes, Wnd!RemoverTo
  <2>3. CASE Wnd!AwaitRecord(r)
    BY <2>0, <2>3 DEF Wnd!AwaitRecord, Goes, Wnd!RemoverTo
  <2>4. CASE Wnd!Confirm(r)
    BY <2>0, <2>4 DEF Wnd!Confirm, Goes, Wnd!RemoverTo
  <2>5. CASE Wnd!GiveUp(r)
    BY <2>0, <2>5 DEF Wnd!GiveUp, Goes, Wnd!Over
  <2> QED BY <1>1, <2>1, <2>2, <2>3, <2>4, <2>5
<1>2. CASE RemoverActs
  BY <1>1, <1>2 DEF RemoverActs
<1>3. CASE ~RemoverActs
  <2>1. remover' = remover
    BY <1>3
    DEF Wnd!Next, RemoverActs, Wnd!CheckLabel, Wnd!MakeWindow, Wnd!CountLabels, Wnd!Retain,
        Wnd!Respawn, Wnd!CommandFails,
        Wnd!UndoWindow, Wnd!OpenerDies, Wnd!Exits, Wnd!Closes, Wnd!ofOthers, Wnd!ReadRequests, Wnd!Snapshot, Wnd!KillWindow, Wnd!Forget,
        Wnd!ForgetRecord, Wnd!RemovalsDone, Wnd!LookAgain, Wnd!Publish, Wnd!PassFails, Wnd!ofCommands
  <2>2. (\E n \in Wnd!Labels : Wnd!Forget(n)) \/ asked \subseteq asked'
    BY <1>3
    DEF Wnd!Next, RemoverActs, Wnd!CheckLabel, Wnd!MakeWindow, Wnd!CountLabels, Wnd!Retain,
        Wnd!Respawn, Wnd!CommandFails,
        Wnd!UndoWindow, Wnd!OpenerDies, Wnd!Exits, Wnd!Closes, Wnd!ofOthers, Wnd!ReadRequests, Wnd!Snapshot, Wnd!KillWindow,
        Wnd!ForgetRecord, Wnd!RemovalsDone, Wnd!LookAgain, Wnd!Publish, Wnd!PassFails
  <2> QED BY <2>1, <2>2
<1> QED BY <1>2, <1>3

\* A window becomes known by a publication only.
LEMMA KnownKept ==
    ASSUME WindowsConstants, RecordTypes, Wnd!Next, ~\E n \in Wnd!Labels : Wnd!Publish(n)
    PROVE  \A w \in WndOpeners, n \in Wnd!Labels : Known(w, n)' => Known(w, n)
<1>1. \A w \in WndOpeners, n \in Wnd!Labels : record'[n].about = w => record[n].about = w
  <2>1. record' = record \/ \E n \in Wnd!Labels : record' = [record EXCEPT ![n] = Wnd!NoRecord]
    BY DEF Wnd!Next, Wnd!CheckLabel, Wnd!MakeWindow, Wnd!CountLabels, Wnd!Retain, Wnd!Respawn,
        Wnd!CommandFails, Wnd!UndoWindow, Wnd!OpenerDies, Wnd!Exits, Wnd!Closes, Wnd!ofOthers, Wnd!LookUp, Wnd!Ask, Wnd!AwaitRecord,
        Wnd!Confirm, Wnd!GiveUp, Wnd!ofTmux, Wnd!history, Wnd!ReadRequests, Wnd!Snapshot, Wnd!KillWindow, Wnd!Forget, Wnd!ForgetRecord,
        Wnd!RemovalsDone, Wnd!LookAgain, Wnd!PassFails
  <2> QED BY <2>1 DEF RecordTypes, Wnd!NoRecord, WindowsConstants
<1>2. ASSUME NEW r \in WndRemovers, remover'[r].at \in {"ask", "wait", "confirm", "removed"}
      PROVE  \/ /\ remover[r].at \in {"ask", "wait", "confirm", "removed"}
                /\ remover'[r].about = remover[r].about
             \/ remover'[r].about = record[WndLabel[r]].about
  <2>1. remover'[r] = remover[r] \/ Goes(r)
    BY RemoverStep
  <2> QED BY <1>2, <2>1 DEF Goes
<1> QED BY <1>1, <1>2 DEF Known

\* What is known is of a window that was made.
LEMMA KnownMade ==
    ASSUME WindowsConstants, RecordTypes, NEW n \in Wnd!Labels, NEW w \in WndOpeners, Known(w, n)
    PROVE  WndLabel[w] = n /\ window[w] # "none"
<1>1. CASE record[n].about = w
  <2>1. record[n] # Wnd!NoRecord
    BY <1>1 DEF Wnd!NoRecord, WindowsConstants
  <2> QED BY <1>1, <2>1 DEF RecordTypes, OfMade
<1>2. CASE record[n].about # w
  BY <1>2 DEF Known, RecordTypes
<1> QED BY <1>1, <1>2

\* A snapshot finds a window that is known, or another one, or that it is gone.
LEMMA SnapshotRemoves ==
    ASSUME WindowsConstants, OpenTypes, RecordTypes, WatchTypes, Wnd!Snapshot
    PROVE  \A n \in pass'.left, w \in WndOpeners :
              Known(w, n)' => w = pass'.seen[n].about \/ Done(window', mixed', w, n)
<1>1. PICK f \in [Wnd!Labels -> UNION {Wnd!Sightings(n) : n \in Wnd!Labels}] :
        /\ \A n \in Wnd!Labels : f[n] \in Wnd!Sightings(n)
        /\ pass' = [pass EXCEPT !.at = "remove", !.seen = f]
  BY DEF Wnd!Snapshot
<1>2. /\ pass'.left = pass.left /\ pass'.seen = f /\ pass.left \subseteq Wnd!Labels
      /\ UNCHANGED <<window, record, remover>>
      /\ mixed' = mixed \cup {n \in pass.left : \E v, w \in Wnd!Windows(n) : v # w}
  BY <1>1 DEF WatchTypes, Wnd!Snapshot, Wnd!ofCommands
<1> SUFFICES ASSUME NEW n \in pass.left, NEW w \in WndOpeners, Known(w, n)
             PROVE  w = f[n].about \/ Done(window', mixed', w, n)
  BY <1>2 DEF Known
<1>3. WndLabel[w] = n /\ window[w] # "none"
  BY <1>2, KnownMade
<1>4. CASE window[w] = "gone"
  BY <1>2, <1>4 DEF Done
<1>5. CASE window[w] # "gone"
  <2>1. w \in Wnd!Windows(n)
    BY <1>3, <1>5 DEF Wnd!Windows, OpenTypes
  <2>2. f[n].about \in Wnd!Windows(n)
    BY <1>1, <1>2, <2>1, Seen
  <2> QED BY <1>2, <2>1, <2>2 DEF Done
<1> QED BY <1>4, <1>5

\* What was asked for and is no longer requested is done with.
LEMMA AskedKept ==
    ASSUME RecordTypes, AskedInv, Lasts, Wnd!Next, ~\E n \in Wnd!Labels : Wnd!Forget(n)
    PROVE  AskedInv'
<1> SUFFICES ASSUME NEW r \in WndRemovers
             PROVE  /\ remover'[r].at \in {"wait", "confirm"} =>
                          \/ WndLabel[r] \in asked'
                          \/ Done(window', mixed', remover'[r].about, WndLabel[r])
                    /\ remover'[r].at = "removed" =>
                          Done(window', mixed', remover'[r].about, WndLabel[r])
  BY DEF AskedInv
<1>1. asked \subseteq asked' /\ (remover'[r] = remover[r] \/ Goes(r))
  BY RemoverStep
<1>2. remover[r].at \in {"wait", "confirm", "removed"} /\ Done(window, mixed, remover[r].about, WndLabel[r])
         => Done(window', mixed', remover[r].about, WndLabel[r])
  <2>1. remover[r].at \in {"wait", "confirm", "removed"} => remover[r].about \in WndOpeners
    BY DEF RecordTypes
  <2> QED BY <2>1, DoneKept
<1>3. /\ remover[r].at \in {"wait", "confirm"} =>
            WndLabel[r] \in asked \/ Done(window, mixed, remover[r].about, WndLabel[r])
      /\ remover[r].at = "removed" => Done(window, mixed, remover[r].about, WndLabel[r])
  BY DEF AskedInv
<1>4. CASE remover[r].at = "ask" /\ remover'[r].at = "wait" /\ WndLabel[r] \in asked'
  BY <1>4
<1>5. CASE remover'[r].at \notin {"wait", "confirm", "removed"}
  BY <1>5
<1>6. CASE /\ remover'[r].about = remover[r].about
           /\ \/ remover[r].at \in {"wait", "confirm"} /\ remover'[r].at \in {"wait", "confirm"}
              \/ remover[r].at = "confirm" /\ remover'[r].at = "removed" /\ WndLabel[r] \notin asked
              \/ remover[r].at = "removed" /\ remover'[r].at = "removed"
  BY <1>1, <1>2, <1>3, <1>6
<1> QED BY <1>1, <1>4, <1>5, <1>6 DEF Goes

\* What is known of the labels a pass deals with stays so, while it goes on with them.
LEMMA DealtKept ==
    ASSUME WindowsConstants, RecordTypes, WatchTypes, DealtInv, Lasts, Wnd!Next,
           pass.at \in {"remove", "forget", "forget record"}, pass'.left \subseteq pass.left,
           \A n \in pass'.left : pass'.seen[n] = pass.seen[n], ~\E n \in Wnd!Labels : Wnd!Publish(n)
    PROVE  DealtInv'
<1>1. \A w, n : w \in WndOpeners /\ Done(window, mixed, w, n) => Done(window', mixed', w, n)
  BY DoneKept
<1>2. \A w \in WndOpeners, n \in Wnd!Labels : Known(w, n)' => Known(w, n)
  BY KnownKept
<1> SUFFICES ASSUME NEW n \in pass'.left, NEW w \in WndOpeners, Known(w, n)'
             PROVE  w = pass'.seen[n].about \/ Done(window', mixed', w, n)
  BY DEF DealtInv
<1>3. n \in Wnd!Labels /\ n \in pass.left
  BY DEF WatchTypes
<1>4. w = pass.seen[n].about \/ Done(window, mixed, w, n)
  BY <1>2, <1>3 DEF DealtInv
<1> QED BY <1>1, <1>4

\* A pass forgets a request when the window it saw is gone, and there is no other.
LEMMA KillForgets ==
    ASSUME WindowsConstants, OpenTypes, RecordTypes, WatchTypes, DealtInv, Lasts, Wnd!Next,
           NEW n \in Wnd!Labels, Wnd!KillWindow(n)
    PROVE  DealtInv' /\ ForgetsInv'
<1>1. /\ pass.at = "remove" /\ n \in pass.left /\ n = CHOOSE m \in pass.left : TRUE
      /\ record' = record /\ remover' = remover
  BY DEF Wnd!KillWindow, Wnd!At, Wnd!ofCommands
<1>2. ~\E m \in Wnd!Labels : Wnd!Publish(m)
  BY <1>1 DEF Wnd!Publish, Wnd!At
<1>3. pass.seen[n] # Wnd!NoRecord => pass.seen[n].about \in WndOpeners
  BY DEF WatchTypes, OfMade
<1>4. \/ /\ pass'.at = "forget" /\ pass'.left = pass.left /\ pass'.seen = pass.seen
         /\ pass.seen[n] = Wnd!NoRecord \/ window'[pass.seen[n].about] = "gone"
      \/ /\ pass'.at = "remove" /\ pass'.left = pass.left \ {n}
         /\ \A m \in pass'.left : pass'.seen[m] = pass.seen[m]
  <2>1. CASE Wnd!PassTo("forget") /\ (pass.seen[n] = Wnd!NoRecord \/ Wnd!Becomes(pass.seen[n].about, "gone"))
    BY <1>3, <2>1 DEF Wnd!PassTo, Wnd!Becomes, WatchTypes, OpenTypes
  <2>2. CASE Wnd!Handled(n, "remove")
    BY <2>2 DEF Wnd!Handled, WatchTypes
  <2> QED BY <2>1, <2>2 DEF Wnd!KillWindow
<1>5. DealtInv'
  BY <1>1, <1>2, <1>4, DealtKept
<1>6. ASSUME pass'.at = "forget", NEW w \in WndOpeners, Known(w, n)'
      PROVE  Done(window', mixed', w, n)
  <2>1. Known(w, n)
    BY <1>1, <1>6 DEF Known
  <2>2. w = pass.seen[n].about \/ Done(window, mixed, w, n)
    BY <1>1, <2>1 DEF DealtInv
  <2>3. pass.seen[n] = Wnd!NoRecord => w # pass.seen[n].about
    BY DEF Wnd!NoRecord, WindowsConstants
  <2>4. Done(window, mixed, w, n) => Done(window', mixed', w, n)
    BY DoneKept
  <2> QED BY <1>4, <1>6, <2>2, <2>3, <2>4 DEF Done
<1>7. pass'.at = "forget" => pass'.left = pass.left
  BY <1>4
<1>8. ForgetsInv'
  BY <1>1, <1>6, <1>7 DEF ForgetsInv
<1> QED BY <1>5, <1>8

\* A request is forgotten when all that is known of is done with.
LEMMA ForgetAsked ==
    ASSUME WindowsConstants, RecordTypes, WatchTypes, RemovedInv, Lasts, Wnd!Next,
           NEW n \in Wnd!Labels, Wnd!Forget(n)
    PROVE  RemovedInv'
<1>1. /\ pass.at = "forget" /\ n = CHOOSE m \in pass.left : TRUE
      /\ pass'.at = "forget record" /\ pass'.left = pass.left /\ pass'.seen = pass.seen
      /\ remover' = remover /\ asked' = asked \ {n}
  BY DEF Wnd!Forget, Wnd!At, Wnd!PassTo, WatchTypes, Wnd!ofCommands
<1>2. ~\E m \in Wnd!Labels : Wnd!Publish(m)
  BY <1>1 DEF Wnd!Publish, Wnd!At
<1>3. DealtInv'
  BY <1>1, <1>2, DealtKept DEF RemovedInv
<1>4. ASSUME NEW r \in WndRemovers, remover[r].at \in {"wait", "confirm"}, WndLabel[r] = n
      PROVE  Done(window, mixed, remover[r].about, n)
  <2>1. remover[r].about \in WndOpeners /\ Known(remover[r].about, n)
    BY <1>4 DEF RecordTypes, Known
  <2> QED BY <1>1, <2>1 DEF RemovedInv, ForgetsInv
<1>5. \A r \in WndRemovers : remover[r].at \in {"wait", "confirm", "removed"} =>
         remover[r].about \in WndOpeners
  BY DEF RecordTypes
<1>6. ASSUME NEW r \in WndRemovers
      PROVE  /\ remover[r].at \in {"wait", "confirm"} =>
                   WndLabel[r] \in asked' \/ Done(window', mixed', remover[r].about, WndLabel[r])
             /\ remover[r].at = "removed" => Done(window', mixed', remover[r].about, WndLabel[r])
  BY <1>1, <1>4, <1>5, DoneKept DEF RemovedInv, AskedInv
<1>7. AskedInv'
  BY <1>1, <1>6 DEF AskedInv
<1>8. ForgetsInv'
  BY <1>1 DEF ForgetsInv
<1> QED BY <1>3, <1>7, <1>8 DEF RemovedInv

\* No other step makes anything known, or forgets a request.
LEMMA RemovedKept ==
    ASSUME WindowsConstants, OpenTypes, RecordTypes, WatchTypes, RemovedInv, Lasts, Wnd!Next
    PROVE  RemovedInv'
<1>1. CASE pass' = pass /\ ~\E n \in Wnd!Labels : Wnd!Publish(n) \/ Wnd!Forget(n)
  <2>1. DealtInv'
    <3>1. CASE pass.at \in {"remove", "forget", "forget record"}
      BY <1>1, <3>1, DealtKept DEF RemovedInv
    <3>2. CASE pass.at \notin {"remove", "forget", "forget record"}
      BY <1>1, <3>2 DEF DealtInv
    <3> QED BY <3>1, <3>2
  <2>2. ForgetsInv'
    <3> SUFFICES ASSUME pass.at = "forget"
                 PROVE  ForgetsInv'
      BY <1>1 DEF ForgetsInv
    <3>1. pass.left # {}
      BY DEF RemovedInv, ForgetsInv
    <3>2. PICK n : n = CHOOSE m \in pass.left : TRUE
      OBVIOUS
    <3>3. n \in Wnd!Labels /\ \A w \in WndOpeners : Known(w, n) => Done(window, mixed, w, n)
      BY <3>1, <3>2 DEF RemovedInv, ForgetsInv, WatchTypes
    <3>4. ASSUME NEW w \in WndOpeners, Known(w, n)' PROVE Done(window', mixed', w, n)
      <4>1. Known(w, n)
        BY <1>1, <3>3, <3>4, KnownKept
      <4> QED BY <3>3, <4>1, DoneKept
    <3> QED BY <1>1, <3>1, <3>2, <3>4 DEF ForgetsInv
  <2> QED BY <1>1, <2>1, <2>2, AskedKept DEF RemovedInv
<1>2. CASE Wnd!Snapshot
  <2>1. DealtInv'
    BY <1>2, SnapshotRemoves DEF DealtInv
  <2>2. pass'.at = "remove" /\ ~\E n \in Wnd!Labels : Wnd!Forget(n)
    BY <1>2 DEF Wnd!Snapshot, Wnd!Forget, Wnd!At, WatchTypes
  <2> QED BY <2>1, <2>2, AskedKept DEF RemovedInv, ForgetsInv
<1>3. ASSUME NEW n \in Wnd!Labels, Wnd!KillWindow(n) PROVE RemovedInv'
  <2>1. ~\E m \in Wnd!Labels : Wnd!Forget(m)
    BY <1>3 DEF Wnd!KillWindow, Wnd!At, Wnd!Forget
  <2> QED BY <1>3, <2>1, KillForgets, AskedKept DEF RemovedInv
<1>4. ASSUME NEW n \in Wnd!Labels, Wnd!ForgetRecord(n) PROVE RemovedInv'
  <2>1. pass.at = "forget record" /\ Wnd!Handled(n, "remove")
    BY <1>4 DEF Wnd!ForgetRecord, Wnd!At
  <2>2. (~\E m \in Wnd!Labels : Wnd!Publish(m)) /\ (~\E m \in Wnd!Labels : Wnd!Forget(m))
    BY <2>1 DEF Wnd!At, Wnd!Publish, Wnd!Forget
  <2>3. DealtInv' /\ pass'.at = "remove"
    BY <2>1, <2>2, DealtKept, WatchMoves DEF RemovedInv
  <2> QED BY <2>2, <2>3, AskedKept DEF RemovedInv, ForgetsInv
<1>5. CASE pass'.at \notin {"remove", "forget", "forget record"} /\ ~\E n \in Wnd!Labels : Wnd!Forget(n)
  BY <1>5, AskedKept DEF RemovedInv, DealtInv, ForgetsInv
<1>6. CASE OpenerActs \/ RemoverActs
  <2>1. pass' = pass
    BY <1>6
    DEF OpenerActs, RemoverActs, Wnd!CheckLabel, Wnd!MakeWindow, Wnd!CountLabels, Wnd!Retain,
        Wnd!Respawn, Wnd!CommandFails,
        Wnd!UndoWindow, Wnd!OpenerDies, Wnd!Exits, Wnd!Closes, Wnd!ofOthers, Wnd!LookUp, Wnd!Ask, Wnd!AwaitRecord, Wnd!Confirm, Wnd!GiveUp
  <2>2. ~\E n \in Wnd!Labels : Wnd!Publish(n) \/ Wnd!Forget(n)
    BY <2>1 DEF Wnd!Publish, Wnd!Forget, Wnd!Handled, Wnd!PassTo, Wnd!At, WatchTypes
  <2> QED BY <1>1, <2>1, <2>2
<1>7. CASE \E n \in Wnd!Labels : Wnd!Publish(n)
  BY <1>5, <1>7 DEF Wnd!Publish, Wnd!Handled, Wnd!At, WatchTypes, Wnd!Forget
<1>8. CASE Wnd!ReadRequests
  <2>1. pass'.at \in {"publish", "look"}
    BY <1>8 DEF Wnd!ReadRequests, Wnd!Start
  <2>2. ~\E n \in Wnd!Labels : Wnd!Forget(n)
    BY <1>8 DEF Wnd!ReadRequests, Wnd!Forget, Wnd!At
  <2> QED BY <1>5, <2>1, <2>2
<1>9. CASE Wnd!RemovalsDone \/ Wnd!LookAgain
  <2>1. pass'.at \in {"publish", "write"}
    BY <1>9, WatchMoves DEF Wnd!RemovalsDone, Wnd!LookAgain
  <2>2. ~\E n \in Wnd!Labels : Wnd!Forget(n)
    BY <1>9 DEF Wnd!RemovalsDone, Wnd!LookAgain, Wnd!Forget, Wnd!At
  <2> QED BY <1>5, <2>1, <2>2
<1>10. CASE Wnd!PassFails
  <2>1. pass'.at = "rest" /\ ~(\E n \in Wnd!Labels : Wnd!Forget(n))
    BY <1>10 DEF Wnd!PassFails, Wnd!Start, Wnd!Forget, Wnd!PassTo, WatchTypes
  <2> QED BY <1>5, <2>1
<1> QED
  <2>1. (\E n \in Wnd!Labels : Wnd!Forget(n)) => RemovedInv'
    BY ForgetAsked
  <2> QED
    BY <1>2, <1>3, <1>4, <1>6, <1>7, <1>8, <1>9, <1>10, <2>1
    DEF Wnd!Next, OpenerActs, RemoverActs

\* What is published is so, unless a window changed meanwhile.
LEMMA PublishedKept ==
    ASSUME OpenTypes, RecordTypes, WatchTypes, PublishedInv, Wnd!Next
    PROVE  PublishedInv'
<1>1. CASE moved' = TRUE
  BY <1>1 DEF PublishedInv
<1>2. ASSUME window' = window
      PROVE  \A n : /\ Wnd!Windows(n)' = Wnd!Windows(n)
                    /\ Wnd!Shown(n)' = Wnd!Shown(n)
  BY <1>2 DEF Wnd!Windows, Wnd!Shown
<1>3. ASSUME window' = window, NEW x, NEW n
      PROVE  Says(x, n)' <=> Says(x, n)
  BY <1>2, <1>3 DEF Says
<1>4. CASE UNCHANGED <<window, moved, record, pass>>
  BY <1>3, <1>4 DEF PublishedInv
<1>5. CASE Wnd!LookAgain
  <2>1. PICK f \in [Wnd!Labels -> UNION {Wnd!Sightings(n) : n \in Wnd!Labels}] :
          /\ \A n \in Wnd!Labels : f[n] \in Wnd!Sightings(n)
          /\ pass' = [at |-> "write", left |-> Wnd!Labels, seen |-> f]
    BY <1>5 DEF Wnd!LookAgain
  <2>2. \A n \in Wnd!Labels : Says(f[n], n)
    BY <2>1, Seen DEF Says
  <2>3. window' = window
    BY <1>5 DEF Wnd!LookAgain
  <2>4. pass'.at = "write" /\ pass'.seen = f /\ pass'.left = Wnd!Labels
    BY <2>1
  <2> QED BY <1>3, <2>2, <2>3, <2>4 DEF PublishedInv
<1>6. ASSUME NEW n \in Wnd!Labels, Wnd!Publish(n) PROVE PublishedInv'
  <2>1. /\ pass.at = "write" /\ n \in pass.left
        /\ record' = [record EXCEPT ![n] = pass.seen[n]]
        /\ pass'.at = IF pass.left = {n} THEN "done" ELSE "write"
        /\ pass'.left = pass.left \ {n}
        /\ \A m \in pass'.left : pass'.seen[m] = pass.seen[m]
        /\ window' = window /\ moved' = moved
    BY <1>6 DEF Wnd!Publish, Wnd!At, Wnd!Handled, WatchTypes, Wnd!history
  <2>2. ~moved => \A m \in Wnd!Labels : IF m \in pass'.left THEN Says(pass'.seen[m], m)
                                                          ELSE Says(record'[m], m)
    BY <2>1 DEF PublishedInv, RecordTypes, WatchTypes
  <2> QED BY <1>3, <2>1, <2>2 DEF PublishedInv
<1>7. CASE pass'.at \notin {"write", "done"}
  BY <1>7 DEF PublishedInv
<1>8. CASE OpenerActs \/ RemoverActs
  <2>1. UNCHANGED <<record, pass>>
    BY <1>8
    DEF OpenerActs, RemoverActs, Wnd!CheckLabel, Wnd!MakeWindow, Wnd!CountLabels, Wnd!Retain,
        Wnd!Respawn, Wnd!CommandFails,
        Wnd!UndoWindow, Wnd!OpenerDies, Wnd!Exits, Wnd!Closes, Wnd!ofOthers, Wnd!LookUp, Wnd!Ask, Wnd!AwaitRecord, Wnd!Confirm, Wnd!GiveUp
  <2>2. moved' = TRUE \/ UNCHANGED <<window, moved>>
    BY <1>8
    DEF OpenerActs, RemoverActs, Wnd!CheckLabel, Wnd!MakeWindow, Wnd!CountLabels, Wnd!Retain,
        Wnd!Respawn, Wnd!CommandFails,
        Wnd!UndoWindow, Wnd!OpenerDies, Wnd!Exits, Wnd!Closes, Wnd!Becomes, Wnd!LookUp, Wnd!Ask, Wnd!AwaitRecord, Wnd!Confirm, Wnd!GiveUp,
        Wnd!ofTmux, Wnd!history
  <2> QED BY <1>1, <1>4, <2>1, <2>2
<1>9. CASE \E n \in Wnd!Labels : Wnd!KillWindow(n) \/ Wnd!Forget(n) \/ Wnd!ForgetRecord(n)
  BY <1>7, <1>9
  DEF Wnd!KillWindow, Wnd!Forget, Wnd!ForgetRecord, Wnd!Handled, Wnd!PassTo, WatchTypes
<1>10. CASE Wnd!ReadRequests \/ Wnd!Snapshot \/ Wnd!RemovalsDone \/ Wnd!PassFails
  <2>1. CASE Wnd!ReadRequests
    BY <1>7, <2>1 DEF Wnd!ReadRequests, Wnd!Start
  <2>2. CASE Wnd!Snapshot \/ Wnd!RemovalsDone \/ Wnd!PassFails
    <3>1. pass'.at \in {"remove", "publish", "rest"}
      BY <2>2, WatchMoves DEF Wnd!RemovalsDone, Wnd!PassFails, Wnd!Start
    <3> QED BY <1>7, <3>1
  <2> QED BY <1>10, <2>1, <2>2
<1> QED
  BY <1>5, <1>6, <1>8, <1>9, <1>10 DEF Wnd!Next, OpenerActs, RemoverActs

(* The theorem *)

\* Initially nothing was opened, published or seen.
LEMMA WindowsInit == WindowsConstants /\ Wnd!Init => WindowsInv
<1> SUFFICES ASSUME WindowsConstants, Wnd!Init PROVE WindowsInv
  OBVIOUS
<1>1. OpenTypes
  BY DEF Wnd!Init, OpenTypes, WindowsConstants
<1>2. RecordTypes
  BY DEF Wnd!Init, RecordTypes, Wnd!Blank, OfMade
<1>3. WatchTypes
  BY DEF Wnd!Init, WatchTypes, Wnd!Start, Wnd!Blank, OfMade, WatchPhases
<1>4. WonInv /\ RemovedInv /\ PublishedInv
  BY DEF Wnd!Init, WonInv, Won, RemovedInv, DealtInv, ForgetsInv, AskedInv, PublishedInv,
     Wnd!Start, Wnd!Exists
<1> QED BY <1>1, <1>2, <1>3, <1>4 DEF WindowsInv

\* Every step keeps the invariant.
LEMMA WindowsStep ==
    ASSUME WindowsConstants, WindowsInv, Wnd!Next \/ UNCHANGED Wnd!wvars
    PROVE  WindowsInv'
<1>1. CASE UNCHANGED Wnd!wvars
  <2>1. UNCHANGED <<window, opener, record, asked, remover, pass, faults, moved, mixed>>
    BY <1>1 DEF Wnd!wvars
  <2>2. OpenTypes' /\ RecordTypes' /\ WatchTypes'
    BY <2>1 DEF WindowsInv, OpenTypes, RecordTypes, WatchTypes
  <2>3. WonInv'
    BY <2>1 DEF WindowsInv, WonInv, Won
  <2>4. \A w, n : Known(w, n)' <=> Known(w, n)
    BY <2>1 DEF Known
  <2>5. RemovedInv'
    BY <2>1, <2>4 DEF WindowsInv, RemovedInv, DealtInv, ForgetsInv, AskedInv
  <2>6. \A x, n : Says(x, n)' <=> Says(x, n)
    BY <2>1 DEF Says, Wnd!Windows, Wnd!Shown
  <2>7. PublishedInv'
    BY <2>1, <2>6 DEF WindowsInv, PublishedInv
  <2> QED BY <2>2, <2>3, <2>5, <2>7 DEF WindowsInv
<1>2. CASE Wnd!Next
  <2>1. OpenerActs \/ RemoverActs \/ WatchActs
    BY <1>2 DEF Wnd!Next, OpenerActs, RemoverActs, WatchActs
  <2>2. OpenTypes' /\ Lasts /\ WonInv'
    BY <2>1, OpenerStep, WonKept, OthersStep DEF WindowsInv
  <2> QED BY <1>2, <2>2, WatchTypesKept, RecordTypesKept, RemovedKept, PublishedKept DEF WindowsInv
<1> QED BY <1>1, <1>2

\* And gives what the run checks.
LEMMA RunsTrueFollows == WindowsInv => Wnd!RunsTrue /\ Wnd!TypeOK
<1> SUFFICES ASSUME WindowsInv PROVE Wnd!RunsTrue /\ Wnd!TypeOK
  OBVIOUS
<1>1. Wnd!OneRuns
  BY DEF WindowsInv, WonInv, Won, Wnd!OneRuns, Wnd!Windows
<1>2. Wnd!Removed
  BY DEF WindowsInv, RemovedInv, AskedInv, Wnd!Removed, Done
<1>3. Wnd!Published
  BY DEF WindowsInv, PublishedInv, Wnd!Published, Says
<1>4. Wnd!TypeOK
  BY DEF WindowsInv, OpenTypes, RecordTypes, WatchTypes, OfMade, Wnd!NoRecord, Wnd!TypeOK
<1> QED BY <1>1, <1>2, <1>3, <1>4 DEF Wnd!RunsTrue

\* Of commands that open a window of one label at the same time one at most runs; what
\* run-rm calls removed is gone; what a pass publishes is so.
THEOREM RunWindowsSafe == ASSUME WindowsConstants PROVE Wnd!Spec => []Wnd!RunsTrue
<1>1. Wnd!Init => WindowsInv
  BY WindowsInit
<1>2. WindowsInv /\ [Wnd!Next]_Wnd!wvars => WindowsInv'
  BY WindowsStep
<1>3. WindowsInv => Wnd!RunsTrue
  BY RunsTrueFollows
<1> QED BY <1>1, <1>2, <1>3, PTL DEF Wnd!Spec

-----------------------------------------------------------------------------
(* The activity of an agent                                                 *)

CONSTANTS ActLines, ActAnonymous, ActNothing, ActVerifyAfter, ActMaxTime, ActMaxLines,
          ActMaxDeliveries, ActMaxCrashes
VARIABLES file, marking, deliveries, markers, unjudged, blocked, offset, events, usage,
          attributed, pos, model, claim, judging, times, memory, crashes, lost

Act == INSTANCE Activity WITH
    Lines <- ActLines, Anonymous <- ActAnonymous, Nothing <- ActNothing,
    VerifyAfter <- ActVerifyAfter, MaxTime <- ActMaxTime, MaxLines <- ActMaxLines,
    MaxDeliveries <- ActMaxDeliveries, MaxCrashes <- ActMaxCrashes

\* Of the constants: time and the bounds are numbers.
ActivityConstants ==
    /\ ActVerifyAfter \in Nat /\ ActMaxTime \in Nat \ {0} /\ ActMaxLines \in Nat /\ ActMaxDeliveries \in Nat
    /\ ActMaxCrashes \in Nat

\* What lines and usage are made of.
Written  == [line : ActLines[flavor], ts : Nat \ {0}]
RequestIds == {l.request : l \in ActLines[flavor]} \cup {ActNothing}
Models   == {l.model : l \in ActLines[flavor]} \cup {ActNothing}
Records  == [of : [request : RequestIds, model : Models], claim : Nat, line : 1 .. Len(file)]
Pastes  == [id : 1 .. deliveries, ts : 1 .. now]

LinesInv ==
    /\ flavor \in DOMAIN ActLines
    /\ file \in Seq(Written)
    /\ usage \in Seq(Records)

Reading == {"line", "correlate", "emit"}
Judging == {"verdict", "drop", "drop verdict"}
CountedInv ==
    /\ now \in 1 .. ActMaxTime /\ deliveries \in 0 .. ActMaxDeliveries /\ crashes \in 0 .. ActMaxCrashes
    /\ at \in {"rest", "heal", "judge"} \cup Reading \cup Judging
    /\ offset \in 0 .. Len(file) /\ pos \in 0 .. Len(file) /\ lost \subseteq 1 .. Len(file)
    /\ model \in Models
    /\ markers \cup unjudged \subseteq Pastes /\ marking \in 0 .. deliveries
    /\ \A n \in 1 .. Len(file) : file[n].ts <= now
    /\ \A e \in events : e.ts \in 1 .. now
    /\ memory \in [requests : SUBSET RequestIds, attributed : SUBSET Nat, model : Models]

\* The tailer works with the model that was named last before where it is.
TailInv ==
    /\ at = "line" => model = Act!ModelAt(pos)
    /\ at \in {"correlate", "emit"} =>
          /\ pos < Len(file) /\ model = Act!ModelAt(pos + 1) /\ Act!Found.request # ActNothing
    /\ memory.model \in {ActNothing, Act!ModelAt(offset)}

\* What was read was published, or its failure was logged.
Request(n) == Act!UsageOf(file[n].line, ActNothing).request
Noted(n)   == \A k \in Act!Events(file[n].line) : \E e \in events : e.line = n /\ e.kind = k
Published(n) ==
    \/ Request(n) = ActNothing \/ n \in lost
    \/ \E i \in 1 .. Len(usage) :
          usage[i].line = n \/ (usage[i].of.request = Request(n) /\ Request(n) # ActAnonymous)
ReadInv ==
    /\ \A n \in 1 .. offset : Noted(n) /\ Published(n)
    /\ at \in Reading => \A n \in 1 .. pos : Noted(n) /\ Published(n)
    /\ at \in {"correlate", "emit"} => Noted(pos + 1)

\* Requests and deliveries are remembered of what was published, and each is once.
UsageInv ==
    /\ \A i, j \in 1 .. Len(usage) : i # j =>
          /\ usage[i].of.request = usage[j].of.request => usage[i].of.request = ActAnonymous
          /\ usage[i].claim = usage[j].claim => usage[i].claim = 0
    /\ \A i \in 1 .. Len(usage) :
          /\ usage[i].of = Act!UsageOf(file[usage[i].line].line, Act!ModelAt(usage[i].line))
          /\ usage[i].of.request \in requests \cup {ActAnonymous}
          /\ usage[i].claim \in attributed \cup {0}
    /\ \A r \in requests : /\ r \in RequestIds \ {ActAnonymous, ActNothing}
                           /\ \E i \in 1 .. Len(usage) : usage[i].of.request = r
    /\ memory.requests \subseteq requests
    /\ attributed \subseteq 1 .. deliveries
    /\ claim \in 0 .. deliveries
    /\ claim # 0 => claim \notin attributed

\* An agent is taken for blocked over a delivery that is older than what is to be judged,
\* and what is judged is older than the rest.
VerdictInv ==
    /\ blocked \in 0 .. now /\ \A d \in unjudged : blocked <= d.ts
    /\ \A d, e \in unjudged : d.id <= e.id => d.ts <= e.ts
    /\ judging \subseteq unjudged /\ \A d \in judging, e \in unjudged \ judging : d.ts <= e.ts
    /\ at \in Judging => judging # {}
    /\ at \in Judging \cup {"judge"} /\ blocked # 0 => Act!After(blocked) = {}
    /\ at \in {"verdict", "drop verdict"} => times = {e.ts : e \in events}
    /\ times \subseteq 1 .. now

ActivityInv == LinesInv /\ CountedInv /\ TailInv /\ ReadInv /\ UsageInv /\ VerdictInv

(* The least and the greatest                                              *)

\* A set of numbers has a least.
LEMMA LeastExists ==
    ASSUME NEW S \in SUBSET Nat, S # {}
    PROVE  \E x \in S : \A y \in S : x <= y
<1>1. PICK x \in S : \A y \in S : ~(<<y, x>> \in OpToRel(<, Nat))
  BY NatLessThanWellFounded, WFMin
<1>2. ASSUME NEW y \in S PROVE x <= y
  <2>1. y \in Nat /\ x \in Nat
    OBVIOUS
  <2>2. ~(y < x)
    BY <1>1, <2>1 DEF OpToRel
  <2> QED BY <2>1, <2>2
<1> QED BY <1>2

\* A set of numbers with a bound has a greatest.
LEMMA GreatestExists ==
    ASSUME NEW n \in Nat, NEW S \in SUBSET (0 .. n), S # {}
    PROVE  \E x \in S : \A y \in S : y <= x
<1> DEFINE T == {n - x : x \in S}
<1>1. T \in SUBSET Nat /\ T # {}
  <2>1. \A x \in S : x \in 0 .. n /\ n - x \in Nat
    OBVIOUS
  <2>2. PICK x : x \in S
    OBVIOUS
  <2>3. n - x \in T
    BY <2>2
  <2> QED BY <2>1, <2>3
<1>2. PICK t \in T : \A u \in T : t <= u
  BY <1>1, LeastExists
<1>3. PICK x \in S : t = n - x
  OBVIOUS
<1>4. ASSUME NEW y \in S PROVE y <= x
  <2>1. n - y \in T
    OBVIOUS
  <2>2. n - x <= n - y /\ x \in 0 .. n /\ y \in 0 .. n
    BY <1>2, <1>3, <2>1
  <2> QED BY <2>2
<1> QED BY <1>4

(* The model named last                                                    *)

\* Before the first line none is named.
LEMMA ModelBefore == Act!ModelAt(0) = ActNothing
BY DEF Act!ModelAt, Act!Named

\* A line is read with the model named in it, or that of the lines before.
LEMMA ModelNext ==
    ASSUME NEW n \in Nat
    PROVE  Act!ModelAt(n + 1) = Act!NamedAfter(file[n + 1].line, Act!ModelAt(n))
<1>1. CASE ~Act!NamesModel(file[n + 1].line)
  <2>1. Act!Named(n + 1) = Act!Named(n)
    <3>1. {i \in 1 .. n + 1 : Act!NamesModel(file[i].line)} = {i \in 1 .. n : Act!NamesModel(file[i].line)}
      BY <1>1
    <3> QED BY <3>1 DEF Act!Named
  <2>2. Act!ModelAt(n + 1) = Act!ModelAt(n)
    BY <2>1 DEF Act!ModelAt
  <2> QED BY <1>1, <2>2 DEF Act!NamedAfter
<1>2. CASE Act!NamesModel(file[n + 1].line)
  <2> DEFINE r == [line |-> n + 1, model |-> file[n + 1].line.model]
  <2>1. r \in Act!Named(n + 1)
    BY <1>2 DEF Act!Named
  <2>2. \A s \in Act!Named(n + 1) : s.line \in 1 .. n + 1 /\ (s.line = n + 1 => s = r)
    BY DEF Act!Named
  <2>3. \A s \in Act!Named(n + 1) : s.line <= r.line
    BY <2>2
  <2>4. PICK c : c = Act!Latest(Act!Named(n + 1))
    OBVIOUS
  <2>5. c \in Act!Named(n + 1) /\ \A s \in Act!Named(n + 1) : s.line <= c.line
    BY <2>1, <2>3, <2>4 DEF Act!Latest
  <2>6. c = r
    BY <2>1, <2>2, <2>5
  <2>7. Act!ModelAt(n + 1) = c.model
    BY <2>1, <2>4 DEF Act!ModelAt
  <2> QED BY <1>2, <2>6, <2>7 DEF Act!NamedAfter
<1> QED BY <1>1, <1>2

\* It is the model of a line.
LEMMA ModelTyped ==
    ASSUME LinesInv, NEW n \in 0 .. Len(file)
    PROVE  Act!ModelAt(n) \in Models
<1>1. CASE Act!Named(n) = {}
  BY <1>1 DEF Act!ModelAt, Models
<1>2. CASE Act!Named(n) # {}
  <2> DEFINE S == {i \in 1 .. n : Act!NamesModel(file[i].line)}
  <2>1. S \in SUBSET (0 .. n) /\ S # {} /\ n \in Nat
    BY <1>2 DEF Act!Named, LinesInv
  <2>2. PICK k \in S : \A j \in S : j <= k
    BY <2>1, GreatestExists
  <2>3. [line |-> k, model |-> file[k].line.model] \in Act!Named(n)
    BY DEF Act!Named
  <2>4. \A s \in Act!Named(n) : s.line <= k
    BY <2>2 DEF Act!Named
  <2>5. PICK c : c = Act!Latest(Act!Named(n))
    OBVIOUS
  <2>6. c \in Act!Named(n)
    <3>1. \E x \in Act!Named(n) : \A s \in Act!Named(n) : s.line <= x.line
      BY <2>3, <2>4
    <3> QED BY <3>1, <2>5 DEF Act!Latest
  <2>7. PICK i \in 1 .. n : c.model = file[i].line.model
    BY <2>6 DEF Act!Named
  <2>8. file[i].line \in ActLines[flavor]
    <3>1. i \in 1 .. Len(file) /\ file \in Seq(Written)
      BY <2>7 DEF LinesInv
    <3>2. file[i] \in Written
      BY <3>1
    <3> QED BY <3>2 DEF Written
  <2>9. Act!ModelAt(n) = c.model
    BY <1>2, <2>5 DEF Act!ModelAt
  <2> QED BY <2>7, <2>8, <2>9 DEF Models
<1> QED BY <1>1, <1>2

\* The request of a usage does not hang on the model.
LEMMA RequestAlone == \A l, m : Act!UsageOf(l, m).request = Act!UsageOf(l, ActNothing).request
BY DEF Act!UsageOf, Act!ClaudeUsage, Act!CodexUsage, Act!NoUsage, Act!Usage

\* A usage is of the request of its line, and of a model.
LEMMA UsageTyped ==
    ASSUME NEW l \in ActLines[flavor], NEW m \in Models
    PROVE  Act!UsageOf(l, m) \in [request : RequestIds, model : Models]
<1>1. l.request \in RequestIds /\ l.model \in Models /\ ActNothing \in RequestIds /\ ActNothing \in Models
  BY DEF RequestIds, Models
<1> QED BY <1>1 DEF Act!UsageOf, Act!ClaudeUsage, Act!CodexUsage, Act!NoUsage, Act!Usage

(* The session file                                                        *)

\* A line that is written is the last, and of the time.
LEMMA FileGrows ==
    ASSUME ActivityConstants, LinesInv, CountedInv, [Act!Next]_Act!avars
    PROVE  /\ flavor' = flavor /\ Len(file) <= Len(file)' /\ file' \in Seq(Written)
           /\ \A n \in 1 .. Len(file) : file'[n] = file[n]
           /\ \A n \in 1 .. Len(file)' : file'[n].ts <= now'
           /\ Len(file) \in Nat /\ Len(file)' \in Nat /\ now' >= now /\ now' \in Nat
<1>1. CASE Act!CliWrites
  <2>1. PICK l \in ActLines[flavor] : file' = Append(file, [line |-> l, ts |-> now])
    BY <1>1 DEF Act!CliWrites
  <2>2. [line |-> l, ts |-> now] \in Written
    BY DEF Written, CountedInv
  <2>3. UNCHANGED <<flavor, now>>
    BY <1>1 DEF Act!CliWrites
  <2>4. /\ Len(file') = Len(file) + 1 /\ file' \in Seq(Written)
        /\ \A n \in 1 .. Len(file) : file'[n] = file[n]
        /\ file'[Len(file) + 1].ts = now
    BY <2>1, <2>2 DEF LinesInv
  <2>5. \A n \in 1 .. Len(file) : file[n].ts <= now
    BY DEF CountedInv
  <2>6. ASSUME NEW n \in 1 .. Len(file') PROVE file'[n].ts <= now
    <3>1. CASE n = Len(file) + 1
      BY <2>4, <3>1 DEF CountedInv
    <3>2. CASE n # Len(file) + 1
      <4>1. n \in 1 .. Len(file)
        BY <2>4, <3>2 DEF LinesInv
      <4> QED BY <2>4, <2>5, <4>1
    <3> QED BY <3>1, <3>2
  <2> QED BY <2>3, <2>4, <2>6 DEF LinesInv, CountedInv
<1>2. CASE file' = file /\ flavor' = flavor /\ now' \in {now, now + 1}
  <2>1. now \in Nat /\ Len(file) \in Nat /\ now' \in Nat /\ now' >= now
    BY <1>2 DEF LinesInv, CountedInv, ActivityConstants
  <2>2. ASSUME NEW n \in 1 .. Len(file) PROVE file[n].ts <= now'
    <3>1. file[n] \in Written
      BY DEF LinesInv
    <3>2. file[n].ts \in Nat /\ file[n].ts <= now
      BY <3>1 DEF Written, CountedInv
    <3> QED BY <2>1, <3>2
  <2> QED BY <1>2, <2>1, <2>2 DEF LinesInv
<1>3. ASSUME Act!Next, ~Act!CliWrites PROVE file' = file /\ flavor' = flavor /\ now' \in {now, now + 1}
  BY <1>3
  DEF Act!Next, Act!Tick, Act!MarkPending, Act!MarkDelivered, Act!Open, Act!ReadLine,
      Act!Correlate, Act!Emit,
              Act!EmitFails, Act!SaveOffset, Act!Heal, Act!ReadPending, Act!Verdict, Act!Drop, Act!Break, Act!cli
<1>4. UNCHANGED Act!avars => file' = file /\ flavor' = flavor /\ now' = now
  BY DEF Act!avars, Act!cli
<1>5. Act!CliWrites \/ (file' = file /\ flavor' = flavor /\ now' \in {now, now + 1})
  BY <1>3, <1>4
<1> QED BY <1>1, <1>2, <1>5

\* What lines say stays so.
LEMMA LinesStay ==
    ASSUME ActivityConstants, LinesInv, CountedInv, [Act!Next]_Act!avars
    PROVE  /\ \A n \in 0 .. Len(file) : Act!ModelAt(n)' = Act!ModelAt(n)
           /\ \A n \in 1 .. Len(file) : Request(n)' = Request(n)
           /\ \A l, m : Act!UsageOf(l, m)' = Act!UsageOf(l, m)
           /\ \A l : Act!Events(l)' = Act!Events(l)
           /\ RequestIds' = RequestIds /\ Models' = Models
<1>1. /\ flavor' = flavor /\ Len(file) <= Len(file)' /\ Len(file) \in Nat
      /\ \A n \in 1 .. Len(file) : file'[n] = file[n]
  BY FileGrows
<1>2. \A l, m : Act!UsageOf(l, m)' = Act!UsageOf(l, m)
  BY <1>1 DEF Act!UsageOf
<1>3. \A l : Act!Events(l)' = Act!Events(l)
  BY <1>1 DEF Act!Events
<1>4. ASSUME NEW n \in 0 .. Len(file) PROVE Act!ModelAt(n)' = Act!ModelAt(n)
  <2>1. \A l : Act!NamesModel(l)' = Act!NamesModel(l)
    BY <1>1 DEF Act!NamesModel
  <2>2. Act!Named(n)' = Act!Named(n)
    BY <1>1, <2>1 DEF Act!Named
  <2> QED BY <2>2 DEF Act!ModelAt
<1> QED BY <1>1, <1>2, <1>3, <1>4 DEF Request, RequestIds, Models

(* What steps do                                                           *)

\* Usage is published where the tailer has one at hand that was not published.
Publishes ==
    /\ at = "emit" /\ Act!Found.request \notin requests
    /\ usage' = Append(usage, [of |-> Act!Found, claim |-> claim, line |-> pos + 1])
    /\ requests' = requests \cup ({Act!Found.request} \ {ActAnonymous})
    /\ attributed' = attributed \cup ({claim} \ {0})

\* Only Publish and PublishAgain change what is published, and what is remembered of it.
LEMMA UsageMoves == [Act!Next]_Act!avars => UNCHANGED <<usage, requests, attributed>> \/ Publishes
<1>1. ASSUME Act!Publish, at = "emit" PROVE UNCHANGED <<usage, requests, attributed>> \/ Publishes
  BY <1>1 DEF Act!Publish, Publishes
<1>2. Act!Emit \/ Act!EmitFails => UNCHANGED <<usage, requests, attributed>> \/ Publishes
  BY <1>1 DEF Act!Emit, Act!EmitFails
<1>3. ASSUME Act!Next, ~(Act!Emit \/ Act!EmitFails) PROVE UNCHANGED <<usage, requests, attributed>>
  BY <1>3
  DEF Act!Next, Act!Tick, Act!CliWrites, Act!MarkPending, Act!MarkDelivered, Act!Open,
      Act!ReadLine, Act!Correlate,
              Act!SaveOffset, Act!Heal, Act!ReadPending, Act!Verdict, Act!Drop, Act!Break, Act!streams
<1>4. UNCHANGED Act!avars => UNCHANGED <<usage, requests, attributed>>
  BY DEF Act!avars, Act!streams
<1> QED BY <1>2, <1>3, <1>4

\* What is published is of the line at hand.
LEMMA FoundTyped ==
    ASSUME ActivityConstants, LinesInv, CountedInv, TailInv, at \in {"correlate", "emit"}
    PROVE  /\ pos + 1 \in 1 .. Len(file) /\ Act!Found \in [request : RequestIds, model : Models]
           /\ Act!Found.request # ActNothing /\ Act!Found.request = Request(pos + 1)
           /\ Act!Found = Act!UsageOf(file[pos + 1].line, Act!ModelAt(pos + 1))
<1>1. pos + 1 \in 1 .. Len(file)
  BY DEF CountedInv, TailInv, LinesInv
<1>2. file[pos + 1].line \in ActLines[flavor]
  <2>1. file[pos + 1] \in Written
    BY <1>1 DEF LinesInv
  <2> QED BY <2>1 DEF Written
<1>3. model \in Models
  BY DEF CountedInv
<1> QED BY <1>1, <1>2, <1>3, UsageTyped, RequestAlone DEF Act!Found, TailInv, Request

(* Types                                                                   *)

\* A step keeps LinesInv: what is published is made of a line that was read.
LEMMA LinesKept ==
    ASSUME ActivityConstants, LinesInv, CountedInv, TailInv, UsageInv, [Act!Next]_Act!avars
    PROVE  LinesInv'
<1>1. /\ flavor' = flavor /\ file' \in Seq(Written) /\ Len(file) <= Len(file)'
      /\ Len(file) \in Nat /\ Len(file)' \in Nat
  BY FileGrows
<1>2. Written' = Written
  BY <1>1 DEF Written
<1>3. \A r \in Records : r \in Records'
  <2>1. RequestIds' = RequestIds /\ Models' = Models
    BY LinesStay
  <2> QED BY <1>1, <2>1 DEF Records
<1>4. usage' \in Seq(Records)
  <2>1. CASE UNCHANGED <<usage, requests, attributed>>
    BY <2>1 DEF LinesInv
  <2>2. CASE Publishes
    <3>1. claim \in Nat
      BY DEF UsageInv, CountedInv, ActivityConstants
    <3>2. at = "emit"
      BY <2>2 DEF Publishes
    <3>3. [of |-> Act!Found, claim |-> claim, line |-> pos + 1] \in Records
      BY <3>1, <3>2, FoundTyped DEF Records
    <3> QED BY <2>2, <3>3 DEF Publishes, LinesInv
  <2> QED BY <2>1, <2>2, UsageMoves
<1>5. usage' \in Seq(Records')
  <2>1. PICK R : R = Records'
    OBVIOUS
  <2> QED BY <1>3, <1>4, <2>1
<1> QED BY <1>1, <1>2, <1>5 DEF LinesInv

\* A step keeps CountedInv: the times, the places and the numbers stay in their ranges.
LEMMA CountedKept ==
    ASSUME ActivityConstants, LinesInv, CountedInv, TailInv, UsageInv, [Act!Next]_Act!avars
    PROVE  CountedInv'
<1>1. /\ flavor' = flavor /\ Len(file) <= Len(file)' /\ Len(file) \in Nat /\ Len(file)' \in Nat
      /\ \A n \in 1 .. Len(file)' : file'[n].ts <= now'
      /\ now' >= now /\ now' \in Nat
  BY FileGrows
<1>2. /\ now' \in 1 .. ActMaxTime /\ deliveries' \in 0 .. ActMaxDeliveries
      /\ crashes' \in 0 .. ActMaxCrashes
  <2>1. /\ now' = now \/ (now < ActMaxTime /\ now' = now + 1)
        /\ deliveries' = deliveries \/ (deliveries < ActMaxDeliveries /\ deliveries' = deliveries + 1)
        /\ crashes' = crashes \/ (crashes < ActMaxCrashes /\ crashes' = crashes + 1)
    BY DEF Act!Next, Act!Tick, Act!CliWrites, Act!MarkPending, Act!MarkDelivered, Act!Open,
       Act!ReadLine, Act!Correlate, Act!Emit,
           Act!EmitFails, Act!SaveOffset, Act!Heal, Act!ReadPending, Act!Verdict, Act!Drop, Act!Break, Act!Fault, Act!cli, Act!avars
  <2> QED BY <2>1 DEF CountedInv, ActivityConstants
<1>3. at' \in {"rest", "heal", "judge"} \cup Reading \cup Judging
  BY DEF CountedInv, Reading, Judging, Act!Next, Act!Tick, Act!CliWrites, Act!MarkPending,
     Act!MarkDelivered, Act!Open,
         Act!ReadLine, Act!Correlate, Act!Emit, Act!EmitFails, Act!SaveOffset, Act!Heal, Act!ReadPending, Act!Verdict, Act!Drop,
         Act!Break, Act!Skip, Act!avars
<1>4. offset' \in 0 .. Len(file)' /\ pos' \in 0 .. Len(file)' /\ lost' \subseteq 1 .. Len(file)'
  <2>1. offset' \in {offset, pos}
    BY DEF Act!Next, Act!Tick, Act!CliWrites, Act!MarkPending, Act!MarkDelivered, Act!Open,
       Act!ReadLine, Act!Correlate, Act!Emit,
           Act!EmitFails, Act!SaveOffset, Act!Heal, Act!ReadPending, Act!Verdict, Act!Drop, Act!Break, Act!streams, Act!avars
  <2>2. at \in {"correlate", "emit"} => pos + 1 \in 0 .. Len(file)
    BY DEF TailInv, CountedInv, LinesInv
  <2>3. pos' \in {pos, offset, 0} \/ (pos' = pos + 1 /\ pos + 1 \in 0 .. Len(file))
    <3>1. Act!ReadLine => pos' = pos \/ (pos' = pos + 1 /\ pos + 1 \in 0 .. Len(file))
      BY <1>1 DEF Act!ReadLine, Act!Skip, CountedInv
    <3>2. Act!Emit \/ Act!EmitFails => pos' = pos + 1 /\ pos + 1 \in 0 .. Len(file)
      BY <2>2 DEF Act!Emit, Act!EmitFails, Act!Skip
    <3> QED BY <3>1, <3>2 DEF Act!Next, Act!Tick, Act!CliWrites, Act!MarkPending, Act!MarkDelivered, Act!Open, Act!Correlate,
           Act!SaveOffset, Act!Heal, Act!ReadPending, Act!Verdict, Act!Drop, Act!Break, Act!tailing, Act!avars
  <2>4. lost' = lost \/ (at = "emit" /\ lost' = lost \cup {pos + 1})
    BY DEF Act!Next, Act!Tick, Act!CliWrites, Act!MarkPending, Act!MarkDelivered, Act!Open,
       Act!ReadLine, Act!Correlate, Act!Emit,
           Act!EmitFails, Act!SaveOffset, Act!Heal, Act!ReadPending, Act!Verdict, Act!Drop, Act!Break, Act!avars
  <2>5. offset \in 0 .. Len(file) /\ pos \in 0 .. Len(file) /\ lost \subseteq 1 .. Len(file)
    BY DEF CountedInv
  <2>6. 0 .. Len(file) \subseteq 0 .. Len(file)' /\ 1 .. Len(file) \subseteq 1 .. Len(file)'
    BY <1>1
  <2>7. at = "emit" => pos + 1 \in 1 .. Len(file)
    BY <2>2, <2>5, <1>1
  <2>8. lost' \subseteq 1 .. Len(file)
    BY <2>4, <2>5, <2>7
  <2>9. pos' \in 0 .. Len(file)
    BY <2>3, <2>5, <1>1
  <2> QED BY <1>1, <2>1, <2>5, <2>6, <2>8, <2>9
<1>5. model' \in Models'
  <2>1. model' \in {model, memory.model, ActNothing, Act!ModelAt(offset)} \/ Act!ReadLine
    BY DEF Act!Next, Act!Tick, Act!CliWrites, Act!MarkPending, Act!MarkDelivered, Act!Open,
       Act!Correlate, Act!Emit,
           Act!EmitFails, Act!SaveOffset, Act!Heal, Act!ReadPending, Act!Verdict, Act!Drop, Act!Break, Act!tailing, Act!avars
  <2>2. ASSUME Act!ReadLine PROVE model' \in Models
    <3>1. pos + 1 \in 1 .. Len(file)
      BY <2>2 DEF Act!ReadLine, CountedInv, LinesInv
    <3>2. file[pos + 1].line \in ActLines[flavor]
      <4>1. file[pos + 1] \in Written
        BY <3>1 DEF LinesInv
      <4> QED BY <4>1 DEF Written
    <3>3. model' = Act!NamedAfter(file[pos + 1].line, model)
      BY <2>2 DEF Act!ReadLine
    <3> QED BY <3>2, <3>3 DEF Act!NamedAfter, Models, CountedInv
  <2>3. {model, memory.model, ActNothing, Act!ModelAt(offset)} \subseteq Models
    BY ModelTyped DEF CountedInv, Models
  <2> QED BY <2>1, <2>2, <2>3, LinesStay
<1>6. markers' \cup unjudged' \subseteq Pastes' /\ marking' \in 0 .. deliveries'
  <2>1. /\ deliveries \in Nat /\ deliveries' \in Nat /\ deliveries' >= deliveries
        /\ now \in Nat /\ now >= 1
    <3>1. deliveries' \in {deliveries, deliveries + 1}
      BY DEF Act!Next, Act!Tick, Act!CliWrites, Act!MarkPending, Act!MarkDelivered, Act!Open,
         Act!ReadLine, Act!Correlate, Act!Emit,
             Act!EmitFails, Act!SaveOffset, Act!Heal, Act!ReadPending, Act!Verdict, Act!Drop, Act!Break, Act!cli, Act!avars
    <3> QED BY <3>1 DEF CountedInv, ActivityConstants
  <2>2. \A d \in Pastes : d \in Pastes'
    BY <1>1, <2>1 DEF Pastes
  <2>3. CASE Act!MarkPending
    <3>1. [id |-> deliveries + 1, ts |-> now] \in Pastes'
      BY <2>1, <2>3, <1>1 DEF Act!MarkPending, Pastes
    <3> QED BY <2>1, <2>2, <2>3, <3>1 DEF Act!MarkPending, CountedInv
  <2>4. ASSUME ~Act!MarkPending PROVE markers' \subseteq markers \cup unjudged
                                   /\ unjudged' \subseteq unjudged /\ marking' \in {marking, 0}
                                   /\ deliveries' = deliveries
    BY <2>4
    DEF Act!Next, Act!Tick, Act!CliWrites, Act!MarkDelivered, Act!Open, Act!ReadLine,
        Act!Correlate, Act!Emit,
           Act!EmitFails, Act!SaveOffset, Act!Heal, Act!ReadPending, Act!Verdict, Act!Drop, Act!Break, Act!cli, Act!verdicts, Act!avars
  <2> QED BY <2>1, <2>2, <2>3, <2>4 DEF CountedInv
<1>7. \A e \in events' : e.ts \in 1 .. now'
  <2>1. CASE Act!ReadLine
    <3>1. file[pos + 1].ts \in 1 .. now
      <4>1. pos + 1 \in 1 .. Len(file)
        BY <2>1 DEF Act!ReadLine, CountedInv, LinesInv
      <4>2. file[pos + 1] \in Written
        BY <4>1 DEF LinesInv
      <4> QED BY <4>1, <4>2 DEF Written, CountedInv, ActivityConstants
    <3>2. PICK t : t = file[pos + 1].ts
      OBVIOUS
    <3>3. \A e \in events' : e \in events \/ e.ts = t
      BY <2>1, <3>2 DEF Act!ReadLine
    <3> QED BY <1>1, <3>1, <3>2, <3>3 DEF CountedInv, ActivityConstants
  <2>2. ASSUME ~Act!ReadLine PROVE events' = events
    BY <2>2
    DEF Act!Next, Act!Tick, Act!CliWrites, Act!MarkPending, Act!MarkDelivered, Act!Open,
        Act!Correlate, Act!Emit,
           Act!EmitFails, Act!SaveOffset, Act!Heal, Act!ReadPending, Act!Verdict, Act!Drop, Act!Break, Act!streams, Act!avars
  <2> QED BY <1>1, <2>1, <2>2 DEF CountedInv, ActivityConstants
<1>8. memory' \in [requests : SUBSET RequestIds, attributed : SUBSET Nat, model : Models]
  <2> DEFINE Memory == [requests : SUBSET RequestIds, attributed : SUBSET Nat, model : Models]
  <2>1. memory \in Memory /\ Act!NoMemory \in Memory /\ model \in Models
    BY DEF CountedInv, Models, Act!NoMemory
  <2>2. CASE Act!Correlate
    <3>1. attributed \subseteq Nat
      BY DEF UsageInv, CountedInv, ActivityConstants
    <3>2. memory' = memory \/ \E i \in attributed : memory' = [memory EXCEPT !.attributed = @ \cup {i}]
      BY <2>2 DEF Act!Correlate
    <3> QED BY <2>1, <3>1, <3>2
  <2>3. CASE Act!Emit
    <3>1. at = "emit" /\ claim \in Nat
      BY <2>3 DEF Act!Emit, UsageInv, CountedInv, ActivityConstants
    <3>2. Act!Found.request \in RequestIds
      BY <3>1, FoundTyped
    <3>3. \E r \in SUBSET RequestIds, a \in SUBSET Nat :
             memory' = [memory EXCEPT !.requests = r, !.attributed = a]
      <4>1. PICK f : f = Act!Found.request
        OBVIOUS
      <4>2. memory' = [memory EXCEPT !.requests = memory.requests \cup ({f} \ {ActAnonymous}),
                                !.attributed = IF f \in requests THEN memory.attributed
                                               ELSE memory.attributed \cup ({claim} \ {0})]
        BY <2>3, <4>1 DEF Act!Emit
      <4>3. memory.requests \in SUBSET RequestIds /\ memory.attributed \in SUBSET Nat
        BY <2>1
      <4>4. memory.requests \cup ({f} \ {ActAnonymous}) \in SUBSET RequestIds
        BY <3>2, <4>1, <4>3
      <4>5. (IF f \in requests THEN memory.attributed
             ELSE memory.attributed \cup ({claim} \ {0})) \in SUBSET Nat
        BY <3>1, <4>3
      <4> QED BY <4>2, <4>4, <4>5
    <3> QED BY <2>1, <3>3
  <2>4. CASE Act!SaveOffset
    BY <2>1, <2>4 DEF Act!SaveOffset
  <2>5. ASSUME ~(Act!Correlate \/ Act!Emit \/ Act!SaveOffset) PROVE memory' \in {memory, Act!NoMemory}
    BY <2>5
    DEF Act!Next, Act!Tick, Act!CliWrites, Act!MarkPending, Act!MarkDelivered, Act!Open,
        Act!ReadLine, Act!EmitFails,
           Act!Heal, Act!ReadPending, Act!Verdict, Act!Drop, Act!Break, Act!avars
  <2> QED BY <2>1, <2>2, <2>3, <2>4, <2>5
<1>9. RequestIds' = RequestIds /\ Models' = Models
  BY LinesStay
<1> QED BY <1>1, <1>2, <1>3, <1>4, <1>5, <1>6, <1>7, <1>8, <1>9 DEF CountedInv

(* The model in effect, and what was read                                  *)

\* A step keeps TailInv: at each line, after a restart too, the tailer knows the model in effect.
LEMMA TailKept ==
    ASSUME ActivityConstants, LinesInv, CountedInv, TailInv, UsageInv, [Act!Next]_Act!avars
    PROVE  TailInv'
<1>1. Act!ReadLine => /\ model' = Act!ModelAt(pos + 1) /\ pos + 1 \in 1 .. Len(file) /\ memory' = memory
                      /\ at' = "line" => pos' = pos + 1
                      /\ at' # "line" => at' = "correlate" /\ pos' = pos
                      /\ at' # "line" => Act!UsageOf(file[pos + 1].line, model').request # ActNothing
  <2> SUFFICES ASSUME Act!ReadLine
               PROVE  /\ model' = Act!ModelAt(pos + 1) /\ pos + 1 \in 1 .. Len(file)
                      /\ memory' = memory
                      /\ at' = "line" => pos' = pos + 1
                      /\ at' # "line" => at' = "correlate" /\ pos' = pos
                      /\ at' # "line" => Act!UsageOf(file[pos + 1].line, model').request # ActNothing
    OBVIOUS
  <2>1. pos \in Nat /\ pos + 1 \in 1 .. Len(file)
    BY DEF Act!ReadLine, CountedInv, LinesInv
  <2>2. model = Act!ModelAt(pos)
    BY DEF Act!ReadLine, TailInv
  <2>3. model' = Act!NamedAfter(file[pos + 1].line, model)
    BY DEF Act!ReadLine
  <2>4. model' = Act!ModelAt(pos + 1)
    BY <2>1, <2>2, <2>3, ModelNext
  <2> QED BY <2>1, <2>4 DEF Act!ReadLine, Act!Skip
<1>2. Act!Open => model' = Act!ModelAt(offset) /\ pos' = offset /\ at' \in {"line", "heal"}
                  /\ memory' = memory
  <2>1. offset \in Nat
    BY DEF CountedInv, LinesInv
  <2> QED BY <2>1, ModelBefore DEF Act!Open, TailInv
<1>3. Act!Correlate \/ Act!Emit \/ Act!EmitFails =>
         /\ model' = model /\ memory'.model = memory.model /\ offset' = offset
         /\ at' = "emit" => at = "correlate" /\ pos' = pos
         /\ at' # "emit" => at = "emit" /\ at' = "line" /\ pos' = pos + 1
  BY DEF Act!Correlate, Act!Emit, Act!EmitFails, Act!Skip, CountedInv, Act!tailing, Act!streams
<1>4. Act!SaveOffset => memory'.model = Act!ModelAt(pos) /\ offset' = pos /\ at' = "heal"
  BY DEF Act!SaveOffset, TailInv, CountedInv
<1>5. ASSUME Act!Next, ~(Act!Open \/ Act!ReadLine \/ Act!Correlate \/ Act!Emit \/ Act!EmitFails \/ Act!SaveOffset)
      PROVE  /\ at' \notin Reading \/ UNCHANGED <<at, pos, model>>
             /\ memory'.model \in {memory.model, ActNothing} /\ offset' = offset
  <2>1. memory' \in {memory, Act!NoMemory} /\ offset' = offset
    BY <1>5
    DEF Act!Next, Act!Tick, Act!CliWrites, Act!MarkPending, Act!MarkDelivered, Act!Heal,
        Act!ReadPending, Act!Verdict,
                Act!Drop, Act!Break, Act!streams
  <2>2. at' \in {"rest", "judge"} \cup Judging \/ UNCHANGED <<at, pos, model>>
    BY <1>5
    DEF Act!Next, Act!Tick, Act!CliWrites, Act!MarkPending, Act!MarkDelivered, Act!Heal,
        Act!ReadPending, Act!Verdict,
                Act!Drop, Act!Break, Judging, Act!tailing
  <2>3. memory'.model \in {memory.model, ActNothing}
    BY <2>1 DEF Act!NoMemory
  <2>4. at' \in {"rest", "judge"} \cup Judging => at' \notin Reading
    BY DEF Judging, Reading
  <2> QED BY <2>1, <2>2, <2>3, <2>4
<1>6. UNCHANGED Act!avars => UNCHANGED <<at, pos, model, memory, offset>>
  BY DEF Act!avars, Act!tailing, Act!streams
<1>7. Act!ReadLine \/ Act!Open => offset' = offset
  BY DEF Act!ReadLine, Act!Open, Act!streams
<1>8. /\ Len(file) \in Nat /\ Len(file) <= Len(file)' /\ Len(file)' \in Nat
      /\ \A n \in 1 .. Len(file) : file'[n] = file[n]
  BY FileGrows
<1>9. pos \in 0 .. Len(file) /\ offset \in 0 .. Len(file)
  BY DEF CountedInv
<1>10. ASSUME at' = "line" PROVE model' = Act!ModelAt(pos)'
  <2>1. \E q \in 0 .. Len(file) : q = pos' /\ model' = Act!ModelAt(q)
    BY <1>1, <1>2, <1>3, <1>4, <1>5, <1>6, <1>8, <1>9, <1>10 DEF TailInv, Reading
  <2> QED BY <2>1, LinesStay
<1>11. ASSUME at' \in {"correlate", "emit"}
       PROVE  pos' < Len(file)' /\ model' = Act!ModelAt(pos + 1)' /\ Act!Found'.request # ActNothing
  <2>1. /\ pos' = pos /\ pos < Len(file) /\ model' = Act!ModelAt(pos + 1)
        /\ Act!UsageOf(file[pos + 1].line, model').request # ActNothing
    BY <1>1, <1>2, <1>3, <1>4, <1>5, <1>6, <1>8, <1>9, <1>11 DEF TailInv, Reading, Act!Found
  <2>2. PICK q, l, m : q = pos /\ l = file[q + 1].line /\ m = model'
    OBVIOUS
  <2>3. q + 1 \in 1 .. Len(file) /\ file'[q + 1].line = l
    BY <1>8, <1>9, <2>1, <2>2
  <2>4. Act!Found' = Act!UsageOf(l, m)'
    BY <2>1, <2>2, <2>3 DEF Act!Found
  <2>5. PICK n : n = pos + 1
    OBVIOUS
  <2>6. Act!ModelAt(n)' = Act!ModelAt(n)
    BY <1>8, <1>9, <2>1, <2>5, LinesStay
  <2>7. model' = Act!ModelAt(pos + 1)'
    BY <2>1, <2>5, <2>6
  <2>8. Act!UsageOf(l, m)' = Act!UsageOf(l, m)
    BY LinesStay
  <2> QED BY <1>8, <1>9, <2>1, <2>2, <2>4, <2>7, <2>8
<1>12. memory'.model \in {ActNothing, Act!ModelAt(offset)'}
  <2>1. memory'.model = ActNothing \/ \E q \in 0 .. Len(file) : q = offset' /\ memory'.model = Act!ModelAt(q)
    BY <1>1, <1>2, <1>3, <1>4, <1>5, <1>6, <1>7, <1>8, <1>9 DEF TailInv
  <2> QED BY <2>1, LinesStay
<1> QED BY <1>10, <1>11, <1>12 DEF TailInv

\* What is counted as published stays so.
LEMMA StaysRead ==
    ASSUME ActivityConstants, LinesInv, CountedInv, TailInv, UsageInv, [Act!Next]_Act!avars
    PROVE  /\ \A n \in 1 .. Len(file) : Noted(n) => Noted(n)'
           /\ \A n \in 1 .. Len(file) : Published(n) => Published(n)'
           /\ usage \in Seq(Records) /\ Len(usage)' \in Nat /\ Len(usage) <= Len(usage)'
           /\ \A i \in 1 .. Len(usage) : usage'[i] = usage[i]
<1>1. /\ usage \in Seq(Records) /\ Len(usage)' \in Nat /\ Len(usage) <= Len(usage)'
      /\ \A i \in 1 .. Len(usage) : usage'[i] = usage[i]
  <2>1. usage \in Seq(Records)
    BY DEF LinesInv
  <2>2. CASE UNCHANGED <<usage, requests, attributed>>
    BY <2>1, <2>2
  <2>3. CASE Publishes
    <3>1. PICK r : usage' = Append(usage, r) /\ r \in Records
      <4>1. claim \in Nat /\ at = "emit"
        BY <2>3 DEF Publishes, UsageInv, CountedInv, ActivityConstants
      <4>2. [of |-> Act!Found, claim |-> claim, line |-> pos + 1] \in Records
        BY <4>1, FoundTyped DEF Records
      <4> QED BY <2>3, <4>2 DEF Publishes
    <3> QED BY <2>1, <3>1
  <2> QED BY <2>2, <2>3, UsageMoves
<1>2. events \subseteq events' /\ lost \subseteq lost'
  BY DEF Act!Next, Act!Tick, Act!CliWrites, Act!MarkPending, Act!MarkDelivered, Act!Open,
     Act!ReadLine, Act!Correlate, Act!Emit,
         Act!EmitFails, Act!SaveOffset, Act!Heal, Act!ReadPending, Act!Verdict, Act!Drop, Act!Break, Act!streams, Act!avars
<1>3. \A n \in 1 .. Len(file) : file'[n] = file[n]
  BY FileGrows
<1>4. ASSUME NEW n \in 1 .. Len(file), Noted(n) PROVE Noted(n)'
  <2>1. PICK l : l = file[n].line /\ l = file'[n].line
    BY <1>3
  <2>2. Act!Events(l)' = Act!Events(l)
    BY LinesStay
  <2> QED BY <1>2, <1>4, <2>1, <2>2 DEF Noted
<1>5. ASSUME NEW n \in 1 .. Len(file), Published(n) PROVE Published(n)'
  <2>1. Request(n)' = Request(n)
    BY LinesStay
  <2>2. 1 .. Len(usage) \subseteq 1 .. Len(usage)'
    BY <1>1
  <2> QED BY <1>1, <1>2, <1>5, <2>1, <2>2 DEF Published
<1> QED BY <1>1, <1>4, <1>5

\* A step keeps ReadInv: what is passed over was published, has no usage, or is logged as lost.
LEMMA ReadKept ==
    ASSUME ActivityConstants, LinesInv, CountedInv, TailInv, ReadInv, UsageInv, [Act!Next]_Act!avars
    PROVE  ReadInv'
<1>1. /\ \A n \in 1 .. Len(file) : Noted(n) => Noted(n)'
      /\ \A n \in 1 .. Len(file) : Published(n) => Published(n)'
  BY StaysRead
<1>2. /\ Len(file) \in Nat /\ pos \in 0 .. Len(file) /\ offset \in 0 .. Len(file)
      /\ at \in {"correlate", "emit"} => pos + 1 \in 1 .. Len(file)
  BY DEF CountedInv, LinesInv, TailInv
<1>3. CASE Act!ReadLine
  <2>1. pos + 1 \in 1 .. Len(file) /\ at = "line"
    BY <1>2, <1>3 DEF Act!ReadLine
  <2>2. \A n \in 1 .. pos : Noted(n)' /\ Published(n)'
    BY <1>1, <1>2, <2>1 DEF ReadInv, Reading
  <2>3. PICK q : q = pos + 1
    OBVIOUS
  <2>4. Noted(q)'
    <3>1. PICK l, t : l = file[q].line /\ t = file[q].ts
      OBVIOUS
    <3>2. events' = events \cup {[kind |-> k, ts |-> t, line |-> q] : k \in Act!Events(l)}
      BY <1>3, <2>3, <3>1 DEF Act!ReadLine
    <3>3. file'[q].line = l /\ Act!Events(l)' = Act!Events(l)
      BY <2>1, <2>3, <3>1, FileGrows, LinesStay
    <3>4. \A k \in Act!Events(l) : [kind |-> k, ts |-> t, line |-> q] \in events'
      BY <3>2
    <3>5. \A k \in Act!Events(l)' : \E e \in events' : e.line = q /\ e.kind = k
      <4> SUFFICES ASSUME NEW k \in Act!Events(l)' PROVE \E e \in events' : e.line = q /\ e.kind = k
        OBVIOUS
      <4>1. [kind |-> k, ts |-> t, line |-> q] \in events'
        BY <3>3, <3>4
      <4> QED BY <4>1
    <3> QED BY <3>3, <3>5 DEF Noted
  <2>5. offset' = offset
    BY <1>3 DEF Act!ReadLine
  <2>6. \A n \in 1 .. offset : Noted(n)' /\ Published(n)'
    BY <1>1, <1>2 DEF ReadInv
  <2>7. ASSUME at' = "line" PROVE pos' = q /\ Published(q)'
    <3>1. Act!UsageOf(file[q].line, model').request \in memory.requests \cup {ActNothing} /\ pos' = q
      BY <1>3, <2>3, <2>7 DEF Act!ReadLine, Act!Skip
    <3>2. Request(q) \in memory.requests \cup {ActNothing}
      BY <3>1, RequestAlone DEF Request
    <3>3. Published(q)
      BY <3>2 DEF UsageInv, Published
    <3> QED BY <1>1, <2>1, <2>3, <3>1, <3>3
  <2>8. at' # "line" => at' = "correlate" /\ pos' = pos
    BY <1>3 DEF Act!ReadLine, Act!Skip
  <2>9. \A n \in 1 .. q : n = q \/ n \in 1 .. pos
    BY <1>2, <2>3
  <2> QED BY <2>2, <2>3, <2>4, <2>5, <2>6, <2>7, <2>8, <2>9 DEF ReadInv
<1>4. CASE Act!Emit \/ Act!EmitFails
  <2>1. at = "emit" /\ at' = "line" /\ pos' = pos + 1 /\ offset' = offset
    BY <1>4 DEF Act!Emit, Act!EmitFails, Act!Skip
  <2>2. PICK q : q = pos + 1 /\ q \in 1 .. Len(file)
    BY <1>2, <2>1
  <2>3. Noted(q)'
    BY <1>1, <2>1, <2>2 DEF ReadInv
  <2>4. Published(q)'
    <3>1. q \in lost' \/ Act!Publish
      BY <1>4, <2>2 DEF Act!Emit, Act!EmitFails
    <3>2. ASSUME Act!Publish PROVE \E i \in 1 .. Len(usage)' :
                  usage'[i].line = q \/ (usage'[i].of.request = Request(q) /\ Request(q) # ActAnonymous)
      <4>1. Act!Found.request = Request(q)
        BY <2>1, <2>2, FoundTyped
      <4>2. CASE Act!Found.request \in requests
        <5>1. PICK i \in 1 .. Len(usage) : usage[i].of.request = Request(q)
          BY <4>1, <4>2 DEF UsageInv
        <5>2. Request(q) # ActAnonymous
          BY <4>1, <4>2 DEF UsageInv
        <5>3. i \in 1 .. Len(usage)' /\ usage'[i] = usage[i]
          BY StaysRead
        <5> QED BY <5>1, <5>2, <5>3
      <4>3. CASE Act!Found.request \notin requests
        <5>1. PICK r : r.line = q /\ usage' = Append(usage, r) /\ r \in Records
          <6>1. PICK r : r = [of |-> Act!Found, claim |-> claim, line |-> q]
            OBVIOUS
          <6>2. claim \in Nat
            BY DEF UsageInv, CountedInv, ActivityConstants
          <6>3. r \in Records
            BY <2>1, <2>2, <6>1, <6>2, FoundTyped DEF Records
          <6> QED BY <2>2, <3>2, <4>3, <6>1, <6>3 DEF Act!Publish
        <5>2. Len(usage)' = Len(usage) + 1 /\ usage'[Len(usage) + 1] = r /\ Len(usage) \in Nat
          BY <5>1 DEF LinesInv
        <5> QED BY <5>1, <5>2
      <4> QED BY <4>2, <4>3
    <3>3. Request(q)' = Request(q)
      BY <2>2, LinesStay
    <3> QED BY <3>1, <3>2, <3>3 DEF Published
  <2>5. \A n \in 1 .. pos : Noted(n)' /\ Published(n)'
    BY <1>1, <1>2, <2>1 DEF ReadInv, Reading
  <2>6. \A n \in 1 .. offset : Noted(n)' /\ Published(n)'
    BY <1>1, <1>2 DEF ReadInv
  <2>7. \A n \in 1 .. q : n = q \/ n \in 1 .. pos
    BY <1>2, <2>2
  <2> QED BY <2>1, <2>2, <2>3, <2>4, <2>5, <2>6, <2>7 DEF ReadInv
<1>5. ASSUME ~Act!ReadLine, ~Act!Emit, ~Act!EmitFails
      PROVE  /\ offset' = offset \/ (offset' = pos /\ at = "line")
             /\ at' \in Reading => pos' = offset \/ (pos' = pos /\ at \in Reading)
             /\ at' \in {"correlate", "emit"} => at \in {"correlate", "emit"} /\ pos' = pos
  BY <1>5
  DEF Act!Next, Act!Tick, Act!CliWrites, Act!MarkPending, Act!MarkDelivered, Act!Open,
      Act!Correlate,
         Act!SaveOffset, Act!Heal, Act!ReadPending, Act!Verdict, Act!Drop, Act!Break, Reading, Act!streams, Act!tailing, Act!avars
<1>6. CASE ~Act!ReadLine /\ ~Act!Emit /\ ~Act!EmitFails
  <2>1. \A n \in 1 .. offset' : Noted(n)' /\ Published(n)'
    BY <1>1, <1>2, <1>5, <1>6 DEF ReadInv, Reading
  <2>2. at' \in Reading => \A n \in 1 .. pos' : Noted(n)' /\ Published(n)'
    BY <1>1, <1>2, <1>5, <1>6 DEF ReadInv
  <2>3. at' \in {"correlate", "emit"} => Noted(pos + 1)' 
    <3>1. PICK q : q = pos + 1
      OBVIOUS
    <3> QED BY <1>1, <1>2, <1>5, <1>6, <3>1 DEF ReadInv
  <2> QED BY <2>1, <2>2, <2>3 DEF ReadInv
<1> QED BY <1>3, <1>4, <1>6

(* What was published                                                      *)

\* The delivery a usage is put down to has none yet.
LEMMA ClaimKept ==
    ASSUME ActivityConstants, LinesInv, CountedInv, TailInv, UsageInv, [Act!Next]_Act!avars
    PROVE  claim' \in 0 .. deliveries' /\ (claim' # 0 => claim' \notin attributed')
<1>1. deliveries' \in {deliveries, deliveries + 1} /\ deliveries \in Nat
  <2>1. deliveries' \in {deliveries, deliveries + 1}
    BY DEF Act!Next, Act!Tick, Act!CliWrites, Act!MarkPending, Act!MarkDelivered, Act!Open,
       Act!ReadLine, Act!Correlate, Act!Emit,
           Act!EmitFails, Act!SaveOffset, Act!Heal, Act!ReadPending, Act!Verdict, Act!Drop, Act!Break, Act!cli, Act!avars
  <2> QED BY <2>1 DEF CountedInv, ActivityConstants
<1>2. CASE Act!Correlate
  <2> DEFINE hit == {d \in markers \cup unjudged : d.ts <= file[pos + 1].ts}
             ids   == {d.id : d \in hit}
  <2>1. PICK newest : newest = CHOOSE i \in ids : \A j \in ids : j <= i
    OBVIOUS
  <2>2. claim' = 0 \/ (ids # {} /\ claim' = newest /\ newest \notin attributed)
    BY <1>2, <2>1 DEF Act!Correlate
  <2>3. ids \in SUBSET (0 .. deliveries)
    BY DEF CountedInv, Pastes
  <2>4. ids # {} => newest \in ids
    <3>1. ids # {} => \E i \in ids : \A j \in ids : j <= i
      BY <1>1, <2>3, GreatestExists
    <3> QED BY <2>1, <3>1
  <2>5. attributed' = attributed /\ deliveries' = deliveries
    BY <1>2 DEF Act!Correlate, Act!streams, Act!cli
  <2>6. ids # {} => newest \in 0 .. deliveries
    BY <2>3, <2>4
  <2> HIDE DEF ids, hit
  <2> QED BY <1>1, <2>2, <2>5, <2>6
<1>3. ASSUME ~Act!Correlate PROVE claim' = 0 \/ (claim' = claim /\ ~Act!Emit /\ ~Act!EmitFails)
  BY <1>3
  DEF Act!Next, Act!Tick, Act!CliWrites, Act!MarkPending, Act!MarkDelivered, Act!Open,
      Act!ReadLine, Act!Emit,
              Act!EmitFails, Act!SaveOffset, Act!Heal, Act!ReadPending, Act!Verdict, Act!Drop, Act!Break, Act!tailing, Act!avars
<1>4. ASSUME ~Act!Emit, ~Act!EmitFails PROVE attributed' = attributed
  BY <1>4
  DEF Act!Next, Act!Tick, Act!CliWrites, Act!MarkPending, Act!MarkDelivered, Act!Open,
      Act!ReadLine, Act!Correlate,
              Act!SaveOffset, Act!Heal, Act!ReadPending, Act!Verdict, Act!Drop, Act!Break, Act!streams, Act!avars
<1> QED BY <1>1, <1>2, <1>3, <1>4 DEF UsageInv

\* What is remembered as published was.
LEMMA RememberedKept ==
    ASSUME ActivityConstants, CountedInv, UsageInv, [Act!Next]_Act!avars
    PROVE  memory'.requests \subseteq requests'
<1>1. requests \subseteq requests'
  BY UsageMoves DEF Publishes
<1>2. CASE Act!Emit
  <2>1. PICK f : f = Act!Found.request
    OBVIOUS
  <2>2. f \in requests' \cup {ActAnonymous}
    BY <1>2, <2>1 DEF Act!Emit, Act!Publish
  <2>3. memory'.requests = memory.requests \cup ({f} \ {ActAnonymous})
    BY <1>2, <2>1 DEF Act!Emit, CountedInv
  <2> QED BY <1>1, <2>2, <2>3 DEF UsageInv
<1>3. Act!Correlate \/ Act!SaveOffset => memory'.requests = memory.requests
  BY DEF Act!Correlate, Act!SaveOffset, CountedInv
<1>4. ASSUME ~(Act!Correlate \/ Act!Emit \/ Act!SaveOffset) PROVE memory' \in {memory, Act!NoMemory}
  BY <1>4
  DEF Act!Next, Act!Tick, Act!CliWrites, Act!MarkPending, Act!MarkDelivered, Act!Open,
      Act!ReadLine, Act!EmitFails,
              Act!Heal, Act!ReadPending, Act!Verdict, Act!Drop, Act!Break, Act!avars
<1>5. Act!NoMemory.requests = {}
  BY DEF Act!NoMemory
<1> QED BY <1>1, <1>2, <1>3, <1>4, <1>5 DEF UsageInv

\* A step keeps UsageInv: what is published is remembered, and is not published again.
LEMMA UsageKept ==
    ASSUME ActivityConstants, LinesInv, CountedInv, TailInv, UsageInv, [Act!Next]_Act!avars
    PROVE  UsageInv'
<1>1. deliveries \in Nat /\ deliveries' \in {deliveries, deliveries + 1}
  <2>1. deliveries' \in {deliveries, deliveries + 1}
    BY DEF Act!Next, Act!Tick, Act!CliWrites, Act!MarkPending, Act!MarkDelivered, Act!Open,
       Act!ReadLine, Act!Correlate, Act!Emit,
           Act!EmitFails, Act!SaveOffset, Act!Heal, Act!ReadPending, Act!Verdict, Act!Drop, Act!Break, Act!cli, Act!avars
  <2> QED BY <2>1 DEF CountedInv, ActivityConstants
<1>2. /\ claim' \in 0 .. deliveries' /\ (claim' # 0 => claim' \notin attributed')
      /\ memory'.requests \subseteq requests' /\ RequestIds' = RequestIds
  BY ClaimKept, RememberedKept, LinesStay
<1>3. \A i \in 1 .. Len(usage) : usage[i].line \in 1 .. Len(file)
  <2> SUFFICES ASSUME NEW i \in 1 .. Len(usage) PROVE usage[i].line \in 1 .. Len(file)
    OBVIOUS
  <2>1. usage[i] \in Records
    BY DEF LinesInv
  <2> QED BY <2>1 DEF Records
<1>4. \A n \in 1 .. Len(file) : Act!UsageOf(file[n].line, Act!ModelAt(n))' = Act!UsageOf(file[n].line, Act!ModelAt(n))
  <2> SUFFICES ASSUME NEW n \in 1 .. Len(file)
               PROVE  Act!UsageOf(file[n].line, Act!ModelAt(n))' = Act!UsageOf(file[n].line, Act!ModelAt(n))
    OBVIOUS
  <2>1. PICK l, m : l = file[n].line /\ m = Act!ModelAt(n)
    OBVIOUS
  <2>2. file'[n].line = l /\ Act!ModelAt(n)' = m /\ Act!UsageOf(l, m)' = Act!UsageOf(l, m)
    <3>1. n \in 0 .. Len(file)
      BY DEF LinesInv
    <3> QED BY <2>1, <3>1, FileGrows, LinesStay
  <2> QED BY <2>1, <2>2
<1>5. CASE UNCHANGED <<usage, requests, attributed>>
  <2>2. ASSUME NEW i \in 1 .. Len(usage)'
        PROVE  usage'[i].of = Act!UsageOf(file[usage[i].line].line, Act!ModelAt(usage[i].line))'
    <3>1. i \in 1 .. Len(usage) /\ usage'[i] = usage[i]
      BY <1>5
    <3>2. PICK n : n = usage[i].line /\ n = usage'[i].line
      BY <3>1
    <3>3. usage[i].of = Act!UsageOf(file[n].line, Act!ModelAt(n))'
      BY <1>3, <1>4, <3>1, <3>2 DEF UsageInv
    <3> QED BY <3>1, <3>2, <3>3
  <2> QED BY <1>1, <1>2, <1>5, <2>2 DEF UsageInv
<1>6. CASE Publishes
  <2>1. at = "emit"
    BY <1>6 DEF Publishes
  <2>2. PICK f, c, q : f = Act!Found /\ c = claim /\ q = pos + 1
    OBVIOUS
  <2>3. /\ q \in 1 .. Len(file) /\ f.request \in RequestIds /\ f.request # ActNothing
        /\ f = Act!UsageOf(file[q].line, Act!ModelAt(q)) /\ f \in [request : RequestIds, model : Models]
    BY <2>1, <2>2, FoundTyped
  <2>4. c \in 0 .. deliveries /\ (c # 0 => c \notin attributed) /\ c \in Nat
    BY <1>1, <2>2 DEF UsageInv
  <2>5. PICK r : r = [of |-> f, claim |-> c, line |-> q]
    OBVIOUS
  <2>6. r \in Records /\ r.of = f /\ r.claim = c /\ r.line = q
    BY <2>3, <2>4, <2>5 DEF Records
  <2>7. usage' = Append(usage, r) /\ f.request \notin requests
        /\ requests' = requests \cup ({f.request} \ {ActAnonymous})
        /\ attributed' = attributed \cup ({c} \ {0})
    BY <1>6, <2>2, <2>5 DEF Publishes
  <2>8. PICK N \in Nat : N = Len(usage)
    BY DEF LinesInv
  <2>9. /\ Len(usage)' = N + 1 /\ usage'[N + 1] = r
        /\ \A i \in 1 .. N : usage'[i] = usage[i] /\ i \in 1 .. Len(usage)
        /\ \A i \in 1 .. N + 1 : i = N + 1 \/ i \in 1 .. N
    BY <2>6, <2>7, <2>8 DEF LinesInv
  <2>10. \A i \in 1 .. N : /\ usage[i].of.request = f.request => f.request = ActAnonymous
                           /\ usage[i].claim = c => c = 0
    BY <2>4, <2>7, <2>9 DEF UsageInv
  <2>11. ASSUME NEW i \in 1 .. N + 1, NEW j \in 1 .. N + 1, i # j
         PROVE  /\ usage'[i].of.request = usage'[j].of.request => usage'[i].of.request = ActAnonymous
                /\ usage'[i].claim = usage'[j].claim => usage'[i].claim = 0
    <3>1. CASE i \in 1 .. N /\ j \in 1 .. N
      BY <2>9, <2>11, <3>1 DEF UsageInv
    <3>2. CASE i \in 1 .. N /\ j = N + 1
      BY <2>6, <2>9, <2>10, <3>2
    <3>3. CASE i = N + 1 /\ j \in 1 .. N
      BY <2>6, <2>9, <2>10, <3>3
    <3> QED BY <2>9, <2>11, <3>1, <3>2, <3>3
  <2>12. ASSUME NEW i \in 1 .. N + 1
         PROVE  /\ usage'[i].of = Act!UsageOf(file[usage[i].line].line, Act!ModelAt(usage[i].line))'
                /\ usage'[i].of.request \in requests' \cup {ActAnonymous}
                /\ usage'[i].claim \in attributed' \cup {0}
    <3>1. CASE i \in 1 .. N
      <4>1. usage'[i] = usage[i] /\ i \in 1 .. Len(usage)
        BY <2>9, <3>1
      <4>2. PICK n : n = usage[i].line /\ n = usage'[i].line
        BY <4>1
      <4>3. usage[i].of = Act!UsageOf(file[n].line, Act!ModelAt(n))'
        BY <1>3, <1>4, <4>1, <4>2 DEF UsageInv
      <4>4. usage[i].of.request \in requests \cup {ActAnonymous} /\ usage[i].claim \in attributed \cup {0}
        BY <4>1 DEF UsageInv
      <4> QED BY <2>7, <4>1, <4>2, <4>3, <4>4
    <3>2. CASE i = N + 1
      <4>1. usage'[i] = r /\ usage'[i].line = q
        BY <2>6, <2>9, <3>2
      <4>2. f = Act!UsageOf(file[q].line, Act!ModelAt(q))'
        BY <1>4, <2>3
      <4> QED BY <2>6, <2>7, <4>1, <4>2
    <3> QED BY <2>9, <3>1, <3>2
  <2>13. ASSUME NEW x \in requests'
         PROVE  /\ x \in RequestIds' \ {ActAnonymous, ActNothing}
                /\ \E i \in 1 .. Len(usage)' : usage'[i].of.request = x
    <3>1. CASE x \in requests
      <4>1. x \in RequestIds \ {ActAnonymous, ActNothing} /\ \E i \in 1 .. N : usage[i].of.request = x
        BY <2>8, <3>1 DEF UsageInv
      <4>2. PICK i \in 1 .. N : usage[i].of.request = x
        BY <4>1
      <4>3. i \in 1 .. Len(usage)' /\ usage'[i].of.request = x
        BY <2>9, <4>2
      <4> QED BY <1>2, <4>1, <4>3
    <3>2. CASE x \notin requests
      <4>1. x = f.request /\ x # ActAnonymous
        BY <2>7, <3>2
      <4>2. N + 1 \in 1 .. Len(usage)' /\ usage'[N + 1].of.request = x
        BY <2>6, <2>9, <4>1
      <4> QED BY <1>2, <2>3, <4>1, <4>2
    <3> QED BY <3>1, <3>2
  <2>14. attributed' \subseteq 1 .. deliveries'
    BY <1>1, <2>4, <2>7 DEF UsageInv
  <2> QED BY <1>2, <2>9, <2>11, <2>12, <2>13, <2>14 DEF UsageInv
<1> QED BY <1>5, <1>6, UsageMoves

(* Verdicts                                                                *)

\* The oldest of what is judged is one of it.
LEMMA OldestIn ==
    ASSUME ActivityConstants, CountedInv, VerdictInv, judging # {}
    PROVE  Act!Oldest \in judging /\ \A d \in unjudged : Act!Oldest.ts <= d.ts
<1>1. judging \subseteq Pastes /\ now \in Nat /\ deliveries \in Nat
  <2>1. judging \subseteq unjudged
    BY DEF VerdictInv
  <2> QED BY <2>1 DEF CountedInv, ActivityConstants
<1> DEFINE ids == {d.id : d \in judging}
<1>2. ids \in SUBSET Nat /\ ids # {}
  BY <1>1 DEF Pastes
<1>3. PICK i \in ids : \A j \in ids : i <= j
  BY <1>2, LeastExists
<1>4. \E d \in judging : \A e \in judging : d.id <= e.id
  BY <1>3
<1>5. Act!Oldest \in judging /\ \A e \in judging : Act!Oldest.id <= e.id
  BY <1>4 DEF Act!Oldest
<1>6. PICK o : o = Act!Oldest
  OBVIOUS
<1>7. ASSUME NEW d \in unjudged PROVE o.ts <= d.ts
  BY <1>5, <1>6 DEF VerdictInv
<1> QED BY <1>5, <1>6, <1>7

\* A step keeps VerdictInv: a delivery is judged in the order of the pastes.
LEMMA VerdictKept ==
    ASSUME ActivityConstants, LinesInv, CountedInv, VerdictInv, [Act!Next]_Act!avars
    PROVE  VerdictInv'
<1>1. /\ now' >= now /\ now' \in Nat /\ now \in Nat /\ unjudged \subseteq Pastes
      /\ deliveries \in Nat
  BY FileGrows DEF CountedInv, ActivityConstants
<1>2. blocked \in 0 .. now /\ blocked \in 0 .. now' /\ times \subseteq 1 .. now'
  <2>1. blocked \in 0 .. now /\ times \subseteq 1 .. now
    BY DEF VerdictInv
  <2> QED BY <1>1, <2>1
<1>3. CASE Act!Tick \/ Act!CliWrites \/ Act!MarkDelivered \/ UNCHANGED Act!avars
  <2>1. UNCHANGED <<unjudged, judging, blocked, events, times, at>>
    BY <1>3
    DEF Act!Tick, Act!CliWrites, Act!MarkDelivered, Act!avars, Act!verdicts, Act!verify,
        Act!streams
  <2> QED BY <1>2, <2>1 DEF VerdictInv, Act!After
<1>4. CASE Act!MarkPending
  <2>1. PICK d : d = [id |-> deliveries + 1, ts |-> now]
    OBVIOUS
  <2>2. UNCHANGED <<judging, blocked, events, times, at>> /\ unjudged' = unjudged \cup {d}
    BY <1>4, <2>1 DEF Act!MarkPending, Act!verify, Act!streams
  <2>3. \A e \in unjudged : e.id < d.id /\ e.ts <= d.ts /\ e.ts \in Nat
    BY <1>1, <2>1 DEF Pastes
  <2>4. d.id \in Nat /\ d.ts \in Nat /\ d.ts = now
    BY <1>1, <2>1
  <2>5. \A e \in unjudged' : blocked <= e.ts
    <3>1. \A e \in unjudged : blocked <= e.ts
      BY DEF VerdictInv
    <3>2. blocked <= d.ts
      BY <1>1, <1>2, <2>4
    <3> QED BY <2>2, <3>1, <3>2
  <2>6. \A e, g \in unjudged' : e.id <= g.id => e.ts <= g.ts
    <3> SUFFICES ASSUME NEW e \in unjudged', NEW g \in unjudged', e.id <= g.id
                 PROVE  e.ts <= g.ts
      OBVIOUS
    <3>1. e = d => g = d
      <4>1. \A x \in unjudged : x.id \in Nat
        BY <1>1 DEF Pastes
      <4> QED BY <2>2, <2>3, <2>4, <4>1
    <3>2. e \in unjudged /\ g \in unjudged => e.ts <= g.ts
      BY DEF VerdictInv
    <3>3. e \in unjudged /\ g = d => e.ts <= g.ts
      BY <2>3
    <3>4. e = d => e.ts <= g.ts
      BY <2>4, <3>1
    <3> QED BY <2>2, <3>2, <3>3, <3>4
  <2>7. judging \subseteq unjudged' /\ \A e \in judging, g \in unjudged' \ judging : e.ts <= g.ts
    BY <2>2, <2>3 DEF VerdictInv
  <2> QED BY <1>2, <2>2, <2>5, <2>6, <2>7 DEF VerdictInv, Act!After
<1>5. CASE Act!Open \/ Act!ReadLine \/ Act!Correlate \/ Act!Emit \/ Act!EmitFails \/ Act!SaveOffset
  <2>1. UNCHANGED <<unjudged, judging, blocked, times>> /\ at' \in Reading \cup {"heal"}
    BY <1>5
    DEF Act!Open, Act!ReadLine, Act!Correlate, Act!Emit, Act!EmitFails, Act!SaveOffset,
        Act!Skip, Act!verdicts, Act!verify, Reading
  <2>2. at' \notin Judging \cup {"judge"} /\ at' \notin {"verdict", "drop verdict"}
    BY <2>1 DEF Judging, Reading
  <2>3. blocked' \in 0 .. now' /\ times' \subseteq 1 .. now'
    BY <1>2, <2>1
  <2>4. /\ \A d \in unjudged' : blocked' <= d.ts
        /\ \A d, e \in unjudged' : d.id <= e.id => d.ts <= e.ts
        /\ judging' \subseteq unjudged' /\ \A d \in judging', e \in unjudged' \ judging' : d.ts <= e.ts
    BY <2>1 DEF VerdictInv
  <2>5. /\ at' \in Judging => judging' # {}
        /\ at' \in Judging \cup {"judge"} /\ blocked' # 0 => Act!After(blocked)' = {}
        /\ at' \in {"verdict", "drop verdict"} => times' = {e.ts : e \in events'}
    BY <2>2
  <2> QED BY <2>3, <2>4, <2>5 DEF VerdictInv
<1>6. CASE Act!Heal
  <2>1. UNCHANGED <<unjudged, judging, times, events>> /\ at' = "judge"
    BY <1>6 DEF Act!Heal, Act!verify, Act!streams
  <2>2. blocked' \in {blocked, 0} /\ (blocked' # 0 => Act!After(blocked) = {} /\ blocked' = blocked)
    BY <1>6 DEF Act!Heal
  <2>3. blocked' # 0 => Act!After(blocked)' = {}
    BY <2>1, <2>2 DEF Act!After
  <2>4. \A d \in unjudged : d.ts \in Nat
    BY <1>1 DEF Pastes
  <2>5. blocked' \in 0 .. now' /\ \A d \in unjudged : blocked' <= d.ts
    <3>1. \A d \in unjudged : blocked <= d.ts
      BY DEF VerdictInv
    <3>2. \A d \in unjudged : 0 <= d.ts
      BY <2>4
    <3> QED BY <1>1, <1>2, <2>2, <3>1, <3>2
  <2>6. at' \notin Judging /\ at' \notin {"verdict", "drop verdict"}
    BY <2>1 DEF Judging
  <2> QED BY <1>2, <2>1, <2>3, <2>5, <2>6 DEF VerdictInv
<1>7. CASE Act!ReadPending
  <2>1. UNCHANGED <<unjudged, blocked, events, now>> /\ at = "judge"
    BY <1>7 DEF Act!ReadPending, Act!verdicts, Act!streams, Act!cli
  <2> DEFINE old == {d \in unjudged : now - d.ts >= ActVerifyAfter}
  <2>2. CASE old = {}
    BY <1>2, <1>7, <2>1, <2>2 DEF Act!ReadPending, VerdictInv, Act!verify, Judging
  <2>3. CASE old # {}
    <3>1. judging' = old /\ times' = {e.ts : e \in events} /\ at' \in {"verdict", "drop"}
      BY <1>7, <2>3 DEF Act!ReadPending
    <3>2. \A d \in old, e \in unjudged \ old : d.ts <= e.ts
      BY <1>1 DEF Pastes, ActivityConstants
    <3>3. times' \subseteq 1 .. now
      BY <3>1 DEF CountedInv
    <3>4. old \subseteq unjudged
      OBVIOUS
    <3>5. blocked # 0 => Act!After(blocked)' = {}
      BY <2>1 DEF VerdictInv, Act!After
    <3> HIDE DEF old
    <3> QED BY <1>2, <2>1, <2>3, <3>1, <3>2, <3>3, <3>4, <3>5 DEF VerdictInv
  <2> QED BY <2>2, <2>3
<1>8. CASE Act!Verdict
  <2>1. UNCHANGED <<unjudged, judging, events, times, now>> /\ at = "verdict" /\ at' = "drop verdict"
    BY <1>8 DEF Act!Verdict, Act!verify, Act!streams, Act!cli
  <2>2. judging # {}
    BY <2>1 DEF VerdictInv, Judging
  <2>3. PICK o : o = Act!Oldest
    OBVIOUS
  <2>4. o \in judging /\ \A d \in unjudged : o.ts <= d.ts
    BY <2>2, <2>3, OldestIn
  <2>5. o.ts \in 1 .. now
    BY <1>1, <2>4 DEF VerdictInv, Pastes
  <2>6. blocked' = IF Act!TakenUp(o) THEN 0 ELSE IF blocked = 0 THEN o.ts ELSE blocked
    BY <1>8, <2>3 DEF Act!Verdict
  <2>7. blocked' \in 0 .. now /\ \A d \in unjudged : blocked' <= d.ts
    <3>1. \A d \in unjudged : d.ts \in Nat /\ d.ts >= 0
      BY <1>1 DEF Pastes
    <3>2. \A d \in unjudged : blocked <= d.ts
      BY DEF VerdictInv
    <3>3. blocked' \in {0, blocked, o.ts}
      BY <2>6
    <3> QED BY <1>1, <1>2, <2>4, <2>5, <3>1, <3>2, <3>3
  <2>8. ASSUME blocked' # 0 PROVE Act!After(blocked)' = {}
    <3>1. CASE blocked = 0
      <4>1. blocked' = o.ts /\ ~Act!TakenUp(o)
        BY <2>6, <2>8, <3>1
      <4>2. \A e \in events : ~(e.ts > o.ts)
        BY <2>1, <4>1 DEF Act!TakenUp, VerdictInv
      <4> QED BY <2>1, <4>1, <4>2 DEF Act!After
    <3>2. CASE blocked # 0
      <4>1. blocked' = blocked
        BY <2>6, <2>8, <3>2
      <4>2. Act!After(blocked) = {}
        BY <2>1, <3>2 DEF VerdictInv, Judging
      <4> QED BY <2>1, <4>1, <4>2 DEF Act!After
    <3> QED BY <3>1, <3>2
  <2>9. times' = {e.ts : e \in events'}
    BY <2>1 DEF VerdictInv
  <2> QED BY <2>1, <2>2, <2>7, <2>8, <2>9 DEF VerdictInv
<1>9. CASE Act!Drop
  <2>1. UNCHANGED <<blocked, events, now>> /\ at \in {"drop", "drop verdict"}
    BY <1>9 DEF Act!Drop, Act!streams, Act!cli
  <2>2. PICK o : o = Act!Oldest
    OBVIOUS
  <2>3. unjudged' = unjudged \ {o} /\ judging' = judging \ {o}
    BY <1>9, <2>2 DEF Act!Drop
  <2>4. /\ judging' = {} => at' = "rest" /\ times' = {}
        /\ judging' # {} => at' = (IF at = "drop" THEN "drop" ELSE "verdict") /\ times' = times
    BY <1>9 DEF Act!Drop
  <2>5. blocked # 0 => Act!After(blocked)' = {}
    BY <2>1 DEF VerdictInv, Act!After, Judging
  <2>6. /\ \A d \in unjudged' : blocked <= d.ts
        /\ \A d, e \in unjudged' : d.id <= e.id => d.ts <= e.ts
        /\ judging' \subseteq unjudged' /\ \A d \in judging', e \in unjudged' \ judging' : d.ts <= e.ts
    BY <2>3 DEF VerdictInv
  <2>7. at' \in {"verdict", "drop verdict"} => times' = {e.ts : e \in events'}
    BY <2>1, <2>4 DEF VerdictInv
  <2>8. times' \subseteq 1 .. now' /\ (at' \in Judging => judging' # {})
    BY <1>2, <2>4 DEF Judging
  <2> QED BY <1>2, <2>1, <2>5, <2>6, <2>7, <2>8 DEF VerdictInv
<1>10. CASE Act!Break
  <2>1. UNCHANGED <<unjudged, blocked>> /\ judging' = {} /\ times' = {} /\ at' = "rest"
    BY <1>10 DEF Act!Break, Act!verdicts
  <2> QED BY <1>2, <2>1 DEF VerdictInv, Judging
<1>11. Act!Next \/ UNCHANGED Act!avars
  OBVIOUS
<1> QED BY <1>3, <1>4, <1>5, <1>6, <1>7, <1>8, <1>9, <1>10, <1>11 DEF Act!Next

(* The theorems                                                            *)

\* The invariant holds of a file that is not there yet.
LEMMA ActivityInit == ASSUME ActivityConstants, Act!Init PROVE ActivityInv
<1>1. /\ now = 1 /\ flavor \in DOMAIN ActLines /\ file = <<>> /\ marking = 0 /\ deliveries = 0
      /\ markers = {} /\ unjudged = {} /\ blocked = 0 /\ offset = 0 /\ events = {} /\ usage = <<>>
      /\ requests = {} /\ attributed = {} /\ at = "rest" /\ pos = 0 /\ model = ActNothing
      /\ claim = 0 /\ judging = {} /\ times = {} /\ memory = Act!NoMemory /\ crashes = 0 /\ lost = {}
  BY DEF Act!Init
<1>2. LinesInv
  BY <1>1 DEF LinesInv
<1>3. CountedInv
  BY <1>1 DEF CountedInv, ActivityConstants, Act!NoMemory, Models, Pastes
<1>4. TailInv
  BY <1>1 DEF TailInv, Act!NoMemory
<1>5. ReadInv
  BY <1>1 DEF ReadInv, Reading
<1>6. UsageInv
  BY <1>1 DEF UsageInv, Act!NoMemory
<1>7. VerdictInv
  BY <1>1 DEF VerdictInv, Judging
<1> QED BY <1>2, <1>3, <1>4, <1>5, <1>6, <1>7 DEF ActivityInv

\* Together, every step keeps the invariant.
LEMMA ActivityStep == ASSUME ActivityConstants, ActivityInv, [Act!Next]_Act!avars PROVE ActivityInv'
BY LinesKept, CountedKept, TailKept, ReadKept, UsageKept, VerdictKept DEF ActivityInv

\* The invariant says what is wanted of states.
LEMMA ActivityFollows == ASSUME ActivityConstants, ActivityInv PROVE Act!UsageAccounted /\ Act!TypeOK
<1>1. LinesInv /\ CountedInv /\ ReadInv /\ UsageInv /\ VerdictInv
  BY DEF ActivityInv
<1>2. ASSUME NEW n \in 1 .. offset
      PROVE  /\ \A k \in Act!Events(file[n].line) : \E e \in events : e.line = n /\ e.kind = k
             /\ Request(n) # ActNothing =>
                   n \in lost \/ \E i \in 1 .. Len(usage) :
                       \/ usage[i].line = n
                       \/ usage[i].of.request = Request(n) /\ Request(n) # ActAnonymous
  BY <1>1 DEF ReadInv, Noted, Published
<1>3. Act!UsageAccounted
  BY <1>1, <1>2 DEF UsageInv, Act!UsageAccounted, Request
<1>4. /\ now \in 1 .. ActMaxTime /\ deliveries \in 0 .. ActMaxDeliveries
      /\ 1 .. now \subseteq 1 .. ActMaxTime /\ 0 .. now \subseteq 0 .. ActMaxTime
      /\ 1 .. deliveries \subseteq 1 .. ActMaxDeliveries /\ 0 .. deliveries \subseteq 0 .. ActMaxDeliveries
  <2>1. now \in 1 .. ActMaxTime /\ deliveries \in 0 .. ActMaxDeliveries
    BY <1>1 DEF CountedInv
  <2> QED BY <2>1 DEF ActivityConstants
<1>5. Pastes \subseteq Act!Delivery
  BY <1>4 DEF Pastes, Act!Delivery
<1>6. requests \subseteq {l.request : l \in ActLines[flavor]} \ {ActAnonymous, ActNothing}
  BY <1>1 DEF UsageInv, RequestIds
<1>7. /\ markers \cup unjudged \subseteq Pastes /\ judging \subseteq unjudged
      /\ offset \in 0 .. Len(file) /\ pos \in 0 .. Len(file) /\ lost \subseteq 1 .. Len(file)
      /\ blocked \in 0 .. now /\ times \subseteq 1 .. now
      /\ attributed \subseteq 1 .. deliveries /\ claim \in 0 .. deliveries
  BY <1>1 DEF CountedInv, VerdictInv, UsageInv
<1> QED BY <1>3, <1>4, <1>5, <1>6, <1>7 DEF Act!TypeOK

\* The invariant says what is wanted of steps.
LEMMA BlockedFollows == ASSUME ActivityConstants, ActivityInv, [Act!Next]_Act!avars PROVE [Act!Blocked]_Act!avars
<1>1. LinesInv /\ CountedInv /\ VerdictInv
  BY DEF ActivityInv
<1>2. ASSUME Act!Next, at # "rest", at' = "rest", crashes' = crashes, blocked' # 0
      PROVE  \A e \in events : ~(e.ts > blocked')
  <2>1. blocked' = blocked /\ at \in Judging \cup {"judge"}
    <3>1. Act!ReadPending \/ Act!Drop
      BY <1>1, <1>2
      DEF Act!Next, Act!Tick, Act!CliWrites, Act!MarkPending, Act!MarkDelivered, Act!Open,
          Act!ReadLine,
              Act!Correlate, Act!Emit, Act!EmitFails, Act!SaveOffset, Act!Heal, Act!Verdict, Act!Break, Act!Skip, Act!Fault,
              CountedInv, ActivityConstants
    <3> QED BY <3>1 DEF Act!ReadPending, Act!Drop, Act!verdicts, Judging
  <2> QED BY <1>1, <1>2, <2>1 DEF VerdictInv, Act!After
<1>3. ASSUME Act!Next, blocked # 0, blocked' = 0 PROVE Act!After(blocked) # {}
  <2>1. Act!Heal \/ Act!Verdict
    BY <1>3
    DEF Act!Next, Act!Tick, Act!CliWrites, Act!MarkPending, Act!MarkDelivered, Act!Open,
        Act!ReadLine, Act!Correlate,
            Act!Emit, Act!EmitFails, Act!SaveOffset, Act!ReadPending, Act!Drop, Act!Break, Act!verdicts
  <2>2. CASE Act!Heal
    BY <1>3, <2>2 DEF Act!Heal
  <2>3. CASE Act!Verdict
    <3>1. at = "verdict" /\ judging # {}
      BY <1>1, <2>3 DEF Act!Verdict, VerdictInv, Judging
    <3>2. PICK o : o = Act!Oldest
      OBVIOUS
    <3>3. o \in judging /\ Act!TakenUp(o)
      BY <1>1, <1>3, <2>3, <3>1, <3>2, OldestIn DEF Act!Verdict
    <3>4. PICK e \in events : e.ts > o.ts
      BY <1>1, <3>1, <3>3 DEF Act!TakenUp, VerdictInv
    <3>5. blocked <= o.ts /\ blocked \in Nat /\ o.ts \in Nat /\ e.ts \in Nat
      <4>1. o \in unjudged /\ blocked <= o.ts /\ blocked \in 0 .. now /\ now \in Nat
        <5>1. now \in Nat
          BY <1>1 DEF CountedInv, ActivityConstants
        <5>2. o \in unjudged
          BY <1>1, <3>3 DEF VerdictInv
        <5> QED BY <1>1, <5>1, <5>2 DEF VerdictInv
      <4>2. o \in Pastes /\ e.ts \in 1 .. now
        BY <1>1, <4>1 DEF CountedInv
      <4> QED BY <4>1, <4>2 DEF Pastes
    <3> QED BY <3>4, <3>5 DEF Act!After
  <2> QED BY <2>1, <2>2, <2>3
<1>4. ASSUME Act!Next PROVE Act!Blocked
  BY <1>2, <1>3, <1>4 DEF Act!Blocked, Act!After
<1> QED BY <1>4

\* Whatever fails or restarts in between, the usage of a request is published once, under
\* the model its session was in, and no delivery is given two; and no line is left behind
\* by the saved offset unless its failure was logged (ActivityTailer.poll, _EMIT_USAGE_LUA).
THEOREM UsageSafe == ASSUME ActivityConstants PROVE Act!Spec => []Act!UsageAccounted
<1>1. Act!Init => ActivityInv
  BY ActivityInit
<1>2. ActivityInv /\ [Act!Next]_Act!avars => ActivityInv'
  BY ActivityStep
<1>3. ActivityInv => Act!UsageAccounted
  BY ActivityFollows
<1> QED BY <1>1, <1>2, <1>3, PTL DEF Act!Spec

\* An agent is taken for blocked only over a delivery after which nothing was seen of it,
\* and is cleared only after it was seen again (DeliveryVerifier.poll).
THEOREM VerdictsSafe == ASSUME ActivityConstants PROVE Act!Spec => Act!BlockedTrue
<1>1. Act!Init => ActivityInv
  BY ActivityInit
<1>2. ActivityInv /\ [Act!Next]_Act!avars => ActivityInv'
  BY ActivityStep
<1>3. ActivityInv /\ [Act!Next]_Act!avars => [Act!Blocked]_Act!avars
  BY BlockedFollows
<1> QED BY <1>1, <1>2, <1>3, PTL DEF Act!Spec, Act!BlockedTrue

-----------------------------------------------------------------------------
(* What is said in the chat of the bot                                      *)

CONSTANTS ChatAgents, ChatHome, ChatSessions, ChatMaxWaiting, ChatMaxUpdates,
          ChatMaxCrashes
VARIABLES said, total, telegram, fetched, queue, pending, target, voice, watching,
          leaving, renders, finished, popped, calls, handled

Chat == INSTANCE BotChat WITH
    Agents <- ChatAgents, Home <- ChatHome, Sessions <- ChatSessions,
    MaxWaiting <- ChatMaxWaiting, MaxUpdates <- ChatMaxUpdates,
    MaxCrashes <- ChatMaxCrashes

\* Of the constants: a session's length is a number, and what is said in it are updates.
ChatConstants ==
    /\ ChatMaxUpdates \in Nat /\ ChatMaxCrashes \in Nat
    /\ \A s \in ChatSessions : s.length \in 0 .. ChatMaxUpdates /\ s.of \subseteq Chat!Update

People == ChatAgents \cup {ChatHome}
Items  == [id : Nat \ {0}, is : Chat!Update]
Flows  == [flow : {"none", "hire", "ticket", "retire", "broadcast"}, stage : DOMAIN Chat!After \cup {"tap", "none"}, agent : People, opened : Nat,
           answers : Seq(Nat)]
Workers == [step : {"asleep", "dispatch", "submit", "add", "swapped", "send", "start"},
            u : Items \cup {Chat!Asleep.u}, flow : Flows, was : Flows, agent : People, old : Nat]
Calls  == [by : Nat, life : Nat, raised : BOOLEAN, opened : Nat, answers : Seq(Nat)]

Ids(s)    == {s[i].id : i \in 1 .. Len(s)}
Rising(s) == \A i, j \in 1 .. Len(s) : i < j => s[i].id < s[j].id

\* The update the worker is at, if any, and those that wait for it.
Hands   == IF at.step = "asleep" THEN {} ELSE {Chat!This}
Waiting == Ids(queue) \cup Hands

\* A number that is below all that the worker has yet to do. 0 stands for none.
Past(n) == (n = 0 \/ n < offset) /\ \A m \in Waiting : n < m

\* A flow that is open is at one of its questions.
Asked(p) == p # Chat!NoFlow => p.stage # "none"

ChatTypes ==
    /\ Asked(pending) /\ Asked(at.was)
    /\ said \in ChatSessions /\ total \in 0 .. said.length
    /\ telegram \in Seq(Items) /\ fetched \in Seq(Items) /\ queue \in Seq(Items)
    /\ offset \in 0 .. total + 1
    /\ at \in Workers /\ (at.step = "asleep" \/ at.u \in Items) /\ (at.step = "asleep" => at = Chat!Asleep)
    /\ pending \in Flows /\ target \in People /\ voice \in BOOLEAN
    /\ crashes \in 0 .. ChatMaxCrashes /\ calls \in Seq(Calls)
    /\ handled \cup lost \subseteq 1 .. total

\* Updates are somewhere, in order: of those that were fetched none was left out.
UpdatesInv ==
    /\ Len(telegram) <= total
    /\ \A i \in 1 .. Len(telegram) : telegram[i].id = total - Len(telegram) + i /\ telegram[i].is \in said.of
    /\ Rising(fetched) /\ Rising(queue)
    /\ Ids(fetched) \subseteq offset .. total
    /\ \A u \in Ids(telegram) :
          u >= offset /\ fetched # <<>> => u \in Ids(fetched) \/ \A n \in Ids(fetched) : n < u
    /\ \A n \in Waiting : n < offset
    /\ \A n \in Ids(queue), m \in Hands : m < n
    /\ \A u \in 1 .. total :
          u \in handled \cup lost \cup Waiting \/ (u >= offset /\ u \in Ids(telegram))

\* The numbers that are past.
Pasts == {n \in Nat : Past(n)}

\* Answers were given after the question, one after the other.
InTurn(opened, answers) ==
    /\ \A i \in 1 .. Len(answers) : opened < answers[i]
    /\ \A i, j \in 1 .. Len(answers) : i < j => answers[i] < answers[j]

\* What is known of a flow whose numbers are all of P.
Good(p, P) ==
    /\ p.opened \in P /\ \A i \in 1 .. Len(p.answers) : p.answers[i] \in P
    /\ InTurn(p.opened, p.answers)

\* The flow that is submitted is not open any more: the worker has it, and the last answer.
Submitting == at.step \in {"submit", "add"}
FlowsInv ==
    /\ Good(pending, Pasts)
    /\ Submitting => /\ pending = Chat!NoFlow /\ Good(at.was, Pasts)
                     /\ at.flow = [at.was EXCEPT !.answers = Append(@, Chat!This)]

\* Calls are made of what is past, in order.
CallsInv ==
    /\ \A i \in 1 .. Len(calls) :
          /\ calls[i].life <= crashes /\ InTurn(calls[i].opened, calls[i].answers)
          /\ calls[i].life = crashes => calls[i].by \in Pasts /\ calls[i].opened \in Pasts
    /\ \A i, j \in 1 .. Len(calls) :
          i < j /\ calls[i].life = calls[j].life => calls[i].by < calls[j].by

\* What was called for is not open any more.
OnceInv ==
    /\ \A i \in 1 .. Len(calls) :
          calls[i].life = crashes /\ ~ calls[i].raised /\ calls[i].opened # 0 =>
            calls[i].opened # pending.opened /\ (Submitting => calls[i].opened # at.was.opened)
    /\ \A i, j \in 1 .. Len(calls) :
          i < j /\ calls[i].life = calls[j].life /\ calls[i].opened = calls[j].opened
            => calls[i].opened = 0 \/ calls[i].raised

\* A pane watch that runs is the chat's, or it has been told.
PanesInv ==
    /\ slot \in [id : 0 .. total, agent : People]
    /\ watching \cup leaving \subseteq 1 .. total /\ watching \cap leaving = {}
    /\ watching \cup leaving \subseteq Pasts
    /\ \A w \in watching : w = slot.id \/ w \in told
    /\ at.step = "start" => slot.id = Chat!This

\* A turn's display that runs is the agent's, or has been told or finalized, or is about to be.
TurnsInv ==
    /\ renders \in [People -> 0 .. total] /\ turns \subseteq [id : 1 .. total, agent : People]
    /\ told \cup finished \cup popped \subseteq 1 .. total
    /\ \A t \in turns : t.id \in Pasts \/ (at.step = "send" /\ t.id = Chat!This)
    /\ \A t \in turns : t.id \notin watching
    /\ \A t, s \in turns : t.id = s.id => t = s
    /\ \A t \in turns : \/ renders[t.agent] = t.id
                        \/ t.id \in told \cup finished \cup popped
                        \/ at.step = "swapped" /\ at.old = t.id
    /\ at.step = "swapped" => renders[at.agent] = Chat!This \/ Chat!This \in popped \cup finished

BotInv == ChatTypes /\ UpdatesInv /\ FlowsInv /\ CallsInv /\ OnceInv /\ PanesInv /\ TurnsInv

(* Sequences of updates                                                    *)

\* What is appended comes last.
LEMMA IdsAppend ==
    ASSUME NEW s \in Seq(Items), NEW e \in Items
    PROVE  /\ Append(s, e) \in Seq(Items)
           /\ Ids(Append(s, e)) = Ids(s) \cup {e.id}
           /\ Rising(s) /\ (\A n \in Ids(s) : n < e.id) => Rising(Append(s, e))
<1> DEFINE r == Append(s, e)
<1>1. /\ r \in Seq(Items) /\ Len(r) = Len(s) + 1 /\ Len(s) \in Nat /\ r[Len(s) + 1] = e
      /\ \A i \in 1 .. Len(s) : r[i] = s[i]
  BY AppendProperties, LenProperties
<1> HIDE DEF r
<1>2. Ids(r) = Ids(s) \cup {e.id}
  <2>1. \A i : i \in 1 .. Len(r) <=> i \in 1 .. Len(s) \/ i = Len(s) + 1
    BY <1>1
  <2> QED BY <1>1, <2>1 DEF Ids
<1>3. ASSUME Rising(s), \A n \in Ids(s) : n < e.id PROVE Rising(r)
  <2>1. ASSUME NEW i \in 1 .. Len(r), NEW j \in 1 .. Len(r), i < j PROVE r[i].id < r[j].id
    <3>1. i \in 1 .. Len(s) /\ (j \in 1 .. Len(s) \/ j = Len(s) + 1)
      BY <1>1, <2>1
    <3> QED BY <1>1, <1>3, <2>1, <3>1 DEF Ids, Rising
  <2> QED BY <2>1 DEF Rising
<1> QED BY <1>1, <1>2, <1>3 DEF r

\* What is taken is the first.
LEMMA IdsTail ==
    ASSUME NEW s \in Seq(Items), s # <<>>, Rising(s)
    PROVE  /\ Head(s) \in Items /\ Tail(s) \in Seq(Items) /\ Rising(Tail(s))
           /\ Ids(s) = {Head(s).id} \cup Ids(Tail(s))
           /\ \A n \in Ids(Tail(s)) : n > Head(s).id
<1> DEFINE r == Tail(s)
<1>1. /\ r \in Seq(Items) /\ Len(r) = Len(s) - 1 /\ Head(s) = s[1] /\ Head(s) \in Items
      /\ \A i \in 1 .. Len(r) : r[i] = s[i + 1]
  BY HeadTailProperties
<1>2. Len(s) \in Nat \ {0}
  BY EmptySeq
<1> HIDE DEF r
<1>3. \A i \in 1 .. Len(r) : i + 1 \in 1 .. Len(s) /\ 1 \in 1 .. Len(s) /\ 1 < i + 1
  BY <1>1, <1>2
<1>4. \A i \in 1 .. Len(s) : i = 1 \/ (i - 1 \in 1 .. Len(r) /\ r[i - 1] = s[i])
  <2>1. ASSUME NEW i \in 1 .. Len(s), i # 1 PROVE i - 1 \in 1 .. Len(r) /\ r[i - 1] = s[i]
    <3>1. i - 1 \in 1 .. Len(r) /\ (i - 1) + 1 = i
      BY <1>1, <1>2, <2>1
    <3>2. r[i - 1] = s[(i - 1) + 1]
      BY <1>1, <3>1
    <3> QED BY <3>1, <3>2
  <2> QED BY <2>1
<1>5. Ids(s) = {s[1].id} \cup Ids(r)
  <2>1. 1 \in 1 .. Len(s)
    BY <1>2
  <2> QED BY <1>1, <1>3, <1>4, <2>1 DEF Ids
<1>6. \A n \in Ids(r) : s[1].id < n
  BY <1>1, <1>3 DEF Ids, Rising
<1>7. Rising(r)
  <2>1. ASSUME NEW i \in 1 .. Len(r), NEW j \in 1 .. Len(r), i < j PROVE r[i].id < r[j].id
    <3>1. i + 1 \in 1 .. Len(s) /\ j + 1 \in 1 .. Len(s) /\ i + 1 < j + 1
      BY <1>3, <2>1
    <3> QED BY <1>1, <3>1 DEF Rising
  <2> QED BY <2>1 DEF Rising
<1>8. \A n \in Ids(r) : n \in Nat
  <2>1. \A i \in 1 .. Len(r) : r[i] \in Items
    BY <1>1
  <2> QED BY <2>1 DEF Ids, Items
<1>9. s[1].id \in Nat
  BY <1>1 DEF Items
<1> QED BY <1>1, <1>5, <1>6, <1>7, <1>8, <1>9 DEF r

\* Numbers are numbers.
LEMMA IdsAre == ASSUME NEW s \in Seq(Items) PROVE Ids(s) \subseteq Nat \ {0}
<1>1. \A i \in 1 .. Len(s) : s[i] \in Items
  OBVIOUS
<1> QED BY <1>1 DEF Ids, Items

\* Telegram's answer: what it holds from the offset on.
LEMMA UnconfirmedIs ==
    ASSUME ChatConstants, ChatTypes, UpdatesInv, NEW q, q = Chat!Unconfirmed(offset)
    PROVE  /\ q \in Seq(Items) /\ Len(q) <= total /\ Rising(q)
           /\ \A i \in 1 .. Len(q) : q[i].id = total - Len(q) + i /\ q[i].is \in said.of
           /\ Ids(q) = {u \in Ids(telegram) : u >= offset}
<1> DEFINE len == Len(telegram)
<1>1. len \in Nat /\ len <= total /\ total \in Nat /\ offset \in Nat /\ offset <= total + 1
      /\ telegram \in Seq(Items)
  BY LenProperties DEF ChatTypes, UpdatesInv, ChatConstants
<1>2. \A i \in 1 .. len : telegram[i].id = total - len + i /\ telegram[i].is \in said.of
  BY DEF UpdatesInv
<1> HIDE DEF len
<1>3. CASE offset <= Chat!Oldest
  <2>1. q = telegram
    BY <1>3 DEF Chat!Unconfirmed
  <2>2. \A i \in 1 .. len : telegram[i].id >= offset
    BY <1>1, <1>2, <1>3 DEF Chat!Oldest, len
  <2>3. Rising(q)
    BY <1>1, <1>2, <2>1 DEF Rising, len
  <2> QED BY <1>1, <1>2, <2>1, <2>2, <2>3 DEF len, Ids
<1>4. CASE ~ (offset <= Chat!Oldest)
  <2> DEFINE k == offset - Chat!Oldest
  <2>1. k \in Nat /\ k >= 1 /\ k <= len /\ offset = total + 1 - len + k
    BY <1>1, <1>4 DEF Chat!Oldest, len
  <2>2. q = SubSeq(telegram, k + 1, len)
    <3>1. offset + 1 - Chat!Oldest = k + 1
      BY <1>1 DEF Chat!Oldest, len
    <3> QED BY <1>4, <3>1 DEF Chat!Unconfirmed, len
  <2> HIDE DEF k
  <2>3. \A i \in (k + 1) .. len : telegram[i] \in Items
    BY <1>1, <2>1 DEF len
  <2>4. /\ q \in Seq(Items) /\ Len(q) = len - k
        /\ \A i \in 1 .. (len - k) : q[i] = telegram[k + i]
    <3>1. q \in Seq(Items) /\ Len(q) = (IF k + 1 <= len THEN len - (k + 1) + 1 ELSE 0)
          /\ \A i \in 1 .. (len - (k + 1) + 1) : q[i] = telegram[(k + 1) + i - 1]
      <4>1. k + 1 \in Int /\ len \in Int
        BY <1>1, <2>1
      <4> QED BY <2>2, <2>3, <4>1, SubSeqProperties
    <3>2. len - (k + 1) + 1 = len - k /\ \A i \in 1 .. (len - k) : (k + 1) + i - 1 = k + i
      BY <1>1, <2>1
    <3>3. (IF k + 1 <= len THEN len - (k + 1) + 1 ELSE 0) = len - k
      BY <1>1, <2>1
    <3>4. \A i \in 1 .. (len - k) : q[i] = telegram[k + i]
      BY <3>1, <3>2
    <3> QED BY <3>1, <3>3, <3>4
  <2>5. \A i \in 1 .. Len(q) : k + i \in 1 .. len /\ q[i] = telegram[k + i]
    BY <1>1, <2>1, <2>4
  <2>6. \A i \in 1 .. Len(q) : q[i].id = total - Len(q) + i /\ q[i].is \in said.of /\ q[i].id >= offset
    <3>1. ASSUME NEW i \in 1 .. Len(q)
          PROVE  q[i].id = total - len + (k + i) /\ q[i].is \in said.of
      BY <1>2, <2>5
    <3>2. ASSUME NEW i \in 1 .. Len(q)
          PROVE  total - len + (k + i) = total - Len(q) + i /\ total - len + (k + i) >= offset
      <4>1. Len(q) = len - k
        BY <2>4
      <4>2. i \in Nat /\ i >= 1
        OBVIOUS
      <4> QED BY <1>1, <2>1, <4>1, <4>2
    <3> QED BY <3>1, <3>2
  <2>7. \A i \in 1 .. len : telegram[i].id >= offset => i - k \in 1 .. Len(q) /\ q[i - k] = telegram[i]
    <3>1. ASSUME NEW i \in 1 .. len, telegram[i].id >= offset
          PROVE  i - k \in 1 .. Len(q) /\ k + (i - k) = i
      BY <1>1, <1>2, <2>1, <2>4, <3>1
    <3>2. ASSUME NEW i \in 1 .. len, telegram[i].id >= offset
          PROVE  q[i - k] = telegram[k + (i - k)]
      BY <2>5, <3>1, <3>2
    <3> QED BY <3>1, <3>2
  <2>8. Ids(q) = {u \in Ids(telegram) : u >= offset}
    BY <2>5, <2>6, <2>7 DEF Ids, len
  <2>9. Rising(q)
    BY <1>1, <2>1, <2>4, <2>6 DEF Rising
  <2> QED BY <1>1, <2>1, <2>4, <2>6, <2>8, <2>9
<1> QED BY <1>3, <1>4

(* The worker and what is past                                             *)

\* The worker that is at nothing.
LEMMA AsleepIs ==
    /\ Chat!Asleep.step = "asleep" /\ Chat!Asleep.flow = Chat!NoFlow /\ Chat!Asleep.was = Chat!NoFlow /\ Chat!Asleep.agent = ChatHome
    /\ Chat!Asleep.old = 0 /\ Chat!Asleep \in Workers /\ Chat!NoFlow \in Flows
    /\ Chat!NoFlow.opened = 0 /\ Chat!NoFlow.answers = <<>>
<1>1. Chat!NoFlow \in Flows /\ Chat!NoFlow.opened = 0 /\ Chat!NoFlow.answers = <<>>
  <2>1. ChatHome \in People /\ <<>> \in Seq(Nat) /\ "none" \in DOMAIN Chat!After \cup {"tap", "none"}
    BY EmptySeq DEF People
  <2> DEFINE D == DOMAIN Chat!After \cup {"tap", "none"}
             W == {"none", "hire", "ticket", "retire", "broadcast"}
  <2>2. Flows = [flow : W, stage : D, agent : People, opened : Nat, answers : Seq(Nat)]
    BY DEF Flows
  <2>3. "none" \in D /\ "none" \in W
    BY <2>1
  <2> HIDE DEF D, W
  <2>4. Chat!NoFlow.opened = 0 /\ Chat!NoFlow.answers = <<>>
    BY DEF Chat!NoFlow
  <2>5. \A e \in Seq(Nat) : [flow |-> "none", stage |-> "none", agent |-> ChatHome, opened |-> 0, answers |-> e] \in Flows
    BY <2>1, <2>2, <2>3
  <2> QED BY <2>1, <2>4, <2>5 DEF Chat!NoFlow
<1>2. Chat!Asleep.step = "asleep" /\ Chat!Asleep.flow = Chat!NoFlow /\ Chat!Asleep.was = Chat!NoFlow /\ Chat!Asleep.agent = ChatHome
      /\ Chat!Asleep.old = 0
  BY DEF Chat!Asleep
<1>3. ChatHome \in People
  BY DEF People
<1> DEFINE v == Chat!Asleep.u
<1>4. Chat!Asleep = [step |-> "asleep", flow |-> Chat!NoFlow, was |-> Chat!NoFlow, agent |-> ChatHome, old |-> 0, u |-> v]
  BY DEF Chat!Asleep
<1>5. Workers = [step : {"asleep", "dispatch", "submit", "add", "swapped", "send", "start"},
                 u : Items \cup {v}, flow : Flows, was : Flows, agent : People, old : Nat]
  BY DEF Workers
<1> HIDE DEF v
<1>6. Chat!Asleep \in Workers
  BY <1>1, <1>3, <1>4, <1>5
<1> QED BY <1>1, <1>2, <1>6

\* The worker is where it was, has ended with its update, or is still at it.
Quiet == UNCHANGED <<said, total, telegram, fetched, offset, queue, crashes, lost>>
Busy  == at.step # "asleep" /\ at'.step # "asleep" /\ at'.u = at.u /\ UNCHANGED handled
Ended == at.step # "asleep" /\ Chat!Handled

\* What a step is for the updates.
LEMMA WorkerMoves ==
    ASSUME ChatTypes, [Chat!Next]_Chat!bvars
    PROVE  \/ (\E u \in said.of : Chat!Say(u)) \/ Chat!GetUpdates \/ Chat!Submit \/ Chat!Take \/ Chat!Crash
           \/ Quiet /\ (UNCHANGED <<at, handled>> \/ Busy \/ Ended)
<1>0. /\ at \in Workers /\ \A s : at.step = s => (Chat!Now(s) <=> TRUE)
  BY DEF ChatTypes, Chat!Now
<1>1. CASE Chat!DeclineEdited \/ Chat!Begin \/ Chat!Cancel \/ Chat!AskAgain \/ Chat!Advance \/ Chat!Declined \/ Chat!Photo \/ Chat!Control
  BY <1>1
  DEF Chat!DeclineEdited, Chat!Begin, Chat!Cancel, Chat!AskAgain, Chat!Advance, Chat!Declined,
      Chat!Photo, Chat!Control, Quiet, Ended,
              Chat!incoming, Chat!Now, Chat!Tapped, Chat!Command, Chat!Says, Chat!Typed, Chat!Answering
<1>2. CASE Chat!Submitted \/ Chat!Raised \/ Chat!Sent \/ Chat!Refused
  BY <1>2
  DEF Chat!Submitted, Chat!Raised, Chat!Sent, Chat!Refused, Quiet, Ended, Chat!incoming,
      Chat!Now
<1>3. CASE Chat!PickTarget \/ Chat!ToggleVoice \/ Chat!Look \/ Chat!WatchStart \/ Chat!Unwatch \/ Chat!StopNothing
  BY <1>3
  DEF Chat!PickTarget, Chat!ToggleVoice, Chat!Look, Chat!WatchStart, Chat!Unwatch,
      Chat!StopNothing, Quiet, Ended,
              Chat!incoming, Chat!Now, Chat!Tapped, Chat!Command, Chat!Says, Chat!Typed
<1>4. CASE Chat!LastAnswer \/ Chat!Priority \/ Chat!Prompt \/ Chat!StopOld \/ Chat!WatchPick
  <2>1. Quiet /\ UNCHANGED handled /\ at.step # "asleep"
    BY <1>4
    DEF Chat!LastAnswer, Chat!Priority, Chat!Prompt, Chat!StopOld, Chat!WatchPick, Quiet,
        Chat!incoming, Chat!Now, Chat!Answering,
                Chat!Tapped, Chat!Command, Chat!Says, Chat!Typed
  <2>2. at'.u = at.u /\ at'.step # "asleep"
    BY <1>0, <1>4
    DEF Chat!LastAnswer, Chat!Priority, Chat!Prompt, Chat!StopOld, Chat!WatchPick, Workers
  <2> QED BY <2>1, <2>2 DEF Busy
<1>5. CASE UNCHANGED Chat!bvars
  BY <1>5 DEF Chat!bvars, Chat!incoming, Quiet
<1>6. CASE \/ \E a \in ChatAgents \cup {ChatHome} : Chat!Reply(a)
           \/ \E t \in popped : Chat!Finalize(t)
           \/ \E t \in turns : Chat!TurnEnds(t)
           \/ \E w \in watching : Chat!WatchEnds(w)
           \/ \E w \in leaving : Chat!Clear(w)
  BY <1>6
  DEF Chat!Reply, Chat!Finalize, Chat!TurnEnds, Chat!WatchEnds, Chat!Clear, Chat!incoming, Quiet
<1> QED BY <1>1, <1>2, <1>3, <1>4, <1>5, <1>6 DEF Chat!Next

\* What was past stays past, and the update that the worker has ended with is past.
LEMMA PastStays ==
    ASSUME ChatConstants, ChatTypes, UpdatesInv, [Chat!Next]_Chat!bvars, ~ Chat!Crash
    PROVE  /\ \A n \in Nat : Past(n) => Past(n)'
           /\ Ended => \A n \in Nat : n = Chat!This => Past(n)'
           /\ total <= total' /\ crashes' = crashes
<1>0. /\ total \in Nat /\ offset \in Nat /\ Ids(queue) \subseteq Nat /\ at \in Workers
      /\ at.step # "asleep" => Chat!This \in Nat \ {0}
      /\ \A n \in Waiting : n < offset
      /\ \A n \in Ids(queue), m \in Hands : m < n
  <2>1. /\ total \in Nat /\ offset \in Nat /\ at \in Workers /\ queue \in Seq(Items)
        /\ at.step # "asleep" => at.u \in Items
    BY DEF ChatTypes, ChatConstants
  <2>2. Ids(queue) \subseteq Nat
    BY <2>1, IdsAre
  <2>3. at.step # "asleep" => Chat!This \in Nat \ {0}
    BY <2>1 DEF Items, Chat!This
  <2> QED BY <2>1, <2>2, <2>3 DEF UpdatesInv
<1>1. CASE \E u \in said.of : Chat!Say(u)
  <2>1. UNCHANGED <<offset, queue, at, crashes>> /\ total' = total + 1
    BY <1>1 DEF Chat!Say
  <2>2. ~ Ended
    BY <2>1, AsleepIs DEF Ended, Chat!Handled
  <2> QED BY <1>0, <2>1, <2>2 DEF Past, Waiting, Hands, Chat!This
<1>2. CASE Chat!GetUpdates
  <2>1. UNCHANGED <<offset, queue, at, crashes, total>>
    BY <1>2 DEF Chat!GetUpdates
  <2>2. ~ Ended
    BY <2>1, AsleepIs DEF Ended, Chat!Handled
  <2> QED BY <1>0, <2>1, <2>2 DEF Past, Waiting, Hands, Chat!This
<1>3. CASE Chat!Submit
  <2> DEFINE u == Head(fetched)
  <2>1. u \in Items /\ u.id \in Ids(fetched) /\ queue \in Seq(Items) /\ fetched # <<>>
    BY <1>3, IdsTail DEF Chat!Submit, ChatTypes, UpdatesInv
  <2>2. u.id \in Nat \ {0} /\ u.id >= offset
    BY <2>1 DEF UpdatesInv, Items
  <2>3. /\ UNCHANGED <<at, crashes, total>> /\ offset' = u.id + 1
        /\ queue' = queue \/ queue' = Append(queue, u)
    BY <1>3 DEF Chat!Submit
  <2> HIDE DEF u
  <2>4. Ids(queue') \subseteq Ids(queue) \cup {u.id}
    BY <2>1, <2>3, IdsAppend
  <2>5. Waiting' \subseteq Waiting \cup {u.id}
    BY <2>3, <2>4 DEF Waiting, Hands, Chat!This
  <2>6. ~ Ended
    BY <2>3, AsleepIs DEF Ended, Chat!Handled
  <2>7. ASSUME NEW n \in Nat, Past(n) PROVE Past(n)'
    <3>1. n < u.id /\ n < offset'
      BY <1>0, <2>2, <2>3, <2>7 DEF Past
    <3> QED BY <2>5, <2>7, <3>1 DEF Past
  <2> QED BY <1>0, <2>3, <2>6, <2>7
<1>4. CASE Chat!Take
  <2> DEFINE u == Head(queue)
  <2>1. /\ UNCHANGED <<offset, crashes, total>> /\ at = Chat!Asleep /\ queue # <<>> /\ queue' = Tail(queue)
        /\ at' = [Chat!Asleep EXCEPT !.step = "dispatch", !.u = u]
    BY <1>4 DEF Chat!Take, Chat!incoming
  <2>2. u \in Items /\ Ids(queue) = {u.id} \cup Ids(queue')
    BY <2>1, IdsTail DEF ChatTypes, UpdatesInv
  <2>3. at.step = "asleep" /\ at'.step = "dispatch" /\ at'.u = u /\ ~ Ended
    <3>1. at.step = "asleep" /\ at'.step = "dispatch" /\ at'.u = u
      BY <2>1, AsleepIs DEF Workers
    <3> QED BY <3>1 DEF Ended
  <2>4. Waiting' = Waiting
    BY <2>2, <2>3 DEF Waiting, Hands, Chat!This
  <2> QED BY <1>0, <2>1, <2>3, <2>4 DEF Past, Ended
<1>5. CASE Quiet /\ (UNCHANGED <<at, handled>> \/ Busy \/ Ended)
  <2>1. UNCHANGED <<total, crashes, offset, queue>> /\ Waiting' \subseteq Waiting
    BY <1>5, AsleepIs DEF Quiet, Busy, Ended, Chat!Handled, Waiting, Hands, Chat!This
  <2>2. \A n \in Nat : Past(n) => Past(n)'
    BY <2>1 DEF Past
  <2>3. ASSUME Ended PROVE \A n \in Nat : n = Chat!This => Past(n)'
    <3>1. Waiting' = Ids(queue)
      BY <2>1, <2>3, AsleepIs DEF Ended, Chat!Handled, Waiting, Hands
    <3>2. Chat!This \in Hands
      BY <2>3 DEF Ended, Hands
    <3> QED BY <1>0, <2>1, <3>1, <3>2 DEF Past, Waiting
  <2> QED BY <1>0, <2>1, <2>2, <2>3
<1> QED BY <1>1, <1>2, <1>3, <1>4, <1>5, WorkerMoves

\* The numbers that are past are more and more.
LEMMA PastsGrow ==
    ASSUME ChatConstants, ChatTypes, UpdatesInv, [Chat!Next]_Chat!bvars, ~ Chat!Crash
    PROVE  /\ Pasts \subseteq Pasts' /\ (Ended => Chat!This \in Pasts') /\ total <= total' /\ crashes' = crashes
           /\ at.step # "asleep" => Chat!This \in Nat \ {0} /\ \A n \in Pasts : n < Chat!This
           /\ Pasts \subseteq Nat
<1>1. at.step # "asleep" => Chat!This \in Nat \ {0}
  BY DEF ChatTypes, Items, Chat!This
<1>2. at.step # "asleep" => Chat!This \in Waiting
  BY DEF Waiting, Hands
<1>3. Ended => Chat!This \in Pasts'
  BY <1>1, PastStays DEF Pasts, Ended
<1>4. Pasts \subseteq Pasts'
  BY PastStays DEF Pasts
<1> QED BY <1>1, <1>2, <1>3, <1>4, PastStays DEF Pasts, Past

\* 0 stands for none.
LEMMA NoneIsPast == ASSUME Waiting \subseteq Nat \ {0} PROVE 0 \in Pasts
BY DEF Pasts, Past

(* Updates                                                                 *)

\* What is known of the updates' places.
LEMMA UpdatesAre ==
    ASSUME ChatConstants, ChatTypes, UpdatesInv
    PROVE  /\ total \in Nat /\ offset \in Nat /\ offset <= total + 1 /\ Len(telegram) \in Nat
           /\ telegram \in Seq(Items) /\ fetched \in Seq(Items) /\ queue \in Seq(Items)
           /\ Ids(queue) \subseteq Nat \ {0} /\ Ids(fetched) \subseteq 1 .. total
           /\ Ids(telegram) \subseteq 1 .. total
           /\ at \in Workers /\ (at.step # "asleep" => at.u \in Items /\ Chat!This \in Nat \ {0})
           /\ Waiting \subseteq 1 .. total
<1>1. /\ total \in Nat /\ offset \in Nat /\ offset <= total + 1 /\ at \in Workers
      /\ telegram \in Seq(Items) /\ fetched \in Seq(Items) /\ queue \in Seq(Items)
      /\ at.step # "asleep" => at.u \in Items
  BY DEF ChatTypes, ChatConstants
<1>2. Ids(queue) \subseteq Nat \ {0} /\ Ids(fetched) \subseteq Nat \ {0} /\ Ids(telegram) \subseteq Nat \ {0}
  BY <1>1, IdsAre
<1>3. at.step # "asleep" => Chat!This \in Nat \ {0}
  BY <1>1 DEF Items, Chat!This
<1>4. Waiting \subseteq Nat \ {0}
  BY <1>2, <1>3 DEF Waiting, Hands
<1>5. Len(telegram) \in Nat /\ Len(telegram) <= total
  BY <1>1, LenProperties DEF UpdatesInv
<1>6. \A i \in 1 .. Len(telegram) : telegram[i].id \in 1 .. total
  <2>1. ASSUME NEW i \in 1 .. Len(telegram) PROVE telegram[i].id = total - Len(telegram) + i
    BY DEF UpdatesInv
  <2> HIDE DEF UpdatesInv
  <2>2. ASSUME NEW k \in Nat, k <= total, NEW i \in 1 .. k PROVE total - k + i \in 1 .. total
    BY <1>1, <2>2
  <2> QED BY <1>5, <2>1, <2>2
<1>7. \A n \in Waiting : n < offset
  BY DEF UpdatesInv
<1>8. Ids(fetched) \subseteq offset .. total
  BY DEF UpdatesInv
<1> QED BY <1>1, <1>2, <1>3, <1>4, <1>5, <1>6, <1>7, <1>8 DEF Ids

\* A step keeps UpdatesInv: an update leaves a place for the next one, or is dealt with.
LEMMA UpdatesKept ==
    ASSUME ChatConstants, ChatTypes, UpdatesInv, [Chat!Next]_Chat!bvars
    PROVE  /\ said' = said /\ total' \in 0 .. said.length
           /\ telegram' \in Seq(Items) /\ fetched' \in Seq(Items) /\ queue' \in Seq(Items)
           /\ offset' \in 0 .. total' + 1
           /\ handled' \cup lost' \subseteq 1 .. total'
           /\ UpdatesInv'
<1>0. /\ total \in Nat /\ offset \in Nat /\ offset <= total + 1 /\ Len(telegram) \in Nat
      /\ telegram \in Seq(Items) /\ fetched \in Seq(Items) /\ queue \in Seq(Items)
      /\ Ids(queue) \subseteq Nat \ {0} /\ Ids(fetched) \subseteq 1 .. total
      /\ Ids(telegram) \subseteq 1 .. total
      /\ at \in Workers /\ (at.step # "asleep" => at.u \in Items /\ Chat!This \in Nat \ {0})
      /\ Waiting \subseteq 1 .. total
  BY UpdatesAre
<1>a. /\ total \in 0 .. said.length /\ said.length \in Nat /\ said.of \subseteq Chat!Update
      /\ handled \cup lost \subseteq 1 .. total
  BY DEF ChatTypes, ChatConstants
<1>b. /\ Len(telegram) <= total
      /\ \A i \in 1 .. Len(telegram) : telegram[i].id = total - Len(telegram) + i /\ telegram[i].is \in said.of
      /\ Rising(fetched) /\ Rising(queue)
      /\ Ids(fetched) \subseteq offset .. total
      /\ \A u \in Ids(telegram) :
            u >= offset /\ fetched # <<>> => u \in Ids(fetched) \/ \A n \in Ids(fetched) : n < u
      /\ \A n \in Waiting : n < offset
      /\ \A n \in Ids(queue), m \in Hands : m < n
      /\ \A u \in 1 .. total :
            u \in handled \cup lost \cup Waiting \/ (u >= offset /\ u \in Ids(telegram))
  BY DEF UpdatesInv
<1>1. ASSUME NEW u \in said.of, Chat!Say(u) PROVE said' = said /\ total' \in 0 .. said.length
           /\ telegram' \in Seq(Items) /\ fetched' \in Seq(Items) /\ queue' \in Seq(Items)
           /\ offset' \in 0 .. total' + 1
           /\ handled' \cup lost' \subseteq 1 .. total' /\ UpdatesInv'
  <2> DEFINE e == [id |-> total + 1, is |-> u]
  <2>1. /\ total < said.length /\ total' = total + 1 /\ telegram' = Append(telegram, e)
        /\ UNCHANGED <<said, fetched, offset, queue, at, handled, lost>>
    BY <1>1 DEF Chat!Say
  <2>2. e \in Items /\ e.id = total + 1 /\ e.is = u
    BY <1>0, <1>1, <1>a DEF Items
  <2> HIDE DEF e
  <2>3. /\ telegram' \in Seq(Items) /\ Len(telegram') = Len(telegram) + 1
        /\ telegram'[Len(telegram) + 1] = e /\ \A i \in 1 .. Len(telegram) : telegram'[i] = telegram[i]
    BY <1>0, <2>1, <2>2, AppendProperties
  <2>4. Ids(telegram') = Ids(telegram) \cup {total + 1}
    BY <1>0, <2>1, <2>2, IdsAppend
  <2>5. Waiting' = Waiting /\ Hands' = Hands
    BY <2>1 DEF Waiting, Hands, Chat!This
  <2>6. total' \in 0 .. said.length /\ offset' \in 0 .. total' + 1 /\ handled' \cup lost' \subseteq 1 .. total'
    BY <1>0, <1>a, <2>1
  <2>7. \A i \in 1 .. Len(telegram') :
            telegram'[i].id = total' - Len(telegram') + i /\ telegram'[i].is \in said'.of
    <3>1. ASSUME NEW i \in 1 .. Len(telegram) PROVE telegram'[i].id = total' - Len(telegram') + i /\ telegram'[i].is \in said'.of
      <4>1. telegram[i].id = total - Len(telegram) + i /\ telegram[i].is \in said.of
        BY <1>b
      <4>2. total - Len(telegram) = total' - Len(telegram')
        BY <1>0, <2>1, <2>3
      <4> QED BY <2>1, <2>3, <4>1, <4>2
    <3>2. telegram'[Len(telegram) + 1].id = total' - Len(telegram') + (Len(telegram) + 1)
      BY <1>0, <2>1, <2>2, <2>3
    <3>3. \A i \in 1 .. Len(telegram') : i \in 1 .. Len(telegram) \/ i = Len(telegram) + 1
      BY <1>0, <2>3
    <3>4. telegram'[Len(telegram) + 1].is \in said'.of
      BY <1>1, <2>1, <2>2, <2>3
    <3> QED BY <3>1, <3>2, <3>3, <3>4
  <2>8. Len(telegram') <= total' /\ Ids(fetched') \subseteq offset' .. total'
    <3>1. Len(telegram') <= total'
      BY <1>0, <1>b, <2>1, <2>3
    <3>2. offset' .. total' = offset .. total + 1 /\ offset .. total \subseteq offset .. total + 1
      BY <1>0, <2>1
    <3>3. Ids(fetched') = Ids(fetched)
      BY <2>1
    <3> QED BY <1>b, <3>1, <3>2, <3>3
  <2>9. \A v \in Ids(telegram') :
            v >= offset' /\ fetched' # <<>> => v \in Ids(fetched') \/ \A n \in Ids(fetched') : n < v
    <3>1. \A n \in Ids(fetched) : n < total + 1
      BY <1>0
    <3>2. Ids(fetched') = Ids(fetched)
      BY <2>1
    <3> QED BY <1>b, <2>1, <2>4, <3>1, <3>2
  <2>10. \A v \in 1 .. total' :
            v \in handled' \cup lost' \cup Waiting' \/ (v >= offset' /\ v \in Ids(telegram'))
    <3>1. \A v \in 1 .. total' : v \in 1 .. total \/ v = total + 1
      BY <1>0, <2>1
    <3>2. total + 1 >= offset
      BY <1>0
    <3> QED BY <1>b, <2>1, <2>4, <2>5, <3>1, <3>2
  <2>11. Rising(fetched') /\ Rising(queue') /\ (\A n \in Waiting' : n < offset')
         /\ \A n \in Ids(queue'), m \in Hands' : m < n
    BY <1>b, <2>1, <2>5
  <2> QED BY <1>0, <2>1, <2>3, <2>6, <2>7, <2>8, <2>9, <2>10, <2>11 DEF UpdatesInv
<1>2. CASE Chat!GetUpdates
  <2>1. /\ telegram' = Chat!Unconfirmed(offset) /\ fetched' = telegram'
        /\ UNCHANGED <<said, total, offset, queue, at, handled, lost>>
    BY <1>2 DEF Chat!GetUpdates
  <2>2. /\ telegram' \in Seq(Items) /\ Len(telegram') <= total /\ Rising(telegram')
        /\ \A i \in 1 .. Len(telegram') : telegram'[i].id = total - Len(telegram') + i /\ telegram'[i].is \in said.of
        /\ Ids(telegram') = {u \in Ids(telegram) : u >= offset}
    BY <2>1, UnconfirmedIs
  <2>3. Waiting' = Waiting /\ Hands' = Hands
    BY <2>1 DEF Waiting, Hands, Chat!This
  <2>4. Ids(fetched') = Ids(telegram') /\ Ids(fetched') \subseteq offset' .. total'
    BY <1>0, <2>1, <2>2
  <2> QED BY <1>0, <1>a, <1>b, <2>1, <2>2, <2>3, <2>4 DEF UpdatesInv
<1>3. CASE Chat!Submit
  <2> DEFINE u == Head(fetched)
  <2>1. /\ UNCHANGED <<said, total, telegram, at, lost>> /\ fetched # <<>> /\ fetched' = Tail(fetched)
        /\ offset' = u.id + 1
        /\ \/ queue' = Append(queue, u) /\ handled' = handled
           \/ queue' = queue /\ handled' = handled \cup {u.id}
    BY <1>3 DEF Chat!Submit
  <2>2. /\ u \in Items /\ fetched' \in Seq(Items) /\ Rising(fetched')
        /\ Ids(fetched) = {u.id} \cup Ids(fetched') /\ \A n \in Ids(fetched') : n > u.id
    BY <1>0, <1>b, <2>1, IdsTail
  <2> HIDE DEF u
  <2>3. u.id \in 1 .. total /\ u.id >= offset /\ u.id \in Ids(fetched)
    BY <1>0, <1>b, <2>2
  <2>4. \A n \in Ids(queue) : n < u.id
    BY <1>0, <1>b, <2>3 DEF Waiting
  <2>5. /\ queue' \in Seq(Items) /\ Rising(queue')
        /\ (Ids(queue') = Ids(queue) \cup {u.id} /\ handled' = handled)
           \/ (Ids(queue') = Ids(queue) /\ handled' = handled \cup {u.id})
    <3>1. CASE queue' = Append(queue, u) /\ handled' = handled
      BY <1>0, <1>b, <2>2, <2>4, <3>1, IdsAppend
    <3>2. CASE queue' = queue /\ handled' = handled \cup {u.id}
      BY <1>0, <1>b, <3>2
    <3> QED BY <2>1, <3>1, <3>2
  <2>6. Hands' = Hands
    BY <2>1 DEF Hands, Chat!This
  <2>7. handled' \cup lost' \subseteq 1 .. total' /\ offset' \in 0 .. total' + 1
    BY <1>0, <1>a, <2>1, <2>3
  <2>8. Ids(fetched') \subseteq offset' .. total'
    BY <1>0, <2>1, <2>2, <2>3
  <2>9. ASSUME NEW v \in Ids(telegram'), v >= offset'
        PROVE  v \in Ids(fetched') \/ \A n \in Ids(fetched') : n < v
    <3>1. v \in Ids(telegram) /\ v >= offset /\ v # u.id
      BY <1>0, <2>1, <2>3, <2>9
    <3> QED BY <1>b, <2>1, <2>2, <3>1
  <2>10. \A n \in Waiting' : n < offset'
    <3>1. \A n \in Waiting : n < u.id + 1
      BY <1>0, <1>b, <2>3
    <3>2. Waiting' \subseteq Waiting \cup {u.id}
      BY <2>5, <2>6 DEF Waiting
    <3> QED BY <2>1, <2>3, <3>1, <3>2
  <2>11. \A n \in Ids(queue'), m \in Hands' : m < n
    <3>1. \A m \in Hands : m < u.id
      BY <1>0, <1>b, <2>3 DEF Waiting
    <3> QED BY <1>b, <2>5, <2>6, <3>1
  <2>12. ASSUME NEW v \in 1 .. total'
         PROVE  v \in handled' \cup lost' \cup Waiting' \/ (v >= offset' /\ v \in Ids(telegram'))
    <3>1. u.id \in handled' \cup Waiting' /\ Waiting \subseteq Waiting' /\ handled \subseteq handled'
      BY <2>5, <2>6 DEF Waiting
    <3>2. ASSUME v >= offset, v \in Ids(telegram), v # u.id PROVE v >= offset'
      <4>1. v \in Ids(fetched') \/ u.id < v
        BY <1>b, <2>1, <2>2, <2>3, <3>2
      <4>2. v \in Nat /\ u.id < v
        BY <1>0, <2>1, <2>2, <2>3, <4>1
      <4> QED BY <2>1, <2>3, <4>2
    <3> QED BY <1>b, <2>1, <3>1, <3>2
  <2> QED BY <1>0, <1>a, <1>b, <2>1, <2>2, <2>5, <2>7, <2>8, <2>9, <2>10, <2>11, <2>12 DEF UpdatesInv
<1>4. CASE Chat!Take
  <2> DEFINE u == Head(queue)
  <2>1. /\ UNCHANGED <<said, total, telegram, fetched, offset, handled, lost>> /\ at = Chat!Asleep
        /\ queue # <<>> /\ queue' = Tail(queue) /\ at' = [Chat!Asleep EXCEPT !.step = "dispatch", !.u = u]
    BY <1>4 DEF Chat!Take, Chat!incoming
  <2>2. /\ u \in Items /\ queue' \in Seq(Items) /\ Rising(queue')
        /\ Ids(queue) = {u.id} \cup Ids(queue') /\ \A n \in Ids(queue') : n > u.id
    BY <1>0, <1>b, <2>1, IdsTail
  <2>3. at.step = "asleep" /\ at'.step = "dispatch" /\ at'.u = u
    BY <2>1, AsleepIs DEF Workers
  <2> HIDE DEF u
  <2>4. Hands' = {u.id} /\ Waiting' = Waiting
    BY <2>2, <2>3 DEF Waiting, Hands, Chat!This
  <2>5. \A n \in Ids(queue') : u.id < n
    <3>1. u.id \in Nat /\ Ids(queue') \subseteq Nat
      BY <1>0, <2>2
    <3> QED BY <2>2, <3>1
  <2> QED BY <1>0, <1>a, <1>b, <2>1, <2>2, <2>4, <2>5 DEF UpdatesInv
<1>5. CASE Chat!Crash
  <2>1. /\ UNCHANGED <<said, total, telegram, handled>> /\ fetched' = <<>> /\ offset' = 0 /\ queue' = <<>>
        /\ at' = Chat!Asleep
        /\ lost' = lost \cup {u \in 1 .. total : u \notin handled /\ \A i \in DOMAIN telegram : telegram[i].id # u}
    BY <1>5 DEF Chat!Crash
  <2>2. Waiting' = {} /\ Hands' = {}
    BY <2>1, AsleepIs DEF Waiting, Hands, Ids
  <2>3. DOMAIN telegram = 1 .. Len(telegram)
    BY <1>0, LenProperties
  <2>4. \A u \in 1 .. total : u \in handled' \cup lost' \/ u \in Ids(telegram')
    BY <2>1, <2>3 DEF Ids
  <2>5. Ids(fetched') = {} /\ Ids(queue') = {} /\ Rising(fetched') /\ Rising(queue')
        /\ fetched' \in Seq(Items) /\ queue' \in Seq(Items)
    BY <2>1, EmptySeq DEF Ids, Rising
  <2>6. handled' \cup lost' \subseteq 1 .. total' /\ offset' \in 0 .. total' + 1
    BY <1>0, <1>a, <2>1
  <2> QED BY <1>0, <1>a, <1>b, <2>1, <2>2, <2>4, <2>5, <2>6 DEF UpdatesInv
<1>6. CASE Quiet /\ (UNCHANGED <<at, handled>> \/ Busy \/ Ended)
  <2>1. UNCHANGED <<said, total, telegram, fetched, offset, queue, lost>>
    BY <1>6 DEF Quiet
  <2>2. Hands' \subseteq Hands /\ handled' \cup Hands' = handled \cup Hands
    BY <1>6, AsleepIs DEF Busy, Ended, Chat!Handled, Hands, Chat!This
  <2>3. Waiting' \subseteq Waiting /\ handled' \cup Waiting' = handled \cup Waiting
    BY <2>1, <2>2 DEF Waiting
  <2>4. handled' \cup lost' \subseteq 1 .. total'
    BY <1>0, <1>a, <2>1, <2>3
  <2> QED BY <1>0, <1>a, <1>b, <2>1, <2>2, <2>3, <2>4 DEF UpdatesInv
<1> QED BY <1>1, <1>2, <1>3, <1>4, <1>5, <1>6, WorkerMoves

(* Types                                                                   *)

\* A worker that moves on is one.
LEMMA AtMoves ==
    ASSUME NEW a \in Workers
    PROVE  /\ \A s \in {"start", "send"} : [a EXCEPT !.step = s] \in Workers
           /\ \A s \in {"submit", "add"}, f, g \in Flows :
                 [a EXCEPT !.step = s, !.flow = f, !.was = g] \in Workers
           /\ \A g \in People, o \in Nat : [a EXCEPT !.step = "swapped", !.agent = g, !.old = o] \in Workers
           /\ [a EXCEPT !.step = "send", !.old = 0] \in Workers
           /\ \A u \in Items : [a EXCEPT !.step = "dispatch", !.u = u] \in Workers
BY DEF Workers

\* A flow that is answered is one, and has an answer more.
LEMMA AnsweredIs ==
    ASSUME NEW p \in Flows, NEW n \in Nat
    PROVE  LET q == [p EXCEPT !.answers = Append(@, n)] IN
           /\ q \in Flows /\ q.opened = p.opened /\ q.answers = Append(p.answers, n)
           /\ Len(q.answers) = Len(p.answers) + 1 /\ Len(p.answers) \in Nat
           /\ q.answers[Len(p.answers) + 1] = n
           /\ \A i \in 1 .. Len(p.answers) : q.answers[i] = p.answers[i] /\ q.answers[i] \in Nat
           /\ \A s \in DOMAIN Chat!After \cup {"tap", "none"} :
                 [q EXCEPT !.stage = s] \in Flows /\ [q EXCEPT !.stage = s].opened = p.opened
                 /\ [q EXCEPT !.stage = s].answers = q.answers
<1> DEFINE D == DOMAIN Chat!After \cup {"tap", "none"}
           W == {"none", "hire", "ticket", "retire", "broadcast"}
           q == [p EXCEPT !.answers = Append(@, n)]
<1>1. Flows = [flow : W, stage : D, agent : People, opened : Nat, answers : Seq(Nat)]
  BY DEF Flows
<1> HIDE DEF D, W
<1>2. p.answers \in Seq(Nat) /\ Append(p.answers, n) \in Seq(Nat)
  BY <1>1
<1>3. q \in Flows /\ q.opened = p.opened /\ q.answers = Append(p.answers, n)
  BY <1>1, <1>2
<1>4. \A s \in D : [q EXCEPT !.stage = s] \in Flows /\ [q EXCEPT !.stage = s].opened = p.opened
                   /\ [q EXCEPT !.stage = s].answers = q.answers
  BY <1>1, <1>3
<1> HIDE DEF q
<1>5. /\ Len(q.answers) = Len(p.answers) + 1 /\ Len(p.answers) \in Nat
      /\ q.answers[Len(p.answers) + 1] = n
      /\ \A i \in 1 .. Len(p.answers) : q.answers[i] = p.answers[i] /\ q.answers[i] \in Nat
  BY <1>2, <1>3, AppendProperties, LenProperties
<1> QED BY <1>3, <1>4, <1>5 DEF q, D

\* What a flow holds.
LEMMA FlowIs == ASSUME NEW p \in Flows PROVE p.opened \in Nat /\ p.answers \in Seq(Nat) /\ p.stage \in DOMAIN Chat!After \cup {"tap", "none"}
<1> DEFINE D == DOMAIN Chat!After \cup {"tap", "none"}
           W == {"none", "hire", "ticket", "retire", "broadcast"}
           Q == Seq(Nat)
<1>1. Flows = [flow : W, stage : D, agent : People, opened : Nat, answers : Q]
  BY DEF Flows
<1> HIDE DEF D, W, Q
<1>2. p.opened \in Nat /\ p.answers \in Q /\ p.stage \in D
  BY <1>1
<1> QED BY <1>2 DEF D, Q

\* Of an update that is handled.
LEMMA ThisIs ==
    ASSUME ChatConstants, ChatTypes, at.step # "asleep"
    PROVE  Chat!This \in Nat \ {0} /\ at.u.is.agent \in People /\ Chat!Destination \in People
<1>1. at.u \in Items /\ target \in People
  BY DEF ChatTypes
<1>2. at.u.is \in Chat!Update
  BY <1>1 DEF Items
<1>3. at.u.is.agent \in People
  BY <1>2 DEF Chat!Update, People
<1> QED BY <1>1, <1>3 DEF Items, Chat!This, Chat!Destination

\* A call is one.
LEMMA CallIs ==
    ASSUME ChatConstants, ChatTypes, at.step # "asleep", NEW f, NEW r \in BOOLEAN, Chat!Call(f, r),
           f.opened \in Nat, f.answers \in Seq(Nat)
    PROVE  /\ calls' \in Seq(Calls) /\ Len(calls) \in Nat /\ Len(calls') = Len(calls) + 1
           /\ \A i \in 1 .. Len(calls) : calls'[i] = calls[i]
           /\ LET c == calls'[Len(calls) + 1] IN
              c.by = Chat!This /\ c.life = crashes /\ c.raised = r /\ c.opened = f.opened /\ c.answers = f.answers
<1> DEFINE c == [by |-> Chat!This, life |-> crashes, raised |-> r, opened |-> f.opened, answers |-> f.answers]
<1>1. c \in Calls
  BY ThisIs DEF Calls, ChatTypes, ChatConstants
<1>2. c.by = Chat!This /\ c.life = crashes /\ c.raised = r /\ c.opened = f.opened /\ c.answers = f.answers
  OBVIOUS
<1>3. calls' = Append(calls, c) /\ calls \in Seq(Calls)
  BY DEF Chat!Call, ChatTypes
<1> HIDE DEF c
<1> QED BY <1>1, <1>2, <1>3, AppendProperties, LenProperties

\* What a step does to the worker, the choices, the flow that is open and the calls.
LEMMA StateKept ==
    ASSUME ChatConstants, ChatTypes, UpdatesInv, TurnsInv, [Chat!Next]_Chat!bvars
    PROVE  /\ at' \in Workers /\ (at'.step = "asleep" \/ at'.u \in Items)
           /\ at'.step = "asleep" => at' = Chat!Asleep
           /\ pending' \in Flows /\ target' \in People /\ voice' \in BOOLEAN
           /\ crashes' \in 0 .. ChatMaxCrashes /\ calls' \in Seq(Calls)
<1>0. /\ at \in Workers /\ (at.step = "asleep" \/ at.u \in Items) /\ (at.step = "asleep" => at = Chat!Asleep)
      /\ pending \in Flows /\ target \in People /\ voice \in BOOLEAN
      /\ crashes \in 0 .. ChatMaxCrashes /\ calls \in Seq(Calls)
  BY DEF ChatTypes, ChatConstants
<1>t. \A s : at.step = s => (Chat!Now(s) <=> TRUE)
  BY DEF Chat!Now
<1>h. ASSUME at' = Chat!Asleep, pending' \in Flows, target' \in People, voice' \in BOOLEAN, crashes' = crashes,
             calls' \in Seq(Calls)
      PROVE  /\ at' \in Workers /\ (at'.step = "asleep" \/ at'.u \in Items)
             /\ at'.step = "asleep" => at' = Chat!Asleep
             /\ pending' \in Flows /\ target' \in People /\ voice' \in BOOLEAN
             /\ crashes' \in 0 .. ChatMaxCrashes /\ calls' \in Seq(Calls)
  BY <1>0, <1>h, AsleepIs
<1>m. ASSUME at' \in Workers, at'.step # "asleep", at'.u \in Items, pending' \in {pending, Chat!NoFlow},
             UNCHANGED <<target, voice, crashes, calls>>
      PROVE  /\ at' \in Workers /\ (at'.step = "asleep" \/ at'.u \in Items)
             /\ at'.step = "asleep" => at' = Chat!Asleep
             /\ pending' \in Flows /\ target' \in People /\ voice' \in BOOLEAN
             /\ crashes' \in 0 .. ChatMaxCrashes /\ calls' \in Seq(Calls)
  BY <1>0, <1>m, AsleepIs
<1>1. CASE Chat!DeclineEdited \/ Chat!AskAgain \/ Chat!Declined \/ Chat!Look \/ Chat!WatchStart \/ Chat!Unwatch \/ Chat!StopNothing
  <2>1. at' = Chat!Asleep /\ UNCHANGED <<pending, target, voice, crashes, calls>>
    BY <1>1
    DEF Chat!DeclineEdited, Chat!AskAgain, Chat!Declined, Chat!Look, Chat!WatchStart,
        Chat!Unwatch, Chat!StopNothing, Chat!Handled, Chat!state
  <2> QED BY <1>0, <1>h, <2>1
<1>2. CASE Chat!Begin \/ Chat!Cancel \/ Chat!Advance
  <2>1. at' = Chat!Asleep /\ UNCHANGED <<target, voice, crashes, calls>> /\ at.step # "asleep"
    BY <1>2
    DEF Chat!Begin, Chat!Cancel, Chat!Advance, Chat!Handled, Chat!Tapped, Chat!Command,
        Chat!Answering, Chat!Says, Chat!Typed, Chat!Now
  <2>2. Chat!This \in Nat /\ at.u.is.agent \in People
    BY <2>1, ThisIs
  <2>3. CASE Chat!Begin
    <3>1. \E f \in {"hire", "ticket", "retire", "broadcast"}, s \in {"name", "title", "confirm", "message"} :
             Chat!Open(f, s)
      BY <2>3 DEF Chat!Begin
    <3>2. PICK f \in {"hire", "ticket", "retire", "broadcast"}, s \in {"name", "title", "confirm", "message"} :
             Chat!Open(f, s)
      BY <3>1
    <3> DEFINE D == DOMAIN Chat!After \cup {"tap", "none"}
               W == {"none", "hire", "ticket", "retire", "broadcast"}
    <3>3. s \in D /\ f \in W
      BY DEF Chat!After
    <3>4. Flows = [flow : W, stage : D, agent : People, opened : Nat, answers : Seq(Nat)] /\ <<>> \in Seq(Nat)
      BY EmptySeq DEF Flows
    <3> HIDE DEF D, W
    <3>5. \A a \in People, o \in Nat, q \in Seq(Nat) :
             [flow |-> f, stage |-> s, agent |-> a, opened |-> o, answers |-> q] \in Flows
      BY <3>3, <3>4
    <3>6. pending' \in Flows
      BY <2>2, <3>2, <3>4, <3>5 DEF Chat!Open
    <3> QED BY <1>0, <1>h, <2>1, <3>6
  <2>4. CASE Chat!Cancel
    BY <1>0, <1>h, <2>1, <2>4, AsleepIs DEF Chat!Cancel
  <2>5. CASE Chat!Advance
    <3>1. Chat!After[pending.stage] \in DOMAIN Chat!After \cup {"tap", "none"}
      <4>1. pending # Chat!NoFlow /\ Chat!After[pending.stage] # "submit" /\ pending.stage # "tap"
        BY <2>5 DEF Chat!Advance, Chat!Answering
      <4>2. pending.stage \in DOMAIN Chat!After \cup {"tap", "none"}
        BY <1>0 DEF Flows
      <4>3. pending.stage \in DOMAIN Chat!After
        BY <4>1, <4>2 DEF ChatTypes, Asked
      <4> QED BY <4>1, <4>3 DEF Chat!After
    <3>2. pending' = [Chat!Answered EXCEPT !.stage = Chat!After[pending.stage]]
      BY <2>5 DEF Chat!Advance
    <3>3. pending' \in Flows
      BY <1>0, <2>2, <3>1, <3>2, AnsweredIs DEF Chat!Answered
    <3> QED BY <1>0, <1>h, <2>1, <3>3
  <2> QED BY <1>2, <2>3, <2>4, <2>5
<1>3. CASE Chat!LastAnswer \/ Chat!Priority
  <2>1. /\ UNCHANGED <<target, voice, crashes, calls>> /\ pending' = Chat!NoFlow /\ at.step = "dispatch"
        /\ \E s \in {"submit", "add"} : at' = [at EXCEPT !.step = s, !.flow = Chat!Answered, !.was = pending]
    BY <1>3
    DEF Chat!LastAnswer, Chat!Priority, Chat!Tapped, Chat!Answering, Chat!Says, Chat!Typed,
        Chat!Now
  <2>2. Chat!Answered \in Flows
    BY <1>0, <2>1, ThisIs, AnsweredIs DEF Chat!Answered
  <2>3. PICK s \in {"submit", "add"} : at' = [at EXCEPT !.step = s, !.flow = Chat!Answered, !.was = pending]
    BY <2>1
  <2>4. at' \in Workers
    BY <1>0, <2>2, <2>3, AtMoves
  <2>5. at'.step = s /\ at'.u = at.u
    BY <1>0, <2>3 DEF Workers
  <2> QED BY <1>0, <1>m, <2>1, <2>4, <2>5
<1>4. CASE Chat!Submitted \/ Chat!Raised \/ Chat!Sent \/ Chat!Refused \/ Chat!Photo \/ Chat!Control
  <2>1. /\ at' = Chat!Asleep /\ UNCHANGED <<target, voice, crashes>> /\ at.step # "asleep"
        /\ pending' \in {pending, at.was}
        /\ \E r \in BOOLEAN : \E f \in {at.flow, Chat!Unopened} : Chat!Call(f, r)
    BY <1>4
    DEF Chat!Submitted, Chat!Raised, Chat!Sent, Chat!Refused, Chat!Photo, Chat!Control,
        Chat!Handled, Chat!Tapped, Chat!Says, Chat!Typed, Chat!Now, Chat!state
  <2>2. PICK r \in BOOLEAN, f \in {at.flow, Chat!Unopened} : Chat!Call(f, r)
    BY <2>1
  <2>3. f.opened \in Nat /\ f.answers \in Seq(Nat)
    <3>1. Chat!Unopened.opened = 0 /\ Chat!Unopened.answers = <<>> /\ <<>> \in Seq(Nat)
      BY EmptySeq DEF Chat!Unopened
    <3>2. at.flow \in Flows
      BY <1>0 DEF Workers
    <3>3. at.flow.opened \in Nat /\ at.flow.answers \in Seq(Nat)
      BY <3>2, FlowIs
    <3>4. CASE f = at.flow
      BY <3>3, <3>4
    <3>5. CASE f = Chat!Unopened
      <4>1. f.opened = 0 /\ f.answers = <<>>
        BY <3>1, <3>5
      <4> QED BY <3>1, <4>1
    <3> QED BY <3>4, <3>5
  <2>4. calls' \in Seq(Calls)
    BY <2>1, <2>2, <2>3, CallIs
  <2>5. pending' \in Flows
    BY <1>0, <2>1 DEF Workers
  <2> QED BY <1>0, <1>h, <2>1, <2>4, <2>5
<1>5. CASE Chat!Prompt \/ Chat!StopOld \/ Chat!WatchPick
  <2>1. UNCHANGED <<pending, target, voice, crashes, calls>> /\ at.step # "asleep"
    BY <1>5
    DEF Chat!Prompt, Chat!StopOld, Chat!WatchPick, Chat!state, Chat!Command, Chat!Says,
        Chat!Typed, Chat!Now
  <2>2. Chat!Destination \in People /\ renders[Chat!Destination] \in Nat
    <3>1. Chat!Destination \in People
      BY <2>1, ThisIs
    <3>2. total \in Nat /\ renders[Chat!Destination] \in 0 .. total
      BY <3>1, UpdatesAre DEF TurnsInv
    <3> QED BY <3>1, <3>2
  <2>3. at' \in Workers /\ at'.step \in {"swapped", "send", "start"} /\ at'.u = at.u
    <3>1. CASE Chat!Prompt
      <4>1. at' = [at EXCEPT !.step = "swapped", !.agent = Chat!Destination, !.old = renders[Chat!Destination]]
        BY <3>1 DEF Chat!Prompt
      <4>2. at' \in Workers
        BY <1>0, <2>2, <4>1, AtMoves
      <4> QED BY <1>0, <4>1, <4>2 DEF Workers
    <3>2. CASE Chat!StopOld
      <4>1. at' = [at EXCEPT !.step = "send", !.old = 0]
        BY <3>2 DEF Chat!StopOld
      <4>2. at' \in Workers
        BY <1>0, <4>1, AtMoves
      <4> QED BY <1>0, <4>1, <4>2 DEF Workers
    <3>3. CASE Chat!WatchPick
      <4>1. at' = [at EXCEPT !.step = "start"]
        BY <3>3 DEF Chat!WatchPick
      <4>2. at' \in Workers
        BY <1>0, <4>1, AtMoves
      <4> QED BY <1>0, <4>1, <4>2 DEF Workers
    <3> QED BY <1>5, <3>1, <3>2, <3>3
  <2> QED BY <1>0, <1>m, <2>1, <2>3
<1>6. CASE Chat!PickTarget \/ Chat!ToggleVoice
  <2>1. at' = Chat!Asleep /\ UNCHANGED <<pending, crashes, calls>> /\ at.step # "asleep"
    BY <1>6
    DEF Chat!PickTarget, Chat!ToggleVoice, Chat!Handled, Chat!Tapped, Chat!Command, Chat!Says,
        Chat!Typed, Chat!Now
  <2>2. at.u.is.agent \in People
    BY <2>1, ThisIs
  <2>3. target' \in {target, at.u.is.agent} /\ voice' \in {voice, ~ voice}
    BY <1>6 DEF Chat!PickTarget, Chat!ToggleVoice
  <2>4. target' \in People
    BY <1>0, <2>2, <2>3
  <2>5. voice' \in BOOLEAN
    BY <1>0, <2>3, Zenon
  <2> QED BY <1>0, <1>h, <2>1, <2>4, <2>5
<1>7. CASE Chat!Take
  <2>1. /\ queue # <<>> /\ at = Chat!Asleep /\ at' = [Chat!Asleep EXCEPT !.step = "dispatch", !.u = Head(queue)]
        /\ UNCHANGED <<pending, target, voice, crashes, calls>>
    BY <1>7 DEF Chat!Take, Chat!state
  <2>2. Head(queue) \in Items
    BY <2>1, HeadTailProperties DEF ChatTypes
  <2>3. at' \in Workers
    BY <2>1, <2>2, AsleepIs, AtMoves
  <2>4. at'.step = "dispatch" /\ at'.u = Head(queue)
    BY <2>1, AsleepIs DEF Workers
  <2> QED BY <1>m, <2>1, <2>2, <2>3, <2>4
<1>8. CASE Chat!Crash
  <2>1. /\ at' = Chat!Asleep /\ pending' = Chat!NoFlow /\ target' = ChatHome /\ voice' = FALSE /\ calls' = calls
        /\ crashes < ChatMaxCrashes /\ crashes' = crashes + 1
    BY <1>8 DEF Chat!Crash
  <2>2. crashes' \in 0 .. ChatMaxCrashes
    BY <1>0, <2>1 DEF ChatConstants
  <2> QED BY <1>0, <2>1, <2>2, AsleepIs DEF People
<1>9. ASSUME UNCHANGED <<at, pending, target, voice, crashes, calls>>
      PROVE  /\ at' \in Workers /\ (at'.step = "asleep" \/ at'.u \in Items)
             /\ at'.step = "asleep" => at' = Chat!Asleep
             /\ pending' \in Flows /\ target' \in People /\ voice' \in BOOLEAN
             /\ crashes' \in 0 .. ChatMaxCrashes /\ calls' \in Seq(Calls)
  BY <1>0, <1>9
<1>10. \/ \E u \in said.of : Chat!Say(u)
       \/ Chat!GetUpdates \/ Chat!Submit
       \/ \E a \in ChatAgents \cup {ChatHome} : Chat!Reply(a)
       \/ \E t \in popped : Chat!Finalize(t)
       \/ \E t \in turns : Chat!TurnEnds(t)
       \/ \E w \in watching : Chat!WatchEnds(w)
       \/ \E w \in leaving : Chat!Clear(w)
       \/ UNCHANGED Chat!bvars
       => UNCHANGED <<at, pending, target, voice, crashes, calls>>
  BY DEF Chat!Say, Chat!GetUpdates, Chat!Submit, Chat!Reply, Chat!Finalize, Chat!TurnEnds,
     Chat!WatchEnds, Chat!Clear, Chat!bvars, Chat!state
<1> QED BY <1>1, <1>2, <1>3, <1>4, <1>5, <1>6, <1>7, <1>8, <1>9, <1>10 DEF Chat!Next

\* What a step makes of the flow that is open, and of the one the worker has in hand.
LEMMA FlowMoves ==
    ASSUME ChatConstants, ChatTypes, [Chat!Next]_Chat!bvars
    PROVE  /\ at'.was \in {at.was, pending, Chat!NoFlow}
           /\ \/ pending' \in {pending, Chat!NoFlow}
              \/ Submitting /\ Ended /\ pending' = at.was /\ Chat!Call(at.flow, TRUE)
              \/ /\ Ended /\ calls' = calls
                 /\ \E f \in {"hire", "ticket", "retire", "broadcast"},
                       g \in {"name", "title", "confirm", "message"} : Chat!Open(f, g)
              \/ /\ Ended /\ calls' = calls /\ pending # Chat!NoFlow /\ pending.stage \in DOMAIN Chat!After
                 /\ pending' = [Chat!Answered EXCEPT !.stage = Chat!After[pending.stage]]
<1>0. at \in Workers /\ pending \in Flows /\ Asked(pending)
  BY DEF ChatTypes
<1>1. CASE Chat!Begin
  <2>1. Ended /\ calls' = calls /\ at'.was = Chat!NoFlow
    BY <1>1, AsleepIs
    DEF Chat!Begin, Ended, Chat!Handled, Chat!Tapped, Chat!Command, Chat!Says, Chat!Typed,
        Chat!Now
  <2>2. \E f \in {"hire", "ticket", "retire", "broadcast"}, g \in {"name", "title", "confirm", "message"} :
           Chat!Open(f, g)
    BY <1>1 DEF Chat!Begin
  <2> QED BY <2>1, <2>2
<1>2. CASE Chat!Advance
  <2>1. Ended /\ calls' = calls /\ at'.was = Chat!NoFlow /\ pending # Chat!NoFlow
        /\ pending' = [Chat!Answered EXCEPT !.stage = Chat!After[pending.stage]] /\ pending.stage # "tap"
    BY <1>2, AsleepIs
    DEF Chat!Advance, Chat!Answering, Ended, Chat!Handled, Chat!Says, Chat!Typed, Chat!Now
  <2>2. pending.stage \in DOMAIN Chat!After \cup {"tap", "none"}
    BY <1>0, FlowIs
  <2>3. pending.stage \in DOMAIN Chat!After
    BY <1>0, <2>1, <2>2 DEF Asked
  <2> QED BY <2>1, <2>3
<1>3. CASE Chat!Raised
  <2>1. Submitting /\ Ended /\ Chat!Call(at.flow, TRUE) /\ at'.was = Chat!NoFlow /\ pending' \in {pending, at.was}
    BY <1>3, AsleepIs DEF Chat!Raised, Submitting, Ended, Chat!Handled
  <2> QED BY <2>1
<1>4. CASE Chat!LastAnswer \/ Chat!Priority
  <2>1. pending' = Chat!NoFlow /\ \E s \in {"submit", "add"} : at' = [at EXCEPT !.step = s, !.flow = Chat!Answered, !.was = pending]
    BY <1>4 DEF Chat!LastAnswer, Chat!Priority
  <2>2. at'.was = pending
    BY <1>0, <2>1 DEF Workers
  <2> QED BY <2>1, <2>2
<1>5. CASE \/ Chat!DeclineEdited \/ Chat!AskAgain \/ Chat!Declined \/ Chat!Look \/ Chat!WatchStart \/ Chat!Unwatch \/ Chat!StopNothing
           \/ Chat!Submitted \/ Chat!Sent \/ Chat!Refused \/ Chat!Photo \/ Chat!Control \/ Chat!PickTarget \/ Chat!ToggleVoice \/ Chat!Cancel \/ Chat!Crash
  <2>1. at' = Chat!Asleep /\ pending' \in {pending, Chat!NoFlow}
    BY <1>5
    DEF Chat!DeclineEdited, Chat!AskAgain, Chat!Declined, Chat!Look, Chat!WatchStart,
        Chat!Unwatch, Chat!StopNothing, Chat!Submitted, Chat!Sent,
                Chat!Refused, Chat!Photo, Chat!Control, Chat!PickTarget, Chat!ToggleVoice, Chat!Cancel, Chat!Crash, Chat!Handled, Chat!state
  <2> QED BY <2>1, AsleepIs
<1>6. CASE Chat!Prompt \/ Chat!StopOld \/ Chat!WatchPick
  <2>1. pending' = pending
    BY <1>6 DEF Chat!Prompt, Chat!StopOld, Chat!WatchPick, Chat!state
  <2>2. at'.was = at.was
    BY <1>0, <1>6 DEF Chat!Prompt, Chat!StopOld, Chat!WatchPick, Workers
  <2> QED BY <2>1, <2>2
<1>7. CASE Chat!Take
  <2>1. at = Chat!Asleep /\ at' = [Chat!Asleep EXCEPT !.step = "dispatch", !.u = Head(queue)] /\ pending' = pending
    BY <1>7 DEF Chat!Take, Chat!state
  <2>2. at'.was = Chat!NoFlow
    BY <2>1, AsleepIs DEF Workers
  <2> QED BY <2>1, <2>2
<1>8. \/ \E u \in said.of : Chat!Say(u)
      \/ Chat!GetUpdates \/ Chat!Submit
      \/ \E a \in ChatAgents \cup {ChatHome} : Chat!Reply(a)
      \/ \E t \in popped : Chat!Finalize(t)
      \/ \E t \in turns : Chat!TurnEnds(t)
      \/ \E w \in watching : Chat!WatchEnds(w)
      \/ \E w \in leaving : Chat!Clear(w)
      \/ UNCHANGED Chat!bvars
      => UNCHANGED <<at, pending>>
  BY DEF Chat!Say, Chat!GetUpdates, Chat!Submit, Chat!Reply, Chat!Finalize, Chat!TurnEnds,
     Chat!WatchEnds, Chat!Clear, Chat!bvars, Chat!state
<1> QED BY <1>1, <1>2, <1>3, <1>4, <1>5, <1>6, <1>7, <1>8 DEF Chat!Next

\* A step keeps ChatTypes.
LEMMA TypesKept ==
    ASSUME ChatConstants, ChatTypes, UpdatesInv, TurnsInv, [Chat!Next]_Chat!bvars PROVE ChatTypes'
<1>1. Asked(Chat!NoFlow)
  BY DEF Asked
<1>2. Asked(pending)' /\ Asked(at.was)'
  <2>1. Asked(pending) /\ Asked(at.was) /\ pending \in Flows
    BY DEF ChatTypes
  <2>2. Asked(at.was)'
    BY <1>1, <2>1, FlowMoves DEF Asked
  <2>3. ASSUME NEW f \in {"hire", "ticket", "retire", "broadcast"}, NEW g \in {"name", "title", "confirm", "message"},
               Chat!Open(f, g)
        PROVE  pending'.stage # "none"
    BY <2>3 DEF Chat!Open
  <2>4. ASSUME pending.stage \in DOMAIN Chat!After, pending' = [Chat!Answered EXCEPT !.stage = Chat!After[pending.stage]], Ended
        PROVE  pending'.stage # "none"
    <3>1. Chat!Answered \in Flows
      BY <2>1, <2>4, ThisIs, AnsweredIs DEF Chat!Answered, Ended
    <3>2. pending'.stage = Chat!After[pending.stage]
      BY <2>4, <3>1 DEF Flows
    <3> QED BY <2>4, <3>2 DEF Chat!After
  <2> QED BY <1>1, <2>1, <2>2, <2>3, <2>4, FlowMoves DEF Asked
<1> QED BY <1>2, UpdatesKept, StateKept DEF ChatTypes
(* Flows and calls                                                         *)

\* What a step is for the flows and the calls.
Stays    == calls' = calls /\ pending' = pending /\ (~ Submitting' \/ at' = at)
Forgets  == calls' = calls /\ pending' = Chat!NoFlow /\ ~ Submitting'
HandsOver   == /\ calls' = calls /\ pending' = Chat!NoFlow /\ pending # Chat!NoFlow /\ at.step = "dispatch"
            /\ Submitting' /\ at'.was = pending /\ at'.flow = Chat!Answered /\ at'.u = at.u
OpensFlow == /\ calls' = calls /\ Ended
                /\ \E f \in {"hire", "ticket", "retire", "broadcast"}, g \in {"name", "title", "confirm", "message"} :
                      Chat!Open(f, g)
Advances == /\ calls' = calls /\ Ended /\ pending # Chat!NoFlow /\ pending.stage \in DOMAIN Chat!After
            /\ pending' = [Chat!Answered EXCEPT !.stage = Chat!After[pending.stage]]
CallTaken   == Ended /\ Submitting /\ Chat!Call(at.flow, FALSE) /\ pending' = pending
CallRaised   == Ended /\ Submitting /\ Chat!Call(at.flow, TRUE) /\ pending' \in {pending, at.was}
CallAlone   == Ended /\ ~ Submitting /\ Chat!Call(Chat!Unopened, FALSE) /\ pending' = pending

LEMMA CallMoves ==
    ASSUME ChatConstants, ChatTypes, [Chat!Next]_Chat!bvars
    PROVE  \/ Chat!Crash \/ Stays \/ Forgets \/ HandsOver \/ OpensFlow \/ Advances \/ CallTaken \/ CallRaised \/ CallAlone
<1>0. at \in Workers /\ pending \in Flows /\ Asked(pending)
  BY DEF ChatTypes
<1>a. ASSUME at' = Chat!Asleep PROVE ~ Submitting'
  BY <1>a, AsleepIs DEF Submitting
<1>1. CASE Chat!Begin
  BY <1>1
  DEF Chat!Begin, OpensFlow, Ended, Chat!Tapped, Chat!Command, Chat!Says, Chat!Typed, Chat!Now
<1>2. CASE Chat!Advance
  <2>1. Ended /\ calls' = calls /\ pending # Chat!NoFlow
        /\ pending' = [Chat!Answered EXCEPT !.stage = Chat!After[pending.stage]] /\ pending.stage # "tap"
    BY <1>2
    DEF Chat!Advance, Chat!Answering, Ended, Chat!Handled, Chat!Says, Chat!Typed, Chat!Now
  <2>2. pending.stage \in DOMAIN Chat!After \cup {"tap", "none"}
    BY <1>0, FlowIs
  <2>3. pending.stage \in DOMAIN Chat!After
    BY <1>0, <2>1, <2>2 DEF Asked
  <2> QED BY <2>1, <2>3 DEF Advances
<1>3. CASE Chat!Submitted \/ Chat!Raised
  BY <1>3 DEF Chat!Submitted, Chat!Raised, Submitting, Ended, Chat!state, CallTaken, CallRaised
<1>4. CASE Chat!Sent \/ Chat!Refused \/ Chat!Photo \/ Chat!Control
  BY <1>4
  DEF Chat!Sent, Chat!Refused, Chat!Photo, Chat!Control, Submitting, Ended, Chat!Tapped,
      Chat!Says, Chat!Typed, Chat!Now, Chat!state, CallAlone
<1>5. CASE Chat!LastAnswer \/ Chat!Priority
  <2>1. /\ pending' = Chat!NoFlow /\ pending # Chat!NoFlow /\ calls' = calls /\ at.step = "dispatch"
        /\ \E s \in {"submit", "add"} : at' = [at EXCEPT !.step = s, !.flow = Chat!Answered, !.was = pending]
    BY <1>5
    DEF Chat!LastAnswer, Chat!Priority, Chat!Answering, Chat!Tapped, Chat!Says, Chat!Typed,
        Chat!Now
  <2>2. at'.was = pending /\ at'.flow = Chat!Answered /\ at'.u = at.u /\ at'.step \in {"submit", "add"}
    BY <1>0, <2>1 DEF Workers
  <2> QED BY <2>1, <2>2 DEF HandsOver, Submitting
<1>6. CASE \/ Chat!DeclineEdited \/ Chat!AskAgain \/ Chat!Declined \/ Chat!Look \/ Chat!WatchStart \/ Chat!Unwatch \/ Chat!StopNothing
           \/ Chat!PickTarget \/ Chat!ToggleVoice
  BY <1>a, <1>6
  DEF Chat!DeclineEdited, Chat!AskAgain, Chat!Declined, Chat!Look, Chat!WatchStart,
      Chat!Unwatch, Chat!StopNothing,
                Chat!PickTarget, Chat!ToggleVoice, Chat!Handled, Chat!state, Stays
<1>7. CASE Chat!Cancel
  BY <1>a, <1>7 DEF Chat!Cancel, Chat!Handled, Forgets
<1>8. CASE Chat!Prompt \/ Chat!StopOld \/ Chat!WatchPick
  <2>1. pending' = pending /\ calls' = calls
    BY <1>8 DEF Chat!Prompt, Chat!StopOld, Chat!WatchPick, Chat!state
  <2>2. at'.step \in {"swapped", "send", "start"}
    BY <1>0, <1>8 DEF Chat!Prompt, Chat!StopOld, Chat!WatchPick, Workers
  <2> QED BY <2>1, <2>2 DEF Stays, Submitting
<1>9. CASE Chat!Take
  <2>1. /\ at = Chat!Asleep /\ at' = [Chat!Asleep EXCEPT !.step = "dispatch", !.u = Head(queue)]
        /\ pending' = pending /\ calls' = calls
    BY <1>9 DEF Chat!Take, Chat!state
  <2>2. at'.step = "dispatch"
    BY <2>1, AsleepIs DEF Workers
  <2> QED BY <2>1, <2>2 DEF Stays, Submitting
<1>10. \/ \E u \in said.of : Chat!Say(u)
       \/ Chat!GetUpdates \/ Chat!Submit
       \/ \E a \in ChatAgents \cup {ChatHome} : Chat!Reply(a)
       \/ \E t \in popped : Chat!Finalize(t)
       \/ \E t \in turns : Chat!TurnEnds(t)
       \/ \E w \in watching : Chat!WatchEnds(w)
       \/ \E w \in leaving : Chat!Clear(w)
       \/ UNCHANGED Chat!bvars
       => UNCHANGED <<at, pending, calls>>
  BY DEF Chat!Say, Chat!GetUpdates, Chat!Submit, Chat!Reply, Chat!Finalize, Chat!TurnEnds,
     Chat!WatchEnds, Chat!Clear, Chat!bvars, Chat!state
<1>11. UNCHANGED <<at, pending, calls>> => Stays
  BY DEF Stays
<1> QED BY <1>1, <1>2, <1>3, <1>4, <1>5, <1>6, <1>7, <1>8, <1>9, <1>10, <1>11 DEF Chat!Next

\* After a crash nothing is left that was asked.
LEMMA CrashFlows ==
    ASSUME Chat!Crash PROVE pending' = Chat!NoFlow /\ ~ Submitting' /\ calls' = calls /\ crashes' = crashes + 1 /\ 0 \in Pasts'
<1>1. pending' = Chat!NoFlow /\ at' = Chat!Asleep /\ calls' = calls /\ crashes' = crashes + 1 /\ queue' = <<>>
  BY DEF Chat!Crash
<1>2. Waiting' = {}
  <2>1. Len(queue') = 0 /\ 1 .. 0 = {}
    BY <1>1
  <2> QED BY <1>1, <2>1, AsleepIs DEF Waiting, Hands, Ids
<1>3. 0 \in Pasts'
  BY <1>2 DEF Pasts, Past
<1> QED BY <1>1, <1>3, AsleepIs DEF Submitting

\* No flow asks nothing.
LEMMA NoneGood == ASSUME NEW P, 0 \in P PROVE Good(Chat!NoFlow, P)
<1>1. Len(Chat!NoFlow.answers) = 0 /\ Chat!NoFlow.opened = 0 /\ 1 .. 0 = {}
  BY AsleepIs
<1> QED BY <1>1 DEF Good, InTurn

\* A flow with one more answer is good where its numbers are past.
LEMMA AnsweredGood ==
    ASSUME NEW P \in SUBSET Nat, NEW Q \in SUBSET Nat, NEW n \in Q, P \subseteq Q, \A m \in P : m < n,
           NEW p \in Flows, Good(p, P)
    PROVE  LET q == [p EXCEPT !.answers = Append(@, n)] IN
           /\ Good(q, Q)
           /\ \A s \in DOMAIN Chat!After \cup {"tap", "none"} : Good([q EXCEPT !.stage = s], Q)
<1> DEFINE q == [p EXCEPT !.answers = Append(@, n)]
<1>1. /\ q.opened = p.opened /\ q.answers = Append(p.answers, n)
      /\ Len(q.answers) = Len(p.answers) + 1 /\ Len(p.answers) \in Nat
      /\ q.answers[Len(p.answers) + 1] = n
      /\ \A i \in 1 .. Len(p.answers) : q.answers[i] = p.answers[i]
      /\ \A s \in DOMAIN Chat!After \cup {"tap", "none"} :
            [q EXCEPT !.stage = s].opened = p.opened /\ [q EXCEPT !.stage = s].answers = q.answers
  <2>1. n \in Nat
    OBVIOUS
  <2>2. /\ q \in Flows /\ q.opened = p.opened /\ q.answers = Append(p.answers, n)
        /\ Len(q.answers) = Len(p.answers) + 1 /\ Len(p.answers) \in Nat
        /\ q.answers[Len(p.answers) + 1] = n
        /\ \A i \in 1 .. Len(p.answers) : q.answers[i] = p.answers[i] /\ q.answers[i] \in Nat
        /\ \A s \in DOMAIN Chat!After \cup {"tap", "none"} :
              [q EXCEPT !.stage = s] \in Flows /\ [q EXCEPT !.stage = s].opened = p.opened
              /\ [q EXCEPT !.stage = s].answers = q.answers
    BY <2>1, AnsweredIs
  <2> HIDE DEF q
  <2> QED BY <2>2
<1> HIDE DEF q
<1>2. \A i \in 1 .. Len(q.answers) : i \in 1 .. Len(p.answers) \/ i = Len(p.answers) + 1
  BY <1>1
<1>3. p.opened \in P /\ \A i \in 1 .. Len(p.answers) : p.answers[i] \in P
  BY DEF Good
<1>4. \A i \in 1 .. Len(q.answers) : q.answers[i] \in Q /\ p.opened < q.answers[i]
  BY <1>1, <1>2, <1>3 DEF Good, InTurn
<1>5. ASSUME NEW i \in 1 .. Len(q.answers), NEW j \in 1 .. Len(q.answers), i < j
      PROVE  q.answers[i] < q.answers[j]
  <2>1. i \in 1 .. Len(p.answers)
    BY <1>1, <1>5
  <2>2. CASE j \in 1 .. Len(p.answers)
    BY <1>1, <1>5, <2>1, <2>2 DEF Good, InTurn
  <2>3. CASE j = Len(p.answers) + 1
    BY <1>1, <1>3, <2>1, <2>3
  <2> QED BY <1>2, <2>2, <2>3
<1>6. Good(q, Q)
  BY <1>1, <1>3, <1>4, <1>5 DEF Good, InTurn
<1>7. ASSUME NEW s \in DOMAIN Chat!After \cup {"tap", "none"} PROVE Good([q EXCEPT !.stage = s], Q)
  <2> DEFINE r == [q EXCEPT !.stage = s]
  <2>1. r.opened = q.opened /\ r.answers = q.answers
    BY <1>1
  <2> HIDE DEF r
  <2>2. Good(r, Q)
    BY <1>6, <2>1 DEF Good
  <2> QED BY <2>2 DEF r
<1> QED BY <1>6, <1>7 DEF q

\* What is good stays good.
LEMMA GoodGrows ==
    ASSUME NEW P, NEW Q, P \subseteq Q, NEW p, Good(p, P) PROVE Good(p, Q)
BY DEF Good

\* A step keeps FlowsInv.
LEMMA FlowsKept ==
    ASSUME ChatConstants, ChatTypes, UpdatesInv, FlowsInv, [Chat!Next]_Chat!bvars PROVE FlowsInv'
<1>0. /\ Good(pending, Pasts) /\ pending \in Flows
      /\ Submitting => /\ pending = Chat!NoFlow /\ Good(at.was, Pasts)
                       /\ at.flow = [at.was EXCEPT !.answers = Append(@, Chat!This)]
      /\ Waiting \subseteq Nat \ {0}
  BY UpdatesAre DEF FlowsInv, ChatTypes
<1>1. CASE Chat!Crash
  <2>1. Good(Chat!NoFlow, Pasts')
    BY <1>1, CrashFlows, NoneGood
  <2> QED BY <1>1, <2>1, CrashFlows DEF FlowsInv
<1>2. CASE ~ Chat!Crash
  <2>1. /\ Pasts \subseteq Pasts' /\ (Ended => Chat!This \in Pasts')
        /\ at.step # "asleep" => Chat!This \in Nat \ {0} /\ \A n \in Pasts : n < Chat!This
        /\ Pasts \subseteq Nat /\ 0 \in Pasts
    BY <1>0, <1>2, PastsGrow, NoneIsPast
  <2>2. Pasts' \subseteq Nat
    BY DEF Pasts
  <2>3. Ended => ~ Submitting'
    BY AsleepIs DEF Ended, Chat!Handled, Submitting
  <2>4. Good(pending, Pasts') /\ Good(Chat!NoFlow, Pasts')
    BY <1>0, <2>1, GoodGrows, NoneGood
  <2>5. CASE Stays
    <3>1. Good(pending', Pasts')
      BY <2>4, <2>5 DEF Stays
    <3>2. ASSUME Submitting' PROVE at' = at /\ Submitting
      BY <2>5, <3>2 DEF Stays, Submitting
    <3>3. ASSUME Submitting' PROVE /\ pending' = Chat!NoFlow /\ Good(at'.was, Pasts')
                                   /\ at'.flow = [at'.was EXCEPT !.answers = Append(@, Chat!This')]
      <4>1. Good(at.was, Pasts')
        BY <1>0, <2>1, <3>2, <3>3, GoodGrows
      <4>2. Chat!This' = Chat!This
        BY <3>2, <3>3 DEF Chat!This
      <4> QED BY <1>0, <2>5, <3>2, <3>3, <4>1, <4>2 DEF Stays
    <3> QED BY <3>1, <3>3 DEF FlowsInv
  <2>6. CASE Forgets
    BY <2>4, <2>6 DEF Forgets, FlowsInv
  <2>7. CASE HandsOver
    <3>1. Chat!This' = Chat!This
      BY <2>7 DEF HandsOver, Chat!This
    <3> QED BY <2>4, <2>7, <3>1 DEF HandsOver, FlowsInv, Chat!Answered
  <2>8. CASE OpensFlow
    <3>1. PICK f \in {"hire", "ticket", "retire", "broadcast"}, g \in {"name", "title", "confirm", "message"} :
             Chat!Open(f, g)
      BY <2>8 DEF OpensFlow
    <3>2. pending'.opened = Chat!This /\ pending'.answers = <<>> /\ Len(pending'.answers) = 0 /\ 1 .. 0 = {}
      BY <3>1 DEF Chat!Open
    <3>3. Good(pending', Pasts')
      BY <2>1, <2>8, <3>2 DEF Good, InTurn, OpensFlow
    <3> QED BY <2>3, <2>8, <3>3 DEF FlowsInv, OpensFlow
  <2>9. CASE Advances
    <3>1. at.step # "asleep"
      BY <2>9 DEF Advances, Ended
    <3>2. Chat!After[pending.stage] \in DOMAIN Chat!After \cup {"tap", "none", "submit"}
      BY <2>9 DEF Advances, Chat!After
    <3>3. pending' \in Flows \/ Chat!After[pending.stage] \in DOMAIN Chat!After \cup {"tap", "none"} \/ Chat!After[pending.stage] = "submit"
      BY <3>2
    <3> DEFINE q == [pending EXCEPT !.answers = Append(@, Chat!This)]
    <3>4. Good(q, Pasts') /\ q \in Flows
      BY <1>0, <2>1, <2>2, <2>9, <3>1, AnsweredGood, AnsweredIs DEF Advances
    <3>5. pending' = [q EXCEPT !.stage = Chat!After[pending.stage]]
      BY <2>9 DEF Advances, Chat!Answered
    <3> HIDE DEF q
    <3>6. pending'.opened = q.opened /\ pending'.answers = q.answers
      BY <3>4, <3>5 DEF Flows
    <3>7. Good(pending', Pasts')
      BY <3>4, <3>6 DEF Good
    <3> QED BY <2>3, <2>9, <3>7 DEF FlowsInv, Advances
  <2>10. CASE CallTaken \/ CallRaised \/ CallAlone
    <3>1. Ended /\ (pending' = pending \/ (Submitting /\ pending' = at.was))
      BY <2>10 DEF CallTaken, CallRaised, CallAlone
    <3>2. Good(pending', Pasts')
      BY <1>0, <2>1, <2>4, <3>1, GoodGrows
    <3> QED BY <2>3, <3>1, <3>2 DEF FlowsInv
  <2> QED BY <1>2, <2>5, <2>6, <2>7, <2>8, <2>9, <2>10, CallMoves
<1> QED BY <1>1, <1>2

\* A call that is made is the last one.
LEMMA CallMade ==
    ASSUME ChatConstants, ChatTypes, UpdatesInv, FlowsInv, [Chat!Next]_Chat!bvars, CallTaken \/ CallRaised \/ CallAlone
    PROVE  /\ Len(calls) \in Nat /\ Len(calls') = Len(calls) + 1 /\ crashes' = crashes /\ ~ Submitting'
           /\ \A i \in 1 .. Len(calls) : calls'[i] = calls[i]
           /\ LET c == calls'[Len(calls) + 1] IN
              /\ c.by = Chat!This /\ c.life = crashes /\ InTurn(c.opened, c.answers) /\ c.opened \in Pasts
              /\ CallTaken \/ CallRaised => c.opened = at.was.opened
              /\ CallAlone => c.opened = 0
              /\ CallRaised => c.raised
<1>0. /\ Submitting => /\ pending = Chat!NoFlow /\ Good(at.was, Pasts)
                       /\ at.flow = [at.was EXCEPT !.answers = Append(@, Chat!This)]
      /\ at \in Workers /\ Ended /\ at.step # "asleep" /\ Waiting \subseteq Nat \ {0}
      /\ CallTaken \/ CallRaised => Submitting
  <2>1. Submitting => /\ pending = Chat!NoFlow /\ Good(at.was, Pasts)
                       /\ at.flow = [at.was EXCEPT !.answers = Append(@, Chat!This)]
    BY DEF FlowsInv
  <2>2. at \in Workers /\ Waiting \subseteq Nat \ {0}
    BY UpdatesAre
  <2>3. Ended /\ (CallTaken \/ CallRaised => Submitting)
    BY DEF CallTaken, CallRaised, CallAlone
  <2>4. at.step # "asleep"
    BY <2>3 DEF Ended
  <2> QED BY <2>1, <2>2, <2>3, <2>4
<1>1. ~ Chat!Crash
  <2>1. calls' # calls
    <3>1. calls \in Seq(Calls)
      BY DEF ChatTypes
    <3>2. \E c : calls' = Append(calls, c)
      BY DEF CallTaken, CallRaised, CallAlone, Chat!Call
    <3>3. Len(calls') = Len(calls) + 1 /\ Len(calls) \in Nat
      BY <3>1, <3>2, AppendProperties, LenProperties
    <3> QED BY <3>3
  <2> QED BY <2>1 DEF Chat!Crash
<1>2. /\ Pasts \subseteq Nat /\ 0 \in Pasts /\ crashes' = crashes
      /\ Chat!This \in Nat \ {0} /\ \A n \in Pasts : n < Chat!This
  BY <1>0, <1>1, PastsGrow, NoneIsPast
<1>3. ~ Submitting'
  BY <1>0, AsleepIs DEF Ended, Chat!Handled, Submitting
<1>4. CASE CallTaken \/ CallRaised
  <2>1. at.was \in Flows /\ Good(at.was, Pasts) /\ at.flow = [at.was EXCEPT !.answers = Append(@, Chat!This)]
    BY <1>0, <1>4 DEF Workers
  <2>2. at.flow \in Flows /\ at.flow.opened = at.was.opened
    <3> DEFINE q == [at.was EXCEPT !.answers = Append(@, Chat!This)]
    <3>1. Chat!This \in Nat
      BY <1>2
    <3>2. q \in Flows /\ q.opened = at.was.opened
      BY <2>1, <3>1, AnsweredIs
    <3> HIDE DEF q
    <3>3. at.flow = q
      BY <2>1 DEF q
    <3> QED BY <3>2, <3>3
  <2>3. InTurn(at.flow.opened, at.flow.answers) /\ at.was.opened \in Pasts
    <3> DEFINE Q == Pasts \cup {Chat!This}
    <3>1. Pasts \in SUBSET Nat /\ Q \in SUBSET Nat /\ Chat!This \in Q /\ Pasts \subseteq Q /\ \A m \in Pasts : m < Chat!This
      BY <1>2
    <3> HIDE DEF Q
    <3>2. Good([at.was EXCEPT !.answers = Append(@, Chat!This)], Q)
      BY <2>1, <3>1, AnsweredGood
    <3>3. InTurn(at.flow.opened, at.flow.answers)
      BY <2>1, <3>2 DEF Good
    <3>4. at.was.opened \in Pasts
      BY <2>1 DEF Good
    <3> QED BY <3>3, <3>4
  <2>4. at.flow.opened \in Nat /\ at.flow.answers \in Seq(Nat)
    BY <2>2, FlowIs
  <2>5. ~ CallAlone
    BY <1>4, <1>0 DEF CallAlone
  <2>6. PICK r \in BOOLEAN : Chat!Call(at.flow, r) /\ (CallRaised => r = TRUE)
    <3>1. CASE CallRaised
      BY <3>1 DEF CallRaised
    <3>2. CASE ~ CallRaised
      BY <1>4, <3>2 DEF CallTaken
    <3> QED BY <3>1, <3>2
  <2>7. /\ Len(calls) \in Nat /\ Len(calls') = Len(calls) + 1
        /\ \A i \in 1 .. Len(calls) : calls'[i] = calls[i]
        /\ LET c == calls'[Len(calls) + 1] IN
           c.by = Chat!This /\ c.life = crashes /\ c.raised = r /\ c.opened = at.flow.opened /\ c.answers = at.flow.answers
    BY <1>0, <2>4, <2>6, CallIs
  <2> QED BY <1>2, <1>3, <2>2, <2>3, <2>5, <2>6, <2>7
<1>5. CASE CallAlone
  <2>1. Chat!Unopened.opened = 0 /\ Chat!Unopened.answers = <<>> /\ <<>> \in Seq(Nat) /\ Len(<<>>) = 0 /\ 1 .. 0 = {}
    BY EmptySeq DEF Chat!Unopened
  <2>2. Chat!Call(Chat!Unopened, FALSE) /\ ~ CallTaken /\ ~ CallRaised
    BY <1>0, <1>5 DEF CallAlone, CallTaken, CallRaised
  <2>3. Chat!Unopened.opened \in Nat /\ Chat!Unopened.answers \in Seq(Nat)
    BY <2>1
  <2>4. /\ Len(calls) \in Nat /\ Len(calls') = Len(calls) + 1
        /\ \A i \in 1 .. Len(calls) : calls'[i] = calls[i]
        /\ LET c == calls'[Len(calls) + 1] IN
           c.by = Chat!This /\ c.life = crashes /\ c.raised = FALSE /\ c.opened = Chat!Unopened.opened /\ c.answers = Chat!Unopened.answers
    BY <1>0, <2>2, <2>3, CallIs
  <2>5. InTurn(Chat!Unopened.opened, Chat!Unopened.answers)
    BY <2>1 DEF InTurn
  <2> QED BY <1>2, <1>3, <2>1, <2>2, <2>4, <2>5
<1> QED BY <1>4, <1>5

\* A step keeps CallsInv: a call is made of an update that is past when it has been made.
LEMMA CallsKept ==
    ASSUME ChatConstants, ChatTypes, UpdatesInv, FlowsInv, CallsInv, [Chat!Next]_Chat!bvars PROVE CallsInv'
<1>0. /\ \A i \in 1 .. Len(calls) :
          /\ calls[i].life <= crashes /\ InTurn(calls[i].opened, calls[i].answers)
          /\ calls[i].life = crashes => calls[i].by \in Pasts /\ calls[i].opened \in Pasts
      /\ \A i, j \in 1 .. Len(calls) :
          i < j /\ calls[i].life = calls[j].life => calls[i].by < calls[j].by
      /\ crashes \in Nat /\ Len(calls) \in Nat
      /\ \A i \in 1 .. Len(calls) : calls[i].life \in Nat
  <2>1. calls \in Seq(Calls) /\ crashes \in Nat
    BY DEF ChatTypes, ChatConstants
  <2>2. Len(calls) \in Nat /\ \A i \in 1 .. Len(calls) : calls[i] \in Calls
    BY <2>1, LenProperties
  <2> QED BY <2>1, <2>2 DEF CallsInv, Calls
<1>1. CASE Chat!Crash
  <2>1. calls' = calls /\ crashes' = crashes + 1
    BY <1>1, CrashFlows
  <2>2. \A i \in 1 .. Len(calls) : calls[i].life <= crashes' /\ calls[i].life # crashes'
    BY <1>0, <2>1
  <2> QED BY <1>0, <2>1, <2>2 DEF CallsInv
<1>2. CASE ~ Chat!Crash
  <2>1. /\ Pasts \subseteq Pasts' /\ (Ended => Chat!This \in Pasts') /\ crashes' = crashes
        /\ at.step # "asleep" => Chat!This \in Nat \ {0} /\ \A n \in Pasts : n < Chat!This
    BY <1>2, PastsGrow
  <2>2. CASE calls' = calls
    BY <1>0, <2>1, <2>2 DEF CallsInv
  <2>3. CASE CallTaken \/ CallRaised \/ CallAlone
    <3> DEFINE c == calls'[Len(calls) + 1]
    <3>1. /\ Len(calls') = Len(calls) + 1
          /\ \A i \in 1 .. Len(calls) : calls'[i] = calls[i]
          /\ c.by = Chat!This /\ c.life = crashes /\ InTurn(c.opened, c.answers) /\ c.opened \in Pasts
      BY <2>3, CallMade
    <3>2. Ended /\ at.step # "asleep"
      BY <2>3 DEF CallTaken, CallRaised, CallAlone, Ended
    <3>3. \A i \in 1 .. Len(calls') : i \in 1 .. Len(calls) \/ i = Len(calls) + 1
      BY <1>0, <3>1
    <3>4. c.life <= crashes' /\ c.by \in Pasts' /\ c.opened \in Pasts'
      BY <1>0, <2>1, <3>1, <3>2
    <3>5. ASSUME NEW i \in 1 .. Len(calls') 
          PROVE  /\ calls'[i].life <= crashes' /\ InTurn(calls'[i].opened, calls'[i].answers)
                 /\ calls'[i].life = crashes' => calls'[i].by \in Pasts' /\ calls'[i].opened \in Pasts'
      BY <1>0, <2>1, <3>1, <3>3, <3>4
    <3>6. ASSUME NEW i \in 1 .. Len(calls'), NEW j \in 1 .. Len(calls'), i < j, calls'[i].life = calls'[j].life
          PROVE  calls'[i].by < calls'[j].by
      <4>1. i \in 1 .. Len(calls)
        BY <1>0, <3>1, <3>6
      <4>2. CASE j \in 1 .. Len(calls)
        BY <1>0, <3>1, <3>6, <4>1, <4>2
      <4>3. CASE j = Len(calls) + 1
        <5>1. calls[i].life = crashes
          BY <3>1, <3>6, <4>1, <4>3
        <5>2. calls[i].by \in Pasts
          BY <1>0, <4>1, <5>1
        <5>3. calls[i].by < Chat!This
          BY <2>1, <3>2, <5>2
        <5> QED BY <3>1, <4>1, <4>3, <5>3
      <4> QED BY <3>3, <4>2, <4>3
    <3> QED BY <3>5, <3>6 DEF CallsInv
  <2> QED BY <1>2, <2>2, <2>3, CallMoves DEF Stays, Forgets, HandsOver, OpensFlow, Advances
<1> QED BY <1>1, <1>2

\* A step keeps OnceInv: a flow that was called for is closed, and opened again only if the call raised.
LEMMA OnceKept ==
    ASSUME ChatConstants, ChatTypes, UpdatesInv, FlowsInv, CallsInv, OnceInv, [Chat!Next]_Chat!bvars PROVE OnceInv'
<1>0. /\ \A i \in 1 .. Len(calls) :
          /\ calls[i].life <= crashes
          /\ calls[i].life = crashes => calls[i].opened \in Pasts
      /\ crashes \in Nat /\ Len(calls) \in Nat
      /\ \A i \in 1 .. Len(calls) : calls[i].life \in Nat
      /\ at.step # "asleep" => Chat!This \in Nat \ {0} /\ \A n \in Pasts : n < Chat!This
      /\ Pasts \subseteq Nat
  <2>1. calls \in Seq(Calls) /\ crashes \in Nat
    BY DEF ChatTypes, ChatConstants
  <2>2. Len(calls) \in Nat /\ \A i \in 1 .. Len(calls) : calls[i] \in Calls
    BY <2>1, LenProperties
  <2>3. at.step # "asleep" => Chat!This \in Nat \ {0} /\ Chat!This \in Waiting
    BY UpdatesAre DEF Waiting, Hands
  <2>4. at.step # "asleep" => \A n \in Pasts : n < Chat!This
    BY <2>3 DEF Pasts, Past
  <2> QED BY <2>1, <2>2, <2>3, <2>4 DEF CallsInv, Calls, Pasts
<1>a. /\ \A i \in 1 .. Len(calls) :
            calls[i].life = crashes /\ ~ calls[i].raised /\ calls[i].opened # 0 =>
              calls[i].opened # pending.opened /\ (Submitting => calls[i].opened # at.was.opened)
      /\ \A i, j \in 1 .. Len(calls) :
            i < j /\ calls[i].life = calls[j].life /\ calls[i].opened = calls[j].opened
              => calls[i].opened = 0 \/ calls[i].raised
  BY DEF OnceInv
<1>1. CASE Chat!Crash
  <2>1. calls' = calls /\ crashes' = crashes + 1
    BY <1>1, CrashFlows
  <2>2. \A i \in 1 .. Len(calls) : calls[i].life # crashes'
    BY <1>0, <2>1
  <2> QED BY <1>a, <2>1, <2>2 DEF OnceInv
<1>b. ASSUME ~ Chat!Crash PROVE crashes' = crashes
  BY <1>b, PastsGrow
<1>2. ASSUME ~ Chat!Crash, calls' = calls, pending'.opened \in {pending.opened, 0, IF at.step # "asleep" THEN Chat!This ELSE 0},
             Submitting' => at'.was.opened \in {pending.opened} \cup IF Submitting THEN {at.was.opened} ELSE {}
      PROVE  OnceInv'
  <2>1. crashes' = crashes
    BY <1>2, <1>b
  <2>2. ASSUME NEW i \in 1 .. Len(calls'), calls'[i].life = crashes', ~ calls'[i].raised, calls'[i].opened # 0
        PROVE  calls'[i].opened # pending'.opened /\ (Submitting' => calls'[i].opened # at'.was.opened)
    <3>1. i \in 1 .. Len(calls) /\ calls[i].life = crashes /\ ~ calls[i].raised /\ calls[i].opened # 0
      BY <1>2, <2>1, <2>2
    <3>2. calls[i].opened # pending.opened /\ (Submitting => calls[i].opened # at.was.opened)
      BY <1>a, <3>1
    <3>3. at.step # "asleep" => calls[i].opened # Chat!This
      BY <1>0, <3>1
    <3> QED BY <1>2, <3>1, <3>2, <3>3
  <2> QED BY <1>2, <1>a, <2>1, <2>2 DEF OnceInv
<1>3. CASE ~ Chat!Crash /\ Stays
  <2>1. calls' = calls /\ pending' = pending
    BY <1>3 DEF Stays
  <2>2. Submitting' => at'.was = at.was /\ Submitting
    BY <1>3 DEF Stays, Submitting
  <2> QED BY <1>2, <1>3, <2>1, <2>2
<1>4. CASE ~ Chat!Crash /\ Forgets
  BY <1>2, <1>4, AsleepIs DEF Forgets
<1>5. CASE ~ Chat!Crash /\ HandsOver
  BY <1>2, <1>5, AsleepIs DEF HandsOver
<1>6. CASE ~ Chat!Crash /\ OpensFlow
  <2>1. calls' = calls /\ pending'.opened = Chat!This /\ at.step # "asleep" /\ ~ Submitting'
    BY <1>6, AsleepIs DEF OpensFlow, Chat!Open, Ended, Chat!Handled, Submitting
  <2> QED BY <1>2, <1>6, <2>1
<1>7. CASE ~ Chat!Crash /\ Advances
  <2>1. calls' = calls /\ at.step # "asleep" /\ ~ Submitting'
    BY <1>7, AsleepIs DEF Advances, Ended, Chat!Handled, Submitting
  <2>2. pending \in Flows /\ Chat!This \in Nat
    BY <1>0, <2>1 DEF ChatTypes
  <2>3. pending' = [Chat!Answered EXCEPT !.stage = Chat!After[pending.stage]]
    BY <1>7 DEF Advances
  <2>4. Chat!Answered \in Flows /\ Chat!Answered.opened = pending.opened
    BY <2>2, AnsweredIs DEF Chat!Answered
  <2>5. pending'.opened = pending.opened
    BY <2>3, <2>4 DEF Flows
  <2> QED BY <1>2, <1>7, <2>1, <2>5
<1>8. CASE ~ Chat!Crash /\ (CallTaken \/ CallRaised \/ CallAlone)
  <2> DEFINE c == calls'[Len(calls) + 1]
  <2>1. /\ Len(calls') = Len(calls) + 1 /\ ~ Submitting' /\ crashes' = crashes
        /\ \A i \in 1 .. Len(calls) : calls'[i] = calls[i]
        /\ c.life = crashes
        /\ CallTaken \/ CallRaised => c.opened = at.was.opened
        /\ CallAlone => c.opened = 0
        /\ CallRaised => c.raised
    BY <1>8, CallMade
  <2> HIDE DEF c
  <2>c. calls'[Len(calls) + 1] = c
    BY DEF c
  <2>2. \A i \in 1 .. Len(calls') : i \in 1 .. Len(calls) \/ i = Len(calls) + 1
    BY <1>0, <2>1
  <2>3. /\ CallTaken \/ CallRaised => Submitting /\ pending.opened = 0
        /\ pending' = pending \/ (CallRaised /\ pending' = at.was)
    BY <1>8, AsleepIs DEF CallTaken, CallRaised, CallAlone, FlowsInv
  <2>4. ASSUME NEW i \in 1 .. Len(calls'), calls'[i].life = crashes', ~ calls'[i].raised, calls'[i].opened # 0
        PROVE  calls'[i].opened # pending'.opened
    <3>1. CASE i \in 1 .. Len(calls)
      <4>1. calls'[i] = calls[i] /\ calls[i].life = crashes /\ ~ calls[i].raised /\ calls[i].opened # 0
        BY <2>1, <2>4, <3>1
      <4>2. calls[i].opened # pending.opened /\ (Submitting => calls[i].opened # at.was.opened)
        BY <1>a, <3>1, <4>1
      <4> QED BY <2>3, <4>1, <4>2
    <3>2. CASE i = Len(calls) + 1
      <4>1. calls'[i] = c
        BY <2>c, <3>2
      <4>2. ~ CallRaised /\ c.opened # 0
        BY <2>1, <2>4, <4>1
      <4>3. CallTaken /\ pending' = pending
        BY <1>8, <2>1, <2>3, <4>2
      <4> QED BY <2>3, <4>1, <4>2, <4>3
    <3> QED BY <2>2, <3>1, <3>2
  <2>5. ASSUME NEW i \in 1 .. Len(calls'), NEW j \in 1 .. Len(calls'), i < j,
               calls'[i].life = calls'[j].life, calls'[i].opened = calls'[j].opened
        PROVE  calls'[i].opened = 0 \/ calls'[i].raised
    <3>1. i \in 1 .. Len(calls) /\ calls'[i] = calls[i]
      BY <1>0, <2>1, <2>5
    <3>2. CASE j \in 1 .. Len(calls)
      <4>1. calls'[j] = calls[j]
        BY <2>1, <3>2
      <4> QED BY <1>a, <2>5, <3>1, <3>2, <4>1
    <3>3. CASE j = Len(calls) + 1
      <4>1. calls'[j] = c
        BY <2>c, <3>3
      <4>2. calls[i].life = crashes /\ calls[i].opened = c.opened
        BY <2>1, <2>5, <3>1, <4>1
      <4>3. CASE CallAlone
        BY <2>1, <3>1, <4>2, <4>3
      <4>4. CASE CallTaken \/ CallRaised
        <5>1. calls[i].opened = at.was.opened /\ Submitting
          BY <2>1, <2>3, <4>2, <4>4
        <5>2. calls[i].opened = 0 \/ calls[i].raised
          BY <1>a, <3>1, <4>2, <5>1
        <5> QED BY <3>1, <5>2
      <4> QED BY <1>8, <4>3, <4>4
    <3> QED BY <2>2, <3>2, <3>3
  <2> QED BY <2>1, <2>4, <2>5 DEF OnceInv
<1> QED BY <1>1, <1>3, <1>4, <1>5, <1>6, <1>7, <1>8, CallMoves

(* What is shown                                                           *)

\* What is known of the panes and the turns.
LEMMA ShownAre ==
    ASSUME ChatConstants, ChatTypes, UpdatesInv, PanesInv, TurnsInv
    PROVE  /\ total \in Nat /\ Pasts \subseteq Nat /\ at \in Workers /\ at.agent \in People
           /\ at.step # "asleep" => Chat!This \in 1 .. total /\ Chat!This \notin Pasts
           /\ slot.id \in 0 .. total
           /\ renders \in [People -> 0 .. total]
<1>1. at \in Workers /\ total \in Nat /\ Waiting \subseteq 1 .. total
  BY UpdatesAre
<1>2. at.step # "asleep" => Chat!This \in Waiting
  BY DEF Waiting, Hands
<1>3. \A n \in Pasts : n \in Nat /\ \A m \in Waiting : n < m
  BY DEF Pasts, Past
<1>4. at.agent \in People
  BY <1>1 DEF Workers
<1>5. slot.id \in 0 .. total
  BY DEF PanesInv
<1>6. renders \in [People -> 0 .. total]
  BY DEF TurnsInv
<1>7. at.step # "asleep" => Chat!This \notin Pasts
  BY <1>1, <1>2, <1>3
<1> QED BY <1>1, <1>2, <1>3, <1>4, <1>5, <1>6, <1>7

\* A step that leaves what is shown alone.
ShownStay ==
    /\ Chat!panes' = Chat!panes /\ Chat!activity' = Chat!activity /\ told \subseteq told' /\ told' \subseteq told \cup watching
    /\ \/ at' = at
       \/ at'.step \notin {"start", "swapped", "send"} /\ at.step # "swapped" /\ (at.step # "asleep" => Ended)
       \/ at'.step \notin {"start", "swapped", "send"} /\ at.step = "dispatch"

LEMMA ShownMoves ==
    ASSUME ChatTypes, [Chat!Next]_Chat!bvars
    PROVE  \/ ShownStay \/ Chat!WatchPick \/ Chat!WatchStart \/ Chat!Prompt \/ Chat!StopOld \/ Chat!Refused \/ Chat!Crash
           \/ \E a \in People : Chat!Reply(a)
           \/ \E t \in popped : Chat!Finalize(t)
           \/ \E t \in turns : Chat!TurnEnds(t)
           \/ \E w \in watching : Chat!WatchEnds(w)
           \/ \E w \in leaving : Chat!Clear(w)
<1>0. at \in Workers
  BY DEF ChatTypes
<1>a. ASSUME at' = Chat!Asleep PROVE at'.step \notin {"start", "swapped", "send"}
  BY <1>a, AsleepIs
<1>1. CASE \/ Chat!DeclineEdited \/ Chat!AskAgain \/ Chat!Declined \/ Chat!Look \/ Chat!Unwatch \/ Chat!StopNothing \/ Chat!PickTarget \/ Chat!ToggleVoice
           \/ Chat!Begin \/ Chat!Cancel \/ Chat!Advance \/ Chat!Photo \/ Chat!Control
  <2>1. at.step = "dispatch" /\ at' = Chat!Asleep /\ UNCHANGED <<Chat!panes, Chat!activity>>
    BY <1>1
    DEF Chat!DeclineEdited, Chat!AskAgain, Chat!Declined, Chat!Look, Chat!Unwatch,
        Chat!StopNothing, Chat!PickTarget, Chat!ToggleVoice,
                Chat!Begin, Chat!Cancel, Chat!Advance, Chat!Photo, Chat!Control, Chat!Handled, Chat!Answering, Chat!Tapped, Chat!Command, Chat!Says, Chat!Typed, Chat!Now
  <2>2. told' = told \/ told' = told \cup ({slot.id} \cap watching)
    BY <1>1
    DEF Chat!DeclineEdited, Chat!AskAgain, Chat!Declined, Chat!Look, Chat!Unwatch,
        Chat!StopNothing, Chat!PickTarget, Chat!ToggleVoice,
                Chat!Begin, Chat!Cancel, Chat!Advance, Chat!Photo, Chat!Control
  <2> QED BY <1>a, <2>1, <2>2 DEF ShownStay
<1>2. CASE Chat!Submitted \/ Chat!Raised \/ Chat!Sent
  BY <1>a, <1>2
  DEF Chat!Submitted, Chat!Raised, Chat!Sent, Chat!Now, ShownStay, Ended, Chat!Handled
<1>3. CASE Chat!LastAnswer \/ Chat!Priority
  <2>1. /\ at.step = "dispatch" /\ UNCHANGED <<Chat!panes, Chat!activity, told>>
        /\ \E s \in {"submit", "add"} : at' = [at EXCEPT !.step = s, !.flow = Chat!Answered, !.was = pending]
    BY <1>3
    DEF Chat!LastAnswer, Chat!Priority, Chat!Answering, Chat!Tapped, Chat!Says, Chat!Typed,
        Chat!Now
  <2>2. at'.step \in {"submit", "add"}
    BY <1>0, <2>1 DEF Workers
  <2> QED BY <2>1, <2>2 DEF ShownStay
<1>4. CASE Chat!Take
  <2>1. at = Chat!Asleep /\ UNCHANGED <<Chat!panes, Chat!activity, told>> /\ at' = [Chat!Asleep EXCEPT !.step = "dispatch", !.u = Head(queue)]
    BY <1>4 DEF Chat!Take
  <2>2. at'.step = "dispatch" /\ at.step = "asleep"
    BY <2>1, AsleepIs DEF Workers
  <2> QED BY <2>1, <2>2 DEF ShownStay
<1>5. \/ \E u \in said.of : Chat!Say(u)
      \/ Chat!GetUpdates \/ Chat!Submit
      \/ UNCHANGED Chat!bvars
      => UNCHANGED <<at, Chat!panes, Chat!activity, told>>
  BY DEF Chat!Say, Chat!GetUpdates, Chat!Submit, Chat!bvars
<1>6. UNCHANGED <<at, Chat!panes, Chat!activity, told>> => ShownStay
  BY DEF ShownStay
<1> QED BY <1>1, <1>2, <1>3, <1>4, <1>5, <1>6 DEF Chat!Next, People

\* A step keeps PanesInv: the chat's watch is told before another takes its place.
LEMMA PanesKept ==
    ASSUME ChatConstants, ChatTypes, UpdatesInv, PanesInv, TurnsInv, [Chat!Next]_Chat!bvars PROVE PanesInv'
<1>0. /\ total \in Nat /\ Pasts \subseteq Nat /\ at \in Workers
      /\ at.step # "asleep" => Chat!This \in 1 .. total /\ Chat!This \notin Pasts
      /\ slot.id \in 0 .. total
  BY ShownAre
<1>a. /\ slot \in [id : 0 .. total, agent : People]
      /\ watching \cup leaving \subseteq 1 .. total /\ watching \cap leaving = {}
      /\ watching \cup leaving \subseteq Pasts
      /\ \A w \in watching : w = slot.id \/ w \in told
      /\ at.step = "start" => slot.id = Chat!This
  BY DEF PanesInv
<1>n. Chat!Nobody \in [id : 0 .. 0, agent : People] /\ Chat!Nobody.id = 0
  BY DEF Chat!Nobody, People
<1>1. CASE Chat!Crash
  <2>1. slot' = Chat!Nobody /\ watching' = {} /\ leaving' = {} /\ total' = total /\ at' = Chat!Asleep
    BY <1>1 DEF Chat!Crash
  <2> QED BY <1>0, <1>n, <2>1, AsleepIs DEF PanesInv
<1>b. ASSUME ~ Chat!Crash PROVE /\ Pasts \subseteq Pasts' /\ (Ended => Chat!This \in Pasts') /\ total' \in Nat /\ total <= total'
                                /\ 1 .. total \subseteq 1 .. total' /\ 0 .. total \subseteq 0 .. total'
                                /\ slot \in [id : 0 .. total', agent : People]
  <2>1. Pasts \subseteq Pasts' /\ (Ended => Chat!This \in Pasts') /\ total <= total'
    BY <1>b, PastsGrow
  <2>2. total' \in Nat
    BY UpdatesKept DEF ChatConstants, ChatTypes
  <2>3. 1 .. total \subseteq 1 .. total' /\ 0 .. total \subseteq 0 .. total'
    BY <1>0, <2>1, <2>2
  <2> QED BY <1>a, <2>1, <2>2, <2>3
<1>2. ASSUME ~ Chat!Crash, Chat!panes' = Chat!panes, \A w \in watching : w \in told => w \in told',
             at' = at \/ at'.step # "start"
      PROVE  PanesInv'
  <2>1. slot' = slot /\ watching' = watching /\ leaving' = leaving
    BY <1>2 DEF Chat!panes
  <2>2. at'.step = "start" => slot'.id = Chat!This'
    BY <1>2, <1>a, <2>1 DEF Chat!This
  <2> QED BY <1>a, <1>b, <1>2, <2>1, <2>2 DEF PanesInv
<1>3. CASE ~ Chat!Crash /\ ShownStay
  BY <1>2, <1>3 DEF ShownStay
<1>4. CASE ~ Chat!Crash /\ Chat!WatchPick
  <2>1. /\ told' = told \cup ({slot.id} \cap watching)
        /\ slot' = [id |-> Chat!This, agent |-> at.u.is.agent] /\ at' = [at EXCEPT !.step = "start"]
        /\ UNCHANGED <<watching, leaving>> /\ at.step # "asleep"
    BY <1>4 DEF Chat!WatchPick, Chat!Command, Chat!Says, Chat!Now
  <2>2. at.u.is.agent \in People
    BY <2>1, ThisIs
  <2>3. at'.u = at.u
    BY <1>0, <2>1 DEF Workers
  <2>4. slot' \in [id : 0 .. total', agent : People] /\ slot'.id = Chat!This'
    <3>1. Chat!This \in 0 .. total'
      BY <1>0, <1>4, <1>b, <2>1
    <3> QED BY <2>1, <2>2, <2>3, <3>1 DEF Chat!This
  <2> QED BY <1>a, <1>4, <1>b, <2>1, <2>4 DEF PanesInv
<1>5. CASE ~ Chat!Crash /\ Chat!WatchStart
  <2>1. watching' = watching \cup {Chat!This} /\ Ended /\ at.step = "start" /\ at' = Chat!Asleep
        /\ UNCHANGED <<slot, leaving, told>>
    BY <1>5 DEF Chat!WatchStart, Chat!Now, Ended, Chat!Handled
  <2>2. slot.id = Chat!This /\ Chat!This \in Pasts' /\ Chat!This \in 1 .. total' /\ Chat!This \notin leaving
    BY <1>0, <1>a, <1>5, <1>b, <2>1
  <2>3. at'.step # "start"
    BY <2>1, AsleepIs
  <2> QED BY <1>a, <1>5, <1>b, <2>1, <2>2, <2>3 DEF PanesInv
<1>6. ASSUME ~ Chat!Crash, NEW w \in watching, Chat!WatchEnds(w) PROVE PanesInv'
  <2>1. watching' = watching \ {w} /\ leaving' = leaving \cup {w} /\ told' = told \ {w} /\ UNCHANGED <<slot, at>>
    BY <1>6 DEF Chat!WatchEnds
  <2>2. at'.step = "start" => slot'.id = Chat!This'
    BY <1>a, <2>1 DEF Chat!This
  <2> QED BY <1>a, <1>6, <1>b, <2>1, <2>2 DEF PanesInv
<1>7. ASSUME ~ Chat!Crash, NEW w \in leaving, Chat!Clear(w) PROVE PanesInv'
  <2>1. leaving' = leaving \ {w} /\ slot' = (IF slot.id = w THEN Chat!Nobody ELSE slot) /\ UNCHANGED <<watching, told, at>>
    BY <1>7 DEF Chat!Clear
  <2>2. at'.step = "start" => slot'.id = Chat!This'
    <3>1. ASSUME at.step = "start" PROVE slot.id # w
      BY <1>0, <1>a, <1>7, <3>1
    <3> QED BY <1>a, <2>1, <3>1 DEF Chat!This
  <2>3. slot' \in [id : 0 .. total', agent : People]
    <3>1. Chat!Nobody \in [id : 0 .. total', agent : People]
      BY <1>7, <1>b, <1>n
    <3> QED BY <1>7, <1>b, <2>1, <3>1
  <2>4. \A v \in watching' : v = slot'.id \/ v \in told'
    <3>1. \A v \in watching : v # w
      BY <1>a, <1>7
    <3> QED BY <1>a, <2>1, <3>1
  <2> QED BY <1>a, <1>7, <1>b, <2>1, <2>2, <2>3, <2>4 DEF PanesInv
<1>8. CASE ~ Chat!Crash /\ (Chat!Prompt \/ Chat!StopOld \/ Chat!Refused)
  <2>1. Chat!panes' = Chat!panes /\ told \subseteq told'
    BY <1>8 DEF Chat!Prompt, Chat!StopOld, Chat!Refused
  <2>2. at'.step # "start"
    <3>1. CASE Chat!Prompt \/ Chat!StopOld
      BY <1>0, <3>1 DEF Chat!Prompt, Chat!StopOld, Workers
    <3>2. CASE Chat!Refused
      BY <3>2, AsleepIs DEF Chat!Refused, Chat!Handled
    <3> QED BY <1>8, <3>1, <3>2
  <2> QED BY <1>2, <1>8, <2>1, <2>2
<1>9. ASSUME ~ Chat!Crash, \/ \E a \in People : Chat!Reply(a)
                           \/ \E t \in popped : Chat!Finalize(t)
      PROVE  PanesInv'
  <2>1. Chat!panes' = Chat!panes /\ told' = told /\ at' = at
    BY <1>9 DEF Chat!Reply, Chat!Finalize
  <2> QED BY <1>2, <1>9, <2>1
<1>10. ASSUME ~ Chat!Crash, NEW t \in turns, Chat!TurnEnds(t) PROVE PanesInv'
  <2>1. Chat!panes' = Chat!panes /\ told' = told \ {t.id} /\ at' = at
    BY <1>10 DEF Chat!TurnEnds
  <2>2. t.id \notin watching
    BY <1>10 DEF TurnsInv
  <2> QED BY <1>2, <1>10, <2>1, <2>2
<1> QED BY <1>1, <1>3, <1>4, <1>5, <1>6, <1>7, <1>8, <1>9, <1>10, ShownMoves

\* A step keeps TurnsInv: what an agent's display is replaced by is shown, and it is told itself.
LEMMA TurnsKept ==
    ASSUME ChatConstants, ChatTypes, UpdatesInv, PanesInv, TurnsInv, [Chat!Next]_Chat!bvars PROVE TurnsInv'
<1>0. /\ total \in Nat /\ Pasts \subseteq Nat /\ at \in Workers /\ at.agent \in People
      /\ at.step # "asleep" => Chat!This \in 1 .. total /\ Chat!This \notin Pasts
      /\ slot.id \in 0 .. total
      /\ watching \subseteq Pasts /\ watching \subseteq 1 .. total
  BY ShownAre DEF PanesInv
<1>a. /\ renders \in [People -> 0 .. total] /\ turns \subseteq [id : 1 .. total, agent : People]
      /\ told \cup finished \cup popped \subseteq 1 .. total
      /\ \A t \in turns : t.id \in Pasts \/ (at.step = "send" /\ t.id = Chat!This)
      /\ \A t \in turns : t.id \notin watching
      /\ \A t, s \in turns : t.id = s.id => t = s
      /\ \A t \in turns : \/ renders[t.agent] = t.id
                          \/ t.id \in told \cup finished \cup popped
                          \/ at.step = "swapped" /\ at.old = t.id
      /\ at.step = "swapped" => renders[at.agent] = Chat!This \/ Chat!This \in popped \cup finished
  BY DEF TurnsInv
<1>1. CASE Chat!Crash
  <2>1. /\ renders' = [a \in People |-> 0] /\ turns' = {} /\ finished' = {} /\ popped' = {} /\ told' = {}
        /\ at' = Chat!Asleep /\ total' = total
    BY <1>1 DEF Chat!Crash, People
  <2> QED BY <1>0, <2>1, AsleepIs DEF TurnsInv
<1>b. ASSUME ~ Chat!Crash PROVE /\ Pasts \subseteq Pasts' /\ (Ended => Chat!This \in Pasts') /\ total' \in Nat /\ total <= total'
                                /\ 1 .. total \subseteq 1 .. total' /\ 0 .. total \subseteq 0 .. total'
                                /\ renders \in [People -> 0 .. total']
                                /\ turns \subseteq [id : 1 .. total', agent : People]
                                /\ told \cup finished \cup popped \subseteq 1 .. total'
  <2>1. Pasts \subseteq Pasts' /\ (Ended => Chat!This \in Pasts') /\ total <= total'
    BY <1>b, PastsGrow
  <2>2. total' \in Nat
    BY UpdatesKept DEF ChatConstants, ChatTypes
  <2>3. 1 .. total \subseteq 1 .. total' /\ 0 .. total \subseteq 0 .. total'
    BY <1>0, <2>1, <2>2
  <2> QED BY <1>a, <2>1, <2>2, <2>3
\* of those that have gone nothing need be said
<1>c. \A t \in turns : t.id \in 1 .. total /\ t.agent \in People
  BY <1>a
<1>2. CASE ~ Chat!Crash /\ (ShownStay \/ Chat!WatchPick \/ Chat!WatchStart)
  <2>1. /\ UNCHANGED <<renders, turns, finished, popped>> /\ told \subseteq told' /\ told' \subseteq told \cup watching
        /\ watching' \subseteq watching \cup (IF at.step = "start" THEN {Chat!This} ELSE {})
        /\ at' = at \/ (at'.step \notin {"swapped", "send"} /\ at.step # "swapped" /\ (at.step = "send" => Ended))
    <3>1. CASE ShownStay
      BY <3>1 DEF ShownStay, Chat!activity, Chat!panes
    <3>2. CASE Chat!WatchPick
      <4>1. at.step = "dispatch" /\ at' = [at EXCEPT !.step = "start"] /\ Chat!activity' = Chat!activity /\ watching' = watching
            /\ told' = told \cup ({slot.id} \cap watching)
        BY <3>2 DEF Chat!WatchPick, Chat!Command, Chat!Says, Chat!Now
      <4>2. at'.step = "start"
        BY <1>0, <4>1 DEF Workers
      <4> QED BY <4>1, <4>2 DEF Chat!activity
    <3>3. CASE Chat!WatchStart
      <4>1. at.step = "start" /\ at' = Chat!Asleep /\ Chat!activity' = Chat!activity /\ watching' = watching \cup {Chat!This} /\ told' = told
        BY <3>3 DEF Chat!WatchStart, Chat!Now, Chat!Handled
      <4> QED BY <4>1, AsleepIs DEF Chat!activity
    <3> QED BY <1>2, <3>1, <3>2, <3>3
  <2>2. \A t \in turns : t.id \notin watching'
    <3>1. at.step = "start" => \A t \in turns : t.id # Chat!This
      BY <1>0, <1>a
    <3> QED BY <1>a, <2>1, <3>1
  <2>3. \A t \in turns' : t.id \in Pasts' \/ (at'.step = "send" /\ t.id = Chat!This')
    <3>1. at' = at => Chat!This' = Chat!This
      BY DEF Chat!This
    <3> QED BY <1>2, <1>a, <1>b, <2>1, <3>1
  <2>4. at'.step = "swapped" => renders'[at'.agent] = Chat!This' \/ Chat!This' \in popped' \cup finished'
    <3>1. at' = at => Chat!This' = Chat!This
      BY DEF Chat!This
    <3> QED BY <1>a, <2>1, <3>1
  <2>5. \A t \in turns' : \/ renders'[t.agent] = t.id
                          \/ t.id \in told' \cup finished' \cup popped'
                          \/ at'.step = "swapped" /\ at'.old = t.id
    BY <1>a, <2>1
  <2>6. told' \cup finished' \cup popped' \subseteq 1 .. total'
    BY <1>0, <1>2, <1>b, <2>1
  <2> QED BY <1>2, <1>a, <1>b, <2>1, <2>2, <2>3, <2>4, <2>5, <2>6 DEF TurnsInv
<1>3. CASE ~ Chat!Crash /\ Chat!Prompt
  <2> DEFINE d == Chat!Destination
  <2>1. /\ at.step = "dispatch" /\ at' = [at EXCEPT !.step = "swapped", !.agent = d, !.old = renders[d]]
        /\ renders' = [renders EXCEPT ![d] = Chat!This] /\ UNCHANGED <<Chat!panes, turns, finished, popped, told>>
    BY <1>3 DEF Chat!Prompt, Chat!Command, Chat!Says, Chat!Now
  <2>2. d \in People
    BY <2>1, ThisIs
  <2> HIDE DEF d
  <2>3. at'.step = "swapped" /\ at'.agent = d /\ at'.old = renders[d] /\ Chat!This' = Chat!This
    BY <1>0, <2>1 DEF Workers, Chat!This
  <2>4. renders'[d] = Chat!This /\ \A a \in People : a # d => renders'[a] = renders[a]
    BY <1>a, <2>1, <2>2
  <2>5. renders' \in [People -> 0 .. total']
    <3>1. Chat!This \in 0 .. total'
      BY <1>0, <1>3, <1>b, <2>1
    <3> QED BY <1>3, <1>b, <2>1, <3>1
  <2>6. \A t \in turns' : \/ renders'[t.agent] = t.id
                          \/ t.id \in told' \cup finished' \cup popped'
                          \/ at'.step = "swapped" /\ at'.old = t.id
    BY <1>a, <1>c, <2>1, <2>3, <2>4
  <2>7. \A t \in turns' : t.id \in Pasts' \/ (at'.step = "send" /\ t.id = Chat!This')
    BY <1>a, <1>3, <1>b, <2>1
  <2>8. watching' = watching
    BY <2>1 DEF Chat!panes
  <2> QED BY <1>3, <1>a, <1>b, <2>1, <2>3, <2>4, <2>5, <2>6, <2>7, <2>8 DEF TurnsInv
<1>4. CASE ~ Chat!Crash /\ Chat!StopOld
  <2> DEFINE r == [id |-> Chat!This, agent |-> at.agent]
  <2>1. /\ at.step = "swapped" /\ at' = [at EXCEPT !.step = "send", !.old = 0]
        /\ told' = told \cup Chat!Live(at.old) /\ finished' = finished \cup Chat!Live(at.old)
        /\ turns' = turns \cup {r} /\ UNCHANGED <<Chat!panes, renders, popped>>
    BY <1>4 DEF Chat!StopOld, Chat!Now
  <2>2. at'.step = "send" /\ Chat!This' = Chat!This
    BY <1>0, <2>1 DEF Workers, Chat!This
  <2>3. Chat!This \in 1 .. total /\ Chat!This \notin Pasts
    BY <1>0, <2>1
  <2>4. Chat!Live(at.old) \subseteq 1 .. total
    BY <1>c, <2>3 DEF Chat!Live
  <2>5. r \in [id : 1 .. total', agent : People] /\ r.id = Chat!This /\ r.agent = at.agent
    BY <1>0, <1>4, <1>b, <2>3
  <2> HIDE DEF r
  <2>6. \A t \in turns : t.id \in Pasts
    BY <1>a, <2>1
  <2>7. \A t, s \in turns' : t.id = s.id => t = s
    BY <1>a, <2>1, <2>3, <2>5, <2>6
  <2>8. \A t \in turns' : \/ renders'[t.agent] = t.id
                          \/ t.id \in told' \cup finished' \cup popped'
    <3>1. ASSUME NEW t \in turns, at.old = t.id PROVE t.id \in finished'
      BY <2>1, <3>1 DEF Chat!Live
    <3>2. renders'[r.agent] = r.id \/ r.id \in finished' \cup popped'
      BY <1>a, <2>1, <2>5
    <3> QED BY <1>a, <2>1, <3>1, <3>2
  <2>9. /\ \A t \in turns' : t.id \in Pasts' \/ (at'.step = "send" /\ t.id = Chat!This')
        /\ \A t \in turns' : t.id \notin watching'
    <3>1. watching' = watching
      BY <2>1 DEF Chat!panes
    <3>2. \A t \in turns' : t \in turns \/ t = r
      BY <2>1
    <3>3. \A t \in turns : t.id \in Pasts' /\ t.id \notin watching'
      BY <1>4, <1>a, <1>b, <2>6, <3>1
    <3>4. Chat!This \notin watching'
      BY <1>0, <2>3, <3>1
    <3> QED BY <2>2, <2>5, <3>2, <3>3, <3>4
  <2>10. told' \cup finished' \cup popped' \subseteq 1 .. total'
    BY <1>4, <1>b, <2>1, <2>4
  <2> QED BY <1>4, <1>b, <2>1, <2>2, <2>5, <2>7, <2>8, <2>9, <2>10 DEF TurnsInv
<1>5. CASE ~ Chat!Crash /\ Chat!Refused
  <2>1. /\ at.step = "send" /\ Ended /\ at' = Chat!Asleep /\ UNCHANGED <<Chat!panes, turns, finished, told>>
        /\ \/ renders[at.agent] = Chat!This /\ renders' = [renders EXCEPT ![at.agent] = 0] /\ popped' = popped \cup {Chat!This}
           \/ UNCHANGED <<renders, popped>>
    BY <1>5 DEF Chat!Refused, Chat!Now, Ended, Chat!Handled, Chat!Pop
  <2>2. at'.step = "asleep"
    BY <2>1, AsleepIs
  <2>3. renders' \in [People -> 0 .. total'] /\ popped' \subseteq 1 .. total'
        /\ \A a \in People : renders'[a] = renders[a] \/ (renders[a] = Chat!This /\ Chat!This \in popped')
    BY <1>0, <1>a, <1>5, <1>b, <2>1
  <2>4. \A t \in turns' : \/ renders'[t.agent] = t.id
                          \/ t.id \in told' \cup finished' \cup popped'
    <3>1. popped \subseteq popped'
      BY <2>1
    <3> QED BY <1>a, <1>c, <2>1, <2>3, <3>1
  <2>5. \A t \in turns' : t.id \in Pasts'
    BY <1>a, <1>5, <1>b, <2>1
  <2>6. watching' = watching
    BY <2>1 DEF Chat!panes
  <2> QED BY <1>5, <1>a, <1>b, <2>1, <2>2, <2>3, <2>4, <2>5, <2>6 DEF TurnsInv
<1>6. ASSUME ~ Chat!Crash, NEW a \in People, Chat!Reply(a) PROVE TurnsInv'
  <2>1. /\ renders[a] # 0 /\ renders' = [renders EXCEPT ![a] = 0] /\ popped' = popped \cup {renders[a]}
        /\ UNCHANGED <<at, Chat!panes, turns, finished, told>>
    BY <1>6 DEF Chat!Reply, Chat!Pop
  <2>2. renders' \in [People -> 0 .. total'] /\ popped' \subseteq 1 .. total'
    <3>1. renders[a] \in 1 .. total
      BY <1>a, <1>0, <2>1
    <3>2. 0 \in 0 .. total'
      BY <1>6, <1>b
    <3> QED BY <1>6, <1>b, <2>1, <3>1, <3>2
  <2>3. \A b \in People : renders'[b] = renders[b] \/ renders[b] \in popped'
    BY <1>a, <2>1
  <2>4. Chat!This' = Chat!This /\ watching' = watching
    BY <2>1 DEF Chat!This, Chat!panes
  <2>5. \A t \in turns' : \/ renders'[t.agent] = t.id
                          \/ t.id \in told' \cup finished' \cup popped'
                          \/ at'.step = "swapped" /\ at'.old = t.id
    <3>1. popped \subseteq popped'
      BY <2>1
    <3> QED BY <1>a, <1>c, <2>1, <2>3, <3>1
  <2>6. at'.step = "swapped" => renders'[at'.agent] = Chat!This' \/ Chat!This' \in popped' \cup finished'
    BY <1>0, <1>a, <2>1, <2>3, <2>4
  <2>7. \A t \in turns' : t.id \in Pasts' \/ (at'.step = "send" /\ t.id = Chat!This')
    BY <1>a, <1>6, <1>b, <2>1, <2>4
  <2> QED BY <1>6, <1>a, <1>b, <2>1, <2>2, <2>4, <2>5, <2>6, <2>7 DEF TurnsInv
<1>7. ASSUME ~ Chat!Crash, NEW n \in popped, Chat!Finalize(n) PROVE TurnsInv'
  <2>1. /\ popped' = popped \ {n} /\ finished' = finished \cup Chat!Live(n)
        /\ UNCHANGED <<at, Chat!panes, renders, turns, told>>
    BY <1>7 DEF Chat!Finalize
  <2>2. Chat!This' = Chat!This /\ watching' = watching
    BY <2>1 DEF Chat!This, Chat!panes
  <2>3. Chat!Live(n) \subseteq 1 .. total
    BY <1>a, <1>7 DEF Chat!Live
  <2>4. \A t \in turns : t.id = n => n \in finished'
    BY <2>1 DEF Chat!Live
  <2>5. at.step = "swapped" /\ n = Chat!This => n \in finished'
    BY <2>1 DEF Chat!Live, Chat!Now
  <2>6. \A t \in turns' : \/ renders'[t.agent] = t.id
                          \/ t.id \in told' \cup finished' \cup popped'
                          \/ at'.step = "swapped" /\ at'.old = t.id
    BY <1>a, <2>1, <2>4
  <2>7. at'.step = "swapped" => renders'[at'.agent] = Chat!This' \/ Chat!This' \in popped' \cup finished'
    BY <1>a, <2>1, <2>2, <2>5
  <2>8. \A t \in turns' : t.id \in Pasts' \/ (at'.step = "send" /\ t.id = Chat!This')
    BY <1>a, <1>7, <1>b, <2>1, <2>2
  <2>9. told' \cup finished' \cup popped' \subseteq 1 .. total'
    BY <1>7, <1>b, <2>1, <2>3
  <2> QED BY <1>7, <1>a, <1>b, <2>1, <2>2, <2>6, <2>7, <2>8, <2>9 DEF TurnsInv
<1>8. ASSUME ~ Chat!Crash, NEW e \in turns, Chat!TurnEnds(e) PROVE TurnsInv'
  <2>1. /\ turns' = turns \ {e} /\ finished' = finished \ {e.id} /\ told' = told \ {e.id}
        /\ UNCHANGED <<at, Chat!panes, renders, popped>>
    BY <1>8 DEF Chat!TurnEnds
  <2>2. Chat!This' = Chat!This /\ watching' = watching
    BY <2>1 DEF Chat!This, Chat!panes
  <2>3. \A t \in turns' : t.id # e.id
    BY <1>a, <1>8, <2>1
  <2>4. at.step = "swapped" => e.id # Chat!This
    BY <1>0, <1>a, <1>8
  <2>5. \A t \in turns' : \/ renders'[t.agent] = t.id
                          \/ t.id \in told' \cup finished' \cup popped'
                          \/ at'.step = "swapped" /\ at'.old = t.id
    BY <1>a, <2>1, <2>3
  <2>6. at'.step = "swapped" => renders'[at'.agent] = Chat!This' \/ Chat!This' \in popped' \cup finished'
    BY <1>a, <2>1, <2>2, <2>4
  <2>7. \A t \in turns' : t.id \in Pasts' \/ (at'.step = "send" /\ t.id = Chat!This')
    BY <1>a, <1>8, <1>b, <2>1, <2>2
  <2> QED BY <1>8, <1>a, <1>b, <2>1, <2>2, <2>5, <2>6, <2>7 DEF TurnsInv
<1>9. ASSUME ~ Chat!Crash, NEW w, \/ w \in watching /\ Chat!WatchEnds(w)
                                  \/ w \in leaving /\ Chat!Clear(w)
      PROVE  TurnsInv'
  <2>1. UNCHANGED <<at, Chat!activity>> /\ watching' \subseteq watching
        /\ (told' = told \/ (w \in watching /\ told' = told \ {w}))
    BY <1>9 DEF Chat!WatchEnds, Chat!Clear
  <2>2. UNCHANGED <<renders, turns, finished, popped>> /\ Chat!This' = Chat!This
    BY <2>1 DEF Chat!activity, Chat!This
  <2>3. \A t \in turns : t.id \in told => t.id \in told'
    BY <1>a, <2>1
  <2>4. \A t \in turns' : t.id \in Pasts' \/ (at'.step = "send" /\ t.id = Chat!This')
    BY <1>a, <1>9, <1>b, <2>1, <2>2
  <2>5. \A t \in turns' : \/ renders'[t.agent] = t.id
                          \/ t.id \in told' \cup finished' \cup popped'
                          \/ at'.step = "swapped" /\ at'.old = t.id
    BY <1>a, <2>1, <2>2, <2>3
  <2> QED BY <1>9, <1>a, <1>b, <2>1, <2>2, <2>4, <2>5 DEF TurnsInv
<1> QED BY <1>1, <1>2, <1>3, <1>4, <1>5, <1>6, <1>7, <1>8, <1>9, ShownMoves

(* The bot and its chat                                                    *)

LEMMA ChatInit == ASSUME ChatConstants, Chat!Init PROVE BotInv
<1>1. /\ said \in ChatSessions /\ said.length \in 0 .. ChatMaxUpdates /\ ChatMaxUpdates \in Nat /\ ChatMaxCrashes \in Nat
      /\ total = 0 /\ telegram = <<>> /\ fetched = <<>> /\ offset = 0
      /\ queue = <<>> /\ at = Chat!Asleep
      /\ pending = Chat!NoFlow /\ target = ChatHome /\ voice = FALSE
      /\ slot = Chat!Nobody /\ watching = {} /\ leaving = {}
      /\ renders = [a \in People |-> 0] /\ turns = {} /\ finished = {} /\ popped = {}
      /\ told = {} /\ crashes = 0
      /\ calls = <<>> /\ handled = {} /\ lost = {}
  BY DEF Chat!Init, ChatConstants, People
<1>2. <<>> \in Seq(Items) /\ <<>> \in Seq(Calls) /\ Len(<<>>) = 0 /\ 1 .. 0 = {}
  BY EmptySeq
<1>3. 0 \in Pasts /\ Waiting = {} /\ Hands = {}
  BY <1>1, <1>2, AsleepIs DEF Pasts, Past, Waiting, Hands, Ids
<1>4. ChatTypes
  <2>1. Asked(pending) /\ Asked(at.was) /\ pending \in Flows /\ at \in Workers
        /\ at.step = "asleep"
    BY <1>1, AsleepIs DEF Asked
  <2>2. /\ said \in ChatSessions /\ total \in 0 .. said.length /\ offset \in 0 .. total + 1
        /\ crashes \in 0 .. ChatMaxCrashes /\ handled \cup lost \subseteq 1 .. total
    BY <1>1
  <2>3. telegram \in Seq(Items) /\ fetched \in Seq(Items) /\ queue \in Seq(Items) /\ calls \in Seq(Calls)
    BY <1>1, <1>2
  <2>4. target \in People /\ voice \in BOOLEAN
    BY <1>1 DEF People
  <2> QED BY <1>1, <2>1, <2>2, <2>3, <2>4 DEF ChatTypes
<1>5. UpdatesInv
  BY <1>1, <1>2, <1>3 DEF UpdatesInv, Rising, Ids
<1>6. FlowsInv /\ CallsInv /\ OnceInv
  BY <1>1, <1>2, <1>3, NoneGood, AsleepIs DEF FlowsInv, CallsInv, OnceInv, Submitting
<1>7. PanesInv
  BY <1>1, AsleepIs DEF PanesInv, Chat!Nobody, People
<1>8. TurnsInv
  BY <1>1, AsleepIs DEF TurnsInv
<1> QED BY <1>4, <1>5, <1>6, <1>7, <1>8 DEF BotInv

LEMMA ChatStep == ASSUME ChatConstants, BotInv, [Chat!Next]_Chat!bvars PROVE BotInv'
BY TypesKept, UpdatesKept, FlowsKept, CallsKept, OnceKept, PanesKept, TurnsKept DEF BotInv

\* What follows from it.
LEMMA ChatFollows == ASSUME ChatConstants, BotInv PROVE Chat!ChatTrue /\ Chat!TypeOK
<1>0. /\ ChatTypes /\ UpdatesInv /\ FlowsInv /\ CallsInv /\ OnceInv /\ PanesInv /\ TurnsInv
      /\ telegram \in Seq(Items) /\ fetched \in Seq(Items) /\ queue \in Seq(Items) /\ calls \in Seq(Calls)
      /\ total \in Nat /\ ChatMaxUpdates \in Nat /\ ChatMaxCrashes \in Nat /\ total <= ChatMaxUpdates
      /\ Ids(telegram) \subseteq 1 .. total /\ offset \in 0 .. total + 1
  BY UpdatesAre DEF BotInv, ChatTypes, ChatConstants
<1>1. /\ DOMAIN telegram = 1 .. Len(telegram) /\ DOMAIN fetched = 1 .. Len(fetched)
      /\ DOMAIN queue = 1 .. Len(queue) /\ DOMAIN calls = 1 .. Len(calls)
      /\ \A i \in 1 .. Len(calls) : calls[i] \in Calls
  BY <1>0, LenProperties
<1>2. Chat!InOrderOnce
  <2>1. ASSUME NEW u \in 1 .. total
        PROVE  \/ u \in handled \cup lost
               \/ at # Chat!Asleep /\ Chat!This = u
               \/ \E s \in {telegram, fetched, queue} : \E i \in DOMAIN s : s[i].id = u
    <3>1. u \in handled \cup lost \/ u \in Ids(queue) \/ u \in Hands \/ u \in Ids(telegram)
      BY <1>0 DEF UpdatesInv, Waiting
    <3>2. u \in Hands => at # Chat!Asleep /\ Chat!This = u
      BY AsleepIs DEF Hands
    <3>3. u \in Ids(queue) => \E i \in DOMAIN queue : queue[i].id = u
      BY <1>1 DEF Ids
    <3>4. u \in Ids(telegram) => \E i \in DOMAIN telegram : telegram[i].id = u
      BY <1>1 DEF Ids
    <3> QED BY <3>1, <3>2, <3>3, <3>4
  <2>2. \A i, j \in DOMAIN calls : i < j /\ calls[i].life = calls[j].life => calls[i].by < calls[j].by
    BY <1>0, <1>1 DEF CallsInv
  <2> QED BY <2>1, <2>2 DEF Chat!InOrderOnce
<1>3. Chat!FlowTrue
  <2>1. \A i \in 1 .. Len(calls) : DOMAIN calls[i].answers = 1 .. Len(calls[i].answers)
    <3>1. \A i \in 1 .. Len(calls) : calls[i].answers \in Seq(Nat)
      BY <1>1 DEF Calls
    <3> QED BY <3>1, LenProperties
  <2>2. \A i \in 1 .. Len(calls) : InTurn(calls[i].opened, calls[i].answers)
    BY <1>0 DEF CallsInv
  <2>3. \A i, j \in 1 .. Len(calls) :
          i < j /\ calls[i].opened = calls[j].opened /\ calls[i].life = calls[j].life
            => calls[i].opened = 0 \/ calls[i].raised
    BY <1>0 DEF OnceInv
  <2> QED BY <1>1, <2>1, <2>2, <2>3 DEF Chat!FlowTrue, InTurn
<1>4. Chat!Reachable
  BY <1>0 DEF Chat!Reachable, PanesInv, TurnsInv, Chat!Now
<1>5. Chat!TypeOK
  <2>1. \A i \in DOMAIN telegram : telegram[i].id \in 1 .. total /\ telegram[i].is \in said.of
    BY <1>0, <1>1 DEF Ids, UpdatesInv
  <2>2. said.of \subseteq Chat!Update /\ crashes \in 0 .. ChatMaxCrashes /\ target \in ChatAgents \cup {ChatHome} /\ voice \in BOOLEAN
        /\ handled \cup lost \subseteq 1 .. total
    BY <1>0 DEF ChatTypes, ChatConstants, People
  <2>3. offset \in 0 .. ChatMaxUpdates + 1 /\ 1 .. total \subseteq 1 .. ChatMaxUpdates /\ 0 .. total \subseteq 0 .. ChatMaxUpdates
    BY <1>0
  <2>4. turns \subseteq Chat!Turn
    BY <1>0, <2>3 DEF TurnsInv, Chat!Turn, People
  <2>5. watching \cup leaving \cup told \cup finished \cup popped \subseteq 1 .. ChatMaxUpdates
    BY <1>0, <2>3 DEF TurnsInv, PanesInv
  <2>6. slot \in [id : 0 .. ChatMaxUpdates, agent : ChatAgents \cup {ChatHome}]
    BY <1>0, <2>3 DEF PanesInv, People
  <2>7. \A i \in DOMAIN calls : calls[i].life \in 0 .. ChatMaxCrashes
    <3>1. \A i \in 1 .. Len(calls) : calls[i].life \in Nat /\ calls[i].life <= crashes
      BY <1>0, <1>1 DEF CallsInv, Calls
    <3>2. crashes \in Nat /\ crashes <= ChatMaxCrashes
      BY <1>0, <2>2
    <3> QED BY <1>0, <1>1, <3>1, <3>2
  <2> QED BY <2>1, <2>2, <2>3, <2>4, <2>5, <2>6, <2>7 DEF Chat!TypeOK
<1> QED BY <1>2, <1>3, <1>4, <1>5 DEF Chat!ChatTrue

\* What the operator sends takes effect in order and at most once, a flow is called for
\* once, with the answers it asked for, and whatever is shown can be stopped.
THEOREM ChatSafe == ChatConstants => (Chat!Spec => []Chat!ChatTrue)
<1> SUFFICES ASSUME ChatConstants PROVE Chat!Spec => []Chat!ChatTrue
  OBVIOUS
<1>1. Chat!Init => BotInv
  BY ChatInit
<1>2. BotInv /\ [Chat!Next]_Chat!bvars => BotInv'
  BY ChatStep
<1>3. BotInv => Chat!ChatTrue
  BY ChatFollows
<1> QED BY <1>1, <1>2, <1>3, PTL DEF Chat!Spec
=============================================================================
