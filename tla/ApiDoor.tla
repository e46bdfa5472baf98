------------------------------ MODULE ApiDoor ------------------------------
(***************************************************************************)
(* The door of the API: what a request to post an envelope passes before   *)
(* its envelope is on egress, and how long a stream of messages is served  *)
(* on a token (modules/api/server.py). The lead grants and revokes the     *)
(* tokens by which another office may act as one participant of this one   *)
(* (lib/coop_tokens.py, modules/office/cli.py); participants come and go   *)
(* in the meantime (Reconciler, Membership). Every look at a record in     *)
(* Redis is an action.                                                     *)
(*                                                                         *)
(* One request or one stream at a time (they share nothing but what they   *)
(* read); the door is published. Of a payload only the rules it breaks     *)
(* matter, of a signature whose key made it. The clock matters to a stream *)
(* only.                                                                   *)
(***************************************************************************)
EXTENDS Naturals, FiniteSets

CONSTANTS
    Tokens,        \* ids of cooperation tokens
    Names,         \* participants that come and go
    Requests,      \* requests to post: bearer, to, as, kind, key, broken
    Recheck,       \* COOP_STREAM_RECHECK_INTERVAL_S
    MaxTime,
    MaxChanges,    \* bound: grants, revocations, hires and retirements
    MaxRequests    \* bound: requests and streams

VARIABLES
    now,
    changes,
    registry,   \* the port type of each participant
    starting,   \* the participant a sent StartAgent is to enrol as an API client
    granting,   \* the participant a running coop-grant is for
    tokens,     \* coop-tokens: of each id its participant and whether it is live
    revoked,    \* when each was revoked, 0 when it was not
    request,    \* the request at hand
    at,         \* what it has yet to pass
    coop,       \* the token it is authorized by, "office" for the token of the office
    requests,
    egress,     \* what was accepted
    feed,       \* the open stream: its token, where it is, and its clocks
    \* history:
    held,       \* what was true of registry and tokens at some moment of the request
    page        \* the last page served

office == <<changes, registry, starting, granting, tokens, revoked>>
post   == <<request, at, coop, requests, egress>>
stream == <<feed, page>>
dvars  == <<now, office, post, stream, held>>

NoOne     == "no one"
Fixed     == [host |-> "office", api |-> "api"]
Type(n)   == IF n \in DOMAIN Fixed THEN Fixed[n] ELSE registry[n]
NoRequest == [bearer |-> NoOne]
NoFeed    == [at |-> "closed", token |-> NoOne, started |-> 0, checked |-> 0, began |-> 0]
NoPage    == [token |-> NoOne, started |-> 0, began |-> 0]

Init ==
    /\ now = 1 /\ changes = 0
    /\ registry = [n \in Names |-> "none"] /\ starting = NoOne /\ granting = NoOne
    /\ tokens = [t \in Tokens |-> [participant |-> NoOne, live |-> FALSE]]
    /\ revoked = [t \in Tokens |-> 0]
    /\ request = NoRequest /\ at = "rest" /\ coop = NoOne /\ requests = 0 /\ egress = {}
    /\ feed = NoFeed /\ page = NoPage
    /\ held = {}

-----------------------------------------------------------------------------
(* The office                                                              *)

Tick == feed.at # "closed" /\ now < MaxTime /\ now' = now + 1 /\ UNCHANGED <<office, post, stream>>

Change == changes < MaxChanges /\ changes' = changes + 1

\* The host enrols and lets go.
Hire(n) ==
    /\ registry[n] = "none" /\ Change
    /\ registry' = [registry EXCEPT ![n] = "tmux"]
    /\ UNCHANGED <<now, starting, granting, tokens, revoked, post, stream>>

Retire(n) ==
    /\ registry[n] # "none" /\ Change
    /\ registry' = [registry EXCEPT ![n] = "none"]
    /\ UNCHANGED <<now, starting, granting, tokens, revoked, post, stream>>

\* A StartAgent of coop-grant is opened later, or refused: the name is taken.
Started ==
    /\ starting # NoOne /\ starting' = NoOne
    /\ registry' = IF registry[starting] = "none" THEN [registry EXCEPT ![starting] = "api"]
                   ELSE registry
    /\ UNCHANGED <<now, changes, granting, tokens, revoked, post, stream>>

\* coop-grant: the participant must not be an agent; its StartAgent is sent, and the
\* token minted without waiting for it.
Grant(n) ==
    /\ granting = NoOne /\ starting = NoOne /\ Change
    /\ registry[n] \in {"none", "api"}
    /\ granting' = n /\ starting' = n
    /\ UNCHANGED <<now, registry, tokens, revoked, post, stream>>

Mint(t) ==
    /\ granting # NoOne /\ tokens[t].participant = NoOne
    /\ tokens' = [tokens EXCEPT ![t] = [participant |-> granting, live |-> TRUE]]
    /\ granting' = NoOne
    /\ UNCHANGED <<now, changes, registry, starting, revoked, post, stream>>

Revoke(t) ==
    /\ tokens[t].live /\ Change
    /\ tokens' = [tokens EXCEPT ![t].live = FALSE]
    /\ revoked' = [revoked EXCEPT ![t] = now]
    /\ UNCHANGED <<now, registry, starting, granting, post, stream>>

-----------------------------------------------------------------------------
(* POST envelopes                                                          *)

\* Mutant: the record of a token speaks for it, revoked or not.
VerifiedRecord(t) == tokens[t].participant # NoOne

\* verify: the record is there and not revoked.
Verified(t) == tokens[t].participant # NoOne /\ tokens[t].live

Turned(step) == at' = step /\ UNCHANGED <<request, coop, requests, egress>>

Refuse == at' = "rest" /\ request' = NoRequest /\ coop' = NoOne /\ UNCHANGED <<requests, egress>>

Pass(ok, step) ==
    /\ IF ok THEN Turned(step) ELSE Refuse
    /\ UNCHANGED <<now, office, stream>>

Arrive ==
    /\ at = "rest" /\ feed.at = "closed" /\ requests < MaxRequests
    /\ request' \in Requests
    /\ at' = "authorize" /\ requests' = requests + 1
    /\ UNCHANGED <<now, office, coop, egress, stream>>

Authorize ==
    /\ at = "authorize"
    /\ LET b == request.bearer
       IN  IF b = "office" \/ (b \in Tokens /\ Verified(b))
             THEN /\ coop' = b
                  /\ at' = IF b = "office" THEN "member" ELSE "rules"
                  /\ UNCHANGED <<request, requests, egress>>
             ELSE Refuse
    /\ UNCHANGED <<now, office, stream>>

Participant == tokens[coop].participant

\* _enforce_coop_post: to an agent, as its participant, a Message.
CoopRules ==
    /\ at = "rules"
    /\ Pass(/\ request.to \notin {"all", "host", "api"}
            /\ Type(request.to) \notin {"api", "office"}
            /\ request.as \in {NoOne, Participant}
            /\ request.kind = "Message",
            "member")

Member ==
    /\ at = "member"
    /\ Pass(request.to = "all" \/ Type(request.to) # "none", "source")

Source ==
    IF request.as # NoOne THEN request.as
    ELSE IF coop = "office" THEN "api" ELSE Participant

\* _verify_client_signature: the key is looked up among those of the client named.
Signed == request.key = request.as

\* The rules a payload may break that are looked at before it is sent.
Checked(kind) ==
    IF kind = "Attachment"
      THEN {"schema", "filename", "mime_type", "caption", "content_base64", "size"}
      ELSE {"size"}

Wellformed == request.broken \cap Checked(request.kind) = {}

\* Whom the envelope is from must be an API client, and proves it by its signature where
\* no token does. Then the payload is looked at.
Admissible ==
    /\ at = "source"
    /\ Pass(/\ request.as # NoOne \/ coop # "office" =>
                 Type(Source) = "api" /\ (coop = "office" => Signed)
            /\ Wellformed,
            "send")

\* send: whatever has become of source and destination meanwhile; a kind whose schema the
\* payload breaks is refused.
Send ==
    /\ at = "send"
    /\ egress' = IF "schema" \in request.broken THEN egress
                 ELSE egress \cup {[token |-> coop, source |-> Source, to |-> request.to,
                                    kind |-> request.kind, key |-> request.key, held |-> held]}
    /\ at' = "rest" /\ request' = NoRequest /\ coop' = NoOne
    /\ UNCHANGED <<now, office, requests, stream>>

-----------------------------------------------------------------------------
(* GET messages/stream                                                     *)

\* The token is verified when the request comes, the clock of its rechecks starts when
\* the response does; in between it is looked up whose mailbox it is.
OpenFeed(t) ==
    /\ at = "rest" /\ feed.at = "closed" /\ requests < MaxRequests
    /\ Verified(t)
    /\ feed' = [NoFeed EXCEPT !.at = "opening", !.token = t]
    /\ requests' = requests + 1
    /\ UNCHANGED <<now, office, request, at, coop, egress, page>>

StartFeed ==
    /\ feed.at = "opening"
    /\ feed' = IF Type(tokens[feed.token].participant) # "api" THEN NoFeed
               ELSE [feed EXCEPT !.at = "loop", !.started = now, !.checked = now]
    /\ UNCHANGED <<now, office, post, page>>

\* Once per Recheck the token is verified again, before the next page.
Loop ==
    /\ feed.at = "loop"
    /\ feed' = IF now - feed.checked >= Recheck
                 THEN [feed EXCEPT !.at = "verify", !.checked = now, !.began = now]
                 ELSE [feed EXCEPT !.at = "read", !.began = now]
    /\ UNCHANGED <<now, office, post, page>>

\* A look that fails counts as a refusal.
Reverify ==
    /\ feed.at = "verify"
    /\ \/ Verified(feed.token) /\ feed' = [feed EXCEPT !.at = "read"]
       \/ feed' = NoFeed
    /\ UNCHANGED <<now, office, post, page>>

ServePage ==
    /\ feed.at = "read"
    /\ feed' = [feed EXCEPT !.at = "loop"]
    /\ page' = [token |-> feed.token, started |-> feed.started, began |-> feed.began]
    /\ UNCHANGED <<now, office, post>>

CloseFeed ==
    /\ feed.at = "loop"
    /\ feed' = NoFeed
    /\ UNCHANGED <<now, office, post, page>>

-----------------------------------------------------------------------------

Facts ==
    {<<"live", t>> : t \in {u \in Tokens : tokens[u].live}} \cup {<<registry[n], n>> : n \in Names}

Step ==
    \/ Tick \/ Started \/ Arrive \/ Authorize \/ CoopRules \/ Member \/ Admissible \/ Send
    \/ StartFeed \/ Loop \/ Reverify \/ ServePage \/ CloseFeed
    \/ \E n \in Names : Hire(n) \/ Retire(n) \/ Grant(n)
    \/ \E t \in Tokens : Mint(t) \/ Revoke(t) \/ OpenFeed(t)

Next ==
    /\ Step
    /\ held' = IF at' = "rest" THEN {} ELSE held \cup Facts'

Spec == Init /\ [][Next]_dvars

-----------------------------------------------------------------------------
(* Properties                                                              *)

TypeOK ==
    /\ registry \in [Names -> {"none", "api", "tmux"}]
    /\ {starting, granting} \subseteq Names \cup {NoOne}
    /\ \A t \in Tokens : tokens[t].participant \in Names \cup {NoOne}
    /\ coop \in Tokens \cup {"office", NoOne}
    /\ feed.at \in {"closed", "opening", "loop", "verify", "read"}

Later(a, b) == IF a > b THEN a ELSE b

\* CoopHeld: what is done on a cooperation token is done while it holds: an envelope
\* accepted on it is a Message of its participant, and while the request was under way
\* the token was live at some moment, the participant an API client at some moment and
\* the destination no client at some moment; a page of a stream is begun less than
\* Recheck after the token was revoked, or after the stream began. And whoever posts as
\* a client without such a token has signed with its key (authorize, _enforce_coop_post,
\* COOP_STREAM_RECHECK_INTERVAL_S).
CoopHeld ==
    /\ \A e \in egress :
          IF e.token \in Tokens
            THEN /\ e.source = tokens[e.token].participant /\ e.kind = "Message"
                 /\ {<<"live", e.token>>, <<"api", e.source>>} \subseteq e.held
                 /\ {<<"tmux", e.to>>, <<"none", e.to>>} \cap e.held # {}
            ELSE e.source # "api" => e.key = e.source /\ <<"api", e.source>> \in e.held
    /\ page # NoPage /\ revoked[page.token] # 0 =>
          page.began < Later(revoked[page.token], page.started) + Recheck
=============================================================================
