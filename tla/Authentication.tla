----------------------------- MODULE Authentication -----------------------------
(***************************************************************************)
(* Who a request of gw-api comes from: the bearer tokens of scripts, whose *)
(* signature is checked against the issuer's key set through a cache       *)
(* (src/auth.rs), and the session cookies of browsers (src/session.rs),    *)
(* minted at the end of a sign-in at CILogon (src/oidc.rs) or, in          *)
(* development, of dev_login (src/login.rs).                               *)
(*                                                                         *)
(* A task handles one request; its steps are the awaits, between which the *)
(* other tasks go on, time passes and an issuer rotates its keys.  Tokens  *)
(* are the ones issuers hand out.                                          *)
(***************************************************************************)
EXTENDS Integers, Sequences

CONSTANTS
  Task,        \* the tasks of gw-api
  User,        \* the people who sign in
  Scenarios,   \* bound: what may happen in a behaviour (see below)
  Ttl,         \* JWKS_CACHE_TTL
  Span,        \* how long a request takes at most, by the timeouts of its fetches
  SessionAge,  \* --session-max-age-secs
  StateAge,    \* STATE_COOKIE_TTL
  MaxNow,      \* bound: the clock
  MaxLosses    \* bound: fetches and writes that fail

\* A scenario: whether dev_mode is on, and how many requests with a token or a
\* cookie, sign-ins, key rotations and restarts there may be.
ASSUME ScenariosAssumption ==
  Scenarios \subseteq [ dev_mode : BOOLEAN, calls : Nat, logins : Nat,
                        rotations : Nat, restarts : Nat ]

ASSUME TimeAssumption ==
  /\ Ttl \in Nat /\ Span \in Nat /\ SessionAge \in Nat /\ StateAge \in Nat
  /\ MaxNow \in Nat /\ MaxLosses \in Nat

VARIABLES
  left,        \* what the scenario still allows
  now,         \* the clock
  published,   \* issuer -> the ids of the keys it publishes
  withdrawn,   \* key of Igwn -> when it was withdrawn, or Never
  jwks,        \* JwksCache: issuer -> its entry, once there is one
  discovered,  \* DiscoveryCache: the discovery document of CILogon was fetched
  tasks,       \* task -> the request it handles
  secret,      \* the secret that signs sessions
  browser,     \* the cookies of a browser, and the sign-ins it has under way
  users,       \* the users with a row in MongoDB
  losses       \* how many fetches and writes have failed (bounds the model)

vars == <<left, now, published, withdrawn, jwks, discovered, tasks, secret, browser,
          users, losses>>

Igwn    == "igwn"     \* the allowlisted issuer of bearer tokens
Cilogon == "cilogon"  \* the issuer of ID tokens

Never   == -1
Idle    == [at |-> "idle"]
NoCookie == [kind |-> "no cookie"]

\* Igwn's keys are numbered as they are published; CILogon keeps its one.
Init ==
  /\ left \in Scenarios /\ now = 0 /\ losses = 0
  /\ published = [iss \in {Igwn, Cilogon} |-> IF iss = Igwn THEN {1} ELSE {0}]
  /\ withdrawn = <<Never>>
  /\ jwks = <<>> /\ discovered = FALSE
  /\ tasks = [t \in Task |-> Idle]
  /\ secret = 1
  /\ browser = [state |-> NoCookie, session |-> NoCookie, signins |-> {}, last |-> 0]
  /\ users = {}

Works == UNCHANGED losses
Fails == losses < MaxLosses /\ losses' = losses + 1

Spends(what) == left[what] > 0 /\ left' = [left EXCEPT ![what] = @ - 1]
Becomes(t, r) == tasks' = [tasks EXCEPT ![t] = r]
Ends(t) == Becomes(t, Idle)

-------------------------------------------------------------------------------
(* The issuers and the clock *)

\* Igwn publishes a new key beside the ones it has, or withdraws an old one.
Rotate ==
  /\ Spends("rotations")
  /\ \/ /\ published' = [published EXCEPT ![Igwn] = @ \cup {Len(withdrawn) + 1}]
        /\ withdrawn' = Append(withdrawn, Never)
     \/ \E k \in published[Igwn] :
          /\ published[Igwn] # {k}
          /\ published' = [published EXCEPT ![Igwn] = @ \ {k}]
          /\ withdrawn' = [withdrawn EXCEPT ![k] = now]
  /\ UNCHANGED <<now, jwks, discovered, tasks, secret, browser, users, losses>>

\* Time passes, though not while a request has taken all of its time.
Tick ==
  /\ now < MaxNow /\ now' = now + 1
  /\ \A t \in Task : tasks[t] # Idle => now - tasks[t].began < Span
  /\ UNCHANGED <<left, published, withdrawn, jwks, discovered, tasks, secret, browser,
                 users, losses>>
-------------------------------------------------------------------------------
(* validate_token *)

\* The claims, read before the signature is checked: issuer on the allowlist,
\* audience and scope as configured (`allowed'), within nbf and exp.
PolicyAllows(token) ==
  token.iss = Igwn /\ token.allowed /\ token.nbf <= now /\ now <= token.exp

\* Variant: an entry is trusted for ever.
NeverStale(iss) == iss \notin DOMAIN jwks

\* is_stale.
IsStale(iss) == iss \notin DOMAIN jwks \/ now - jwks[iss].fetched_at > Ttl

HasKey(iss, kid) == iss \in DOMAIN jwks /\ kid \in jwks[iss].keys

\* Where a bearer token's request goes on from the claims: an old entry is
\* fetched again first.
FirstStep(token) == IF IsStale(token.iss) THEN "fetch" ELSE "get"

\* auth_middleware on a request with a bearer token, signed with a key that was
\* published when it was made.  A cookie beside it is not looked at.
Bearer(t) ==
  /\ tasks[t] = Idle /\ Spends("calls")
  /\ \E iss \in {Igwn, "another issuer"}, kid \in DOMAIN withdrawn, allowed \in BOOLEAN,
        nbf \in {now, now + 1}, exp \in {now - 1, now + Span} :
       LET token == [iss |-> iss, kid |-> kid, allowed |-> allowed, nbf |-> nbf, exp |-> exp] IN
       IF ~PolicyAllows(token) THEN UNCHANGED tasks
       ELSE Becomes(t,
         [ at |-> IF left.dev_mode THEN "accepted" ELSE FirstStep(token), call |-> "bearer",
           iss |-> iss, kid |-> kid, began |-> now, missed |-> FALSE, failed |-> FALSE,
           cut |-> FALSE ])
  /\ UNCHANGED <<now, published, withdrawn, jwks, discovered, secret, browser, users, losses>>

\* A request with the key set it fetched.
Holding(r, keys) ==
  [k \in DOMAIN r \cup {"keys"} |->
     IF k = "keys" THEN keys ELSE IF k = "at" THEN "install" ELSE r[k]]

\* JwksCache::refresh, up to the key set of the second GET.  A failure of the
\* refresh of a stale entry is ignored; the one after a miss refuses the token
\* (`cut'), and the one for an ID token ends the sign-in.
Fetch(t) ==
  /\ tasks[t].at = "fetch"
  /\ LET r == tasks[t] IN
     \/ Becomes(t, Holding(r, published[r.iss])) /\ Works
     \/ /\ Fails
        /\ \/ r.call = "callback" /\ Ends(t)
           \/ /\ r.call = "bearer" /\ ~r.missed
              /\ Becomes(t, [r EXCEPT !.at = "get", !.failed = TRUE])
           \/ /\ r.call = "bearer" /\ r.missed
              /\ Becomes(t, [r EXCEPT !.at = "refused", !.cut = TRUE])
  /\ UNCHANGED <<left, now, published, withdrawn, jwks, discovered, secret, browser, users>>

\* An entry; `by' is no part of it, it says who put it there.
Entry(keys, by) == [keys |-> keys, fetched_at |-> now, by |-> by]

\* The entry is replaced under the write lock, whoever wrote it last.
Install(t) ==
  /\ tasks[t].at = "install"
  /\ LET r == tasks[t] IN
     /\ jwks' = [iss \in DOMAIN jwks \cup {r.iss} |->
                   IF iss = r.iss THEN Entry(r.keys, t) ELSE jwks[iss]]
     /\ Becomes(t, [k \in DOMAIN r \ {"keys"} |-> IF k = "at" THEN "get" ELSE r[k]])
  /\ UNCHANGED <<left, now, published, withdrawn, discovered, secret, browser, users, losses>>

\* Variant: no refresh after a miss.
RefusesAtOnce(r) == TRUE

\* A key that is still missing after the refresh, or for an ID token at once,
\* refuses the token.
Refuses(r) == r.call = "callback" \/ r.missed

Get(t) ==
  /\ tasks[t].at = "get"
  /\ LET r == tasks[t] IN
     Becomes(t, IF HasKey(r.iss, r.kid) THEN [r EXCEPT !.at = "accepted"]
                ELSE IF Refuses(r) THEN [r EXCEPT !.at = "refused"]
                ELSE [r EXCEPT !.at = "fetch", !.missed = TRUE])
  /\ UNCHANGED <<left, now, published, withdrawn, jwks, discovered, secret, browser, users,
                 losses>>

\* The handler of a bearer request runs, or the answer is 401.
Answer(t) ==
  /\ tasks[t].at = "refused" \/ (tasks[t].at = "accepted" /\ tasks[t].call = "bearer")
  /\ Ends(t)
  /\ UNCHANGED <<left, now, published, withdrawn, jwks, discovered, secret, browser, users,
                 losses>>

-------------------------------------------------------------------------------
(* Sessions *)

\* mint_session and verify_session.
Session(sub) == [kind |-> "session", sub |-> sub, secret |-> secret, exp |-> now + SessionAge]

Nobody == "nobody"

\* auth_middleware on a request with the session cookie alone: no await.  Who it
\* comes from, or Nobody, which is 401.
Verified(cookie) ==
  IF cookie.secret = secret /\ now <= cookie.exp THEN cookie.sub ELSE Nobody

\* logout: the cookie is cleared in the browser; nothing is kept of sessions.
Logout ==
  /\ browser.session # NoCookie
  /\ browser' = [browser EXCEPT !.session = NoCookie]
  /\ UNCHANGED <<left, now, published, withdrawn, jwks, discovered, tasks, secret, users, losses>>

\* What a provisioned user's response changes.
SignedIn(sub) == [browser EXCEPT !.session = Session(sub)]

\* Variant: the session is minted although the row was not written.
MintAnyway(sub, minted) ==
  \/ users' = users \cup {sub} /\ browser' = minted /\ Works
  \/ UNCHANGED users /\ browser' = minted /\ Fails

\* provision_user, then the cookie: when the row cannot be written there is no
\* session.
Provision(sub, minted) ==
  \/ users' = users \cup {sub} /\ browser' = minted /\ Works
  \/ UNCHANGED <<users, browser>> /\ Fails

\* dev_login: only in dev mode.
DevLogin ==
  /\ left.dev_mode /\ Spends("logins")
  /\ \E sub \in User : Provision(sub, SignedIn(sub))
  /\ UNCHANGED <<now, published, withdrawn, jwks, discovered, tasks, secret>>

-------------------------------------------------------------------------------
(* The sign-in at CILogon *)

\* DiscoveryCache::get: fetched once per process.
Discover(ok, failed) ==
  \/ ok /\ discovered' = TRUE /\ Works
  \/ failed /\ ~discovered /\ UNCHANGED discovered /\ Fails

\* The cookie of sign-in n: its csrf nonce and its PKCE verifier, both random,
\* signed with the secret that signs sessions.
StateCookie(n) == [kind |-> "state", csrf |-> n, secret |-> secret, exp |-> now + StateAge]

\* login: a fresh csrf nonce and verifier, in a cookie that replaces the one of a
\* sign-in begun before in the same browser; the browser goes on to CILogon.
Login ==
  /\ Spends("logins")
  /\ LET n == browser.last + 1 IN
     Discover(browser' = [browser EXCEPT
                !.state = StateCookie(n),
                !.signins = @ \cup {n}, !.last = n],
              UNCHANGED browser)
  /\ UNCHANGED <<now, published, withdrawn, jwks, tasks, secret, users>>

\* The cookie is the one of this sign-in, its signature holds, and it has not
\* expired.
StateMatches(n) ==
  /\ browser.state # NoCookie /\ browser.state.csrf = n
  /\ browser.state.secret = secret /\ now <= browser.state.exp

\* verify_id_token begins with a refresh, whatever the age of the entry.
IdTokenRequest(sub) ==
  [ at |-> "fetch", call |-> "callback", iss |-> Cilogon, kid |-> 0, began |-> now,
    missed |-> FALSE, failed |-> FALSE, cut |-> FALSE, sub |-> sub ]

\* callback, when CILogon sends the browser back from sign-in n, up to the token
\* exchange, in which CILogon checks the verifier of the cookie against sign-in n.
Callback(t) ==
  /\ tasks[t] = Idle
  /\ \E n \in browser.signins, sub \in User :
       /\ browser' = [browser EXCEPT !.signins = @ \ {n}]
       /\ \/ /\ StateMatches(n)
             /\ Discover(Becomes(t, IdTokenRequest(sub)), UNCHANGED tasks)
          \/ StateMatches(n) /\ UNCHANGED <<tasks, discovered>> /\ Fails
          \/ ~StateMatches(n) /\ UNCHANGED <<tasks, discovered>> /\ Works
  /\ UNCHANGED <<left, now, published, withdrawn, jwks, secret, users>>

\* The rest of callback, once the ID token is verified; the answer sets the
\* session and clears the state cookie.
FinishCallback(t) ==
  /\ tasks[t].at = "accepted" /\ tasks[t].call = "callback"
  /\ Provision(tasks[t].sub, [SignedIn(tasks[t].sub) EXCEPT !.state = NoCookie])
  /\ Ends(t)
  /\ UNCHANGED <<left, now, published, withdrawn, jwks, discovered, secret>>

-------------------------------------------------------------------------------
(* A restart of gw-api: what is in memory is lost, the secret too when it was
   made up for dev mode.  JwksCache::warm fetches the key set again, but for dev
   mode; a failure is only logged. *)
Restart ==
  /\ Spends("restarts")
  /\ tasks' = [t \in Task |-> Idle] /\ discovered' = FALSE
  /\ \/ /\ ~left.dev_mode /\ Works
        /\ jwks' = [iss \in {Igwn} |-> Entry(published[Igwn], "warm")]
     \/ ~left.dev_mode /\ jwks' = <<>> /\ Fails
     \/ left.dev_mode /\ jwks' = <<>> /\ Works
  /\ secret' \in IF left.dev_mode THEN {secret + 1} ELSE {secret}
  /\ UNCHANGED <<now, published, withdrawn, browser, users>>

-------------------------------------------------------------------------------

Next ==
  \/ Rotate \/ Tick \/ Logout \/ DevLogin \/ Login \/ Restart
  \/ \E t \in Task :
       \/ Bearer(t) \/ Fetch(t) \/ Install(t) \/ Get(t) \/ Answer(t)
       \/ Callback(t) \/ FinishCallback(t)

Spec == Init /\ [][Next]_vars

-------------------------------------------------------------------------------
(* Properties *)

\* A token that Igwn signed with a key it publishes is refused only when the
\* refresh after the miss failed, or when another task put an older key set in
\* place between that refresh and the second look at the key (validate_token:
\* "Kid miss -- refresh once and retry").
GoodTokensPass ==
  \A t \in Task :
    (tasks[t].at = "refused" /\ tasks[t].call = "bearer" /\ tasks[t].kid \in published[Igwn])
      => tasks[t].cut \/ (Igwn \in DOMAIN jwks /\ jwks[Igwn].by # t)

\* A key that the issuer withdrew is not trusted for longer than the cache's time
\* and two requests', however the fetches overlap; unless the issuer could not be
\* reached, when the old key set is used on (auth.rs: JWKS_CACHE_TTL).
WithdrawnKeysFade ==
  [][\A t \in Task :
       LET r == tasks[t] IN
       ( /\ r.at = "get" /\ r.iss = Igwn /\ tasks'[t].at = "accepted"
         /\ withdrawn[r.kid] # Never )
         => r.failed \/ now - withdrawn[r.kid] <= Ttl + 2 * Span]_vars

\* Whoever verify_session vouches for has a row in the users collection, which
\* every access check starts from, whatever failed while signing in (callback,
\* dev_login).
SessionsHaveUsers ==
  browser.session # NoCookie => Verified(browser.session) \in users \cup {Nobody}
===============================================================================
