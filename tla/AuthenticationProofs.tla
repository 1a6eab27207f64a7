------------------------- MODULE AuthenticationProofs -------------------------
(***************************************************************************)
(* Proofs about Authentication, for any tasks, users, scenarios, times and *)
(* bounds: no sign-in, cut short where it may be, leaves a session without *)
(* its user; a key the issuer publishes lets a request in, unless the      *)
(* fetch for it failed or another task put an older key set in the way;    *)
(* and one that it withdrew fades.                                         *)
(***************************************************************************)
EXTENDS Authentication, TLAPS

\* The browser's session is somebody's who was provisioned, current or not:
\* stronger than SessionsHaveUsers, because an expired cookie keeps its subject.
SessionInv ==
  /\ browser = [state |-> browser.state, session |-> browser.session,
                signins |-> browser.signins, last |-> browser.last]
  /\ browser.session = NoCookie \/ browser.session.sub \in users

\* A step that touches neither the session nor the users' rows.
KeepsSession ==
  /\ users' = users
  /\ \/ browser' = browser
     \/ \E state, signins, last :
          browser' = [state |-> state, session |-> browser.session, signins |-> signins,
                      last |-> last]

LEMMA KeepsSessionFacts ==
  ASSUME SessionInv, KeepsSession
  PROVE  SessionInv'
<1>1. CASE browser' = browser
  BY <1>1 DEF SessionInv, KeepsSession
<1>2. CASE \E state, signins, last :
             browser' = [state |-> state, session |-> browser.session, signins |-> signins,
                         last |-> last]
  BY <1>2 DEF SessionInv, KeepsSession
<1> QED
  BY <1>1, <1>2 DEF KeepsSession

\* provision_user writes the row before the session is in the answer.
LEMMA ProvisionFacts ==
  ASSUME SessionInv, NEW sub, NEW state,
         Provision(sub, [state |-> state, session |-> Session(sub),
                         signins |-> browser.signins, last |-> browser.last])
  PROVE  SessionInv'
<1>1. Session(sub).sub = sub
  BY DEF Session
<1> QED
  BY <1>1 DEF SessionInv, Provision

LEMMA InitOK == Init => SessionInv
  BY DEF Init, SessionInv

LEMMA DevLoginOK == SessionInv /\ DevLogin => SessionInv'
<1> SUFFICES ASSUME SessionInv, DevLogin PROVE SessionInv'
  OBVIOUS
<1>1. PICK sub \in User : Provision(sub, SignedIn(sub))
  BY DEF DevLogin
<1>2. SignedIn(sub) = [state |-> browser.state, session |-> Session(sub),
                       signins |-> browser.signins, last |-> browser.last]
  BY DEF SignedIn, SessionInv
<1> QED
  BY <1>1, <1>2, ProvisionFacts

LEMMA FinishCallbackOK ==
  ASSUME SessionInv, NEW t \in Task, FinishCallback(t)
  PROVE  SessionInv'
<1>1. PICK sub : Provision(sub, [SignedIn(sub) EXCEPT !.state = NoCookie])
  BY DEF FinishCallback
<1>2. [SignedIn(sub) EXCEPT !.state = NoCookie]
        = [state |-> NoCookie, session |-> Session(sub),
           signins |-> browser.signins, last |-> browser.last]
  <2>1. SignedIn(sub) = [state |-> browser.state, session |-> Session(sub),
                         signins |-> browser.signins, last |-> browser.last]
    BY DEF SignedIn, SessionInv
  <2> QED
    BY <2>1
<1> QED
  BY <1>1, <1>2, ProvisionFacts

LEMMA LoginOK == SessionInv /\ Login => SessionInv'
<1> SUFFICES ASSUME SessionInv, Login PROVE KeepsSession
  BY KeepsSessionFacts
<1>1. users' = users
  BY DEF Login
<1>2. CASE browser' = [browser EXCEPT !.state = StateCookie(browser.last + 1),
                                      !.signins = @ \cup {browser.last + 1},
                                      !.last = browser.last + 1]
  <2>1. browser' = [state |-> StateCookie(browser.last + 1), session |-> browser.session,
                    signins |-> browser.signins \cup {browser.last + 1},
                    last |-> browser.last + 1]
    BY <1>2 DEF SessionInv
  <2> QED
    BY <1>1, <2>1 DEF KeepsSession
<1>3. CASE browser' = browser
  BY <1>1, <1>3 DEF KeepsSession
<1> QED
  BY <1>2, <1>3 DEF Login, Discover

LEMMA LogoutOK == SessionInv /\ Logout => SessionInv'
  BY DEF SessionInv, Logout

LEMMA CallbackOK ==
  ASSUME SessionInv, NEW t \in Task, Callback(t)
  PROVE  SessionInv'
<1>1. PICK n \in browser.signins : browser' = [browser EXCEPT !.signins = @ \ {n}]
  BY DEF Callback
<1>2. browser' = [state |-> browser.state, session |-> browser.session,
                  signins |-> browser.signins \ {n}, last |-> browser.last]
  BY <1>1 DEF SessionInv
<1>3. users' = users
  BY DEF Callback
<1> QED
  BY <1>2, <1>3, KeepsSessionFacts DEF KeepsSession

LEMMA StepOK == SessionInv /\ [Next]_vars => SessionInv'
<1> SUFFICES ASSUME SessionInv, [Next]_vars PROVE SessionInv'
  OBVIOUS
<1>1. CASE Rotate \/ Tick \/ Restart \/ UNCHANGED vars
  <2>1. KeepsSession
    BY <1>1 DEF Rotate, Tick, Restart, vars, KeepsSession
  <2> QED
    BY <2>1, KeepsSessionFacts
<1>2. CASE Logout
  BY <1>2, LogoutOK
<1>3. CASE DevLogin
  BY <1>3, DevLoginOK
<1>4. CASE Login
  BY <1>4, LoginOK
<1>5. CASE \E t \in Task : Bearer(t) \/ Fetch(t) \/ Install(t) \/ Get(t) \/ Answer(t)
  <2>1. KeepsSession
    BY <1>5 DEF Bearer, Fetch, Install, Get, Answer, KeepsSession
  <2> QED
    BY <2>1, KeepsSessionFacts
<1>6. CASE \E t \in Task : Callback(t)
  BY <1>6, CallbackOK
<1>7. CASE \E t \in Task : FinishCallback(t)
  BY <1>7, FinishCallbackOK
<1> QED
  BY <1>1, <1>2, <1>3, <1>4, <1>5, <1>6, <1>7 DEF Next

\* However sign-ins in several tabs, failed writes, logouts and restarts of gw-api
\* interleave, verify_session vouches only for people with a row (callback in
\* src/oidc.rs, dev_login in src/login.rs).
THEOREM SessionsKeepTheirUsers == Spec => []SessionsHaveUsers
<1>1. SessionInv => SessionsHaveUsers
  BY DEF SessionInv, SessionsHaveUsers, Verified
<1> QED
  BY InitOK, StepOK, <1>1, PTL DEF Spec

-------------------------------------------------------------------------------
(* The keys.  A key is published once and withdrawn once, so that what a fetch
   brings is what was published at some moment of the request. *)

\* The keys there were, and which of them are published.
KeysOK ==
  /\ now \in Nat /\ withdrawn \in Seq(Nat \cup {Never})
  /\ published = [i \in {Igwn, Cilogon} |-> published[i]]
  /\ published[Igwn] \subseteq {k \in DOMAIN withdrawn : withdrawn[k] = Never}

\* A set of keys, none of which was withdrawn before a moment.
SeenAt(keys, moment, times) ==
  keys \subseteq DOMAIN times /\ \A k \in keys : times[k] = Never \/ times[k] >= moment

\* The cached keys of Igwn were published not more than a request before they were
\* stored.
EntryOK ==
  Igwn \in DOMAIN jwks =>
    /\ jwks[Igwn].fetched_at \in Nat /\ jwks[Igwn].fetched_at <= now
    /\ SeenAt(jwks[Igwn].keys, jwks[Igwn].fetched_at - Span, withdrawn)

Fields == {"at", "call", "iss", "kid", "began", "missed", "failed", "cut"}

\* A request with a bearer token, at each of its steps: what it fetched; the entry it
\* looks at; and after a refresh for its own key, that the entry has the key, if the
\* issuer has, or is somebody else's.
BearerOK(t, r) ==
  /\ r.iss = Igwn /\ r.kid \in DOMAIN withdrawn
  /\ r.at = "install" =>
       /\ SeenAt(r.keys, r.began, withdrawn)
       /\ r.missed /\ r.kid \in published[Igwn] => r.kid \in r.keys
  /\ r.at = "get" =>
       /\ ~ r.failed => Igwn \in DOMAIN jwks /\ jwks[Igwn].fetched_at >= r.began - Ttl
       /\ r.missed =>
            /\ Igwn \in DOMAIN jwks
            /\ r.kid \in published[Igwn] => r.kid \in jwks[Igwn].keys \/ jwks[Igwn].by # t
  /\ r.at = "refused" /\ r.kid \in published[Igwn] =>
       r.cut \/ (Igwn \in DOMAIN jwks /\ jwks[Igwn].by # t)

TaskOK(t, r) ==
  \/ r = Idle
  \/ /\ Fields \subseteq DOMAIN r
     /\ r.at \in {"fetch", "install", "get", "accepted", "refused"}
     /\ r.at = "install" <=> "keys" \in DOMAIN r
     /\ r.began \in Nat /\ r.began <= now /\ now - r.began <= Span
     /\ \/ r.call = "callback" /\ r.iss = Cilogon
        \/ r.call = "bearer" /\ BearerOK(t, r)

KeyInv ==
  /\ KeysOK /\ EntryOK
  /\ tasks = [t \in Task |-> tasks[t]]
  /\ \A t \in Task : TaskOK(t, tasks[t])

\* Time goes on; keys come, and go for good.
Times == Seq(Nat \cup {Never})

LaterKeys ==
  /\ withdrawn' \in Times
  /\ \A k \in DOMAIN withdrawn :
       /\ k \in DOMAIN withdrawn'
       /\ withdrawn'[k] = withdrawn[k] \/ withdrawn'[k] >= now
       /\ k \in published'[Igwn] => k \in published[Igwn]

LEMMA SeenLater ==
  ASSUME NEW times \in Times, NEW later \in Times, NEW n \in Nat, NEW moment \in Int,
         moment <= n, NEW keys, SeenAt(keys, moment, times),
         \A k \in DOMAIN times : k \in DOMAIN later /\ (later[k] = times[k] \/ later[k] >= n)
  PROVE  SeenAt(keys, moment, later)
<1>1. \A k \in DOMAIN later : later[k] \in Int
  BY DEF Times, Never
<1> QED
  BY <1>1 DEF SeenAt

LEMMA KeysRotate == KeysOK /\ Rotate => KeysOK' /\ LaterKeys
<1> SUFFICES ASSUME KeysOK, Rotate PROVE KeysOK' /\ LaterKeys
  OBVIOUS
<1>1. /\ now \in Nat /\ withdrawn \in Times /\ now' = now
      /\ published = [i \in {Igwn, Cilogon} |-> published[i]]
      /\ published[Igwn] \subseteq DOMAIN withdrawn
      /\ \A k \in published[Igwn] : withdrawn[k] = Never
  BY DEF KeysOK, Rotate, Times
<1>2. CASE /\ published' = [published EXCEPT ![Igwn] = @ \cup {Len(withdrawn) + 1}]
           /\ withdrawn' = Append(withdrawn, Never)
  <2>1. /\ withdrawn' \in Times
        /\ DOMAIN withdrawn' = DOMAIN withdrawn \cup {Len(withdrawn) + 1}
        /\ Len(withdrawn) + 1 \notin DOMAIN withdrawn
        /\ withdrawn'[Len(withdrawn) + 1] = Never
        /\ \A k \in DOMAIN withdrawn : withdrawn'[k] = withdrawn[k]
    BY <1>1, <1>2 DEF Times
  <2>2. /\ published'[Igwn] = published[Igwn] \cup {Len(withdrawn) + 1}
        /\ published' = [i \in {Igwn, Cilogon} |-> published'[i]]
    BY <1>1, <1>2
  <2> QED
    BY <1>1, <2>1, <2>2 DEF KeysOK, LaterKeys, Times
<1>3. CASE \E k \in published[Igwn] :
             /\ published' = [published EXCEPT ![Igwn] = @ \ {k}]
             /\ withdrawn' = [withdrawn EXCEPT ![k] = now]
  <2>1. PICK k \in published[Igwn] :
             /\ published' = [published EXCEPT ![Igwn] = @ \ {k}]
             /\ withdrawn' = [withdrawn EXCEPT ![k] = now]
    BY <1>3
  <2>2. /\ withdrawn' \in Times /\ DOMAIN withdrawn' = DOMAIN withdrawn
        /\ withdrawn'[k] = now
        /\ \A j \in DOMAIN withdrawn : j # k => withdrawn'[j] = withdrawn[j]
    BY <1>1, <2>1 DEF Times
  <2>3. /\ published'[Igwn] = published[Igwn] \ {k}
        /\ published' = [i \in {Igwn, Cilogon} |-> published'[i]]
    BY <1>1, <2>1
  <2>4. \A j \in DOMAIN withdrawn : withdrawn'[j] = withdrawn[j] \/ withdrawn'[j] >= now
    BY <1>1, <2>2
  <2> QED
    BY <1>1, <2>2, <2>3, <2>4 DEF KeysOK, LaterKeys, Times
<1> QED
  BY <1>2, <1>3 DEF Rotate

LEMMA KeysStay ==
  ASSUME KeysOK, UNCHANGED <<published, withdrawn>>, now' \in Nat
  PROVE  KeysOK' /\ LaterKeys
  BY DEF KeysOK, LaterKeys, Times

\* What happens around a request that stays where it is: no other task puts in an entry
\* that is older, or its own.
Onward(t) ==
  /\ tasks'[t] = tasks[t]
  /\ now' \in Nat /\ now' >= now /\ (tasks[t] # Idle => now' - tasks[t].began <= Span)
  /\ LaterKeys
  /\ Igwn \in DOMAIN jwks =>
       /\ Igwn \in DOMAIN jwks'
       /\ \/ jwks'[Igwn] = jwks[Igwn]
          \/ jwks'[Igwn].fetched_at = now /\ jwks'[Igwn].by # t

LEMMA TaskStays ==
  ASSUME KeysOK, NEW t \in Task, TaskOK(t, tasks[t]), Onward(t)
  PROVE  TaskOK(t, tasks[t])'
<1> DEFINE r == tasks[t]
<1>1. CASE r = Idle
  BY <1>1 DEF Onward, TaskOK
<1>2. CASE r # Idle
  <2>1. /\ Fields \subseteq DOMAIN r
        /\ r.at \in {"fetch", "install", "get", "accepted", "refused"}
        /\ r.at = "install" <=> "keys" \in DOMAIN r
        /\ r.began \in Nat /\ r.began <= now' /\ now' - r.began <= Span
        /\ \/ r.call = "callback" /\ r.iss = Cilogon
           \/ r.call = "bearer" /\ BearerOK(t, r)
    BY <1>2 DEF TaskOK, Onward, KeysOK
  <2>2. CASE r.call = "callback" /\ r.iss = Cilogon
    BY <2>1, <2>2 DEF TaskOK, Onward
  <2>3. CASE r.call = "bearer" /\ BearerOK(t, r)
    <3>1. now \in Nat /\ r.began \in Int /\ r.began <= now /\ Ttl \in Nat
      BY <1>2, TimeAssumption DEF TaskOK, KeysOK
    <3>2. r.at = "install" => SeenAt(r.keys, r.began, withdrawn')
      BY <2>1, <2>3, <3>1, SeenLater DEF BearerOK, Onward, LaterKeys, KeysOK, Times
    <3>3. r.kid \in DOMAIN withdrawn' /\ (r.kid \in published'[Igwn] => r.kid \in published[Igwn])
      BY <2>3 DEF BearerOK, Onward, LaterKeys
    <3>4. Igwn \in DOMAIN jwks /\ jwks[Igwn].fetched_at >= r.began - Ttl
            => Igwn \in DOMAIN jwks' /\ jwks'[Igwn].fetched_at >= r.began - Ttl
      BY <3>1 DEF Onward
    <3>5. BearerOK(t, r)'
      BY <2>3, <3>2, <3>3, <3>4 DEF BearerOK, Onward
    <3> QED
      BY <2>1, <2>3, <3>5 DEF TaskOK, Onward
  <2> QED
    BY <2>1, <2>2, <2>3
<1> QED
  BY <1>1, <1>2

LEMMA EntryStays ==
  ASSUME KeysOK, EntryOK, LaterKeys, now' \in Nat, now' >= now,
         Igwn \in DOMAIN jwks' => Igwn \in DOMAIN jwks /\ jwks'[Igwn] = jwks[Igwn]
  PROVE  EntryOK'
<1> SUFFICES ASSUME Igwn \in DOMAIN jwks' PROVE EntryOK'
  BY DEF EntryOK
<1> DEFINE e == jwks[Igwn]
           moment == e.fetched_at - Span
<1>1. /\ e.fetched_at \in Nat /\ e.fetched_at <= now /\ SeenAt(e.keys, moment, withdrawn)
      /\ jwks'[Igwn] = e
  BY DEF EntryOK
<1>2. moment \in Int /\ moment <= now /\ now \in Nat
  BY <1>1, TimeAssumption DEF KeysOK
<1> HIDE DEF moment
<1>3. SeenAt(e.keys, moment, withdrawn')
  BY <1>1, <1>2, SeenLater DEF LaterKeys, KeysOK, Times
<1> QED
  BY <1>1, <1>2, <1>3 DEF EntryOK, KeysOK, moment

-------------------------------------------------------------------------------
(* The steps *)

\* Steps that leave the requests and the cache alone.
LEMMA AroundKeeps ==
  ASSUME KeyInv, KeysOK', LaterKeys, UNCHANGED <<tasks, jwks>>, now' >= now,
         \A t \in Task : tasks[t] # Idle => now' - tasks[t].began <= Span
  PROVE  KeyInv'
<1>1. \A t \in Task : Onward(t)
  BY DEF Onward, KeysOK
<1>2. \A t \in Task : TaskOK(t, tasks[t])'
  BY <1>1, TaskStays DEF KeyInv
<1>3. EntryOK'
  BY EntryStays DEF KeyInv, KeysOK
<1> QED
  BY <1>2, <1>3 DEF KeyInv

LEMMA AroundSteps ==
  ASSUME KeyInv, Rotate \/ Tick \/ Logout \/ DevLogin \/ Login \/ UNCHANGED vars
  PROVE  KeyInv'
<1>1. KeysOK' /\ LaterKeys
  BY KeysRotate, KeysStay DEF KeyInv, KeysOK, Tick, Logout, DevLogin, Login, vars
<1>2. UNCHANGED <<tasks, jwks>>
  BY DEF Rotate, Tick, Logout, DevLogin, Login, vars
<1>3. ASSUME NEW t \in Task, tasks[t] # Idle
      PROVE  now' >= now /\ now' - tasks[t].began <= Span
  <2>1. /\ now \in Nat /\ tasks[t].began \in Nat /\ now - tasks[t].began <= Span
    BY <1>3 DEF KeyInv, KeysOK, TaskOK
  <2>2. CASE Tick
    BY <1>3, <2>1, <2>2, TimeAssumption DEF Tick
  <2>3. CASE now' = now
    BY <2>1, <2>3
  <2> QED
    BY <2>2, <2>3 DEF Rotate, Logout, DevLogin, Login, vars
<1>4. now' >= now
  BY DEF KeyInv, KeysOK, Rotate, Tick, Logout, DevLogin, Login, vars
<1> QED
  BY <1>1, <1>2, <1>3, <1>4, AroundKeeps

\* A step of the request of d, which may put its own entry in the cache.
LEMMA TaskMoves ==
  ASSUME KeyInv, NEW d \in Task, UNCHANGED <<now, published, withdrawn>>, EntryOK',
         tasks' = [t \in Task |-> tasks'[t]],
         \A t \in Task : t # d => tasks'[t] = tasks[t],
         Igwn \in DOMAIN jwks =>
           /\ Igwn \in DOMAIN jwks'
           /\ \/ jwks'[Igwn] = jwks[Igwn]
              \/ jwks'[Igwn].fetched_at = now /\ jwks'[Igwn].by = d,
         TaskOK(d, tasks[d])'
  PROVE  KeyInv'
<1>1. KeysOK' /\ LaterKeys
  BY KeysStay DEF KeyInv, KeysOK
<1>2. ASSUME NEW t \in Task, t # d
      PROVE  TaskOK(t, tasks[t])'
  <2>1. /\ now' \in Nat /\ now' >= now
        /\ tasks[t] # Idle => now' - tasks[t].began <= Span
    BY DEF KeyInv, KeysOK, TaskOK
  <2>2. Onward(t)
    BY <1>1, <1>2, <2>1 DEF Onward
  <2> QED
    BY <2>2, TaskStays DEF KeyInv
<1> QED
  BY <1>1, <1>2 DEF KeyInv

\* The same, with the cache left alone.
LEMMA TaskGoesOn ==
  ASSUME KeyInv, NEW d \in Task, UNCHANGED <<now, published, withdrawn, jwks>>,
         NEW r, Becomes(d, r), TaskOK(d, tasks[d])'
  PROVE  KeyInv'
<1>1. EntryOK'
  BY EntryStays, KeysStay DEF KeyInv, KeysOK
<1>2. /\ tasks' = [t \in Task |-> tasks'[t]]
      /\ \A t \in Task : t # d => tasks'[t] = tasks[t]
  BY DEF KeyInv, Becomes
<1> QED
  BY <1>1, <1>2, TaskMoves

LEMMA TaskEnds ==
  ASSUME KeyInv, NEW d \in Task, UNCHANGED <<now, published, withdrawn, jwks>>, Ends(d)
  PROVE  KeyInv'
<1>1. TaskOK(d, tasks[d])'
  BY DEF KeyInv, Ends, Becomes, TaskOK
<1> QED
  BY <1>1, TaskGoesOn DEF Ends

\* A request that changes nothing: its token, its state cookie or CILogon would not do.
LEMMA TaskIdles ==
  ASSUME KeyInv, UNCHANGED <<now, published, withdrawn, jwks, tasks>>
  PROVE  KeyInv'
<1>1. \A t \in Task : tasks[t] # Idle => now' - tasks[t].began <= Span
  BY DEF KeyInv, TaskOK
<1> QED
  BY <1>1, KeysStay, AroundKeeps DEF KeyInv, KeysOK

LEMMA BearerKeeps ==
  ASSUME KeyInv, NEW d \in Task, Bearer(d)
  PROVE  KeyInv'
<1>1. UNCHANGED <<now, published, withdrawn, jwks>>
  BY DEF Bearer
<1>2. CASE UNCHANGED tasks
  BY <1>1, <1>2, TaskIdles
<1>3. ASSUME NEW token, PolicyAllows(token), token.kid \in DOMAIN withdrawn,
             Becomes(d, [ at |-> IF left.dev_mode THEN "accepted" ELSE FirstStep(token),
                          call |-> "bearer", iss |-> token.iss, kid |-> token.kid,
                          began |-> now, missed |-> FALSE, failed |-> FALSE, cut |-> FALSE ])
      PROVE  KeyInv'
  <2> DEFINE at == IF left.dev_mode THEN "accepted" ELSE FirstStep(token)
             r  == [ at |-> at, call |-> "bearer", iss |-> token.iss, kid |-> token.kid,
                     began |-> now, missed |-> FALSE, failed |-> FALSE, cut |-> FALSE ]
  <2>1. token.iss = Igwn /\ now \in Nat /\ Span \in Nat /\ Ttl \in Nat
    BY <1>3, TimeAssumption DEF PolicyAllows, KeyInv, KeysOK
  <2>2. /\ at \in {"accepted", "fetch", "get"}
        /\ at = "get" => Igwn \in DOMAIN jwks /\ jwks[Igwn].fetched_at >= now - Ttl
    BY <2>1 DEF FirstStep, IsStale, KeyInv, EntryOK
  <2> HIDE DEF at
  <2>3. /\ DOMAIN r = Fields /\ r.at = at /\ r.call = "bearer" /\ r.iss = Igwn
        /\ r.kid = token.kid /\ r.began = now /\ r.missed = FALSE /\ r.failed = FALSE
    BY <2>1 DEF Fields
  <2>4. Becomes(d, r)
    BY <1>3 DEF at
  <2> HIDE DEF r
  <2>5. tasks'[d] = r
    BY <2>4 DEF KeyInv, Becomes
  <2>6. BearerOK(d, tasks[d])'
    BY <1>1, <1>3, <2>1, <2>2, <2>3, <2>5 DEF BearerOK
  <2>7. TaskOK(d, tasks[d])'
    BY <1>1, <2>1, <2>2, <2>3, <2>5, <2>6 DEF TaskOK, Fields
  <2> QED
    BY <1>1, <2>4, <2>7, TaskGoesOn
<1>4. \/ UNCHANGED tasks
      \/ \E token :
           /\ PolicyAllows(token) /\ token.kid \in DOMAIN withdrawn
           /\ Becomes(d, [ at |-> IF left.dev_mode THEN "accepted" ELSE FirstStep(token),
                           call |-> "bearer", iss |-> token.iss, kid |-> token.kid,
                           began |-> now, missed |-> FALSE, failed |-> FALSE, cut |-> FALSE ])
  <2>1. PICK iss \in {Igwn, "another issuer"}, kid \in DOMAIN withdrawn, allowed \in BOOLEAN,
             nbf \in {now, now + 1}, exp \in {now - 1, now + Span} :
          LET token == [iss |-> iss, kid |-> kid, allowed |-> allowed, nbf |-> nbf, exp |-> exp]
          IN IF ~PolicyAllows(token) THEN UNCHANGED tasks
             ELSE Becomes(d,
               [ at |-> IF left.dev_mode THEN "accepted" ELSE FirstStep(token), call |-> "bearer",
                 iss |-> iss, kid |-> kid, began |-> now, missed |-> FALSE, failed |-> FALSE,
                 cut |-> FALSE ])
    BY DEF Bearer
  <2> DEFINE token == [iss |-> iss, kid |-> kid, allowed |-> allowed, nbf |-> nbf, exp |-> exp]
  <2>2. token.iss = iss /\ token.kid = kid
    OBVIOUS
  <2>3. \/ UNCHANGED tasks
        \/ /\ PolicyAllows(token)
           /\ Becomes(d,
               [ at |-> IF left.dev_mode THEN "accepted" ELSE FirstStep(token), call |-> "bearer",
                 iss |-> iss, kid |-> kid, began |-> now, missed |-> FALSE, failed |-> FALSE,
                 cut |-> FALSE ])
    BY <2>1
  <2> HIDE DEF token
  <2> QED
    BY <2>2, <2>3
<1> QED
  BY <1>2, <1>3, <1>4

LEMMA FetchKeeps ==
  ASSUME KeyInv, NEW d \in Task, Fetch(d)
  PROVE  KeyInv'
<1> DEFINE r == tasks[d]
<1>1. UNCHANGED <<now, published, withdrawn, jwks>> /\ r.at = "fetch" /\ r # Idle
  BY DEF Fetch, Idle
<1>2. /\ Fields \subseteq DOMAIN r /\ "keys" \notin DOMAIN r
      /\ r.began \in Nat /\ r.began <= now /\ now - r.began <= Span
      /\ \/ r.call = "callback" /\ r.iss = Cilogon
         \/ r.call = "bearer" /\ r.iss = Igwn /\ r.kid \in DOMAIN withdrawn
  BY <1>1 DEF KeyInv, TaskOK, BearerOK
<1>3. CASE Ends(d)
  BY <1>1, <1>3, TaskEnds
<1>4. CASE /\ r.call = "bearer" /\ ~ r.missed
           /\ Becomes(d, [r EXCEPT !.at = "get", !.failed = TRUE])
  <2> DEFINE next == [r EXCEPT !.at = "get", !.failed = TRUE]
  <2>1. /\ DOMAIN next = DOMAIN r /\ next["at"] = "get" /\ next["failed"] = TRUE
        /\ \A k \in DOMAIN r \ {"at", "failed"} : next[k] = r[k]
    BY <1>2 DEF Fields
  <2> HIDE DEF next
  <2>2. tasks'[d] = next
    BY <1>4 DEF KeyInv, Becomes, next
  <2>3. /\ next.call = r.call /\ next.iss = r.iss /\ next.kid = r.kid /\ next.began = r.began
        /\ next.missed = r.missed
    BY <1>2, <2>1 DEF Fields
  <2>4. BearerOK(d, tasks[d])'
    BY <1>1, <1>2, <1>4, <2>1, <2>2, <2>3 DEF BearerOK, Igwn, Cilogon
  <2>5. TaskOK(d, tasks[d])'
    BY <1>1, <1>2, <1>4, <2>1, <2>2, <2>3, <2>4 DEF TaskOK
  <2> QED
    BY <1>1, <1>4, <2>5, TaskGoesOn DEF next
<1>4a. CASE /\ r.call = "bearer" /\ r.missed
            /\ Becomes(d, [r EXCEPT !.at = "refused", !.cut = TRUE])
  <2> DEFINE next == [r EXCEPT !.at = "refused", !.cut = TRUE]
  <2>1. /\ DOMAIN next = DOMAIN r /\ next["at"] = "refused" /\ next["cut"] = TRUE
        /\ \A k \in DOMAIN r \ {"at", "cut"} : next[k] = r[k]
    BY <1>2 DEF Fields
  <2> HIDE DEF next
  <2>2. tasks'[d] = next
    BY <1>4a DEF KeyInv, Becomes, next
  <2>3. next.call = r.call /\ next.iss = r.iss /\ next.kid = r.kid /\ next.began = r.began
    BY <1>2, <2>1 DEF Fields
  <2>4. BearerOK(d, tasks[d])'
    BY <1>1, <1>2, <1>4a, <2>1, <2>2, <2>3 DEF BearerOK, Igwn, Cilogon
  <2>5. TaskOK(d, tasks[d])'
    BY <1>1, <1>2, <1>4a, <2>1, <2>2, <2>3, <2>4 DEF TaskOK
  <2> QED
    BY <1>1, <1>4a, <2>5, TaskGoesOn DEF next
<1>5. CASE Becomes(d, Holding(r, published[r.iss]))
  <2> DEFINE next == Holding(r, published[r.iss])
  <2>1. /\ DOMAIN next = DOMAIN r \cup {"keys"} /\ next["at"] = "install"
        /\ next["keys"] = published[r.iss]
        /\ \A k \in DOMAIN r \ {"at"} : next[k] = r[k]
    <3>1. next = [k \in DOMAIN r \cup {"keys"} |->
                    IF k = "keys" THEN published[r.iss] ELSE IF k = "at" THEN "install" ELSE r[k]]
      BY DEF Holding
    <3>2. "at" \in DOMAIN r
      BY <1>2 DEF Fields
    <3> QED
      BY <1>2, <3>1, <3>2
  <2> HIDE DEF next
  <2>2. tasks'[d] = next
    BY <1>5 DEF KeyInv, Becomes, next
  <2>3. /\ next.call = r.call /\ next.iss = r.iss /\ next.kid = r.kid /\ next.began = r.began
        /\ next.missed = r.missed
    BY <1>2, <2>1 DEF Fields
  <2>4. r.iss = Igwn => SeenAt(next.keys, r.began, withdrawn)
    BY <2>1 DEF KeyInv, KeysOK, SeenAt
  <2>5. r.call = "bearer" => BearerOK(d, tasks[d])'
    BY <1>1, <1>2, <2>1, <2>2, <2>3, <2>4 DEF BearerOK
  <2>6. TaskOK(d, tasks[d])'
    BY <1>1, <1>2, <2>1, <2>2, <2>3, <2>5 DEF TaskOK
  <2> QED
    BY <1>1, <1>5, <2>6, TaskGoesOn DEF next
<1> QED
  BY <1>3, <1>4, <1>4a, <1>5 DEF Fetch

LEMMA InstallKeeps ==
  ASSUME KeyInv, NEW d \in Task, Install(d)
  PROVE  KeyInv'
<1> DEFINE r == tasks[d]
           entry == Entry(r.keys, d)
           next == [k \in DOMAIN r \ {"keys"} |-> IF k = "at" THEN "get" ELSE r[k]]
<1>1. UNCHANGED <<now, published, withdrawn>> /\ r.at = "install" /\ r # Idle
  BY DEF Install, Idle
<1>2. /\ Fields \subseteq DOMAIN r
      /\ r.began \in Nat /\ r.began <= now /\ now - r.began <= Span
      /\ \/ r.call = "callback" /\ r.iss = Cilogon
         \/ r.call = "bearer" /\ BearerOK(d, r)
  BY <1>1 DEF KeyInv, TaskOK
<1>3. /\ DOMAIN next = DOMAIN r \ {"keys"} /\ next["at"] = "get"
      /\ \A k \in DOMAIN r \ {"keys", "at"} : next[k] = r[k]
  BY <1>2 DEF Fields
<1>4. entry.keys = r.keys /\ entry.fetched_at = now /\ entry.by = d
  BY DEF Entry
<1>5. /\ jwks' = [iss \in DOMAIN jwks \cup {r.iss} |-> IF iss = r.iss THEN entry ELSE jwks[iss]]
      /\ tasks' = [tasks EXCEPT ![d] = next]
  BY DEF Install, Becomes
<1> HIDE DEF next, entry
<1>6. /\ tasks'[d] = next /\ tasks' = [t \in Task |-> tasks'[t]]
      /\ \A t \in Task : t # d => tasks'[t] = tasks[t]
  BY <1>5 DEF KeyInv
<1>7. /\ next.call = r.call /\ next.iss = r.iss /\ next.kid = r.kid /\ next.began = r.began
      /\ next.missed = r.missed /\ next.failed = r.failed
      /\ Fields \subseteq DOMAIN next /\ "keys" \notin DOMAIN next
  BY <1>2, <1>3 DEF Fields
<1>8. CASE r.call = "callback" /\ r.iss = Cilogon
  <2>1. /\ Igwn \in DOMAIN jwks => Igwn \in DOMAIN jwks' /\ jwks'[Igwn] = jwks[Igwn]
        /\ Igwn \in DOMAIN jwks' => Igwn \in DOMAIN jwks /\ jwks'[Igwn] = jwks[Igwn]
    BY <1>5, <1>8 DEF Igwn, Cilogon
  <2>2. EntryOK'
    BY <1>1, <2>1, EntryStays, KeysStay DEF KeyInv, KeysOK
  <2>3. TaskOK(d, tasks[d])'
    BY <1>1, <1>2, <1>3, <1>6, <1>7, <1>8 DEF TaskOK
  <2> QED
    BY <1>1, <1>6, <2>1, <2>2, <2>3, TaskMoves
<1>9. CASE r.call = "bearer" /\ BearerOK(d, r)
  <2>1. Igwn \in DOMAIN jwks' /\ jwks'[Igwn] = entry /\ r.iss = Igwn
    BY <1>5, <1>9 DEF BearerOK
  <2>2. now \in Nat /\ Span \in Nat /\ Ttl \in Nat /\ now - Span <= r.began
    BY <1>2, TimeAssumption DEF KeyInv, KeysOK
  <2>3. SeenAt(r.keys, r.began, withdrawn) /\ withdrawn \in Times
    BY <1>1, <1>9 DEF BearerOK, KeyInv, KeysOK, Times
  <2>4. SeenAt(r.keys, now - Span, withdrawn)
    <3>1. \A k \in DOMAIN withdrawn : withdrawn[k] \in Int
      BY <2>3 DEF Times, Never
    <3> QED
      BY <1>2, <2>2, <2>3, <3>1 DEF SeenAt
  <2>5. EntryOK'
    BY <1>1, <1>4, <2>1, <2>2, <2>4 DEF EntryOK
  <2>6. BearerOK(d, tasks[d])'
    BY <1>1, <1>2, <1>3, <1>4, <1>6, <1>7, <1>9, <2>1, <2>2 DEF BearerOK
  <2>7. TaskOK(d, tasks[d])'
    BY <1>1, <1>2, <1>3, <1>6, <1>7, <1>9, <2>6 DEF TaskOK
  <2> QED
    BY <1>1, <1>4, <1>6, <2>1, <2>5, <2>7, TaskMoves
<1> QED
  BY <1>2, <1>8, <1>9

\* A look at the cache.  Igwn's key is missing after a refresh only from an entry of
\* another task, if the issuer has it.
LEMMA GetKeeps ==
  ASSUME KeyInv, NEW d \in Task, Get(d)
  PROVE  KeyInv'
<1> DEFINE r == tasks[d]
           next == IF HasKey(r.iss, r.kid) THEN [r EXCEPT !.at = "accepted"]
                   ELSE IF Refuses(r) THEN [r EXCEPT !.at = "refused"]
                   ELSE [r EXCEPT !.at = "fetch", !.missed = TRUE]
<1>1. UNCHANGED <<now, published, withdrawn, jwks>> /\ r.at = "get" /\ r # Idle
  BY DEF Get, Idle
<1>2. /\ Fields \subseteq DOMAIN r /\ "keys" \notin DOMAIN r
      /\ r.began \in Nat /\ r.began <= now /\ now - r.began <= Span
      /\ \/ r.call = "callback" /\ r.iss = Cilogon
         \/ r.call = "bearer" /\ BearerOK(d, r)
  BY <1>1 DEF KeyInv, TaskOK
<1>3. /\ DOMAIN next = DOMAIN r /\ next["at"] \in {"accepted", "refused", "fetch"}
      /\ \A k \in DOMAIN r \ {"at", "missed"} : next[k] = r[k]
      /\ next["at"] = "refused" => ~ HasKey(r.iss, r.kid) /\ Refuses(r)
  BY <1>2 DEF Fields
<1> HIDE DEF next
<1>4. tasks'[d] = next /\ Becomes(d, next)
  BY DEF Get, KeyInv, Becomes, next
<1>5. next.call = r.call /\ next.iss = r.iss /\ next.kid = r.kid /\ next.began = r.began
  BY <1>2, <1>3 DEF Fields
<1>6. ASSUME r.call = "bearer", BearerOK(d, r)
      PROVE  BearerOK(d, tasks[d])'
  <2>1. next.at = "refused" /\ r.kid \in published[Igwn] =>
          Igwn \in DOMAIN jwks /\ jwks[Igwn].by # d
    BY <1>1, <1>3, <1>6 DEF HasKey, Refuses, BearerOK
  <2> QED
    BY <1>1, <1>3, <1>4, <1>5, <1>6, <2>1 DEF BearerOK
<1>7. TaskOK(d, tasks[d])'
  BY <1>1, <1>2, <1>3, <1>4, <1>5, <1>6 DEF TaskOK
<1> QED
  BY <1>1, <1>4, <1>7, TaskGoesOn

LEMMA CallbackKeeps ==
  ASSUME KeyInv, NEW d \in Task, Callback(d)
  PROVE  KeyInv'
<1>1. UNCHANGED <<now, published, withdrawn, jwks>>
  BY DEF Callback
<1>2. CASE UNCHANGED tasks
  BY <1>1, <1>2, TaskIdles
<1>3. ASSUME NEW sub, Becomes(d, IdTokenRequest(sub))
      PROVE  KeyInv'
  <2> DEFINE r == IdTokenRequest(sub)
  <2>1. /\ DOMAIN r = Fields \cup {"sub"} /\ r.at = "fetch" /\ r.call = "callback"
        /\ r.iss = Cilogon /\ r.began = now
    BY DEF IdTokenRequest, Fields
  <2> HIDE DEF r
  <2>2. tasks'[d] = r
    BY <1>3 DEF KeyInv, Becomes, r
  <2>3. now \in Nat /\ now - now <= Span
    BY TimeAssumption DEF KeyInv, KeysOK
  <2>4. TaskOK(d, tasks[d])'
    BY <1>1, <2>1, <2>2, <2>3 DEF TaskOK, Fields
  <2> QED
    BY <1>1, <1>3, <2>4, TaskGoesOn
<1> QED
  BY <1>2, <1>3 DEF Callback, Discover

LEMMA RestartKeeps == KeyInv /\ Restart => KeyInv'
<1> SUFFICES ASSUME KeyInv, Restart PROVE KeyInv'
  OBVIOUS
<1>1. /\ UNCHANGED <<now, published, withdrawn>> /\ tasks' = [t \in Task |-> Idle]
      /\ jwks' = <<>> \/ jwks' = [iss \in {Igwn} |-> Entry(published[Igwn], "warm")]
  BY DEF Restart
<1>2. KeysOK'
  BY <1>1, KeysStay DEF KeyInv, KeysOK
<1>3. CASE jwks' = <<>>
  BY <1>1, <1>2, <1>3 DEF KeyInv, EntryOK, TaskOK
<1>4. CASE jwks' = [iss \in {Igwn} |-> Entry(published[Igwn], "warm")]
  <2>1. jwks'[Igwn].keys = published[Igwn] /\ jwks'[Igwn].fetched_at = now
    BY <1>4 DEF Entry
  <2>2. SeenAt(published[Igwn], now - Span, withdrawn)
    BY DEF KeyInv, KeysOK, SeenAt
  <2>3. EntryOK'
    BY <1>1, <2>1, <2>2 DEF EntryOK, KeyInv, KeysOK
  <2> QED
    BY <1>1, <1>2, <2>3 DEF KeyInv, TaskOK
<1> QED
  BY <1>1, <1>3, <1>4

LEMMA KeyStarts == Init => KeyInv
<1> SUFFICES ASSUME Init PROVE KeyInv
  OBVIOUS
<1>1. KeysOK
  BY DEF Init, KeysOK, Never
<1> QED
  BY <1>1 DEF Init, KeyInv, EntryOK, TaskOK

LEMMA KeyKept == KeyInv /\ [Next]_vars => KeyInv'
<1> SUFFICES ASSUME KeyInv, [Next]_vars PROVE KeyInv'
  OBVIOUS
<1>1. CASE Rotate \/ Tick \/ Logout \/ DevLogin \/ Login \/ UNCHANGED vars
  BY <1>1, AroundSteps
<1>2. CASE Restart
  BY <1>2, RestartKeeps
<1>3. CASE \E t \in Task : Bearer(t) \/ Fetch(t) \/ Install(t) \/ Get(t) \/ Callback(t)
  BY <1>3, BearerKeeps, FetchKeeps, InstallKeeps, GetKeeps, CallbackKeeps
<1>4. CASE \E t \in Task : Answer(t) \/ FinishCallback(t)
  BY <1>4, TaskEnds DEF Answer, FinishCallback
<1> QED
  BY <1>1, <1>2, <1>3, <1>4 DEF Next

LEMMA KeyAlways == Spec => []KeyInv
  BY KeyStarts, KeyKept, PTL DEF Spec

\* However many requests refresh the key set at once, and whenever the issuer rotates
\* its keys: a published key is refused only when the refresh after its miss failed,
\* or for another task's older key set (validate_token and JwksCache::refresh in
\* src/auth.rs).
THEOREM GoodTokensGetIn == Spec => []GoodTokensPass
<1>1. KeyInv => GoodTokensPass
  BY DEF KeyInv, TaskOK, BearerOK, GoodTokensPass, Idle
<1> QED
  BY <1>1, KeyAlways, PTL

\* A request accepted for a key that its issuer withdrew: its entry is younger than the
\* request by the cache's time at most, and the entry's keys are older than the entry
\* by a request at most.
LEMMA KeysFadeStep ==
  ASSUME KeyInv, [Next]_vars, NEW t \in Task, tasks[t].at = "get", tasks[t].iss = Igwn,
         tasks'[t].at = "accepted", withdrawn[tasks[t].kid] # Never, ~ tasks[t].failed
  PROVE  now - withdrawn[tasks[t].kid] <= Ttl + 2 * Span
<1> DEFINE r == tasks[t]
<1>1. r # Idle
  BY DEF Idle
<1>2. /\ r.began \in Nat /\ now - r.began <= Span /\ BearerOK(t, r)
  BY <1>1 DEF KeyInv, TaskOK, Igwn, Cilogon
<1>3. \E d \in Task : d = t /\ (Get(d) \/ Bearer(d) \/ Fetch(d) \/ Install(d) \/ Answer(d)
                                \/ Callback(d) \/ FinishCallback(d))
  <2>1. CASE Rotate \/ Tick \/ Logout \/ DevLogin \/ Login \/ UNCHANGED vars
    <3>1. tasks' = tasks
      BY <2>1 DEF Rotate, Tick, Logout, DevLogin, Login, vars
    <3> QED
      BY <3>1
  <2>2. CASE Restart
    BY <2>2 DEF Restart, Idle
  <2>3. ASSUME NEW d \in Task, d # t,
               Get(d) \/ Bearer(d) \/ Fetch(d) \/ Install(d) \/ Answer(d)
                 \/ Callback(d) \/ FinishCallback(d)
        PROVE  FALSE
    <3>1. tasks' = tasks \/ \E next : Becomes(d, next)
      BY <2>3 DEF Get, Bearer, Fetch, Install, Answer, Callback, FinishCallback, Ends, Discover
    <3>2. tasks'[t] = tasks[t]
      BY <2>3, <3>1 DEF KeyInv, Becomes
    <3> QED
      BY <3>2
  <2> QED
    BY <2>1, <2>2, <2>3 DEF Next
<1>4. Get(t)
  BY <1>1, <1>3 DEF Bearer, Fetch, Install, Answer, Callback, FinishCallback
<1>5. HasKey(Igwn, r.kid)
  <2>1. "at" \in DOMAIN r
    BY <1>1 DEF KeyInv, TaskOK, Fields
  <2>2. ~ HasKey(r.iss, r.kid) => tasks'[t].at \in {"refused", "fetch"}
    BY <1>4, <2>1 DEF Get, Becomes, KeyInv
  <2> QED
    BY <2>2
<1>6. /\ jwks[Igwn].fetched_at >= r.began - Ttl /\ jwks[Igwn].fetched_at \in Nat
      /\ SeenAt(jwks[Igwn].keys, jwks[Igwn].fetched_at - Span, withdrawn)
      /\ r.kid \in jwks[Igwn].keys /\ r.kid \in DOMAIN withdrawn
  BY <1>2, <1>5 DEF BearerOK, HasKey, KeyInv, EntryOK
<1>7. withdrawn[r.kid] >= jwks[Igwn].fetched_at - Span
  BY <1>6 DEF SeenAt
<1>8. withdrawn[r.kid] \in Int /\ now \in Nat /\ Span \in Nat /\ Ttl \in Nat
  BY <1>6, TimeAssumption DEF KeyInv, KeysOK, Never
<1> QED
  BY <1>2, <1>6, <1>7, <1>8

\* A withdrawn key fades: with the issuer in reach, no request is let in by a key that
\* was withdrawn longer ago than the cache's time and two requests', in any
\* interleaving of refreshes, rotations and restarts (JWKS_CACHE_TTL in src/auth.rs).
THEOREM KeysFade == Spec => WithdrawnKeysFade
<1>1. ASSUME KeyInv, [Next]_vars
      PROVE  [\A t \in Task :
                LET r == tasks[t] IN
                ( /\ r.at = "get" /\ r.iss = Igwn /\ tasks'[t].at = "accepted"
                  /\ withdrawn[r.kid] # Never )
                  => r.failed \/ now - withdrawn[r.kid] <= Ttl + 2 * Span]_vars
  BY <1>1, KeysFadeStep
<1> QED
  BY <1>1, KeyAlways, PTL DEF Spec, WithdrawnKeysFade
===============================================================================
