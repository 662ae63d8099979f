------------------------------ MODULE Session ------------------------------
(***************************************************************************)
(* The storefront session (src/frontend: middleware.ts, lib/session.ts,    *)
(* lib/api/client.ts, app/api/session, app/api/v1) over Django's rotating  *)
(* refresh tokens (apps/users/views.py, serializers.py, and simplejwt).    *)
(*                                                                         *)
(* A browser has several requests under way; each carries the cookies of   *)
(* the moment it was sent.  Tokens come in pairs, named by a number: the   *)
(* access and the refresh token of one issue.  A refresh is two steps at   *)
(* Django: the token is found valid, then blacklisted and replaced.  The   *)
(* customer has just registered; every request comes from our own pages.   *)
(***************************************************************************)
EXTENDS Naturals, FiniteSets

CONSTANTS
    Tabs,    \* requests the browser can have under way at once
    MaxPairs, \* bound: token pairs issued
    MaxClicks \* bound: requests, retries not counted

ASSUME ConstantsAssumption == MaxPairs \in Nat \ {0} /\ MaxClicks \in Nat

VARIABLES
    jar,         \* the two cookies; 0 is no cookie
    tabs,        \* the request each tab has under way
    issued,      \* pairs issued so far are 1..issued
    expired,     \* pairs whose access token has run out
    stale,       \* pairs whose refresh token has run out
    blacklisted, \* pairs whose refresh token was revoked
    recorded,    \* pairs with a user in simplejwt's outstanding tokens
    clicks,      \* requests sent, retries not counted
    effects,     \* times the server did what the click under way asks for
    disturbed    \* history: the customer signed out, changed the password or
                 \* stayed away too long, or an answer with new tokens was lost

vars == <<jar, tabs, issued, expired, stale, blacklisted, recorded, clicks, effects, disturbed>>
tokenVars == <<clicks, issued, expired, stale, blacklisted, recorded>>

Rest == [at |-> "rest"]
Kinds == {"page", "call", "login", "logout"}
Answers == {"ok", "unauthorised", "failed"}

\* A request as the browser sends it.
Request(kind, cookies, again) ==
    [at |-> "sent", kind |-> kind, access |-> cookies.access,
     refresh |-> cookies.refresh, sets |-> 0, clears |-> FALSE, again |-> again,
     answer |-> "ok"]

Init ==
    /\ jar = [access |-> 1, refresh |-> 1]
    /\ tabs = [t \in Tabs |-> Rest]
    /\ issued = 1 /\ recorded = {1}
    /\ expired = {} /\ stale = {} /\ blacklisted = {}
    /\ clicks = 0 /\ effects = [t \in Tabs |-> 0]
    /\ disturbed = FALSE

Update(t, fields) == tabs' = [tabs EXCEPT ![t] = [f \in DOMAIN @ |->
                                  IF f \in DOMAIN fields THEN fields[f] ELSE @[f]]]

\* Bound: nothing new is sent once the session was disturbed, for nothing is
\* claimed of such a session but of the clicks that are under way.
Sends(t, kind) ==
    /\ tabs[t] = Rest /\ clicks < MaxClicks /\ ~disturbed
    /\ clicks' = clicks + 1
    /\ tabs' = [tabs EXCEPT ![t] = Request(kind, jar, kind # "call")]
    /\ disturbed' = (disturbed \/ kind = "logout")
    /\ UNCHANGED <<jar, issued, expired, stale, blacklisted, recorded, effects>>

-----------------------------------------------------------------------------
(* The middleware. *)

NeedsRefresh(r) == r.refresh # 0 /\ (r.access = 0 \/ r.access \in expired)

\* Mutant: any refresh that fails signs the browser out.
ClearsOnAnyFailure(pair) == TRUE

\* A refresh can fail because a parallel request has rotated the token: the
\* cookies are cleared only when the refresh token itself has run out.
Clears(pair) == pair \in stale

PassesOn(t) ==
    /\ tabs[t].at = "sent" /\ ~NeedsRefresh(tabs[t])
    /\ Update(t, [at |-> "forwarded"])
    /\ UNCHANGED <<jar, tokenVars, effects, disturbed>>

GoesOnWithout(t) ==
    LET clears == Clears(tabs[t].refresh)
    IN  Update(t, [at |-> "forwarded", access |-> 0, clears |-> clears,
                   refresh |-> IF clears THEN 0 ELSE tabs[t].refresh])

RefreshRefused(t) ==
    /\ tabs[t].at = "sent" /\ NeedsRefresh(tabs[t])
    /\ tabs[t].refresh \in blacklisted \cup stale
    /\ GoesOnWithout(t)
    /\ UNCHANGED <<jar, tokenVars, effects, disturbed>>

\* Django is not reached.
RefreshUnreached(t) ==
    /\ tabs[t].at = "sent" /\ NeedsRefresh(tabs[t])
    /\ GoesOnWithout(t)
    /\ UNCHANGED <<jar, tokenVars, effects, disturbed>>

\* TokenRefreshSerializer finds the token valid and not blacklisted ...
RefreshAccepted(t) ==
    /\ tabs[t].at = "sent" /\ NeedsRefresh(tabs[t])
    /\ tabs[t].refresh \notin blacklisted \cup stale
    /\ Update(t, [at |-> "refreshing"])
    /\ UNCHANGED <<jar, tokenVars, effects, disturbed>>

Issue == issued < MaxPairs /\ issued' = issued + 1

\* ... blacklists it and issues a pair; the answer may not arrive.
Rotates(t) ==
    /\ tabs[t].at = "refreshing"
    /\ Issue
    /\ blacklisted' = blacklisted \cup {tabs[t].refresh}
    /\ \/ /\ Update(t, [at |-> "forwarded", access |-> issued + 1,
                        refresh |-> issued + 1, sets |-> issued + 1])
          /\ UNCHANGED disturbed
       \/ GoesOnWithout(t) /\ disturbed' = TRUE
    /\ UNCHANGED <<jar, expired, stale, recorded, clicks, effects>>

-----------------------------------------------------------------------------
(* The route handlers and Django behind them. *)

Accepted(r) == r.access # 0 /\ r.access \notin expired

\* The proxy route, or a page that reads as the customer: the effect of a call
\* may be followed by an answer that says it failed; whether a page's read
\* fails is of no account to the session.
Serves(t) ==
    /\ tabs[t].at = "forwarded" /\ tabs[t].kind \in {"page", "call"}
    /\ IF Accepted(tabs[t])
       THEN \E answer \in {"ok", "failed"} :
                /\ Update(t, [at |-> "answered", answer |-> answer])
                /\ IF tabs[t].kind = "call"
                   THEN effects' = [effects EXCEPT ![t] = @ + 1]
                   ELSE answer = "ok" /\ UNCHANGED effects
       ELSE /\ Update(t, [at |-> "answered", answer |-> "unauthorised"])
            /\ UNCHANGED effects
    /\ UNCHANGED <<jar, tokenVars, disturbed>>

Unreached(t) ==
    /\ tabs[t].at = "forwarded" /\ tabs[t].kind \in {"call", "login"}
    /\ Update(t, [at |-> "answered", answer |-> "failed"])
    /\ UNCHANGED <<jar, tokenVars, effects, disturbed>>

\* The password is checked, then a pair is issued and recorded.
LogsIn(t) ==
    /\ \/ /\ tabs[t].at = "forwarded" /\ tabs[t].kind = "login"
          /\ \/ Update(t, [at |-> "authenticated"])
             \/ Update(t, [at |-> "answered", answer |-> "unauthorised"])
          /\ UNCHANGED <<issued, recorded>>
       \/ /\ tabs[t].at = "authenticated"
          /\ Issue
          /\ recorded' = recorded \cup {issued + 1}
          /\ Update(t, [at |-> "answered", sets |-> issued + 1, clears |-> FALSE])
    /\ UNCHANGED <<jar, expired, stale, blacklisted, clicks, effects, disturbed>>

\* The cookies go whatever Django answers; a token is revoked only with a
\* valid access token beside it.
LogsOut(t) ==
    /\ tabs[t].at = "forwarded" /\ tabs[t].kind = "logout"
    /\ \/ /\ Accepted(tabs[t]) /\ tabs[t].refresh # 0
          /\ blacklisted' = blacklisted \cup {tabs[t].refresh}
       \/ UNCHANGED blacklisted
    /\ Update(t, [at |-> "answered", sets |-> 0, clears |-> TRUE])
    /\ UNCHANGED <<jar, issued, expired, stale, recorded, clicks, effects, disturbed>>

-----------------------------------------------------------------------------
(* The browser. *)

Jar(r) == IF r.sets # 0 THEN [access |-> r.sets, refresh |-> r.sets]
          ELSE IF r.clears THEN [access |-> 0, refresh |-> 0] ELSE jar

\* Mutant: whatever failed is tried again.
RetriesAnyFailure(r) == r.answer # "ok" /\ ~r.again

\* One retry, and only of a call that was refused as unauthorised.
Retries(r) == r.answer = "unauthorised" /\ ~r.again

Rests(t, next, done) ==
    tabs' = [tabs EXCEPT ![t] = next] /\ effects' = [effects EXCEPT ![t] = done]

Arrives(t) ==
    /\ tabs[t].at = "answered"
    /\ jar' = Jar(tabs[t])
    /\ IF Retries(tabs[t])
       THEN Rests(t, Request(tabs[t].kind, jar', TRUE), effects[t])
       ELSE Rests(t, Rest, 0)
    /\ UNCHANGED <<tokenVars, disturbed>>

\* The connection is gone: no cookies, no retry.
NeverArrives(t) ==
    /\ tabs[t].at = "answered"
    /\ Rests(t, Rest, 0)
    /\ disturbed' = (disturbed \/ tabs[t].sets # 0)
    /\ UNCHANGED <<jar, tokenVars>>

-----------------------------------------------------------------------------
(* Time, and a change of credentials elsewhere. *)

\* The pairs of the jar and of the requests under way: the clocks of the others
\* are of no account.
InUse == {jar.access, jar.refresh} \cup
    UNION {{tabs[t].access, tabs[t].refresh, tabs[t].sets} : t \in {u \in Tabs : tabs[u] # Rest}}

AccessExpires(n) ==
    /\ n \in InUse \ expired /\ expired' = expired \cup {n}
    /\ UNCHANGED <<jar, tabs, issued, stale, blacklisted, recorded, clicks, effects, disturbed>>

\* A refresh token outlives its access token; the browser drops its cookie.
RefreshExpires(n) ==
    /\ n \in (InUse \cap expired) \ stale /\ stale' = stale \cup {n}
    /\ disturbed' = TRUE
    /\ jar' \in {jar, [jar EXCEPT !.refresh = IF @ = n THEN 0 ELSE @]}
    /\ UNCHANGED <<tabs, issued, expired, blacklisted, recorded, clicks, effects>>

\* revoke_all_refresh_tokens, after a change or reset of the password: of the
\* tokens that simplejwt recorded, which a rotated one is not.
CredentialsChange ==
    /\ ~disturbed /\ disturbed' = TRUE
    /\ blacklisted' = blacklisted \cup recorded
    /\ UNCHANGED <<jar, tabs, issued, expired, stale, recorded, clicks, effects>>

Next ==
    \/ \E t \in Tabs :
          \/ \E kind \in Kinds : Sends(t, kind)
          \/ PassesOn(t) \/ RefreshRefused(t) \/ RefreshUnreached(t)
          \/ RefreshAccepted(t) \/ Rotates(t)
          \/ Serves(t) \/ Unreached(t) \/ LogsIn(t) \/ LogsOut(t)
          \/ Arrives(t) \/ NeverArrives(t)
    \/ \E n \in 1..issued : AccessExpires(n) \/ RefreshExpires(n)
    \/ CredentialsChange

Spec == Init /\ [][Next]_vars

-----------------------------------------------------------------------------
(* Properties. *)

\* A customer who did nothing to end the session keeps it: however many
\* requests raced to refresh it, and in whatever order their answers came, the
\* refresh token left in the jar is one that Django still takes (middleware.ts,
\* "clear ours only when the refresh token itself has run out").
NoSelfSignOut ==
    ~disturbed /\ (\A t \in Tabs : tabs[t] = Rest) =>
        jar.refresh \in 1..issued /\ jar.refresh \notin blacklisted

\* One click is carried out at most once, although the client sends it again
\* after a 401 and answers get lost (client.ts, send).
EffectAtMostOnce == \A t \in Tabs : effects[t] <= 1
=============================================================================
