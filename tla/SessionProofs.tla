--------------------------- MODULE SessionProofs ---------------------------
(***************************************************************************)
(* Theorems about Session, for any number of tabs, token pairs and clicks. *)
(***************************************************************************)
EXTENDS Session, TLAPS

Ats == {"sent", "refreshing", "forwarded", "authenticated", "answered"}
Fields == {"at", "kind", "access", "refresh", "sets", "clears", "again", "answer"}
Records == [at : Ats, kind : Kinds, access : Nat, refresh : Nat, sets : Nat,
            clears : BOOLEAN, again : BOOLEAN, answer : Answers]

Typed ==
    /\ issued \in Nat \ {0}
    /\ jar \in [access : Nat, refresh : Nat]
    /\ tabs \in [Tabs -> {Rest} \cup Records]
    /\ effects \in [Tabs -> Nat]
    /\ disturbed \in BOOLEAN

\* What Update makes of a request, field by field.
LEMMA Updated ==
    ASSUME Typed, NEW t \in Tabs, tabs[t] # Rest, NEW fields, Update(t, fields)
    PROVE  /\ \A u \in Tabs : u # t => tabs'[u] = tabs[u]
           /\ tabs' = [u \in Tabs |-> tabs'[u]]
           /\ tabs'[t] = [f \in Fields |->
                 IF f \in DOMAIN fields THEN fields[f] ELSE tabs[t][f]]
  <1>1. tabs[t] \in Records
    BY DEF Typed
  <1>2. DOMAIN tabs[t] = Fields
    BY <1>1 DEF Records, Fields
  <1>3. QED
    BY <1>2 DEF Typed, Update

\* The same, for a request that is given as a record.
LEMMA UpdatedRecord ==
    ASSUME Typed, NEW t \in Tabs, tabs[t] # Rest, NEW fields, NEW x \in Records,
           Update(t, fields),
           \A f \in Fields : x[f] = IF f \in DOMAIN fields THEN fields[f] ELSE tabs[t][f]
    PROVE  /\ \A u \in Tabs : u # t => tabs'[u] = tabs[u]
           /\ tabs' \in [Tabs -> {Rest} \cup Records]
           /\ tabs'[t] = x
  <1>1. x = [f \in Fields |-> x[f]]
    BY DEF Records, Fields
  <1>2. tabs'[t] = x
    BY <1>1, Updated
  <1>3. QED
    BY <1>2, Updated DEF Typed

\* A request on its way is not at rest.
LEMMA Active ==
    ASSUME Typed, NEW t \in Tabs, tabs[t].at # "rest"
    PROVE  tabs[t] \in Records /\ tabs[t] # Rest
  BY DEF Typed, Rest

\* Steps of one tab leave the others alone.
Others(t) == \A u \in Tabs : u # t => tabs'[u] = tabs[u]
TabsTyped == tabs \in [Tabs -> {Rest} \cup Records]

\* A request that is passed on: only how far it is changes.
LEMMA Moves ==
    ASSUME Typed, NEW t \in Tabs, tabs[t].at # "rest", NEW s \in Ats,
           Update(t, [at |-> s])
    PROVE  Others(t) /\ TabsTyped' /\ tabs'[t] = [tabs[t] EXCEPT !.at = s]
  <1>1. tabs[t] \in Records /\ tabs[t] # Rest
    BY Active
  <1>2. [tabs[t] EXCEPT !.at = s] \in Records
    BY <1>1 DEF Records
  <1>3. \A f \in Fields : [tabs[t] EXCEPT !.at = s][f] =
            IF f \in DOMAIN [at |-> s] THEN [at |-> s][f] ELSE tabs[t][f]
    BY <1>1 DEF Records, Fields
  <1>4. QED
    BY <1>1, <1>2, <1>3, UpdatedRecord DEF Others, TabsTyped

\* A request that is answered.
LEMMA Responds ==
    ASSUME Typed, NEW t \in Tabs, tabs[t].at # "rest", NEW a \in Answers,
           Update(t, [at |-> "answered", answer |-> a])
    PROVE  /\ Others(t) /\ TabsTyped'
           /\ tabs'[t] = [tabs[t] EXCEPT !.at = "answered", !.answer = a]
  <1> DEFINE fields == [at |-> "answered", answer |-> a]
             x == [tabs[t] EXCEPT !.at = "answered", !.answer = a]
  <1>1. tabs[t] \in Records /\ tabs[t] # Rest
    BY Active
  <1>2. x \in Records
    BY <1>1 DEF Records, Ats
  <1>3. \A f \in Fields : x[f] = IF f \in DOMAIN fields THEN fields[f] ELSE tabs[t][f]
    <2>1. DOMAIN fields = {"at", "answer"}
      OBVIOUS
    <2>2. x.at = fields.at /\ x.answer = fields.answer
      BY <1>1 DEF Records, Fields
    <2>3. \A f \in Fields \ {"at", "answer"} : x[f] = tabs[t][f]
      BY <1>1 DEF Records, Fields
    <2> HIDE DEF x, fields
    <2>4. QED
      BY <2>1, <2>2, <2>3
  <1> HIDE DEF x, fields
  <1>4. Update(t, fields)
    BY DEF fields
  <1>5. tabs'[t] = x /\ Others(t) /\ TabsTyped'
    BY <1>1, <1>2, <1>3, <1>4, UpdatedRecord DEF Others, TabsTyped
  <1>6. QED
    BY <1>5 DEF x

\* A request that goes on without a refresh.
LEMMA GoesOn ==
    ASSUME Typed, NEW t \in Tabs, tabs[t].at # "rest", GoesOnWithout(t)
    PROVE  /\ Others(t) /\ TabsTyped'
           /\ \E refresh \in Nat :
                 tabs'[t] = [tabs[t] EXCEPT !.at = "forwarded", !.access = 0,
                     !.clears = (tabs[t].refresh \in stale), !.refresh = refresh]
  <1>0. tabs[t].refresh \in Nat
    BY Active DEF Records
  <1>1. PICK clears \in BOOLEAN, refresh \in Nat :
            /\ clears = (tabs[t].refresh \in stale)
            /\ Update(t, [at |-> "forwarded", access |-> 0, clears |-> clears,
                          refresh |-> refresh])
    <2>1. PICK refresh \in Nat :
              refresh = IF Clears(tabs[t].refresh) THEN 0 ELSE tabs[t].refresh
      BY <1>0
    <2>2. PICK clears \in BOOLEAN : clears = (tabs[t].refresh \in stale)
      <3>1. (tabs[t].refresh \in stale) = TRUE \/ (tabs[t].refresh \in stale) = FALSE
        OBVIOUS
      <3>2. QED
        BY <3>1, Zenon
    <2>3. Update(t, [at |-> "forwarded", access |-> 0, clears |-> clears,
                     refresh |-> refresh])
      BY <2>1, <2>2 DEF GoesOnWithout, Clears
    <2>4. QED
      BY <2>2, <2>3
  <1> DEFINE fields == [at |-> "forwarded", access |-> 0, clears |-> clears,
                        refresh |-> refresh]
             x == [tabs[t] EXCEPT !.at = "forwarded", !.access = 0,
                                  !.clears = clears, !.refresh = refresh]
  <1>2. tabs[t] \in Records /\ tabs[t] # Rest
    BY Active
  <1>3. x \in Records
    BY <1>2 DEF Records, Ats
  <1>4. \A f \in Fields : x[f] = IF f \in DOMAIN fields THEN fields[f] ELSE tabs[t][f]
    <2>1. DOMAIN fields = {"at", "access", "clears", "refresh"}
      OBVIOUS
    <2>2. x.at = fields.at /\ x.access = fields.access /\ x.clears = fields.clears /\ x.refresh = fields.refresh
      BY <1>2 DEF Records, Fields
    <2>3. \A f \in Fields \ {"at", "access", "clears", "refresh"} : x[f] = tabs[t][f]
      BY <1>2 DEF Records, Fields
    <2> HIDE DEF x, fields
    <2>4. QED
      BY <2>1, <2>2, <2>3
  <1>5. Update(t, fields)
    BY <1>1
  <1> HIDE DEF x, fields
  <1>6. tabs'[t] = x /\ Others(t) /\ TabsTyped'
    BY <1>2, <1>3, <1>4, <1>5, UpdatedRecord DEF Others, TabsTyped
  <1>7. QED
    BY <1>1, <1>6 DEF x

\* A request that was refreshed.
LEMMA TakesPair ==
    ASSUME Typed, NEW t \in Tabs, tabs[t].at # "rest", NEW n \in Nat,
           Update(t, [at |-> "forwarded", access |-> n, refresh |-> n, sets |-> n])
    PROVE  /\ Others(t) /\ TabsTyped'
           /\ tabs'[t] = [tabs[t] EXCEPT !.at = "forwarded", !.access = n,
                                         !.refresh = n, !.sets = n]
  <1> DEFINE fields == [at |-> "forwarded", access |-> n, refresh |-> n, sets |-> n]
             x == [tabs[t] EXCEPT !.at = "forwarded", !.access = n,
                                  !.refresh = n, !.sets = n]
  <1>1. tabs[t] \in Records /\ tabs[t] # Rest
    BY Active
  <1>2. x \in Records
    BY <1>1 DEF Records, Ats
  <1>3. \A f \in Fields : x[f] = IF f \in DOMAIN fields THEN fields[f] ELSE tabs[t][f]
    <2>1. DOMAIN fields = {"at", "access", "refresh", "sets"}
      OBVIOUS
    <2>2. x.at = fields.at /\ x.access = fields.access /\ x.refresh = fields.refresh /\ x.sets = fields.sets
      BY <1>1 DEF Records, Fields
    <2>3. \A f \in Fields \ {"at", "access", "refresh", "sets"} : x[f] = tabs[t][f]
      BY <1>1 DEF Records, Fields
    <2> HIDE DEF x, fields
    <2>4. QED
      BY <2>1, <2>2, <2>3
  <1>4. Update(t, fields)
    OBVIOUS
  <1> HIDE DEF x, fields
  <1>5. tabs'[t] = x /\ Others(t) /\ TabsTyped'
    BY <1>1, <1>2, <1>3, <1>4, UpdatedRecord DEF Others, TabsTyped
  <1>6. QED
    BY <1>5 DEF x

\* An answer that sets or clears the cookies.
LEMMA SetsCookies ==
    ASSUME Typed, NEW t \in Tabs, tabs[t].at # "rest", NEW n \in Nat, NEW c \in BOOLEAN,
           Update(t, [at |-> "answered", sets |-> n, clears |-> c])
    PROVE  /\ Others(t) /\ TabsTyped'
           /\ tabs'[t] = [tabs[t] EXCEPT !.at = "answered", !.sets = n, !.clears = c]
  <1> DEFINE fields == [at |-> "answered", sets |-> n, clears |-> c]
             x == [tabs[t] EXCEPT !.at = "answered", !.sets = n, !.clears = c]
  <1>1. tabs[t] \in Records /\ tabs[t] # Rest
    BY Active
  <1>2. x \in Records
    BY <1>1 DEF Records, Ats
  <1>3. \A f \in Fields : x[f] = IF f \in DOMAIN fields THEN fields[f] ELSE tabs[t][f]
    <2>1. DOMAIN fields = {"at", "sets", "clears"}
      OBVIOUS
    <2>2. x.at = fields.at /\ x.sets = fields.sets /\ x.clears = fields.clears
      BY <1>1 DEF Records, Fields
    <2>3. \A f \in Fields \ {"at", "sets", "clears"} : x[f] = tabs[t][f]
      BY <1>1 DEF Records, Fields
    <2> HIDE DEF x, fields
    <2>4. QED
      BY <2>1, <2>2, <2>3
  <1>4. Update(t, fields)
    OBVIOUS
  <1> HIDE DEF x, fields
  <1>5. tabs'[t] = x /\ Others(t) /\ TabsTyped'
    BY <1>1, <1>2, <1>3, <1>4, UpdatedRecord DEF Others, TabsTyped
  <1>6. QED
    BY <1>5 DEF x

-----------------------------------------------------------------------------
(* One click, one effect. *)

\* Only a click that is answered, with something else than a 401, has had its
\* effect; an effect it has once.
EffectsGood == \A t \in Tabs :
    \/ effects[t] = 0
    \/ effects[t] = 1 /\ tabs[t].at = "answered" /\ tabs[t].answer # "unauthorised"

\* A step that neither leaves the answers nor has an effect.
LEMMA EffectsKept ==
    ASSUME EffectsGood, UNCHANGED effects, NEW t \in Tabs, Others(t),
           tabs[t].at # "answered" \/ UNCHANGED tabs
    PROVE  EffectsGood'
  <1>1. ASSUME NEW u \in Tabs, u # t \/ UNCHANGED tabs
        PROVE  tabs'[u] = tabs[u]
    BY <1>1 DEF Others
  <1>2. tabs[t].at # "answered" => effects[t] = 0
    BY DEF EffectsGood
  <1>3. QED
    BY <1>1, <1>2 DEF EffectsGood

\* No step carries a click out a second time.
LEMMA EffectsStep ==
    ASSUME Typed, EffectsGood, [Next]_vars
    PROVE  EffectsGood'
  <1>1. ASSUME NEW t \in Tabs, Serves(t) PROVE EffectsGood'
    <2>1. tabs[t].at = "forwarded" /\ effects[t] = 0
      BY <1>1 DEF Serves, EffectsGood
    <2>2. CASE Accepted(tabs[t])
      <3>1. PICK answer \in {"ok", "failed"} :
                /\ Update(t, [at |-> "answered", answer |-> answer])
                /\ effects' \in {effects, [effects EXCEPT ![t] = @ + 1]}
        BY <1>1, <2>2 DEF Serves
      <3>2. answer \in Answers
        BY DEF Answers
      <3>3. Others(t) /\ tabs'[t] = [tabs[t] EXCEPT !.at = "answered", !.answer = answer]
        BY <2>1, <3>1, <3>2, Responds
      <3>4. tabs'[t].at = "answered" /\ tabs'[t].answer = answer
        BY <2>1, <3>3, Active DEF Records
      <3>5. /\ effects'[t] \in {0, 1}
            /\ \A u \in Tabs : u # t => effects'[u] = effects[u] /\ tabs'[u] = tabs[u]
        BY <2>1, <3>1, <3>3 DEF Typed, Others
      <3>6. QED
        BY <3>4, <3>5 DEF EffectsGood
    <2>3. CASE ~Accepted(tabs[t])
      <3>1. Update(t, [at |-> "answered", answer |-> "unauthorised"]) /\ UNCHANGED effects
        BY <1>1, <2>3 DEF Serves
      <3>2. Others(t)
        BY <2>1, <3>1, Responds DEF Answers
      <3>3. QED
        BY <2>1, <3>1, <3>2, EffectsKept
    <2>4. QED
      BY <2>2, <2>3
  <1>2. ASSUME NEW t \in Tabs, Arrives(t) \/ NeverArrives(t) PROVE EffectsGood'
    <2>1. PICK next, done :
              /\ tabs' = [tabs EXCEPT ![t] = next] /\ effects' = [effects EXCEPT ![t] = done]
              /\ done = 0 \/ (done = effects[t] /\ tabs[t].answer = "unauthorised")
      BY <1>2, Zenon DEF Arrives, NeverArrives, Rests, Retries
    <2>2. done = 0
      BY <2>1 DEF EffectsGood
    <2>3. QED
      BY <2>1, <2>2 DEF EffectsGood, Typed
  <1>3. ASSUME NEW t \in Tabs, NEW kind \in Kinds, Sends(t, kind) PROVE EffectsGood'
    <2>1. UNCHANGED effects /\ tabs[t] = Rest /\ Others(t)
      BY <1>3 DEF Sends, Others, Typed
    <2>2. tabs[t].at # "answered"
      BY <2>1 DEF Rest
    <2>3. QED
      BY <2>1, <2>2, EffectsKept
  <1>4. ASSUME NEW t \in Tabs, NEW fields, Update(t, fields), UNCHANGED effects,
               tabs[t].at \notin {"answered", "rest"}
        PROVE  EffectsGood'
    <2>1. Others(t)
      BY <1>4, Active, Updated DEF Others
    <2>2. QED
      BY <1>4, <2>1, EffectsKept
  <1>5. ASSUME NEW t \in Tabs,
               \/ PassesOn(t) \/ RefreshRefused(t) \/ RefreshUnreached(t)
               \/ RefreshAccepted(t) \/ Rotates(t) \/ Unreached(t) \/ LogsIn(t) \/ LogsOut(t)
        PROVE  EffectsGood'
    <2>1. UNCHANGED effects /\ tabs[t].at \notin {"answered", "rest"}
      BY <1>5 DEF PassesOn, RefreshRefused, RefreshUnreached, RefreshAccepted,
                  Rotates, Unreached, LogsIn, LogsOut
    <2>2. \E fields : Update(t, fields)
      BY <1>5, Zenon DEF PassesOn, RefreshRefused, RefreshUnreached, RefreshAccepted,
                         Rotates, Unreached, LogsIn, LogsOut, GoesOnWithout
    <2>3. QED
      BY <1>4, <2>1, <2>2
  <1>6. ASSUME UNCHANGED <<tabs, effects>> PROVE EffectsGood'
    BY <1>6 DEF EffectsGood
  <1>7. QED
    BY <1>1, <1>2, <1>3, <1>5, <1>6
    DEF Next, vars, AccessExpires, RefreshExpires, CredentialsChange

\* Every step keeps the types.
LEMMA TypeStep ==
    ASSUME Typed, [Next]_vars
    PROVE  Typed'
  <1>1. ASSUME UNCHANGED <<jar, effects>>, TabsTyped',
               issued' \in {issued, issued + 1}, disturbed' \in BOOLEAN
        PROVE  Typed'
    BY <1>1 DEF Typed, TabsTyped
  <1>2. issued + 1 \in Nat /\ issued \in Nat
    BY DEF Typed
  <1>3. ASSUME NEW t \in Tabs, NEW kind \in Kinds, Sends(t, kind) PROVE Typed'
    <2> DEFINE x == Request(kind, jar, kind # "call")
    <2>1. x \in Records
      BY DEF Request, Records, Ats, Answers, Typed
    <2>2. tabs' = [tabs EXCEPT ![t] = x] /\ UNCHANGED <<jar, effects, issued>>
          /\ disturbed' \in BOOLEAN
      BY <1>3 DEF Sends
    <2> HIDE DEF x
    <2>3. QED
      BY <1>1, <2>1, <2>2 DEF Typed, TabsTyped
  <1>4. ASSUME NEW t \in Tabs,
               PassesOn(t) \/ RefreshAccepted(t) \/ RefreshRefused(t) \/ RefreshUnreached(t)
        PROVE  Typed'
    <2>1. tabs[t].at # "rest" /\ UNCHANGED <<jar, effects, issued, disturbed>>
      BY <1>4 DEF PassesOn, RefreshAccepted, RefreshRefused, RefreshUnreached, tokenVars
    <2>2. \/ \E s \in Ats : Update(t, [at |-> s])
          \/ GoesOnWithout(t)
      BY <1>4 DEF PassesOn, RefreshAccepted, RefreshRefused, RefreshUnreached, Ats
    <2>3. TabsTyped'
      BY <2>1, <2>2, Moves, GoesOn
    <2>4. QED
      BY <1>1, <2>1, <2>3 DEF Typed
  <1>5. ASSUME NEW t \in Tabs, Rotates(t) PROVE Typed'
    <2>1. /\ tabs[t].at # "rest" /\ UNCHANGED <<jar, effects>>
          /\ issued' = issued + 1 /\ disturbed' \in BOOLEAN
          /\ \/ Update(t, [at |-> "forwarded", access |-> issued + 1,
                           refresh |-> issued + 1, sets |-> issued + 1])
             \/ GoesOnWithout(t)
      BY <1>5 DEF Rotates, Issue, Typed
    <2>2. TabsTyped'
      BY <1>2, <2>1, TakesPair, GoesOn
    <2>3. QED
      BY <1>1, <2>1, <2>2
  <1>6. ASSUME NEW t \in Tabs, Serves(t) \/ Unreached(t) PROVE Typed'
    <2>1. tabs[t].at # "rest" /\ UNCHANGED <<jar, issued, disturbed>>
      BY <1>6 DEF Serves, Unreached, tokenVars
    <2>2. \E a \in Answers : Update(t, [at |-> "answered", answer |-> a])
      BY <1>6 DEF Serves, Unreached, Answers
    <2>3. TabsTyped'
      BY <2>1, <2>2, Responds
    <2>4. effects' = effects \/ effects' = [effects EXCEPT ![t] = @ + 1]
      BY <1>6 DEF Serves, Unreached
    <2>5. effects' \in [Tabs -> Nat]
      BY <2>4 DEF Typed
    <2>6. QED
      BY <2>1, <2>3, <2>5 DEF Typed, TabsTyped
  <1>7. ASSUME NEW t \in Tabs, LogsIn(t) PROVE Typed'
    <2>1. /\ tabs[t].at # "rest" /\ UNCHANGED <<jar, effects, disturbed>>
          /\ issued' \in {issued, issued + 1}
          /\ \/ Update(t, [at |-> "authenticated"])
             \/ Update(t, [at |-> "answered", answer |-> "unauthorised"])
             \/ Update(t, [at |-> "answered", sets |-> issued + 1, clears |-> FALSE])
      BY <1>7 DEF LogsIn, Issue
    <2>2. "authenticated" \in Ats /\ "unauthorised" \in Answers
      BY DEF Ats, Answers
    <2>3. TabsTyped'
      BY <1>2, <2>1, <2>2, Moves, Responds, SetsCookies
    <2>4. QED
      BY <1>1, <2>1, <2>3 DEF Typed
  <1>8. ASSUME NEW t \in Tabs, LogsOut(t) PROVE Typed'
    <2>1. /\ tabs[t].at # "rest" /\ UNCHANGED <<jar, effects, disturbed, issued>>
          /\ Update(t, [at |-> "answered", sets |-> 0, clears |-> TRUE])
      BY <1>8 DEF LogsOut
    <2>2. TabsTyped'
      BY <2>1, SetsCookies
    <2>3. QED
      BY <1>1, <2>1, <2>2 DEF Typed
  <1>9. ASSUME NEW t \in Tabs, Arrives(t) \/ NeverArrives(t) PROVE Typed'
    <2>1. tabs[t] \in Records
      BY <1>9, Active DEF Arrives, NeverArrives
    <2>2. UNCHANGED issued /\ disturbed' \in BOOLEAN /\ jar' \in {jar, Jar(tabs[t])}
      BY <1>9 DEF Arrives, NeverArrives, tokenVars, Typed
    <2>3. jar' \in [access : Nat, refresh : Nat]
      BY <2>1, <2>2 DEF Jar, Typed, Records
    <2>4. PICK next, done :
              /\ tabs' = [tabs EXCEPT ![t] = next] /\ effects' = [effects EXCEPT ![t] = done]
              /\ next = Rest \/ next = Request(tabs[t].kind, jar', TRUE)
              /\ done = 0 \/ done = effects[t]
      BY <1>9, Zenon DEF Arrives, NeverArrives, Rests
    <2>5. Request(tabs[t].kind, jar', TRUE) \in Records
      BY <2>1, <2>3 DEF Request, Records, Ats, Answers
    <2>6. next \in {Rest} \cup Records
      BY <2>4, <2>5
    <2>7. effects[t] \in Nat
      BY DEF Typed
    <2>8. done \in Nat
      BY <2>4, <2>7
    <2>9. QED
      BY <2>2, <2>3, <2>4, <2>6, <2>8 DEF Typed
  <1>10. ASSUME NEW n \in 1..issued, RefreshExpires(n) PROVE Typed'
    BY <1>10 DEF RefreshExpires, Typed
  <1>11. ASSUME NEW n \in 1..issued, AccessExpires(n) PROVE Typed'
    BY <1>11 DEF AccessExpires, Typed
  <1>12. ASSUME CredentialsChange \/ UNCHANGED vars PROVE Typed'
    BY <1>12 DEF CredentialsChange, vars, Typed
  <1>13. QED
    BY <1>3, <1>4, <1>5, <1>6, <1>7, <1>8, <1>9, <1>10, <1>11, <1>12 DEF Next

-----------------------------------------------------------------------------
(* The session outlives its own races. *)

\* The new tokens an answer brings, and the refresh token that a request may
\* still use up; 0 if there are none.
Pending(t) == IF tabs[t].at = "rest" THEN 0 ELSE tabs[t].sets
Carried(t) == IF tabs[t].at \in {"sent", "refreshing"} THEN tabs[t].refresh ELSE 0

TabCalm(t) ==
    /\ Pending(t) \in 0..issued /\ Carried(t) \in 0..issued
    /\ tabs[t].at # "rest" => ~tabs[t].clears /\ tabs[t].kind # "logout"

\* Tokens on their way to the jar are theirs alone, and good.
PendingGood(t) ==
    Pending(t) # 0 =>
        /\ Pending(t) \notin blacklisted /\ Pending(t) # jar.refresh
        /\ \A u \in Tabs :
              Carried(u) # Pending(t) /\ (u # t => Pending(u) # Pending(t))

\* A refresh token in the jar that was used up has its successor on its way.
Calm ==
    /\ stale = {} /\ blacklisted \subseteq 0..issued
    /\ jar.refresh \in 1..issued
    /\ jar.refresh \in blacklisted => \E t \in Tabs : Pending(t) # 0
    /\ \A t \in Tabs : TabCalm(t) /\ PendingGood(t)

CalmUnlessDisturbed == ~disturbed => Calm

\* A step of a tab that neither issues nor revokes tokens, nor touches the jar.
LEMMA QuietStep ==
    ASSUME Calm, NEW t \in Tabs, Others(t),
           UNCHANGED <<jar, issued, stale, blacklisted>>,
           Pending(t)' = Pending(t), Carried(t)' \in {0, Carried(t)},
           TabCalm(t)'
    PROVE  Calm'
  <1>1. \A u \in Tabs : u # t => Pending(u)' = Pending(u) /\ Carried(u)' = Carried(u)
    BY DEF Others, Pending, Carried
  <1>2. \A u \in Tabs : Pending(u)' = Pending(u) /\ Carried(u)' \in {0, Carried(u)}
    BY <1>1
  <1>3. \A u \in Tabs : TabCalm(u)'
    <2> SUFFICES ASSUME NEW u \in Tabs PROVE TabCalm(u)'
      OBVIOUS
    <2>1. CASE u # t
      BY <1>1, <2>1 DEF Calm, TabCalm, Others
    <2>2. CASE u = t
      BY <2>2
    <2>3. QED
      BY <2>1, <2>2
  <1>4. \A u \in Tabs : PendingGood(u)'
    BY <1>2 DEF Calm, PendingGood
  <1>5. QED
    BY <1>2, <1>3, <1>4 DEF Calm

\* A step that issues a pair to one tab, after revoking at most the token that
\* the tab carried.
LEMMA IssueStep ==
    ASSUME Typed, Calm, NEW t \in Tabs, Others(t),
           UNCHANGED <<jar, stale>>, issued' = issued + 1,
           blacklisted' \in {blacklisted, blacklisted \cup {Carried(t)}},
           Pending(t)' = issued + 1, Carried(t)' = 0, TabCalm(t)'
    PROVE  Calm'
  <1>1. \A u \in Tabs : u # t => Pending(u)' = Pending(u) /\ Carried(u)' = Carried(u)
    BY DEF Others, Pending, Carried
  <1>2. issued \in Nat /\ \A u \in Tabs : Pending(u) \in 0..issued /\ Carried(u) \in 0..issued
    BY DEF Typed, Calm, TabCalm
  <1>3. \A u \in Tabs : TabCalm(u)'
    <2> SUFFICES ASSUME NEW u \in Tabs PROVE TabCalm(u)'
      OBVIOUS
    <2>1. CASE u # t
      BY <1>1, <1>2, <2>1 DEF Calm, TabCalm, Others
    <2>2. CASE u = t
      BY <2>2
    <2>3. QED
      BY <2>1, <2>2
  <1>4. blacklisted' \subseteq 0..issued /\ jar.refresh \in 1..issued
    BY <1>2 DEF Calm
  <1>5. PendingGood(t)'
    BY <1>1, <1>2, <1>4 DEF PendingGood
  <1>6. ASSUME NEW u \in Tabs, u # t PROVE PendingGood(u)'
    <2>1. PendingGood(u)
      BY DEF Calm
    <2>2. Pending(u) # 0 => Pending(u) \notin blacklisted'
      BY <2>1 DEF PendingGood
    <2>3. QED
      BY <1>1, <1>2, <1>6, <2>1, <2>2 DEF PendingGood
  <1>7. \E u \in Tabs : Pending(u)' # 0
    BY <1>2
  <1>8. QED
    BY <1>2, <1>3, <1>4, <1>5, <1>6, <1>7 DEF Calm

\* An answer that arrives: its new tokens, if it brings any, go into the jar,
\* and the tab carries at most what the jar holds.
LEMMA JarStep ==
    ASSUME Typed, Calm, NEW t \in Tabs, Others(t),
           UNCHANGED <<issued, stale, blacklisted>>,
           jar'.refresh = IF Pending(t) # 0 THEN Pending(t) ELSE jar.refresh,
           Pending(t)' = 0, Carried(t)' \in {0, jar'.refresh}, TabCalm(t)'
    PROVE  Calm'
  <1>1. \A u \in Tabs : u # t => Pending(u)' = Pending(u) /\ Carried(u)' = Carried(u)
    BY DEF Others, Pending, Carried
  <1>2. \A u \in Tabs : TabCalm(u)'
    <2> SUFFICES ASSUME NEW u \in Tabs PROVE TabCalm(u)'
      OBVIOUS
    <2>1. CASE u # t
      BY <1>1, <2>1 DEF Calm, TabCalm, Others
    <2>2. CASE u = t
      BY <2>2
    <2>3. QED
      BY <2>1, <2>2
  <1>3. PendingGood(t) /\ TabCalm(t) /\ issued \in Nat
    BY DEF Calm, Typed
  <1>4. jar'.refresh \in 1..issued
    BY <1>3 DEF Calm, TabCalm
  <1>5. ASSUME NEW u \in Tabs PROVE PendingGood(u)'
    <2>1. CASE u = t
      BY <2>1 DEF PendingGood
    <2>2. CASE u # t
      <3>1. PendingGood(u)
        BY DEF Calm
      <3>2. Pending(u) # 0 => Pending(u) # jar'.refresh
        BY <1>3, <2>2, <3>1 DEF PendingGood
      <3>3. \A v \in Tabs : Pending(u) # 0 => Carried(v)' # Pending(u)
        BY <1>1, <3>1, <3>2 DEF PendingGood
      <3>4. \A v \in Tabs : Pending(u) # 0 /\ v # u => Pending(v)' # Pending(u)
        BY <1>1, <3>1 DEF PendingGood
      <3>5. QED
        BY <1>1, <2>2, <3>1, <3>2, <3>3, <3>4 DEF PendingGood
    <2>3. QED
      BY <2>1, <2>2
  <1>6. jar'.refresh \in blacklisted => \E u \in Tabs : Pending(u)' # 0
    <2>1. CASE Pending(t) # 0
      BY <1>3, <2>1 DEF PendingGood
    <2>2. CASE Pending(t) = 0
      BY <1>1, <2>2 DEF Calm
    <2>3. QED
      BY <2>1, <2>2
  <1>7. QED
    BY <1>2, <1>4, <1>5, <1>6 DEF Calm

\* What the middleware and the handlers do leaves an undisturbed session calm.
LEMMA ServedStep ==
    ASSUME Typed, Calm, NEW t \in Tabs, ~disturbed',
           \/ PassesOn(t) \/ RefreshRefused(t) \/ RefreshUnreached(t)
           \/ RefreshAccepted(t) \/ Serves(t) \/ Unreached(t)
    PROVE  Calm'
  <1>1. /\ tabs[t].at # "rest" /\ UNCHANGED <<jar, issued, stale, blacklisted>>
        /\ tabs[t].at = "forwarded" \/ tabs[t].at = "sent"
    BY DEF PassesOn, RefreshRefused, RefreshUnreached, RefreshAccepted, Serves,
           Unreached, tokenVars
  <1>2. tabs[t] \in Records /\ TabCalm(t) /\ issued \in Nat
    BY <1>1, Active DEF Calm, Typed
  <1>3. ASSUME Others(t), tabs'[t].at \in Ats, tabs'[t].sets = tabs[t].sets,
               tabs'[t].kind = tabs[t].kind, tabs'[t].clears = FALSE,
               tabs'[t].at \in {"sent", "refreshing"} =>
                   tabs[t].at = "sent" /\ tabs'[t].refresh = tabs[t].refresh
        PROVE  Calm'
    <2>1. Pending(t)' = Pending(t)
      BY <1>1, <1>3 DEF Pending, Ats
    <2>2. Carried(t)' \in {0, Carried(t)}
      BY <1>1, <1>3 DEF Carried
    <2>3. TabCalm(t)'
      BY <1>1, <1>2, <1>3, <2>1, <2>2 DEF TabCalm
    <2>4. QED
      BY <1>1, <1>3, <2>1, <2>2, <2>3, QuietStep
  <1>4. tabs[t].clears = FALSE /\ tabs[t].refresh \notin stale
    BY <1>1, <1>2 DEF TabCalm, Records, Calm
  <1>5. ASSUME NEW s \in {"forwarded", "refreshing"}, Update(t, [at |-> s]),
               s = "refreshing" => tabs[t].at = "sent"
        PROVE  Calm'
    <2>1. Others(t) /\ tabs'[t] = [tabs[t] EXCEPT !.at = s] /\ s \in Ats
      BY <1>1, <1>5, Moves DEF Ats
    <2>2. QED
      BY <1>2, <1>3, <1>4, <1>5, <2>1 DEF Records
  <1>6. ASSUME GoesOnWithout(t) PROVE Calm'
    <2>1. PICK refresh \in Nat :
              /\ Others(t)
              /\ tabs'[t] = [tabs[t] EXCEPT !.at = "forwarded", !.access = 0,
                     !.clears = (tabs[t].refresh \in stale), !.refresh = refresh]
      BY <1>1, <1>6, GoesOn
    <2>2. tabs'[t].at = "forwarded" /\ tabs'[t].sets = tabs[t].sets
          /\ tabs'[t].kind = tabs[t].kind /\ ~tabs'[t].clears
      BY <1>2, <1>4, <2>1 DEF Records
    <2>3. tabs'[t].clears = FALSE
      BY <1>2, <1>4, <2>1 DEF Records
    <2>4. QED
      BY <1>3, <2>1, <2>2, <2>3 DEF Ats
  <1>7. ASSUME NEW a \in Answers, Update(t, [at |-> "answered", answer |-> a])
        PROVE  Calm'
    <2>1. Others(t) /\ tabs'[t] = [tabs[t] EXCEPT !.at = "answered", !.answer = a]
      BY <1>1, <1>7, Responds
    <2>2. QED
      BY <1>2, <1>3, <1>4, <2>1 DEF Records, Ats
  <1>8. CASE PassesOn(t) \/ RefreshAccepted(t)
    BY <1>5, <1>8 DEF PassesOn, RefreshAccepted
  <1>9. CASE RefreshRefused(t) \/ RefreshUnreached(t)
    BY <1>6, <1>9 DEF RefreshRefused, RefreshUnreached
  <1>10. CASE Serves(t) \/ Unreached(t)
    <2>1. \E a \in Answers : Update(t, [at |-> "answered", answer |-> a])
      BY <1>10 DEF Serves, Unreached, Answers
    <2>2. QED
      BY <1>7, <2>1
  <1>11. QED
    BY <1>8, <1>9, <1>10

\* A refresh that is answered, and a sign-in.
LEMMA IssuedStep ==
    ASSUME Typed, Calm, NEW t \in Tabs, ~disturbed', Rotates(t) \/ LogsIn(t)
    PROVE  Calm'
  <1>1. /\ tabs[t].at \in {"refreshing", "forwarded", "authenticated"}
        /\ tabs[t] \in Records /\ TabCalm(t)
        /\ UNCHANGED <<jar, stale>> /\ issued \in Nat /\ issued + 1 # 0
        /\ tabs[t].at # "rest" /\ issued + 1 \in Nat
    BY Active DEF Rotates, LogsIn, Calm, Typed
  <1>2. tabs[t].clears = FALSE /\ tabs[t].kind # "logout"
    BY <1>1 DEF TabCalm, Records
  <1>3. CASE Rotates(t)
    <2>1. /\ tabs[t].at = "refreshing" /\ issued' = issued + 1
          /\ blacklisted' = blacklisted \cup {tabs[t].refresh}
          /\ Update(t, [at |-> "forwarded", access |-> issued + 1,
                        refresh |-> issued + 1, sets |-> issued + 1])
      BY <1>3 DEF Rotates, Issue
    <2>2. Others(t) /\ tabs'[t] = [tabs[t] EXCEPT !.at = "forwarded",
              !.access = issued + 1, !.refresh = issued + 1, !.sets = issued + 1]
      BY <1>1, <2>1, TakesPair
    <2>3. /\ tabs'[t].at = "forwarded" /\ tabs'[t].sets = issued + 1
          /\ tabs'[t].clears = FALSE /\ tabs'[t].kind # "logout"
      BY <1>1, <1>2, <2>2 DEF Records
    <2>4. Pending(t)' = issued + 1 /\ Carried(t)' = 0
      BY <2>3 DEF Pending, Carried
    <2>5. Carried(t) = tabs[t].refresh
      BY <2>1 DEF Carried
    <2>6. TabCalm(t)'
      BY <1>1, <2>1, <2>3, <2>4 DEF TabCalm
    <2>7. QED
      BY <1>1, <2>1, <2>2, <2>4, <2>5, <2>6, IssueStep
  <1>4. ASSUME LogsIn(t), UNCHANGED issued PROVE Calm'
    <2>1. /\ tabs[t].at = "forwarded" /\ UNCHANGED blacklisted
          /\ \/ Update(t, [at |-> "authenticated"])
             \/ Update(t, [at |-> "answered", answer |-> "unauthorised"])
      BY <1>1, <1>4 DEF LogsIn, Issue
    <2>2. "authenticated" \in Ats /\ "unauthorised" \in Answers
      BY DEF Ats, Answers
    <2>3. Others(t) /\ \/ tabs'[t] = [tabs[t] EXCEPT !.at = "authenticated"]
                       \/ tabs'[t] = [tabs[t] EXCEPT !.at = "answered",
                                                     !.answer = "unauthorised"]
      BY <2>1, <2>2, Moves, Responds
    <2>4. /\ tabs'[t].at \in {"authenticated", "answered"} /\ tabs'[t].sets = tabs[t].sets
          /\ tabs'[t].clears = FALSE /\ tabs'[t].kind # "logout"
      BY <1>1, <1>2, <2>3 DEF Records
    <2>5. Pending(t)' = Pending(t) /\ Carried(t)' = 0
      BY <2>1, <2>4 DEF Pending, Carried
    <2>6. TabCalm(t)'
      BY <1>1, <1>4, <2>4, <2>5 DEF TabCalm
    <2>7. QED
      BY <1>1, <1>4, <2>1, <2>3, <2>5, <2>6, QuietStep
  <1>5. ASSUME LogsIn(t), ~UNCHANGED issued PROVE Calm'
    <2>1. /\ issued' = issued + 1 /\ UNCHANGED blacklisted
          /\ Update(t, [at |-> "answered", sets |-> issued + 1, clears |-> FALSE])
      BY <1>5 DEF LogsIn, Issue
    <2>2. Others(t) /\ tabs'[t] = [tabs[t] EXCEPT !.at = "answered",
                                       !.sets = issued + 1, !.clears = FALSE]
      BY <1>1, <2>1, SetsCookies
    <2>3. /\ tabs'[t].at = "answered" /\ tabs'[t].sets = issued + 1
          /\ tabs'[t].clears = FALSE /\ tabs'[t].kind # "logout"
      BY <1>1, <1>2, <2>2 DEF Records
    <2>4. Pending(t)' = issued + 1 /\ Carried(t)' = 0
      BY <2>3 DEF Pending, Carried
    <2>5. TabCalm(t)'
      BY <1>1, <2>1, <2>3, <2>4 DEF TabCalm
    <2>6. QED
      BY <1>1, <2>1, <2>2, <2>4, <2>5, IssueStep
  <1>6. QED
    BY <1>3, <1>4, <1>5

\* The browser sends a request, or takes an answer.
LEMMA BrowserStep ==
    ASSUME Typed, Calm, NEW t \in Tabs, ~disturbed',
           (\E kind \in Kinds : Sends(t, kind)) \/ Arrives(t) \/ NeverArrives(t)
    PROVE  Calm'
  <1>1. TabCalm(t) /\ UNCHANGED <<issued, stale, blacklisted>>
    BY DEF Calm, Sends, Arrives, NeverArrives, tokenVars
  <1>2. ASSUME NEW x \in {Rest} \cup Records, tabs' = [tabs EXCEPT ![t] = x],
               jar'.refresh = IF Pending(t) # 0 THEN Pending(t) ELSE jar.refresh,
               x.at = "rest" \/ /\ x.at = "sent" /\ x.sets = 0 /\ x.clears = FALSE
                                /\ x.kind # "logout" /\ x.refresh = jar'.refresh
        PROVE  Calm'
    <2>1. Others(t) /\ tabs'[t] = x
      BY <1>2 DEF Others, Typed
    <2>2. Pending(t)' = 0 /\ Carried(t)' \in {0, jar'.refresh}
      BY <1>2, <2>1 DEF Pending, Carried
    <2>3. jar'.refresh \in 0..issued /\ issued \in Nat
      BY <1>1, <1>2 DEF TabCalm, Calm, Typed
    <2>4. TabCalm(t)'
      BY <1>1, <1>2, <2>1, <2>2, <2>3 DEF TabCalm
    <2>5. QED
      BY <1>1, <1>2, <2>1, <2>2, <2>4, JarStep
  <1>3. Rest.at = "rest"
    BY DEF Rest
  <1>4. \A kind \in Kinds, j \in [access : Nat, refresh : Nat], again \in BOOLEAN :
            LET x == Request(kind, j, again)
            IN  /\ x \in Records /\ x.at = "sent" /\ x.sets = 0 /\ x.clears = FALSE
                /\ x.kind = kind /\ x.refresh = j.refresh
    BY DEF Request, Records, Ats, Answers
  <1>5. ASSUME NEW kind \in Kinds, Sends(t, kind) PROVE Calm'
    <2>1. /\ tabs[t] = Rest /\ UNCHANGED jar /\ kind # "logout"
          /\ tabs' = [tabs EXCEPT ![t] = Request(kind, jar, kind # "call")]
      BY <1>5 DEF Sends
    <2>2. Pending(t) = 0 /\ jar \in [access : Nat, refresh : Nat]
      BY <1>3, <2>1 DEF Pending, Typed
    <2>3. \A again \in BOOLEAN :
              LET x == Request(kind, jar, again)
              IN  /\ x \in Records /\ x.at = "sent" /\ x.sets = 0 /\ x.clears = FALSE
                  /\ x.kind # "logout" /\ x.refresh = jar.refresh
      BY <1>4, <2>1, <2>2
    <2>4. (kind # "call") \in BOOLEAN
      BY Zenon
    <2>5. PICK again \in BOOLEAN : tabs' = [tabs EXCEPT ![t] = Request(kind, jar, again)]
      BY <2>1, <2>4, Zenon
    <2>6. QED
      BY <1>2, <2>1, <2>2, <2>3, <2>5
  <1>6. ASSUME Arrives(t) \/ NeverArrives(t)
        PROVE  /\ tabs[t] \in Records /\ tabs[t].clears = FALSE
               /\ tabs[t].kind # "logout" /\ Pending(t) = tabs[t].sets
    BY <1>1, <1>6, Active DEF Arrives, NeverArrives, TabCalm, Records, Pending
  <1>7. ASSUME Arrives(t) PROVE Calm'
    <2>1. jar' = Jar(tabs[t])
      BY <1>7 DEF Arrives
    <2>2. /\ jar'.refresh = IF Pending(t) # 0 THEN Pending(t) ELSE jar.refresh
          /\ jar' \in [access : Nat, refresh : Nat]
      BY <1>6, <1>7, <2>1 DEF Jar, Typed, Records
    <2>3. PICK next : /\ tabs' = [tabs EXCEPT ![t] = next]
                      /\ next = Rest \/ next = Request(tabs[t].kind, jar', TRUE)
      BY <1>7, Zenon DEF Arrives, Rests
    <2>4. tabs[t].kind \in Kinds
      BY <1>6, <1>7 DEF Records
    <2>5. CASE next = Rest
      BY <1>2, <1>3, <2>2, <2>3, <2>5
    <2>6. CASE next = Request(tabs[t].kind, jar', TRUE)
      <3>1. /\ next \in Records /\ next.at = "sent" /\ next.sets = 0
            /\ next.clears = FALSE /\ next.kind # "logout"
            /\ next.refresh = jar'.refresh
        BY <1>4, <1>6, <1>7, <2>2, <2>4, <2>6
      <3>2. QED
        BY <1>2, <2>2, <2>3, <3>1
    <2>7. QED
      BY <2>3, <2>5, <2>6
  <1>8. ASSUME NeverArrives(t) PROVE Calm'
    <2>1. tabs[t].sets = 0 /\ UNCHANGED jar /\ tabs' = [tabs EXCEPT ![t] = Rest]
      BY <1>8 DEF NeverArrives, Rests
    <2>2. QED
      BY <1>2, <1>3, <1>6, <1>8, <2>1
  <1>9. QED
    BY <1>5, <1>7, <1>8

\* An undisturbed session stays calm at every step.
LEMMA CalmStep ==
    ASSUME Typed, CalmUnlessDisturbed, [Next]_vars
    PROVE  CalmUnlessDisturbed'
  <1> SUFFICES ASSUME ~disturbed' PROVE Calm'
    BY DEF CalmUnlessDisturbed
  <1>1. ASSUME NEW t \in Tabs, LogsOut(t) PROVE Calm => FALSE
    <2>1. tabs[t].at = "forwarded" /\ tabs[t].kind = "logout"
      BY <1>1 DEF LogsOut
    <2>2. QED
      BY <2>1 DEF Calm, TabCalm
  <1>2. ASSUME NEW t \in Tabs, NEW kind \in Kinds, Sends(t, kind) PROVE Calm'
    BY <1>2, BrowserStep DEF Sends, CalmUnlessDisturbed
  <1>3. ASSUME NEW t \in Tabs,
               \/ PassesOn(t) \/ RefreshRefused(t) \/ RefreshUnreached(t)
               \/ RefreshAccepted(t) \/ Serves(t) \/ Unreached(t)
        PROVE  Calm'
    <2>1. UNCHANGED disturbed
      BY <1>3 DEF PassesOn, RefreshRefused, RefreshUnreached, RefreshAccepted,
                  Serves, Unreached
    <2>2. QED
      BY <1>3, <2>1, ServedStep DEF CalmUnlessDisturbed
  <1>4. ASSUME NEW t \in Tabs, Rotates(t) \/ LogsIn(t) PROVE Calm'
    <2>1. UNCHANGED disturbed
      BY <1>4 DEF Rotates, LogsIn
    <2>2. QED
      BY <1>4, <2>1, IssuedStep DEF CalmUnlessDisturbed
  <1>5. ASSUME NEW t \in Tabs, Arrives(t) \/ NeverArrives(t) PROVE Calm'
    <2>1. ~disturbed
      BY <1>5 DEF Arrives, NeverArrives
    <2>2. QED
      BY <1>5, <2>1, BrowserStep DEF CalmUnlessDisturbed
  <1>6. ASSUME NEW t \in Tabs, LogsOut(t) PROVE Calm'
    BY <1>1, <1>6 DEF LogsOut, CalmUnlessDisturbed
  <1>7. ASSUME UNCHANGED <<jar, tabs, issued, stale, blacklisted, disturbed>> PROVE Calm'
    BY <1>7 DEF CalmUnlessDisturbed, Calm, TabCalm, PendingGood, Pending, Carried
  <1>8. QED
    BY <1>2, <1>3, <1>4, <1>5, <1>6, <1>7
    DEF Next, vars, AccessExpires, RefreshExpires, CredentialsChange

-----------------------------------------------------------------------------
(* The invariant and the theorems. *)

Inv == Typed /\ EffectsGood /\ CalmUnlessDisturbed

\* The customer has just registered, and nothing is under way.
LEMMA InitInv == Init => Inv
  <1> SUFFICES ASSUME Init PROVE Inv
    OBVIOUS
  <1>1. \A t \in Tabs : tabs[t] = Rest /\ tabs[t].at = "rest"
    BY DEF Init, Rest
  <1>2. Typed /\ EffectsGood
    <2>1. jar \in [access : Nat, refresh : Nat]
      BY DEF Init
    <2>2. tabs \in [Tabs -> {Rest} \cup Records] /\ effects \in [Tabs -> Nat]
      BY DEF Init
    <2>3. EffectsGood
      BY DEF Init, EffectsGood
    <2>4. issued \in Nat \ {0}
      BY DEF Init
    <2>5. disturbed \in BOOLEAN
      BY Zenon DEF Init
    <2>6. QED
      BY <2>1, <2>2, <2>3, <2>4, <2>5 DEF Typed
  <1>3. \A t \in Tabs : Pending(t) = 0 /\ Carried(t) = 0
    BY <1>1 DEF Pending, Carried
  <1>4. jar.refresh = 1 /\ issued = 1 /\ stale = {} /\ blacklisted = {}
    BY DEF Init
  <1>5. Calm
    BY <1>1, <1>3, <1>4 DEF Calm, TabCalm, PendingGood
  <1>6. QED
    BY <1>2, <1>5 DEF Inv, CalmUnlessDisturbed

\* Tokens, effects and cookies keep to the invariant at every step.
THEOREM SessionInvariant == Spec => []Inv
  <1>1. Inv /\ [Next]_vars => Inv'
    BY TypeStep, EffectsStep, CalmStep DEF Inv
  <1>2. QED
    BY <1>1, InitInv, PTL DEF Spec

\* Requests that race to refresh never sign the customer out: once all is at
\* rest, an undisturbed session's jar holds a refresh token that Django takes
\* (middleware.ts, "clear ours only when the refresh token itself has run out").
THEOREM NoSelfSignOutTheorem == Spec => []NoSelfSignOut
  <1>1. Inv => NoSelfSignOut
    <2> SUFFICES ASSUME Inv, ~disturbed, \A t \in Tabs : tabs[t] = Rest
                 PROVE  jar.refresh \in 1..issued /\ jar.refresh \notin blacklisted
      BY DEF NoSelfSignOut
    <2>1. \A t \in Tabs : Pending(t) = 0
      BY DEF Pending, Rest
    <2>2. QED
      BY <2>1 DEF Inv, CalmUnlessDisturbed, Calm
  <1>2. QED
    BY <1>1, SessionInvariant, PTL

\* One click is carried out at most once, retries and lost answers included
\* (client.ts, send).
THEOREM OneEffectTheorem == Spec => []EffectAtMostOnce
  <1>1. Inv => EffectAtMostOnce
    BY DEF Inv, EffectsGood, EffectAtMostOnce
  <1>2. QED
    BY <1>1, SessionInvariant, PTL
=============================================================================
