------------------------- MODULE TokenManagerProofs -------------------------
(***************************************************************************)
(* Theorems about TokenManager, for any number of processes and any times. *)
(***************************************************************************)
EXTENDS TokenManager, TLAPS

\* A refresh under way has tokens that can be refreshed, and its answer is not
\* older than Delay.  Tokens that came from a refresh seem obtained at most Delay
\* after their issue.
Refreshing ==
    \A m \in Managers :
        /\ pc[m] \in {"refresh", "answer", "store"} => tokens[m] # None /\ tokens[m].refresh
        /\ pc[m] = "answer" => answer[m] # None /\ clock <= answer[m].issued + Delay

Stamped ==
    \A m \in Managers :
        tokens[m] # None /\ origin[m] = "refresh" => tokens[m].obtained <= tokens[m].issued + Delay

TokenInv == TypeOK /\ Refreshing /\ Stamped

\* Loading tokens changes only when they seem obtained.
LEMMA LoadedType ==
    ASSUME TypeOK
    PROVE  /\ Loaded(saved) \in TokenSets \cup {None}
           /\ \A m \in Managers : Held(m) \in TokenSets \cup {None}
BY NoTokens DEF TypeOK, Loaded, Held, TokenSets

LEMMA TokenInit == Init => TokenInv
BY TimesAssumption DEF Init, TokenInv, TypeOK, Refreshing, Stamped, TokenSets

LEMMA TokenNext == TokenInv /\ [Next]_vars => TokenInv'
<1> SUFFICES ASSUME TokenInv, [Next]_vars PROVE TokenInv'
  OBVIOUS
<1> USE TimesAssumption, NoTokens DEF TokenInv
<1>1. ASSUME NEW m \in Managers, LoadSavedTokens(m) PROVE TokenInv'
  BY <1>1, LoadedType DEF LoadSavedTokens, TypeOK, Refreshing, Stamped, login
<1>2. ASSUME NEW m \in Managers, EnsureValidToken(m) PROVE TokenInv'
  <2>1. Held(m) \in TokenSets
    BY <1>2, LoadedType DEF EnsureValidToken
  <2>2. tokens[m] # None => Held(m) = tokens[m]
    BY DEF Held
  <2>3. TypeOK'
    BY <1>2, <2>1 DEF EnsureValidToken, TypeOK, login
  <2>4. Refreshing'
    BY <1>2, <2>1 DEF EnsureValidToken, TypeOK, Refreshing
  <2>5. Stamped'
    BY <1>2, <2>1, <2>2 DEF EnsureValidToken, TypeOK, Stamped
  <2>6. QED
    BY <2>3, <2>4, <2>5
<1>3. ASSUME NEW m \in Managers, Issue(m) PROVE TokenInv'
  <2>1. PICK b \in BOOLEAN :
          answer' = [answer EXCEPT ![m] = [issued |-> clock, obtained |-> clock, refresh |-> b]]
    BY <1>3 DEF Issue
  <2>2. [issued |-> clock, obtained |-> clock, refresh |-> b] \in TokenSets
    BY DEF TypeOK, TokenSets
  <2>3. TypeOK' /\ Stamped'
    BY <1>3, <2>1, <2>2 DEF Issue, TypeOK, Stamped, login
  <2>4. Refreshing'
    BY <1>3, <2>1, <2>2 DEF Issue, TypeOK, Refreshing
  <2>5. QED
    BY <2>3, <2>4
<1>4. ASSUME NEW m \in Managers, Refreshed(m) PROVE TokenInv'
  <2>1. /\ answer[m] \in TokenSets /\ clock <= answer[m].issued + Delay
        /\ tokens[m] \in TokenSets /\ tokens[m].refresh
    BY <1>4 DEF Refreshed, TypeOK, Refreshing
  <2>2. PICK t : t = Received(answer[m], tokens[m])
    OBVIOUS
  <2>3. t \in TokenSets /\ t.refresh /\ t.obtained <= t.issued + Delay
    BY <2>1, <2>2 DEF Received, TokenSets, TypeOK
  <2>4. tokens' = [tokens EXCEPT ![m] = t]
    BY <1>4, <2>2 DEF Refreshed
  <2>5. TypeOK'
    BY <1>4, <2>3, <2>4 DEF Refreshed, TypeOK, login
  <2>6. Refreshing' /\ Stamped'
    BY <1>4, <2>3, <2>4 DEF Refreshed, TypeOK, Refreshing, Stamped
  <2>7. QED
    BY <2>5, <2>6
<1>5. ASSUME NEW m \in Managers, RefreshFails(m) PROVE TokenInv'
  BY <1>5 DEF RefreshFails, Return, TypeOK, Refreshing, Stamped, login
<1>6. ASSUME NEW m \in Managers, StoreTokens(m) PROVE TokenInv'
  BY <1>6 DEF StoreTokens, Return, TypeOK, Refreshing, Stamped, login
<1>7. ASSUME NEW m \in Managers, Logout(m) PROVE TokenInv'
  BY <1>7 DEF Logout, TypeOK, Refreshing, Stamped, login
<1>8. ASSUME NEW m \in Managers, StartLogin(m) \/ Redirect(m) PROVE TokenInv'
  BY <1>8 DEF StartLogin, Redirect, TypeOK, Refreshing, Stamped
<1>9. ASSUME NEW m \in Managers, EndLogin(m) \/ Restart(m) PROVE TokenInv'
  BY <1>9 DEF EndLogin, Restart, Return, TypeOK, Refreshing, Stamped
<1>10. CASE Tick
  BY <1>10 DEF Tick, TypeOK, Refreshing, Stamped, TokenSets, login
<1>11. CASE UNCHANGED vars
  BY <1>11 DEF vars, login, TypeOK, Refreshing, Stamped
<1>12. QED
  BY <1>1, <1>2, <1>3, <1>4, <1>5, <1>6, <1>7, <1>8, <1>9, <1>10, <1>11 DEF Next, Step

LEMMA TokenInvariant == Spec => []TokenInv
BY TokenInit, TokenNext, PTL DEF Spec

\* Tokens in memory, in the store and on their way are token sets or absent.
THEOREM TokenTypes == Spec => []TypeOK
BY TokenInvariant, PTL DEF TokenInv

\* As long as an answer does not take longer than the buffer, tokens that were
\* refreshed are given out only while they are valid.
THEOREM RefreshedTokensAreValid == Spec => []RefreshedIsValid
<1>1. TokenInv => RefreshedIsValid
  <2> SUFFICES ASSUME TokenInv, NEW m \in Managers,
                      tokens[m] # None, origin[m] = "refresh", ~IsExpired(tokens[m])
               PROVE  Valid(tokens[m])
    BY DEF RefreshedIsValid
  <2>1. /\ tokens[m] \in TokenSets /\ clock \in Nat
        /\ tokens[m].obtained <= tokens[m].issued + Delay
    BY DEF TokenInv, TypeOK, Stamped
  <2>2. QED
    BY <2>1, TimesAssumption DEF IsExpired, Valid, TokenSets
<1>2. QED
  BY <1>1, TokenInvariant, PTL

\* A refresh never costs the refresh token, in memory or in the store.
THEOREM RefreshKeepsSession == Spec => SessionSurvives
<1>1. TokenInv /\ TokenInv' /\ [Next]_vars =>
        [\A m \in Managers : pc[m] \in {"answer", "store"} /\ pc'[m] # pc[m] =>
            /\ tokens'[m] # None => tokens'[m].refresh
            /\ saved' # saved => saved'.refresh]_vars
  <2> SUFFICES ASSUME TokenInv, TokenInv', Next, NEW m \in Managers,
                      pc[m] \in {"answer", "store"}, pc'[m] # pc[m]
               PROVE  /\ tokens'[m] # None => tokens'[m].refresh
                      /\ saved' # saved => saved'.refresh
    OBVIOUS
  <2>1. /\ pc \in [Managers -> {"idle", "refresh", "answer", "store", "login"}]
        /\ tokens \in [Managers -> TokenSets \cup {None}]
        /\ tokens[m] \in TokenSets /\ tokens[m].refresh
    BY DEF TokenInv, TypeOK, Refreshing
  <2>2. CASE Refreshed(m)
    BY <2>1, <2>2 DEF Refreshed, TokenInv, Refreshing
  <2>3. CASE RefreshFails(m)
    BY <2>1, <2>3 DEF RefreshFails
  <2>4. CASE StoreTokens(m)
    BY <2>1, <2>4 DEF StoreTokens
  <2>5. CASE Restart(m)
    BY <2>1, <2>5 DEF Restart
  <2>6. Refreshed(m) \/ RefreshFails(m) \/ StoreTokens(m) \/ Restart(m)
    BY <2>1 DEF Next, Step, LoadSavedTokens, EnsureValidToken, Logout, StartLogin, Redirect,
       Issue, Refreshed, RefreshFails, StoreTokens, EndLogin, Restart, Return, Tick
  <2>7. QED
    BY <2>2, <2>3, <2>4, <2>5, <2>6
<1>2. QED
  BY <1>1, TokenInvariant, PTL DEF Spec, SessionSurvives

=============================================================================
