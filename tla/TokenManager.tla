---------------------------- MODULE TokenManager ----------------------------
(***************************************************************************)
(* The AuthManager of the QGIS plugin: it keeps the tokens of one server   *)
(* profile in memory and in the keyring (or a file), refreshes them when   *)
(* they expire, and logs in and out.  Several QGIS processes, each with a  *)
(* manager of its own, share what is stored for the profile.               *)
(*                                                                         *)
(* A token set is known by when the identity provider issued it, by when   *)
(* the plugin believes it was obtained, and by whether it has a refresh    *)
(* token; every one is valid for Lifetime from its issue.                  *)
(***************************************************************************)
EXTENDS Naturals

CONSTANTS
    Managers,   \* the processes that use the profile
    Lifetime,   \* expires_in
    Buffer,     \* buffer_seconds
    Delay,      \* the longest time between the issue of tokens and their arrival
    MaxTime,    \* bound: when the model's clock stops
    None

\* A refresh waits for 10 seconds (timeout=10), the buffer is 60 seconds, and
\* tokens live for an hour.
ASSUME TimesAssumption ==
    /\ Lifetime \in Nat /\ Buffer \in Nat /\ Delay \in Nat /\ MaxTime \in Nat
    /\ Delay <= Buffer /\ Buffer < Lifetime

VARIABLES
    clock,      \* time.time
    saved,      \* the token set stored for the profile, or None
    tokens,     \* _tokens of each manager, or None
    origin,     \* auxiliary: whether they came from a refresh or from the store
    pc,         \* what each manager is doing
    answer,     \* the token set on its way to it from the token endpoint
    handled,    \* self.result of the handler that served the redirect
    result      \* _CallbackHandler.result, which login reads

vars == <<clock, saved, tokens, origin, pc, answer, handled, result>>
login == <<handled, result>>

TokenSets == [issued : Nat, obtained : Nat, refresh : BOOLEAN]

ASSUME NoTokens == None \notin TokenSets

\* What the browser brings back: a code with the state of this login, a code with
\* another one, or an error.
Redirects == {"code", "foreign", "error"}

TypeOK ==
    /\ clock \in Nat
    /\ saved \in TokenSets \cup {None}
    /\ tokens \in [Managers -> TokenSets \cup {None}]
    /\ origin \in [Managers -> {"refresh", "store"}]
    /\ pc \in [Managers -> {"idle", "refresh", "answer", "store", "login"}]
    /\ answer \in [Managers -> TokenSets \cup {None}]
    /\ handled \in [Managers -> Redirects \cup {"none"}]
    /\ result \in [Managers -> Redirects \cup {"none"}]

\* The store holds what an earlier session left there, expired or not.
Init ==
    /\ clock = Lifetime
    /\ saved \in {None} \cup
          {[issued |-> i, obtained |-> i, refresh |-> b] : i \in 0 .. Lifetime, b \in BOOLEAN}
    /\ tokens = [m \in Managers |-> None]
    /\ origin = [m \in Managers |-> "store"]
    /\ pc = [m \in Managers |-> "idle"]
    /\ answer = [m \in Managers |-> None]
    /\ handled = [m \in Managers |-> "none"]
    /\ result = [m \in Managers |-> "none"]

-----------------------------------------------------------------------------
IsExpiredLate(t) == clock >= t.obtained + Lifetime
IsExpired(t) == clock + Buffer >= t.obtained + Lifetime

\* TokenSet.from_dict does not look at the stored obtained_at: to the manager
\* loaded tokens were obtained just now.
Loaded(t) == IF t = None THEN None ELSE [t EXCEPT !.obtained = clock]

\* The tokens ensure_valid_token works with: it loads them if it has none.
Held(m) == IF tokens[m] = None THEN Loaded(saved) ELSE tokens[m]

\* refresh_tokens keeps the refresh token if the answer has no new one.
ReceivedBare(t, old) == [t EXCEPT !.obtained = clock]
ReceivedUnstamped(t, old) == [issued |-> t.issued, refresh |-> t.refresh \/ old.refresh]

Received(t, old) == [t EXCEPT !.obtained = clock, !.refresh = t.refresh \/ old.refresh]

\* The call returns to the program, with a token or an exception.
Return(m) ==
    /\ pc' = [pc EXCEPT ![m] = "idle"]
    /\ answer' = [answer EXCEPT ![m] = None]

\* load_saved_tokens, whatever the manager had before.
LoadSavedTokens(m) ==
    /\ pc[m] = "idle"
    /\ tokens' = [tokens EXCEPT ![m] = Loaded(saved)]
    /\ origin' = [origin EXCEPT ![m] = "store"]
    /\ UNCHANGED <<clock, saved, pc, answer, login>>

\* ensure_valid_token up to its first request.  Without tokens, or with expired
\* ones that cannot be refreshed, it raises AuthenticationError.
EnsureValidToken(m) ==
    /\ pc[m] = "idle"
    /\ Held(m) # None
    /\ tokens' = [tokens EXCEPT ![m] = Held(m)]
    /\ origin' = [origin EXCEPT ![m] = IF tokens[m] = None THEN "store" ELSE @]
    /\ pc' = [pc EXCEPT ![m] = IF IsExpired(Held(m)) /\ Held(m).refresh THEN "refresh" ELSE "idle"]
    /\ UNCHANGED <<clock, saved, answer, login>>

\* The token endpoint accepts the refresh token and issues new tokens.
Issue(m) ==
    /\ pc[m] = "refresh"
    /\ \E b \in BOOLEAN :
          answer' = [answer EXCEPT ![m] = [issued |-> clock, obtained |-> clock, refresh |-> b]]
    /\ pc' = [pc EXCEPT ![m] = "answer"]
    /\ UNCHANGED <<clock, saved, tokens, origin, login>>

\* They arrive, and the manager has them before it stores them.
Refreshed(m) ==
    /\ pc[m] = "answer"
    /\ tokens' = [tokens EXCEPT ![m] = Received(answer[m], tokens[m])]
    /\ origin' = [origin EXCEPT ![m] = "refresh"]
    /\ answer' = [answer EXCEPT ![m] = None]
    /\ pc' = [pc EXCEPT ![m] = "store"]
    /\ UNCHANGED <<clock, saved, login>>

RefreshRetries(m) ==
    /\ pc[m] \in {"refresh", "answer"}
    /\ pc' = [pc EXCEPT ![m] = "refresh"]
    /\ answer' = [answer EXCEPT ![m] = None]
    /\ UNCHANGED <<clock, saved, tokens, origin, login>>

\* The discovery or the refresh is refused, or times out: the exception leaves the
\* tokens alone.
RefreshFails(m) ==
    /\ pc[m] \in {"refresh", "answer"}
    /\ Return(m)
    /\ UNCHANGED <<clock, saved, tokens, origin, login>>

StoreTokens(m) ==
    /\ pc[m] = "store"
    /\ \/ saved' = tokens[m]
       \/ UNCHANGED saved       \* the keyring or the file system raises
    /\ Return(m)
    /\ UNCHANGED <<clock, tokens, origin, login>>

\* Errors of the keyring are suppressed: what is stored may stay.
Logout(m) ==
    /\ pc[m] = "idle"
    /\ saved' \in {None, saved}
    /\ tokens' = [tokens EXCEPT ![m] = None]
    /\ UNCHANGED <<clock, origin, pc, answer, login>>

\* login opens the browser and waits for the redirect in a thread.
StartLogin(m) ==
    /\ pc[m] = "idle"
    /\ pc' = [pc EXCEPT ![m] = "login"]
    /\ handled' = [handled EXCEPT ![m] = "none"]
    /\ result' = [result EXCEPT ![m] = "none"]
    /\ UNCHANGED <<clock, saved, tokens, origin, answer>>

\* The handler assigns self.result, an attribute of its own that hides the one of
\* the class.  The thread serves one request.
Redirect(m) ==
    /\ pc[m] = "login"
    /\ handled[m] = "none"
    /\ \E r \in Redirects : handled' = [handled EXCEPT ![m] = r]
    /\ UNCHANGED <<clock, saved, tokens, origin, pc, answer, result>>

\* The thread has ended, or the time is up.  login finds what it put there itself,
\* and raises AuthenticationError: the exchange of a code is never reached.
EndLogin(m) ==
    /\ pc[m] = "login"
    /\ result[m] = "none"
    /\ Return(m)
    /\ handled' = [handled EXCEPT ![m] = "none"]
    /\ UNCHANGED <<clock, saved, tokens, origin, result>>

\* QGIS ends, or crashes, and is started again.
Restart(m) ==
    /\ tokens[m] # None \/ pc[m] # "idle"
    /\ tokens' = [tokens EXCEPT ![m] = None]
    /\ Return(m)
    /\ handled' = [handled EXCEPT ![m] = "none"]
    /\ UNCHANGED <<clock, saved, origin, result>>

\* Time passes; an answer does not take longer than Delay.
Tick ==
    /\ clock < MaxTime
    /\ \A m \in Managers : pc[m] = "answer" => clock < answer[m].issued + Delay
    /\ clock' = clock + 1
    /\ UNCHANGED <<saved, tokens, origin, pc, answer, login>>

Step(m) == Issue(m) \/ Refreshed(m) \/ RefreshFails(m) \/ StoreTokens(m) \/ EndLogin(m)

Next ==
    \/ \E m \in Managers :
          \/ LoadSavedTokens(m) \/ EnsureValidToken(m) \/ Logout(m) \/ StartLogin(m)
          \/ Redirect(m) \/ Step(m) \/ Restart(m)
    \/ Tick

\* Every wait has a timeout.
Spec == Init /\ [][Next]_vars /\ \A m \in Managers : WF_vars(Step(m))

-----------------------------------------------------------------------------
Valid(t) == clock < t.issued + Lifetime

\* A manager that refreshed its tokens never gives out an ID token that expired:
\* the buffer makes up for the time the answer took, and they count as expired
\* before they are.  (id_token, and ensure_valid_token without a request.)
RefreshedIsValid ==
    \A m \in Managers :
        tokens[m] # None /\ origin[m] = "refresh" /\ ~IsExpired(tokens[m]) => Valid(tokens[m])

\* id_token: "Current ID token, or None if not authenticated/expired."
IdTokenIsValid ==
    \A m \in Managers : tokens[m] # None /\ ~IsExpired(tokens[m]) => Valid(tokens[m])

\* A session is not lost to a refresh: a manager that holds a refresh token still
\* has one after its tokens were replaced, unless it loaded others, logged out or
\* ended; and no refresh stores tokens that cannot be refreshed.
SessionSurvives ==
    [][\A m \in Managers : pc[m] \in {"answer", "store"} /\ pc'[m] # pc[m] =>
          /\ tokens'[m] # None => tokens'[m].refresh
          /\ saved' # saved => saved'.refresh]_vars

\* What the handler received of the redirect is what login sees.
RedirectIsCaptured ==
    \A m \in Managers : pc[m] = "login" => result[m] = handled[m]

\* Every call returns.
CallsEnd == \A m \in Managers : pc[m] # "idle" ~> pc[m] = "idle"

=============================================================================
