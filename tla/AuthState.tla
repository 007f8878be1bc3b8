------------------------------ MODULE AuthState ------------------------------
(***************************************************************************)
(* OIDAuthState: the authorization an application holds, the blocks it     *)
(* wants to be called with a fresh token, and the refresh they wait for.   *)
(*                                                                         *)
(* performActionWithFreshTokens: may be called on any thread and takes a   *)
(* lock only around the list of pending actions, so what it reads before   *)
(* and after is a step of its own.  The answer to a refresh arrives on the *)
(* main thread, which updates the state before it takes the lock.          *)
(*                                                                         *)
(* A refresh token is named by the authorization it belongs to, an access  *)
(* token, or the response that should have named one, by the order of      *)
(* issue.                                                                  *)
(***************************************************************************)
EXTENDS Integers, FiniteSets

CONSTANTS Actions,      \* the blocks the application passes in
          MaxGrants,    \* bound: authorizations
          MaxTokens,    \* bound: responses with an access token or an expiration date
          MaxRestarts   \* bound: how often the object is unarchived

ASSUME ActionsAssumption == IsFiniteSet(Actions)
ASSUME BoundsAssumption == MaxGrants \in Nat /\ MaxTokens \in Nat /\ MaxRestarts \in Nat

VARIABLES
    threads,        \* "main" if the application uses the object on the main thread only, else "any"
    authorization,  \* lastAuthorizationResponse: its grant and its access token
    tokens,         \* lastTokenResponse, 0 if nil
    refreshToken,   \* 0 if nil
    error,          \* authorizationError
    needsRefresh,   \* _needsTokenRefresh
    registration,   \* lastRegistrationResponse
    stored,         \* what the state change delegate has archived
    pc,             \* how far the call for each action has got
    open,           \* whether _pendingActions is an array or nil
    pending,        \* what the array holds
    request,        \* the refresh token in each action's token request, 0 if it has none
    draining,       \* the main thread: the error it passes on, or "idle"
    blocks,         \* how often each action has been dispatched and not run (up to 2)
    called,         \* how often each action has run (up to 2)
    outcome,        \* the error each action was dispatched with, until it runs
    grants,         \* authorizations so far
    issued,         \* access tokens so far
    bare,           \* those that are missing from their response
    grantOf,        \* the authorization each access token was issued under
    expired,        \* those that are within a minute of their expiration, or missing
                    \* and without an expiration date
    crashed,        \* an exception has ended the process
    restarts        \* how often the object was unarchived

state   == <<authorization, tokens, refreshToken, error, needsRefresh, registration>>
calls   == <<pc, open, pending, request, draining>>
results == <<blocks, called, outcome>>
server  == <<grants, issued, bare, grantOf, expired>>
process == <<threads, crashed, restarts>>
vars    == <<state, stored, calls, results, server, process>>

-----------------------------------------------------------------------------

Grants == 0 .. MaxGrants
Tokens == 0 .. MaxTokens
Errors == {"none", "no refresh token", "oauth", "transient"}

NoAuthorization == [grant |-> 0, token |-> 0]

Archives == [authorization : [grant : Grants, token : Tokens], tokens : Tokens,
             refreshToken : Grants, error : {"nil", "set"}, needsRefresh : {"no", "yes"}]

TypeOK ==
    /\ threads \in {"main", "any"}
    /\ authorization \in [grant : Grants, token : Tokens]
    /\ tokens \in Tokens
    /\ refreshToken \in Grants
    /\ error \in {"nil", "set"}
    /\ needsRefresh \in {"no", "yes"}
    /\ registration \in {"nil", "set"}
    /\ stored \in Archives
    /\ pc \in [Actions -> {"idle", "stale", "enqueue", "start", "returned"}]
    /\ open \in {"nil", "array"}
    /\ pending \subseteq Actions
    /\ request \in [Actions -> Grants]
    /\ draining \in Errors \cup {"idle"}
    /\ blocks \in [Actions -> 0 .. 2]
    /\ called \in [Actions -> 0 .. 2]
    /\ outcome \in [Actions -> Errors]
    /\ grants \in Grants
    /\ issued \in Tokens
    /\ grantOf \in [1 .. MaxTokens -> Grants]
    /\ bare \subseteq 1 .. issued
    /\ expired \subseteq 1 .. issued
    /\ crashed \in {"no", "yes"}
    /\ restarts \in 0 .. MaxRestarts

Archive == [authorization |-> authorization, tokens |-> tokens,
            refreshToken |-> refreshToken, error |-> error, needsRefresh |-> needsRefresh]

Init ==
    /\ authorization = NoAuthorization /\ tokens = 0 /\ refreshToken = 0
    /\ error = "nil" /\ needsRefresh = "no" /\ registration = "nil"
    /\ stored = Archive
    /\ pc = [a \in Actions |-> "idle"]
    /\ open = "nil" /\ pending = {} /\ request = [a \in Actions |-> 0] /\ draining = "idle"
    /\ blocks = [a \in Actions |-> 0] /\ called = [a \in Actions |-> 0]
    /\ outcome = [a \in Actions |-> "none"]
    /\ grants = 0 /\ issued = 0 /\ bare = {} /\ grantOf = [t \in 1 .. MaxTokens |-> 0] /\ expired = {}
    /\ threads \in {"main", "any"} /\ crashed = "no" /\ restarts = 0

-----------------------------------------------------------------------------
(***************************************************************************)
(* The getters                                                             *)
(***************************************************************************)

\* The response that accessToken and accessTokenExpirationDate look at.
Response == IF error = "set" THEN 0
            ELSE IF tokens # 0 THEN tokens ELSE authorization.token

AccessToken == IF Response \in bare THEN 0 ELSE Response

\* Mutant: no expiration date means that nothing expires.
MutIsTokenFresh == needsRefresh = "no" /\ Response \notin expired

\* If there is an expiration date it alone decides.  If there is none there must
\* be an access token, which never comes to be in expired.
IsTokenFresh == needsRefresh = "no" /\ Response # 0 /\ Response \notin expired

\* The thread of the application is free to make a call, respectively the main
\* thread to deliver an answer.
Calls == /\ crashed = "no"
         /\ threads = "main" => draining = "idle" /\ \A a \in Actions : pc[a] \in {"idle", "returned"}

-----------------------------------------------------------------------------
(***************************************************************************)
(* The application updates the state.                                      *)
(***************************************************************************)

DidChangeState == stored' = Archive'

\* A response with a new access token under grant g, or with none and an
\* expiration date or not.
Issue(g) == /\ issued < MaxTokens
            /\ issued' = issued + 1
            /\ grantOf' = [grantOf EXCEPT ![issued'] = g]
            /\ \/ UNCHANGED <<bare, expired>>
               \/ bare' = bare \cup {issued'} /\ expired' \in {expired, expired \cup {issued'}}

\* updateWithAuthorizationResponse:error:, code flow or with an access token.
\* (An error that is no OAuth error changes nothing.)
UpdateWithAuthorizationResponse ==
    /\ Calls /\ grants < MaxGrants
    /\ grants' = grants + 1
    /\ \/ /\ authorization' = [grant |-> grants', token |-> 0]
          /\ UNCHANGED <<issued, bare, grantOf, expired>>
       \/ /\ Issue(grants')
          /\ authorization' = [grant |-> grants', token |-> issued']
    /\ tokens' = 0 /\ refreshToken' = 0 /\ error' = "nil"
    /\ UNCHANGED <<needsRefresh, registration, calls, results, process>>
    /\ DidChangeState

\* updateWithAuthorizationError:, also for an OAuth error passed to either of
\* the other two update methods.
UpdateWithAuthorizationError ==
    /\ Calls /\ authorization # NoAuthorization
    /\ error' = "set"
    /\ UNCHANGED <<authorization, tokens, refreshToken, needsRefresh, registration,
                   calls, results, server, process>>
    /\ DidChangeState

\* Any response with status 200 will do, also one without an access token.  It
\* names a new refresh token or none, in which case the old stays.
SetTokens(g) ==
    /\ Issue(g)
    /\ tokens' = issued'
    /\ refreshToken' \in {g, refreshToken}
    /\ error' = "nil"

\* The application has exchanged the code of the last authorization.
UpdateWithTokenResponse ==
    /\ Calls /\ authorization.grant # 0
    /\ SetTokens(authorization.grant)
    /\ UNCHANGED <<authorization, needsRefresh, registration, calls, results, grants, process>>
    /\ DidChangeState

\* updateWithTokenResponse:nil error: with an error that is no OAuth error.
UpdateWithTransientTokenError ==
    /\ Calls /\ error = "set"
    /\ error' = "nil"
    /\ UNCHANGED <<authorization, tokens, refreshToken, needsRefresh, registration,
                   stored, calls, results, server, process>>

UpdateWithRegistrationResponse ==
    /\ Calls
    /\ registration' = "set"
    /\ authorization' = NoAuthorization /\ tokens' = 0 /\ refreshToken' = 0 /\ error' = "nil"
    /\ UNCHANGED <<needsRefresh, calls, results, server, process>>
    /\ DidChangeState

SetNeedsTokenRefresh ==
    /\ Calls /\ needsRefresh = "no"
    /\ needsRefresh' = "yes"
    /\ UNCHANGED <<authorization, tokens, refreshToken, error, registration,
                   stored, calls, results, server, process>>

Update == \/ UpdateWithAuthorizationResponse \/ UpdateWithAuthorizationError
          \/ UpdateWithTokenResponse \/ UpdateWithTransientTokenError
          \/ UpdateWithRegistrationResponse \/ SetNeedsTokenRefresh

\* Time passes.
Expire(t) ==
    /\ crashed = "no" /\ t \notin expired
    /\ expired' = expired \cup {t}
    /\ UNCHANGED <<state, stored, calls, results, grants, issued, bare, grantOf, process>>

-----------------------------------------------------------------------------
(***************************************************************************)
(* performActionWithFreshTokens:                                           *)
(***************************************************************************)

\* dispatch_async of a's block to its queue
Dispatch(A, e) ==
    /\ blocks' = [a \in Actions |-> IF a \in A /\ blocks[a] < 2 THEN blocks[a] + 1 ELSE blocks[a]]
    /\ outcome' = [a \in Actions |-> IF a \in A THEN e ELSE outcome[a]]
    /\ UNCHANGED called

CheckFresh(a) ==
    /\ Calls /\ pc[a] = "idle"
    /\ \/ IsTokenFresh /\ Dispatch({a}, "none") /\ pc' = [pc EXCEPT ![a] = "returned"]
       \/ ~IsTokenFresh /\ UNCHANGED results /\ pc' = [pc EXCEPT ![a] = "stale"]
    /\ UNCHANGED <<state, stored, open, pending, request, draining, server, process>>

CheckRefreshToken(a) ==
    /\ crashed = "no" /\ pc[a] = "stale"
    /\ \/ /\ refreshToken = 0
          /\ Dispatch({a}, "no refresh token") /\ pc' = [pc EXCEPT ![a] = "returned"]
       \/ refreshToken # 0 /\ UNCHANGED results /\ pc' = [pc EXCEPT ![a] = "enqueue"]
    /\ UNCHANGED <<state, stored, open, pending, request, draining, server, process>>

\* Mutant: every caller starts a refresh of its own.
MutEnqueueStarts(a) ==
    /\ crashed = "no" /\ pc[a] = "enqueue"
    /\ open' = "array"
    /\ pending' = pending \cup {a}
    /\ pc' = [pc EXCEPT ![a] = "start"]
    /\ UNCHANGED <<state, stored, request, draining, results, server, process>>

\* The synchronized block
Enqueue(a) ==
    /\ crashed = "no" /\ pc[a] = "enqueue"
    /\ open' = "array"
    /\ pending' = IF open = "array" THEN pending \cup {a} ELSE {a}
    /\ pc' = [pc EXCEPT ![a] = IF open = "array" THEN "returned" ELSE "start"]
    /\ UNCHANGED <<state, stored, request, draining, results, server, process>>

\* tokenRefreshRequestWithAdditionalParameters: raises an exception when the
\* refresh token has gone since it was checked.
StartRefresh(a) ==
    /\ crashed = "no" /\ pc[a] = "start"
    /\ \/ refreshToken # 0 /\ request' = [request EXCEPT ![a] = refreshToken] /\ UNCHANGED crashed
       \/ refreshToken = 0 /\ crashed' = "yes" /\ UNCHANGED request
    /\ pc' = [pc EXCEPT ![a] = "returned"]
    /\ UNCHANGED <<state, stored, open, pending, draining, results, server, threads, restarts>>

-----------------------------------------------------------------------------
(***************************************************************************)
(* The callback of the token request, on the main thread                   *)
(***************************************************************************)

Answered(a) ==
    /\ crashed = "no" /\ request[a] # 0 /\ draining = "idle"
    /\ threads = "main" => \A b \in Actions : pc[b] \in {"idle", "returned"}
    /\ request' = [request EXCEPT ![a] = 0]

RefreshSucceeds(a) ==
    /\ Answered(a)
    /\ needsRefresh' = "no"
    /\ SetTokens(request[a])
    /\ draining' = "none"
    /\ UNCHANGED <<authorization, registration, pc, open, pending, results, grants, process>>
    /\ DidChangeState

\* The server says that the grant is no good.
RefreshRefused(a) ==
    /\ Answered(a)
    /\ needsRefresh' = "no"
    /\ error' = "set"
    /\ draining' = "oauth"
    /\ UNCHANGED <<authorization, tokens, refreshToken, registration, pc, open, pending, results, server, process>>
    /\ DidChangeState

\* Mutant: returns after it has told the error delegate.
MutRefreshFails(a) ==
    /\ Answered(a)
    /\ UNCHANGED <<state, stored, pc, open, pending, draining, results, server, process>>

\* Any other error, the network's for instance
RefreshFails(a) ==
    /\ Answered(a)
    /\ draining' = "transient"
    /\ UNCHANGED <<state, stored, pc, open, pending, results, server, process>>

\* Mutant: the list is not set to nil.
MutDrain ==
    /\ crashed = "no" /\ draining # "idle"
    /\ Dispatch(pending, draining)
    /\ draining' = "idle"
    /\ UNCHANGED <<state, stored, pc, open, pending, request, server, process>>

\* Mutant: the error is read after it has been cleared.
MutDrainLate ==
    /\ crashed = "no" /\ draining # "idle"
    /\ draining' = "idle"
    /\ Dispatch(pending, draining')
    /\ open' = "nil" /\ pending' = {}
    /\ UNCHANGED <<state, stored, pc, request, server, process>>

\* Process everything that was queued up.
Drain ==
    /\ crashed = "no" /\ draining # "idle"
    /\ Dispatch(pending, draining)
    /\ open' = "nil" /\ pending' = {} /\ draining' = "idle"
    /\ UNCHANGED <<state, stored, pc, request, server, process>>

\* The block runs on its queue.  (It reads the tokens only now, which changes
\* nothing.)
RunAction(a) ==
    /\ crashed = "no" /\ blocks[a] > 0
    /\ threads = "main" => Calls
    /\ blocks' = [blocks EXCEPT ![a] = @ - 1]
    /\ called' = [called EXCEPT ![a] = IF @ < 2 THEN @ + 1 ELSE @]
    /\ outcome' = [outcome EXCEPT ![a] = "none"]
    /\ UNCHANGED <<state, stored, calls, server, process>>

-----------------------------------------------------------------------------

\* The process ends and the object is unarchived in the next one.
\* lastRegistrationResponse is not archived.
Restart ==
    /\ restarts < MaxRestarts
    /\ restarts' = restarts + 1
    /\ authorization' = stored.authorization /\ tokens' = stored.tokens
    /\ refreshToken' = stored.refreshToken /\ error' = stored.error
    /\ needsRefresh' = stored.needsRefresh /\ registration' = "nil"
    /\ pc' = [a \in Actions |-> "idle"]
    /\ open' = "nil" /\ pending' = {} /\ request' = [a \in Actions |-> 0] /\ draining' = "idle"
    /\ blocks' = [a \in Actions |-> 0] /\ called' = [a \in Actions |-> 0]
    /\ outcome' = [a \in Actions |-> "none"]
    /\ crashed' = "no"
    /\ UNCHANGED <<stored, server, threads>>

-----------------------------------------------------------------------------

Perform(a) == CheckFresh(a) \/ CheckRefreshToken(a) \/ Enqueue(a) \/ StartRefresh(a)

\* The rest of a call that has begun.
Proceed == \E a \in Actions : CheckRefreshToken(a) \/ Enqueue(a) \/ StartRefresh(a)

Answer == \E a \in Actions : RefreshSucceeds(a) \/ RefreshRefused(a) \/ RefreshFails(a)

Next == \/ Update
        \/ \E t \in 1 .. issued : Expire(t)
        \/ \E a \in Actions : Perform(a) \/ RunAction(a)
        \/ Answer \/ Drain
        \/ Restart

\* Threads run, every request is answered, if only with a timeout, and queues
\* run the blocks dispatched to them.
Fairness == /\ WF_vars(Proceed) /\ WF_vars(Answer) /\ WF_vars(Drain)
            /\ \A a \in Actions : WF_vars(RunAction(a))

Spec == Init /\ [][Next]_vars
FairSpec == Spec /\ Fairness

-----------------------------------------------------------------------------
(***************************************************************************)
(* Properties                                                              *)
(***************************************************************************)

\* The action whose call starts or has started the refresh that is under way.
Refreshing == {a \in Actions : pc[a] = "start" \/ request[a] # 0}

\* No matter how calls on different threads and the callback interleave, there
\* is one refresh at a time: while it lasts actions wait, and when none is under
\* way (and the main thread does not deliver one) nothing waits.
OneRefresh ==
    crashed = "no" =>
        Cardinality(Refreshing) = IF open = "array" /\ draining = "idle" THEN 1 ELSE 0

\* An action whose call has returned is in one place: it waits for the refresh,
\* it is dispatched to its queue, or it has run, once.  One whose call has not
\* returned has not been dispatched.  An object used on one thread never raises
\* the exception about a missing refresh token, which would end all of it.
ExactlyOnce ==
    /\ threads = "main" => crashed = "no"
    /\ crashed = "no" => \A a \in Actions :
         LET waits == IF a \in pending THEN 1 ELSE 0
         IN  waits + blocks[a] + called[a] = IF pc[a] \in {"start", "returned"} THEN 1 ELSE 0

\* A block that is dispatched without an error is dispatched (on one thread) at a
\* moment when a refresh that was asked for has been made, the authorization is
\* not in error, and there is an access token to give it, unless the server's last
\* response had none.  (The code does not look whether it had: the block is then
\* called with neither a token nor an error.)
DispatchedFresh ==
    [][\A a \in Actions :
          (threads = "main" /\ blocks'[a] > blocks[a] /\ outcome'[a] = "none") =>
             /\ needsRefresh' = "no"
             /\ AccessToken' # 0 \/ Response' \in bare']_vars

\* Every action performActionWithFreshTokens: was called with runs, whatever
\* the server answers, unless the exception ends the process.
EventuallyCalled ==
    \A a \in Actions : (pc[a] # "idle") ~> (called[a] > 0 \/ pc[a] = "idle" \/ crashed = "yes")

\* OIDAuthState.m:360: tokens of an old authorization are "no longer relevant"
\* once there is a new one.
TokensOfLastAuthorization ==
    /\ tokens # 0 => grantOf[tokens] = authorization.grant
    /\ refreshToken \in {0, authorization.grant}

=============================================================================
