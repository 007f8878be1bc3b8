-------------------------- MODULE AuthStateProofs --------------------------
(***************************************************************************)
(* Proofs about AuthState, for every finite set of actions and any number  *)
(* of authorizations, tokens and restarts.                                 *)
(***************************************************************************)
EXTENDS AuthState, FiniteSetTheorems, TLAPS

-----------------------------------------------------------------------------
(* Types *)

StateTypes ==
  /\ authorization \in [grant : Grants, token : Tokens] /\ tokens \in Tokens /\ refreshToken \in Grants
  /\ error \in {"nil", "set"} /\ needsRefresh \in {"no", "yes"} /\ registration \in {"nil", "set"}
CallTypes ==
  /\ pc \in [Actions -> {"idle", "stale", "enqueue", "start", "returned"}]
  /\ open \in {"nil", "array"} /\ pending \subseteq Actions /\ request \in [Actions -> Grants]
  /\ draining \in Errors \cup {"idle"}
ResultTypes ==
  /\ blocks \in [Actions -> 0 .. 2] /\ called \in [Actions -> 0 .. 2]
  /\ outcome \in [Actions -> Errors]
ServerTypes ==
  /\ grants \in Grants /\ issued \in Tokens /\ grantOf \in [1 .. MaxTokens -> Grants]
  /\ bare \subseteq 1 .. issued /\ expired \subseteq 1 .. issued
ProcessTypes == threads \in {"main", "any"} /\ crashed \in {"no", "yes"} /\ restarts \in 0 .. MaxRestarts

\* TypeOK in parts, so that a step names only those it disturbs.
LEMMA TypeParts ==
    TypeOK <=> StateTypes /\ stored \in Archives /\ CallTypes /\ ResultTypes /\ ServerTypes /\ ProcessTypes
  BY DEF TypeOK, StateTypes, CallTypes, ResultTypes, ServerTypes, ProcessTypes

\* What encodeWithCoder: writes has the type of an archive.
LEMMA ArchiveType == StateTypes => Archive \in Archives
  BY DEF StateTypes, Archive, Archives

\* Dispatching a set of actions keeps the types of the counters.
LEMMA DispatchType ==
    ASSUME TypeOK, NEW A, NEW e \in Errors, Dispatch(A, e)
    PROVE  /\ blocks' \in [Actions -> 0 .. 2] /\ called' \in [Actions -> 0 .. 2]
           /\ outcome' \in [Actions -> Errors]
  BY DEF TypeOK, Dispatch

\* The server's counter and its tokens keep their types.
LEMMA IssueType ==
    ASSUME TypeOK, NEW g \in Grants, Issue(g)
    PROVE  /\ issued' \in Tokens /\ issued' > 0 /\ grantOf' \in [1 .. MaxTokens -> Grants]
           /\ bare' \subseteq 1 .. issued' /\ expired' \subseteq 1 .. issued'
  <1>1. /\ issued' \in Tokens /\ issued' > 0 /\ issued' = issued + 1 /\ issued \in Nat
        /\ grantOf' \in [1 .. MaxTokens -> Grants]
    BY BoundsAssumption DEF TypeOK, Issue, Tokens
  <1>2. 1 .. issued \subseteq 1 .. issued' /\ issued' \in 1 .. issued'
    BY <1>1
  <1>3. bare' \subseteq bare \cup {issued'} /\ expired' \subseteq expired \cup {issued'}
    BY DEF Issue
  <1>. QED BY <1>1, <1>2, <1>3 DEF TypeOK

\* Type correctness: the initial state.
LEMMA TypeStart == Init => TypeOK
  BY BoundsAssumption DEF Init, TypeOK, NoAuthorization, Archive, Archives, Grants, Tokens, Errors

\* Type correctness: one step per action.
LEMMA TypeStep ==
    ASSUME TypeOK, [Next]_vars
    PROVE  TypeOK'
  <1>. USE BoundsAssumption DEF Grants, Tokens
  <1>1. /\ StateTypes /\ stored \in Archives /\ CallTypes /\ ResultTypes /\ ServerTypes /\ ProcessTypes
    BY TypeParts
  <1>2. ASSUME StateTypes', stored' = stored \/ DidChangeState PROVE stored' \in Archives
    BY <1>1, <1>2 DEF DidChangeState, Archive, Archives, StateTypes
  <1>3. ASSUME StateTypes', stored' = stored \/ DidChangeState, CallTypes', ResultTypes', ServerTypes', ProcessTypes'
        PROVE  TypeOK'
    BY <1>2, <1>3 DEF TypeOK, StateTypes, CallTypes, ResultTypes, ServerTypes, ProcessTypes
  <1>4. UNCHANGED state => StateTypes'
    BY <1>1 DEF state, StateTypes
  <1>5. UNCHANGED calls => CallTypes'
    BY <1>1 DEF calls, CallTypes
  <1>6. UNCHANGED results => ResultTypes'
    BY <1>1 DEF results, ResultTypes
  <1>7. UNCHANGED server => ServerTypes'
    BY <1>1 DEF server, ServerTypes
  <1>8. UNCHANGED process => ProcessTypes'
    BY <1>1 DEF process, ProcessTypes
  <1>9. ASSUME NEW g \in Grants, Issue(g), grants' \in Grants
        PROVE  ServerTypes' /\ issued' \in Tokens
    BY <1>1, <1>9, IssueType DEF ServerTypes
  <1>10. CASE Update
    <2>1. CASE UpdateWithAuthorizationResponse
      <3>1. grants' \in Grants
        BY <1>1, <2>1 DEF UpdateWithAuthorizationResponse, ServerTypes
      <3>2. ServerTypes' /\ authorization' \in [grant : Grants, token : Tokens]
        <4>1. CASE authorization' = [grant |-> grants', token |-> 0] /\ UNCHANGED <<issued, bare, grantOf, expired>>
          BY <1>1, <2>1, <3>1, <4>1 DEF UpdateWithAuthorizationResponse, ServerTypes
        <4>2. CASE Issue(grants') /\ authorization' = [grant |-> grants', token |-> issued']
          BY <1>9, <2>1, <3>1, <4>2 DEF UpdateWithAuthorizationResponse
        <4>. QED BY <2>1, <4>1, <4>2 DEF UpdateWithAuthorizationResponse
      <3>3. StateTypes'
        BY <1>1, <2>1, <3>2 DEF UpdateWithAuthorizationResponse, StateTypes
      <3>. QED BY <1>3, <1>5, <1>6, <1>8, <2>1, <3>2, <3>3 DEF UpdateWithAuthorizationResponse
    <2>2. CASE UpdateWithAuthorizationError
      BY <1>1, <1>3, <1>5, <1>6, <1>7, <1>8, <2>2 DEF UpdateWithAuthorizationError, StateTypes
    <2>3. CASE UpdateWithTokenResponse
      <3>1. ServerTypes' /\ issued' \in Tokens
        BY <1>1, <1>9, <2>3 DEF UpdateWithTokenResponse, SetTokens, StateTypes, ServerTypes
      <3>2. StateTypes'
        BY <1>1, <2>3, <3>1 DEF UpdateWithTokenResponse, SetTokens, StateTypes
      <3>. QED BY <1>3, <1>5, <1>6, <1>8, <2>3, <3>1, <3>2 DEF UpdateWithTokenResponse
    <2>4. CASE UpdateWithTransientTokenError
      BY <1>1, <1>3, <1>5, <1>6, <1>7, <1>8, <2>4 DEF UpdateWithTransientTokenError, StateTypes
    <2>5. CASE UpdateWithRegistrationResponse
      BY <1>1, <1>3, <1>5, <1>6, <1>7, <1>8, <2>5 DEF UpdateWithRegistrationResponse, StateTypes, NoAuthorization
    <2>6. CASE SetNeedsTokenRefresh
      BY <1>1, <1>3, <1>5, <1>6, <1>7, <1>8, <2>6 DEF SetNeedsTokenRefresh, StateTypes
    <2>. QED BY <1>10, <2>1, <2>2, <2>3, <2>4, <2>5, <2>6 DEF Update
  <1>11. ASSUME NEW t \in 1 .. issued, Expire(t) PROVE TypeOK'
    BY <1>1, <1>3, <1>4, <1>5, <1>6, <1>8, <1>11 DEF Expire, ServerTypes
  <1>12. ASSUME NEW a \in Actions, Perform(a) PROVE TypeOK'
    <2>1. ResultTypes'
      BY <1>1, <1>6, <1>12, DispatchType DEF Perform, CheckFresh, CheckRefreshToken, Enqueue, StartRefresh, Errors,
                                             ResultTypes
    <2>2. CallTypes'
      BY <1>1, <1>12 DEF Perform, CheckFresh, CheckRefreshToken, Enqueue, StartRefresh, CallTypes, StateTypes
    <2>3. ProcessTypes'
      BY <1>1, <1>8, <1>12 DEF Perform, CheckFresh, CheckRefreshToken, Enqueue, StartRefresh, ProcessTypes
    <2>. QED BY <1>3, <1>4, <1>7, <1>12, <2>1, <2>2, <2>3 DEF Perform, CheckFresh, CheckRefreshToken, Enqueue, StartRefresh
  <1>13. ASSUME NEW a \in Actions, RefreshSucceeds(a) PROVE TypeOK'
    <2>1. ServerTypes' /\ issued' \in Tokens
      BY <1>1, <1>9, <1>13 DEF RefreshSucceeds, SetTokens, CallTypes, ServerTypes
    <2>2. StateTypes'
      BY <1>1, <1>13, <2>1 DEF RefreshSucceeds, SetTokens, StateTypes, CallTypes
    <2>3. CallTypes'
      BY <1>1, <1>13 DEF RefreshSucceeds, Answered, CallTypes, Errors
    <2>. QED BY <1>3, <1>6, <1>8, <1>13, <2>1, <2>2, <2>3 DEF RefreshSucceeds
  <1>14. ASSUME NEW a \in Actions, RefreshRefused(a) \/ RefreshFails(a) PROVE TypeOK'
    <2>1. StateTypes'
      BY <1>1, <1>4, <1>14 DEF RefreshRefused, RefreshFails, StateTypes
    <2>2. CallTypes'
      <3>1. draining' \in Errors
        BY <1>14 DEF RefreshRefused, RefreshFails, Errors
      <3>2. UNCHANGED <<pc, open, pending>> /\ request' = [request EXCEPT ![a] = 0]
        BY <1>14 DEF RefreshRefused, RefreshFails, Answered
      <3>. QED BY <1>1, <3>1, <3>2 DEF CallTypes
    <2>. QED BY <1>3, <1>6, <1>7, <1>8, <1>14, <2>1, <2>2 DEF RefreshRefused, RefreshFails
  <1>15. CASE Drain
    <2>1. draining \in Errors
      BY <1>1, <1>15 DEF Drain, CallTypes
    <2>2. ResultTypes'
      BY <1>15, <2>1, DispatchType DEF Drain, ResultTypes
    <2>3. CallTypes'
      BY <1>1, <1>15 DEF Drain, CallTypes
    <2>. QED BY <1>3, <1>4, <1>7, <1>8, <1>15, <2>2, <2>3 DEF Drain
  <1>16. ASSUME NEW a \in Actions, RunAction(a) PROVE TypeOK'
    <2>3. outcome' \in [Actions -> Errors]
      BY <1>1, <1>16 DEF RunAction, ResultTypes, Errors
    <2>4. blocks' \in [Actions -> 0 .. 2] /\ called' \in [Actions -> 0 .. 2]
      <3>1. /\ blocks[a] > 0 /\ blocks' = [blocks EXCEPT ![a] = blocks[a] - 1]
            /\ called' = [called EXCEPT ![a] = IF called[a] < 2 THEN called[a] + 1 ELSE called[a]]
        BY <1>16 DEF RunAction
      <3>2. blocks[a] \in 0 .. 2 /\ called[a] \in 0 .. 2
        BY <1>1 DEF ResultTypes
      <3>3. blocks[a] - 1 \in 0 .. 2 /\ (IF called[a] < 2 THEN called[a] + 1 ELSE called[a]) \in 0 .. 2
        BY <3>1, <3>2
      <3>. QED BY <1>1, <3>1, <3>3 DEF ResultTypes
    <2>. QED BY <1>3, <1>4, <1>5, <1>7, <1>8, <1>16, <2>3, <2>4 DEF RunAction, ResultTypes
  <1>17. CASE Restart
    <2>1. StateTypes'
      BY <1>1, <1>17 DEF Restart, StateTypes, Archives
    <2>2. CallTypes'
      BY <1>17 DEF Restart, CallTypes
    <2>3. ResultTypes'
      BY <1>17 DEF Restart, ResultTypes, Errors
    <2>4. ProcessTypes'
      BY <1>1, <1>17 DEF Restart, ProcessTypes
    <2>. QED BY <1>3, <1>7, <1>17, <2>1, <2>2, <2>3, <2>4 DEF Restart
  <1>18. CASE UNCHANGED vars
    BY <1>3, <1>4, <1>5, <1>6, <1>7, <1>8, <1>18 DEF vars
  <1>. QED BY <1>10, <1>11, <1>12, <1>13, <1>14, <1>15, <1>16, <1>17, <1>18 DEF Next, Answer

\* The variables have their types, whatever the sets of actions and tokens.
THEOREM TypeCorrect == Spec => []TypeOK
  BY TypeStart, TypeStep, PTL DEF Spec

-----------------------------------------------------------------------------
(* Refreshes *)

\* While there is an array and the main thread does not empty it, one action is
\* refreshing; otherwise none is.
RefreshInv ==
  crashed = "no" =>
    /\ \A a \in Actions : request[a] # 0 => pc[a] = "returned"
    /\ draining # "idle" => open = "array"
    /\ open = "array" /\ draining = "idle" => \E a \in Actions : Refreshing = {a}
    /\ ~(open = "array" /\ draining = "idle") => Refreshing = {}

\* On one thread nothing comes between the steps of a call, nor between an
\* answer and the emptying of the array.
OneThreadInv ==
  threads = "main" =>
    /\ crashed = "no"
    /\ \A a, b \in Actions : pc[a] \notin {"idle", "returned"} /\ pc[b] \notin {"idle", "returned"} => a = b
    /\ \A a \in Actions : pc[a] \notin {"idle", "returned"} => draining = "idle"
    /\ \A a \in Actions : pc[a] \in {"enqueue", "start"} => refreshToken # 0
    /\ draining = "none" => Response # 0 /\ needsRefresh = "no"

PendingInv == open = "nil" => pending = {}

IInv == TypeOK /\ RefreshInv /\ OneThreadInv /\ PendingInv /\ ExactlyOnce

\* The initial state satisfies the inductive invariant.
LEMMA Start == Init => IInv
  <1>1. Init => TypeOK
    BY TypeStart
  <1>2. Init => RefreshInv /\ OneThreadInv /\ PendingInv /\ ExactlyOnce
    BY DEF Init, RefreshInv, OneThreadInv, PendingInv, ExactlyOnce, Refreshing
  <1>. QED BY <1>1, <1>2 DEF IInv

\* A call that another thread may interrupt, an answer, and everything else.
LEMMA RefreshStep ==
    ASSUME IInv, [Next]_vars
    PROVE  RefreshInv'
  <1>. USE DEF IInv, TypeOK, RefreshInv, Refreshing, Grants, state, calls, results, server, process
  <1>1. CASE UNCHANGED <<pc, request, open, draining, crashed>>
    BY <1>1
  <1>2. CASE Update \/ (\E t \in 1 .. issued : Expire(t)) \/ (\E a \in Actions : RunAction(a)) \/ UNCHANGED vars
    <2>1. UNCHANGED <<pc, request, open, draining, crashed>>
      BY <1>2 DEF Update, UpdateWithAuthorizationResponse, UpdateWithAuthorizationError, UpdateWithTokenResponse,
                  UpdateWithTransientTokenError, UpdateWithRegistrationResponse, SetNeedsTokenRefresh, Expire,
                  RunAction, vars
    <2>. QED BY <1>1, <2>1
  <1>3. ASSUME NEW a \in Actions, CheckFresh(a) \/ CheckRefreshToken(a) PROVE RefreshInv'
    <2>1. /\ crashed = "no" /\ UNCHANGED <<request, open, draining, crashed>>
          /\ pc[a] \notin {"start", "returned"} /\ pc'[a] # "start"
          /\ \A b \in Actions \ {a} : pc'[b] = pc[b]
      BY <1>3 DEF CheckFresh, CheckRefreshToken, Calls
    <2>2. Refreshing' = Refreshing
      BY <2>1
    <2>3. \A b \in Actions : request'[b] # 0 => pc'[b] = "returned"
      BY <2>1
    <2>. QED BY <2>1, <2>2, <2>3 DEF RefreshInv
  <1>4. ASSUME NEW a \in Actions, Enqueue(a) PROVE RefreshInv'
    <2>1. /\ crashed = "no" /\ UNCHANGED <<request, draining, crashed>> /\ open' = "array"
          /\ pc[a] = "enqueue" /\ pc'[a] = IF open = "array" THEN "returned" ELSE "start"
          /\ \A b \in Actions \ {a} : pc'[b] = pc[b]
      BY <1>4 DEF Enqueue
    <2>2. request[a] = 0
      BY <2>1
    <2>3. \A b \in Actions : request'[b] # 0 => pc'[b] = "returned"
      BY <2>1, <2>2
    <2>4. CASE open = "array"
      <3>1. Refreshing' = Refreshing
        BY <2>1, <2>2, <2>4
      <3>. QED BY <2>1, <2>3, <2>4, <3>1
    <2>5. CASE open # "array"
      <3>1. draining = "idle" /\ Refreshing = {}
        BY <2>1, <2>5
      <3>2. Refreshing' = {a}
        BY <2>1, <2>2, <2>5, <3>1
      <3>. QED BY <2>1, <2>3, <3>1, <3>2
    <2>. QED BY <2>4, <2>5
  <1>5. ASSUME NEW a \in Actions, StartRefresh(a) PROVE RefreshInv'
    BY <1>5 DEF StartRefresh
  <1>6. ASSUME NEW a \in Actions, Answered(a), draining' # "idle", UNCHANGED <<pc, open, crashed>>
        PROVE  RefreshInv'
    BY <1>6 DEF Answered
  <1>7. CASE Answer
    BY <1>6, <1>7 DEF Answer, RefreshSucceeds, RefreshRefused, RefreshFails
  <1>8. CASE Drain
    BY <1>8 DEF Drain
  <1>9. CASE Restart
    BY <1>9 DEF Restart
  <1>. QED BY <1>2, <1>3, <1>4, <1>5, <1>7, <1>8, <1>9 DEF Next, Perform

\* Each action is performed by one thread, before and after every step.
LEMMA OneThreadStep ==
    ASSUME IInv, [Next]_vars
    PROVE  OneThreadInv'
  <1>. USE DEF IInv, OneThreadInv, state, calls, results, server, process
  <1>1. TypeOK'
    BY TypeStep
  <1>2. CASE Update
    <2>1. threads' = threads /\ crashed' = crashed /\ pc' = pc /\ draining' = draining /\ Calls
      BY <1>2 DEF Update, UpdateWithAuthorizationResponse, UpdateWithAuthorizationError, UpdateWithTokenResponse,
                  UpdateWithTransientTokenError, UpdateWithRegistrationResponse, SetNeedsTokenRefresh
    <2>. QED BY <2>1 DEF Calls
  <1>3. CASE (\E t \in 1 .. issued : Expire(t)) \/ (\E a \in Actions : RunAction(a)) \/ UNCHANGED vars
    <2>1. UNCHANGED <<threads, crashed, pc, draining, refreshToken, needsRefresh, error, tokens, authorization>>
      BY <1>3 DEF Expire, RunAction, vars
    <2>. QED BY <2>1 DEF Response
  <1>4. ASSUME NEW a \in Actions, CheckFresh(a) \/ CheckRefreshToken(a) PROVE OneThreadInv'
    <2>1. /\ UNCHANGED <<threads, crashed, draining, refreshToken, needsRefresh, error, tokens, authorization>>
          /\ \A b \in Actions \ {a} : pc'[b] = pc[b]
          /\ pc'[a] \in {"returned", "stale"} \/ (pc'[a] = "enqueue" /\ refreshToken # 0)
          /\ Calls \/ pc[a] = "stale"
      BY <1>4 DEF CheckFresh, CheckRefreshToken, TypeOK
    <2>2. Response' = Response
      BY <2>1 DEF Response
    <2>. QED BY <2>1, <2>2 DEF Calls
  <1>5. ASSUME NEW a \in Actions, Enqueue(a) PROVE OneThreadInv'
    BY <1>5 DEF Enqueue, Response, TypeOK
  <1>6. ASSUME NEW a \in Actions, StartRefresh(a) PROVE OneThreadInv'
    BY <1>6 DEF StartRefresh, Response, TypeOK
  <1>7. ASSUME NEW a \in Actions, RefreshSucceeds(a) PROVE OneThreadInv'
    <2>1. Response' # 0 /\ needsRefresh' = "no"
      BY <1>7, IssueType DEF RefreshSucceeds, SetTokens, Response, TypeOK
    <2>. QED BY <1>7, <2>1 DEF RefreshSucceeds, Answered
  <1>8. ASSUME NEW a \in Actions, RefreshRefused(a) \/ RefreshFails(a) PROVE OneThreadInv'
    BY <1>8 DEF RefreshRefused, RefreshFails, Answered
  <1>9. CASE Drain
    BY <1>9 DEF Drain
  <1>10. CASE Restart
    BY <1>10 DEF Restart
  <1>. QED BY <1>2, <1>3, <1>4, <1>5, <1>6, <1>7, <1>8, <1>9, <1>10 DEF Next, Perform, Answer

-----------------------------------------------------------------------------
(* Actions *)

\* What an action is worth: waiting, dispatched or run.
Places(a) == (IF a \in pending THEN 1 ELSE 0) + blocks[a] + called[a]

\* Where an action is, in a run without an exception.
LEMMA PlacesOfEach ==
    ASSUME IInv, crashed = "no"
    PROVE  \A a \in Actions :
             /\ blocks[a] \in 0 .. 2 /\ called[a] \in 0 .. 2
             /\ Places(a) = IF pc[a] \in {"start", "returned"} THEN 1 ELSE 0
  BY DEF IInv, TypeOK, ExactlyOnce, Places

\* When every action is in one place after a step, ExactlyOnce holds after it.
LEMMA PlacesKept ==
    ASSUME IInv, crashed = "no", OneThreadInv',
           \A a \in Actions : Places(a)' = IF pc'[a] \in {"start", "returned"} THEN 1 ELSE 0
    PROVE  ExactlyOnce'
  BY DEF ExactlyOnce, Places, OneThreadInv

\* Exactly once: a step moves an action from one place to the next, and drops
\* or doubles none.
LEMMA ExactlyOnceStep ==
    ASSUME IInv, [Next]_vars
    PROVE  ExactlyOnce'
  <1>. USE DEF state, calls, results, server, process
  <1>1. OneThreadInv'
    BY OneThreadStep
  <1>2. ASSUME UNCHANGED <<pc, pending, blocks, called, crashed>> PROVE ExactlyOnce'
    BY <1>1, <1>2 DEF IInv, ExactlyOnce, OneThreadInv
  <1>3. CASE Update \/ Answer \/ (\E t \in 1 .. issued : Expire(t)) \/ UNCHANGED vars
    <2>1. UNCHANGED <<pc, pending, blocks, called, crashed>>
      BY <1>3 DEF Update, UpdateWithAuthorizationResponse, UpdateWithAuthorizationError, UpdateWithTokenResponse,
                  UpdateWithTransientTokenError, UpdateWithRegistrationResponse, SetNeedsTokenRefresh, Expire,
                  Answer, RefreshSucceeds, RefreshRefused, RefreshFails, vars
    <2>. QED BY <1>2, <2>1
  <1>4. ASSUME NEW a \in Actions, CheckFresh(a) \/ CheckRefreshToken(a) PROVE ExactlyOnce'
    <2>1. /\ crashed = "no" /\ UNCHANGED <<pending, called>>
          /\ pc[a] \in {"idle", "stale"}
          /\ \A b \in Actions \ {a} : pc'[b] = pc[b]
      BY <1>4 DEF CheckFresh, CheckRefreshToken, Calls, Dispatch, IInv, TypeOK
    <2>2. Places(a) = 0 /\ blocks[a] = 0 /\ called[a] = 0 /\ a \notin pending
      BY <2>1, PlacesOfEach DEF Places
    <2>3. \/ pc'[a] = "returned" /\ \E e : Dispatch({a}, e)
          \/ pc'[a] \in {"stale", "enqueue"} /\ UNCHANGED blocks
      BY <1>4 DEF CheckFresh, CheckRefreshToken, IInv, TypeOK
    <2>4. /\ \A b \in Actions \ {a} : blocks'[b] = blocks[b]
          /\ blocks'[a] = IF pc'[a] = "returned" THEN 1 ELSE 0
      BY <2>2, <2>3 DEF Dispatch, IInv, TypeOK
    <2>5. \A b \in Actions : Places(b)' = IF pc'[b] \in {"start", "returned"} THEN 1 ELSE 0
      BY <2>1, <2>2, <2>3, <2>4, PlacesOfEach DEF Places
    <2>. QED BY <1>1, <2>1, <2>5, PlacesKept
  <1>5. ASSUME NEW a \in Actions, Enqueue(a) PROVE ExactlyOnce'
    <2>1. /\ crashed = "no" /\ UNCHANGED <<blocks, called>> /\ pc[a] = "enqueue"
          /\ pc'[a] \in {"start", "returned"} /\ \A b \in Actions \ {a} : pc'[b] = pc[b]
          /\ pending' = IF open = "array" THEN pending \cup {a} ELSE {a}
      BY <1>5 DEF Enqueue, IInv, TypeOK
    <2>2. open # "array" => pending = {}
      BY <2>1 DEF IInv, TypeOK, PendingInv
    <2>3. Places(a) = 0 /\ blocks[a] = 0 /\ called[a] = 0 /\ a \notin pending
      BY <2>1, PlacesOfEach DEF Places
    <2>4. \A b \in Actions : Places(b)' = IF pc'[b] \in {"start", "returned"} THEN 1 ELSE 0
      BY <2>1, <2>2, <2>3, PlacesOfEach DEF Places
    <2>. QED BY <1>1, <2>1, <2>4, PlacesKept
  <1>6. ASSUME NEW a \in Actions, StartRefresh(a) PROVE ExactlyOnce'
    <2>1. /\ crashed = "no" /\ UNCHANGED <<pending, blocks, called>> /\ pc[a] = "start" /\ pc'[a] = "returned"
          /\ \A b \in Actions \ {a} : pc'[b] = pc[b]
      BY <1>6 DEF StartRefresh, IInv, TypeOK
    <2>2. \A b \in Actions : Places(b)' = IF pc'[b] \in {"start", "returned"} THEN 1 ELSE 0
      BY <2>1, PlacesOfEach DEF Places
    <2>. QED BY <1>1, <2>1, <2>2, PlacesKept
  <1>7. CASE Drain
    <2>1. /\ crashed = "no" /\ pc' = pc /\ pending' = {} /\ called' = called
          /\ blocks' = [a \in Actions |-> IF a \in pending /\ blocks[a] < 2 THEN blocks[a] + 1 ELSE blocks[a]]
      BY <1>7 DEF Drain, Dispatch
    <2>2. \A a \in Actions : a \in pending => blocks[a] = 0
      BY <2>1, PlacesOfEach DEF Places
    <2>3. \A a \in Actions : Places(a)' = Places(a)
      BY <2>1, <2>2, PlacesOfEach DEF Places
    <2>. QED BY <1>1, <2>1, <2>3, PlacesOfEach, PlacesKept
  <1>8. ASSUME NEW a \in Actions, RunAction(a) PROVE ExactlyOnce'
    <2>1. /\ crashed = "no" /\ pc' = pc /\ pending' = pending /\ blocks[a] > 0
          /\ blocks'[a] = blocks[a] - 1 /\ called'[a] = IF called[a] < 2 THEN called[a] + 1 ELSE called[a]
          /\ \A b \in Actions \ {a} : blocks'[b] = blocks[b] /\ called'[b] = called[b]
      BY <1>8 DEF RunAction, IInv, TypeOK
    <2>2. called[a] = 0 /\ blocks[a] = 1
      BY <2>1, PlacesOfEach DEF Places
    <2>3. \A b \in Actions : Places(b)' = Places(b)
      BY <2>1, <2>2, PlacesOfEach DEF Places
    <2>. QED BY <1>1, <2>1, <2>3, PlacesOfEach, PlacesKept
  <1>9. CASE Restart
    BY <1>1, <1>9 DEF Restart, ExactlyOnce, OneThreadInv
  <1>. QED BY <1>3, <1>4, <1>5, <1>6, <1>7, <1>8, <1>9 DEF Next, Perform

-----------------------------------------------------------------------------
(* The theorems *)

\* Every step keeps the inductive invariant.
LEMMA Step ==
    ASSUME IInv, [Next]_vars
    PROVE  IInv'
  <1>1. TypeOK'
    BY TypeStep DEF IInv
  <1>2. PendingInv'
    BY DEF IInv, TypeOK, PendingInv, Next, Update, UpdateWithAuthorizationResponse, UpdateWithAuthorizationError,
           UpdateWithTokenResponse, UpdateWithTransientTokenError, UpdateWithRegistrationResponse,
           SetNeedsTokenRefresh, Expire, Perform, CheckFresh, CheckRefreshToken, Enqueue, StartRefresh, Answer,
           RefreshSucceeds, RefreshRefused, RefreshFails, Answered, Drain, RunAction, Restart, calls, vars
  <1>. QED BY <1>1, <1>2, RefreshStep, OneThreadStep, ExactlyOnceStep DEF IInv

\* The inductive invariant holds in every reachable state.
LEMMA Invariant == Spec => []IInv
  BY Start, Step, PTL DEF Spec

\* Callers on any number of threads share one refresh, and none waits when there
\* is none.
THEOREM OneRefreshAtATime == Spec => []OneRefresh
  <1>1. IInv => OneRefresh
    <2>. SUFFICES ASSUME IInv, crashed = "no"
                  PROVE  Cardinality(Refreshing) = IF open = "array" /\ draining = "idle" THEN 1 ELSE 0
      BY DEF OneRefresh
    <2>1. CASE open = "array" /\ draining = "idle"
      BY <2>1, FS_Singleton DEF IInv, RefreshInv
    <2>2. CASE ~(open = "array" /\ draining = "idle")
      BY <2>2, FS_EmptySet DEF IInv, RefreshInv
    <2>. QED BY <2>1, <2>2
  <1>. QED BY <1>1, Invariant, PTL

\* Every action whose call has returned waits, is dispatched or has run, and is
\* in one of these places only; an object that is used on one thread does not
\* raise the exception about a missing refresh token.
THEOREM EachActionExactlyOnce == Spec => []ExactlyOnce
  <1>1. IInv => ExactlyOnce
    BY DEF IInv
  <1>. QED BY <1>1, Invariant, PTL

\* On one thread, no action is dispatched without an error while a refresh that
\* was asked for has not been made, the authorization is in error, or there is no
\* access token to give it, unless the server's last response had none.
THEOREM AlwaysDispatchedFresh == Spec => DispatchedFresh
  <1>1. ASSUME IInv, [Next]_vars, NEW a \in Actions, threads = "main", blocks'[a] > blocks[a],
               outcome'[a] = "none"
        PROVE  needsRefresh' = "no" /\ Response' # 0
    <2>. USE DEF state, calls, results, server, process
    <2>1. CASE Update \/ Answer \/ (\E t \in 1 .. issued : Expire(t)) \/ UNCHANGED vars
      <3>1. blocks' = blocks
        BY <2>1 DEF Update, UpdateWithAuthorizationResponse, UpdateWithAuthorizationError, UpdateWithTokenResponse,
                    UpdateWithTransientTokenError, UpdateWithRegistrationResponse, SetNeedsTokenRefresh, Expire,
                    Answer, RefreshSucceeds, RefreshRefused, RefreshFails, vars
      <3>. QED BY <1>1, <3>1 DEF IInv, TypeOK
    <2>2. ASSUME NEW b \in Actions, CheckFresh(b) PROVE needsRefresh' = "no" /\ Response' # 0
      BY <1>1, <2>2 DEF CheckFresh, Dispatch, IsTokenFresh, Response, IInv, TypeOK
    <2>3. ASSUME NEW b \in Actions, CheckRefreshToken(b) PROVE needsRefresh' = "no" /\ Response' # 0
      <3>1. CASE blocks' = blocks
        BY <1>1, <3>1 DEF IInv, TypeOK
      <3>2. CASE Dispatch({b}, "no refresh token")
        <4>1. CASE a = b
          <5>1. outcome'[a] = "no refresh token"
            BY <3>2, <4>1 DEF Dispatch
          <5>. QED BY <1>1, <5>1
        <4>2. CASE a # b
          <5>1. blocks'[a] = blocks[a]
            BY <3>2, <4>2 DEF Dispatch
          <5>. QED BY <1>1, <5>1 DEF IInv, TypeOK
        <4>. QED BY <4>1, <4>2
      <3>. QED BY <2>3, <3>1, <3>2 DEF CheckRefreshToken
    <2>4. ASSUME NEW b \in Actions, Enqueue(b) \/ StartRefresh(b) PROVE needsRefresh' = "no" /\ Response' # 0
      BY <1>1, <2>4 DEF Enqueue, StartRefresh, IInv, TypeOK
    <2>5. CASE Drain
      BY <1>1, <2>5 DEF Drain, Dispatch, Response, IInv, TypeOK, OneThreadInv
    <2>6. ASSUME NEW b \in Actions, RunAction(b) PROVE needsRefresh' = "no" /\ Response' # 0
      <3>1. blocks \in [Actions -> 0 .. 2]
        BY <1>1 DEF IInv, TypeOK
      <3>2. blocks' = [blocks EXCEPT ![b] = blocks[b] - 1]
        BY <2>6 DEF RunAction
      <3>3. blocks'[a] <= blocks[a]
        BY <3>1, <3>2
      <3>. QED BY <1>1, <3>1, <3>2, <3>3
    <2>7. CASE Restart
      BY <1>1, <2>7 DEF Restart, IInv, TypeOK
    <2>. QED BY <1>1, <2>1, <2>2, <2>3, <2>4, <2>5, <2>6, <2>7 DEF Next, Perform
  <1>2. IInv /\ [Next]_vars => [\A a \in Actions :
          (threads = "main" /\ blocks'[a] > blocks[a] /\ outcome'[a] = "none") =>
             /\ needsRefresh' = "no"
             /\ AccessToken' # 0 \/ Response' \in bare']_vars
    BY <1>1 DEF AccessToken
  <1>. QED BY <1>2, Invariant, PTL DEF Spec, DispatchedFresh

=============================================================================
