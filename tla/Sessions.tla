------------------------------ MODULE Sessions ------------------------------
(***************************************************************************)
(* BugsnagSessionTracker, its file store and                               *)
(* BugsnagSessionTrackingApiClient: the current session, the copy of it    *)
(* that the crash handler would write, the stored sessions and their       *)
(* requests.                                                               *)
(*                                                                         *)
(* The tracker has no lock of its own. Its methods are called on the main  *)
(* thread or on any thread (threads); each is a sequence of steps, between *)
(* which another thread, an answer of the server or the end of the process *)
(* may come. Sessions are numbered in the order they are started in.       *)
(*                                                                         *)
(* A call that returns before it has made a session (release stage, no     *)
(* sessionURL, an onSession block) changes nothing and is left out, and so *)
(* is what decides when the application starts one. The two counts of a     *)
(* session are treated alike, and their sum stands for both.               *)
(***************************************************************************)
EXTENDS Integers, Sequences, FiniteSets

CONSTANTS Threads, MainThread,
          None,
          MaxPersistedSessions,
          MaxSessions,     \* bound: sessions made
          MaxCount,        \* bound: errors of a session
          MaxRelaunches    \* bound: ends of the process

ASSUME NoneAssumption == None \notin 1 .. MaxSessions
ASSUME MainThreadAssumption == MainThread \in Threads
ASSUME LimitAssumption == MaxPersistedSessions \in Nat \ {0}
ASSUME BoundsAssumption == MaxSessions \in Nat /\ MaxCount \in Nat /\ MaxRelaunches \in Nat

VARIABLES
    threads,      \* the threads that call the tracker: "main" or "any"
    made,         \* number of sessions made
    current,      \* currentSession
    stopped,      \* isStopped of currentSession
    count,        \* session -> handledCount + unhandledCount
    crashData,    \* what BSSerializeDataCrashHandler would write
    call,         \* thread -> what is left of its call
    created,      \* NSFileCreationDate of each session's file, 0 if there is none
    clock,        \* the time, in files written so far
    outcome,      \* session -> how far it got
    activeIds,
    sendQueue,    \* sessions whose operation has not run
    requests,     \* session -> requests without an answer
    handlers,     \* session -> completion handlers that have not released it
    relaunches

tracker == <<made, current, stopped, count>>
store   == <<created, clock>>
client  == <<activeIds, sendQueue, requests, handlers>>
vars    == <<threads, tracker, crashData, call, store, outcome, client, relaunches>>

-----------------------------------------------------------------------------

Ids == 1 .. MaxSessions

\* The sessions that have a file
Files == {s \in Ids : created[s] # 0}

Idle == [at |-> "idle", session |-> None, then |-> "return", list |-> {}]

Calls == [at : {"idle", "write", "prune", "evict", "current", "callback", "counts",
                "lock", "list", "deliver"},
          session : Ids \cup {None}, then : {"return", "list", "unlock"}, list : SUBSET Ids]

TypeOK ==
    /\ threads \in {"main", "any"}
    /\ made \in 0 .. MaxSessions
    /\ current \in 1 .. made \cup {None}
    /\ stopped \in BOOLEAN
    /\ count \in [Ids -> 0 .. MaxCount]
    /\ crashData \in [recorded : BOOLEAN, session : Ids \cup {None}, count : 0 .. MaxCount]
    /\ call \in [Threads -> Calls]
    /\ clock \in Nat /\ created \in [Ids -> 0 .. clock]
    /\ \A s, n \in Files : created[s] = created[n] => s = n
    /\ outcome \in [Ids -> {"none", "registered", "new", "unwritten", "written", "settled"}]
    /\ activeIds \subseteq 1 .. made
    /\ sendQueue \in Seq(1 .. made)
    /\ requests \in [Ids -> Nat] /\ handlers \in [Ids -> Nat]
    /\ relaunches \in 0 .. MaxRelaunches

NoCrashData == [recorded |-> FALSE, session |-> None, count |-> 0]

Init ==
    /\ threads \in {"main", "any"}
    /\ made = 0 /\ current = None /\ stopped = FALSE /\ count = [s \in Ids |-> 0]
    /\ crashData = NoCrashData
    /\ call = [t \in Threads |-> Idle]
    /\ created = [s \in Ids |-> 0] /\ clock = 0 /\ outcome = [s \in Ids |-> "none"]
    /\ activeIds = {} /\ sendQueue = <<>>
    /\ requests = [s \in Ids |-> 0] /\ handlers = [s \in Ids |-> 0]
    /\ relaunches = 0

MayCall(t) == call[t] = Idle /\ (threads = "main" => t = MainThread)

Become(t, at, s, then, list) ==
    call' = [call EXCEPT ![t] = [at |-> at, session |-> s, then |-> then, list |-> list]]
Return(t) == call' = [call EXCEPT ![t] = Idle]

RunningSession == IF stopped THEN None ELSE current

-----------------------------------------------------------------------------
(***************************************************************************)
(* The tracker's methods                                                   *)
(***************************************************************************)

\* A new session becomes the current one.
Make(t) ==
    /\ made < MaxSessions
    /\ made' = made + 1 /\ current' = made + 1
    /\ outcome' = [outcome EXCEPT ![made + 1] = "new"]
    /\ stopped' = FALSE
    /\ Become(t, "write", None, "list", {})
    /\ UNCHANGED count

StartNewSession(t) ==
    /\ MayCall(t)
    /\ Make(t)
    /\ UNCHANGED <<threads, crashData, store, client, relaunches>>

\* Mutant: the crash data keeps the session that is stopped.
MutPauseSession(t) ==
    /\ MayCall(t)
    /\ stopped' = (current # None)
    /\ UNCHANGED <<call, threads, made, current, count, crashData, store, outcome, client, relaunches>>

PauseSession(t) ==
    /\ MayCall(t)
    /\ stopped' = (current # None)
    /\ Become(t, "callback", None, "return", {})
    /\ UNCHANGED <<threads, made, current, count, crashData, store, outcome, client, relaunches>>

ResumeSession(t) ==
    /\ MayCall(t)
    /\ \/ current = None /\ Make(t)
       \/ /\ current # None
          /\ stopped' = FALSE
          /\ UNCHANGED <<made, current, count, outcome, call>>
    /\ UNCHANGED <<threads, crashData, store, client, relaunches>>

\* The session of another notifier, which reports it itself, or none
RegisterExistingSession(t) ==
    /\ MayCall(t)
    /\ \/ current' = None /\ UNCHANGED <<made, count, outcome>>
       \/ /\ made < MaxSessions
          /\ made' = made + 1 /\ current' = made + 1
          /\ outcome' = [outcome EXCEPT ![made + 1] = "registered"]
          /\ \E n \in 0 .. MaxCount : count' = [count EXCEPT ![made + 1] = n]
    /\ stopped' = FALSE
    /\ Become(t, "current", None, "return", {})
    /\ UNCHANGED <<threads, crashData, store, client, relaunches>>

\* handleHandledErrorEvent and handleUnhandledErrorEvent, up to the lock
HandleErrorEvent(t) ==
    /\ MayCall(t)
    /\ RunningSession # None
    /\ Become(t, "lock", RunningSession, "unlock", {})
    /\ UNCHANGED <<threads, tracker, crashData, store, outcome, client, relaunches>>

\* Another thread is inside @synchronized (session).
Locked(s) == \E t \in Threads : call[t].session = s /\ call[t].then = "unlock" /\ call[t].at # "lock"

CountError(t) ==
    /\ call[t].at = "lock" /\ ~ Locked(call[t].session)
    /\ count[call[t].session] < MaxCount
    /\ count' = [count EXCEPT ![call[t].session] = @ + 1]
    /\ Become(t, "callback", call[t].session, "unlock", {})
    /\ UNCHANGED <<threads, made, current, stopped, crashData, store, outcome, client, relaunches>>

-----------------------------------------------------------------------------
(***************************************************************************)
(* BSGWriteSessionCrashData, the callback                                  *)
(***************************************************************************)

\* What follows the callback: the return, or the delivery of the stored sessions.
AfterCallback(t) ==
    IF call[t].then = "list" THEN Become(t, "list", None, "return", {}) ELSE Return(t)

WriteSessionId(t) ==
    /\ call[t].at \in {"current", "callback"}
    /\ LET s == IF call[t].at = "current" THEN current ELSE call[t].session
       IN  IF s = None
           THEN crashData' = [crashData EXCEPT !.recorded = FALSE] /\ AfterCallback(t)
           ELSE /\ crashData' = [crashData EXCEPT !.session = s]
                /\ Become(t, "counts", s, call[t].then, {})
    /\ UNCHANGED <<threads, tracker, store, outcome, client, relaunches>>

WriteSessionCounts(t) ==
    /\ call[t].at = "counts"
    /\ crashData' = [crashData EXCEPT !.recorded = TRUE, !.count = count[call[t].session]]
    /\ AfterCallback(t)
    /\ UNCHANGED <<threads, tracker, store, outcome, client, relaunches>>

-----------------------------------------------------------------------------
(***************************************************************************)
(* BugsnagSessionFileStore                                                 *)
(***************************************************************************)

\* Written atomically: a file of the same name is replaced by a new one.
WriteFile(s) ==
    /\ clock' = clock + 1
    /\ created' = [created EXCEPT ![s] = clock + 1]

DeleteFiles(set) ==
    /\ created' = [s \in Ids |-> IF s \in set THEN 0 ELSE created[s]]
    /\ UNCHANGED clock

\* write: reads currentSession anew.
Write(t) ==
    /\ call[t].at = "write"
    /\ \/ /\ current # None
          /\ WriteFile(current)
          /\ outcome' = [outcome EXCEPT ![current] = "written"]
          /\ Become(t, "prune", None, "list", {})
       \/ \* no session, or no space
          /\ outcome' = IF current # None /\ outcome[current] = "new"
                        THEN [outcome EXCEPT ![current] = "unwritten"] ELSE outcome
          /\ Become(t, "current", None, "list", {})
          /\ UNCHANGED store
    /\ UNCHANGED <<threads, tracker, crashData, client, relaunches>>

\* The sessions whose files are newer, by the creation date
Newer(s) == {n \in Files : created[n] > created[s]}

\* Mutant: one too many.
MutExcess == {s \in Files : Cardinality(Newer(s)) >= MaxPersistedSessions - 1}

\* The oldest files
Excess == {s \in Files : Cardinality(Newer(s)) >= MaxPersistedSessions}

ListExcess(t) ==
    /\ call[t].at = "prune"
    /\ Become(t, "evict", None, "list", Excess)
    /\ UNCHANGED <<threads, tracker, crashData, store, outcome, client, relaunches>>

Evict(t) ==
    /\ call[t].at = "evict"
    /\ DeleteFiles(call[t].list)
    /\ Become(t, "current", None, "list", {})
    /\ UNCHANGED <<threads, tracker, crashData, outcome, client, relaunches>>

-----------------------------------------------------------------------------
(***************************************************************************)
(* BugsnagSessionTrackingApiClient                                         *)
(***************************************************************************)

\* allFilesByName: a file that goes before it is read is left out.
ListFiles(t) ==
    /\ call[t].at = "list"
    /\ IF Files = {} THEN Return(t) ELSE Become(t, "deliver", None, "return", Files)
    /\ UNCHANGED <<threads, tracker, crashData, store, outcome, client, relaunches>>

DeliverRest(t, s) ==
    IF call[t].list = {s} THEN Return(t) ELSE Become(t, "deliver", None, "return", call[t].list \ {s})

\* Mutant: activeIds is not looked at.
MutDeliver(t) ==
    /\ call[t].at = "deliver"
    /\ \E s \in call[t].list :
          /\ DeliverRest(t, s)
          /\ activeIds' = activeIds \cup {s} /\ sendQueue' = Append(sendQueue, s)
    /\ UNCHANGED <<threads, tracker, crashData, store, outcome, requests, handlers, relaunches>>

\* One of the listed files, in no particular order
Deliver(t) ==
    /\ call[t].at = "deliver"
    /\ \E s \in call[t].list :
          /\ DeliverRest(t, s)
          /\ IF s \in activeIds
             THEN UNCHANGED <<activeIds, sendQueue>>
             ELSE activeIds' = activeIds \cup {s} /\ sendQueue' = Append(sendQueue, s)
    /\ UNCHANGED <<threads, tracker, crashData, store, outcome, requests, handlers, relaunches>>

\* The operation at the head of sendQueue
Send ==
    /\ sendQueue # <<>>
    /\ requests' = [requests EXCEPT ![Head(sendQueue)] = @ + 1]
    /\ sendQueue' = Tail(sendQueue)
    /\ UNCHANGED <<threads, tracker, crashData, call, store, outcome, activeIds, handlers, relaunches>>

Answers == {"delivered", "failed", "undeliverable"}

\* Mutant: a session that was not delivered is not released.
MutAnswer(s, answer) ==
    /\ requests[s] > 0
    /\ requests' = [requests EXCEPT ![s] = @ - 1]
    /\ handlers' = [handlers EXCEPT ![s] = IF answer = "failed" THEN @ ELSE @ + 1]
    /\ IF answer = "failed"
       THEN UNCHANGED <<store, outcome>>
       ELSE DeleteFiles({s}) /\ outcome' = [outcome EXCEPT ![s] = "settled"]
    /\ UNCHANGED <<threads, tracker, crashData, call, activeIds, sendQueue, relaunches>>

\* Mutant: the completion handler is called twice.
MutAnswerTwice(s, answer) ==
    /\ requests[s] > 0
    /\ requests' = [requests EXCEPT ![s] = @ - 2]
    /\ handlers' = [handlers EXCEPT ![s] = @ + 2]
    /\ IF answer = "failed"
       THEN UNCHANGED <<store, outcome>>
       ELSE DeleteFiles({s}) /\ outcome' = [outcome EXCEPT ![s] = "settled"]
    /\ UNCHANGED <<threads, tracker, crashData, call, activeIds, sendQueue, relaunches>>

\* The completion handler, up to its lock. A request that failed may have
\* reached the server.
Answer(s, answer) ==
    /\ requests[s] > 0
    /\ requests' = [requests EXCEPT ![s] = @ - 1]
    /\ handlers' = [handlers EXCEPT ![s] = @ + 1]
    /\ IF answer = "failed"
       THEN UNCHANGED <<store, outcome>>
       ELSE DeleteFiles({s}) /\ outcome' = [outcome EXCEPT ![s] = "settled"]
    /\ UNCHANGED <<threads, tracker, crashData, call, activeIds, sendQueue, relaunches>>

Release(s) ==
    /\ handlers[s] > 0
    /\ handlers' = [handlers EXCEPT ![s] = @ - 1]
    /\ activeIds' = activeIds \ {s}
    /\ UNCHANGED <<threads, tracker, crashData, call, store, outcome, sendQueue, requests, relaunches>>

-----------------------------------------------------------------------------

\* The process ends, and the application is launched again.
Relaunch ==
    /\ relaunches < MaxRelaunches
    /\ relaunches' = relaunches + 1
    /\ current' = None /\ stopped' = FALSE /\ count' = [s \in Ids |-> 0]
    /\ crashData' = NoCrashData
    /\ call' = [t \in Threads |-> Idle]
    /\ outcome' = [s \in Ids |-> IF outcome[s] = "new" THEN "unwritten" ELSE outcome[s]]
    /\ activeIds' = {} /\ sendQueue' = <<>>
    /\ requests' = [s \in Ids |-> 0] /\ handlers' = [s \in Ids |-> 0]
    /\ UNCHANGED <<threads, made, store>>

Proceed(t) ==
    \/ CountError(t) \/ WriteSessionId(t) \/ WriteSessionCounts(t)
    \/ Write(t) \/ ListExcess(t) \/ Evict(t) \/ ListFiles(t) \/ Deliver(t)

Next ==
    \/ \E t \in Threads :
          \/ StartNewSession(t) \/ PauseSession(t) \/ ResumeSession(t)
          \/ RegisterExistingSession(t) \/ HandleErrorEvent(t) \/ Proceed(t)
    \/ Send
    \/ \E s \in Ids : Release(s) \/ \E answer \in Answers : Answer(s, answer)
    \/ Relaunch

Spec == Init /\ [][Next]_vars

\* The operation queue runs its operations, a request is answered or times out,
\* and a completion handler runs to its end.
FairSpec ==
    /\ Spec
    /\ WF_vars(Send)
    /\ \A s \in Ids : WF_vars(Release(s)) /\ WF_vars(\E answer \in Answers : Answer(s, answer))

-----------------------------------------------------------------------------
(***************************************************************************)
(* Properties                                                              *)
(***************************************************************************)

\* Requests of a session that are queued, on their way or being completed
InFlight(s) == Cardinality({i \in DOMAIN sendQueue : sendQueue[i] = s}) + requests[s] + handlers[s]

\* activeIds holds exactly the sessions that are being sent, and each of them
\* is being sent once, however many threads go through the same files
\* (deliverSessionsInStore:).
ActiveExact == \A s \in Ids : InFlight(s) = IF s \in activeIds THEN 1 ELSE 0

\* A session that was started on the main thread is written by the call that
\* started it, and its file stays until the server has taken or refused it or
\* as many newer sessions as may be kept were written (write:,
\* pruneFilesLeaving:, deleteFileWithId:).
SessionsKept ==
    threads = "main" =>
        \A s \in Ids :
            /\ outcome[s] = "new" => s = current /\ call[MainThread].at = "write"
            /\ outcome[s] = "written" =>
                  \/ s \in Files
                  \/ Cardinality({n \in Ids : n > s /\ outcome[n] \in {"written", "settled"}}) >= MaxPersistedSessions

\* Called on the main thread alone, the tracker leaves no session in the crash
\* data that is not the running one, nor counts it has not reached or passed
\* (pauseSession, registerExistingSession:..., startNewSession and the error
\* handlers, which call the callback).
NoStaleCrashData ==
    threads = "main" /\ call[MainThread] = Idle /\ crashData.recorded =>
        /\ crashData.session = RunningSession
        /\ crashData.count = count[crashData.session]

\* A session that is being sent is released, so that it can be sent again
\* (deliverSessionsInStore:).
ActiveReleased == \A s \in Ids : s \in activeIds ~> s \notin activeIds

\* A crash after resumeSession counts towards the session that was resumed:
\* when no call is under way and a session runs, the crash data names it
\* (Bugsnag.h).
CrashCountsForRunningSession ==
    threads = "main" /\ call[MainThread] = Idle /\ RunningSession # None =>
        crashData.recorded /\ crashData.session = RunningSession

=============================================================================
