---------------------------- MODULE SessionsProofs ----------------------------
(***************************************************************************)
(* Sessions are sent once at a time, kept, and named rightly in the crash  *)
(* data, for any number of threads, sessions and relaunches.               *)
(***************************************************************************)
EXTENDS Sessions, FiniteSetTheorems, TLAPS

\* What is left of a call: nothing names a session that was not made, and a call
\* that counts or copies an error has a session.
CallOK(c) ==
    /\ c \in Calls
    /\ c.session \in 1 .. made \cup {None} /\ c.list \subseteq 1 .. made
    /\ c.at \in {"lock", "counts"} => c.session # None
    /\ c.at = "idle" => c = Idle

CallsInv ==
    /\ \A s \in Files : s <= made
    /\ \A t \in Threads : CallOK(call[t])

\* ActiveExact without counting: a session is queued once, or has one request or
\* one handler, and one of these is the case just for the ids in activeIds.
Queued(s) == \E i \in 1 .. Len(sendQueue) : sendQueue[i] = s

QueuedOnce == \A i, j \in 1 .. Len(sendQueue) : sendQueue[i] = sendQueue[j] => i = j

OnceInv ==
    /\ QueuedOnce
    /\ \A s \in Ids :
          /\ requests[s] + handlers[s] = IF s \in activeIds /\ ~ Queued(s) THEN 1 ELSE 0
          /\ Queued(s) => s \in activeIds

\* What the crash data says is true of the current session.
Fresh == crashData.recorded =>
            /\ ~ stopped /\ current # None
            /\ crashData.session = current /\ crashData.count = count[current]

\* On the main thread alone nothing comes between the steps of a call, so that
\* each of them finds the session the call was about.
MainOK(c) ==
    /\ c.at \in {"idle", "list", "deliver"} => Fresh
    /\ c.at \in {"write", "prune", "evict", "current"} => ~ stopped
    /\ c.at = "lock" \/ (c.at = "callback" /\ c.session # None) => ~ stopped /\ c.session = current
    /\ c.at = "counts" => ~ stopped /\ c.session = current /\ crashData.session = current

MainInv ==
    threads = "main" =>
        /\ \A t \in Threads \ {MainThread} : call[t] = Idle
        /\ MainOK(call[MainThread])

\* Sessions written after s: as many as may be kept, if s is to go.
Later(s) == {n \in Ids : n > s /\ outcome[n] \in {"written", "settled"}}
Enough(s) == Cardinality(Later(s)) >= MaxPersistedSessions

\* On the main thread alone files are written in the order in which sessions are
\* made; what a call lists to be deleted stays excessive until it deletes it.
FilesInv ==
    /\ \A s \in Files : outcome[s] = "written"
    /\ \A s, n \in Files : created[n] > created[s] => n > s
    /\ \A s \in Ids : s > made => outcome[s] = "none"

StartedInv ==
    /\ \A s \in Ids : outcome[s] = "new" => s = current /\ call[MainThread].at = "write"
    /\ call[MainThread].at = "write" => current = made /\ made > 0

GoneInv ==
    /\ call[MainThread].at = "evict" => \A s \in call[MainThread].list : Enough(s)
    /\ \A s \in Ids : outcome[s] = "written" => s \in Files \/ Enough(s)

KeptInv == threads = "main" => FilesInv /\ StartedInv /\ GoneInv

IInv == TypeOK /\ CallsInv /\ OnceInv /\ MainInv /\ KeptInv

-----------------------------------------------------------------------------
(***************************************************************************)
(* Types                                                                   *)
(***************************************************************************)

\* What a step of thread t leaves of the calls: those of the others. The calls
\* stay well formed when sessions are made.
LEMMA Steps ==
    ASSUME TypeOK, CallsInv, NEW t \in Threads, NEW c,
           call' = [call EXCEPT ![t] = c],
           made' \in made .. MaxSessions, CallOK(c)'
    PROVE  /\ call' \in [Threads -> Calls]
           /\ call'[t] = c
           /\ \A u \in Threads \ {t} : call'[u] = call[u]
           /\ (\A u \in Threads : CallOK(call[u]))'
  <1>1. made \in Nat /\ MaxSessions \in Nat /\ call \in [Threads -> Calls] /\ c \in Calls
    BY BoundsAssumption DEF TypeOK, CallOK
  <1>2. \A d : CallOK(d) => CallOK(d)'
    BY <1>1 DEF CallOK
  <1>. QED BY <1>1, <1>2 DEF CallsInv

\* What Become and Return leave of the calls.
LEMMA BecomeStep ==
    ASSUME TypeOK, CallsInv, NEW t \in Threads, made' \in made .. MaxSessions,
           NEW at \in {"write", "prune", "evict", "current", "callback", "counts", "lock", "list", "deliver"},
           NEW s \in 1 .. made' \cup {None}, NEW then \in {"return", "list", "unlock"},
           NEW list \in SUBSET (1 .. made'), at \in {"lock", "counts"} => s # None,
           Become(t, at, s, then, list)
    PROVE  /\ call' \in [Threads -> Calls]
           /\ call'[t] = [at |-> at, session |-> s, then |-> then, list |-> list]
           /\ \A u \in Threads \ {t} : call'[u] = call[u]
           /\ (\A u \in Threads : CallOK(call[u]))'
  <1>. DEFINE c == [at |-> at, session |-> s, then |-> then, list |-> list]
  <1>1. CallOK(c)'
    <2>1. 1 .. made' \subseteq Ids
      BY BoundsAssumption DEF Ids, TypeOK
    <2>2. c \in Calls /\ c.at # "idle"
      BY <2>1 DEF Calls
    <2>. QED BY <2>2 DEF CallOK, Calls, Ids
  <1>2. call' = [call EXCEPT ![t] = c]
    BY DEF Become
  <1>. HIDE DEF c
  <1>3. /\ call' \in [Threads -> Calls] /\ call'[t] = c
        /\ \A u \in Threads \ {t} : call'[u] = call[u]
        /\ (\A u \in Threads : CallOK(call[u]))'
    BY <1>1, <1>2, Steps
  <1>. QED BY <1>3 DEF c

\* What Return leaves of the calls.
LEMMA ReturnStep ==
    ASSUME TypeOK, CallsInv, NEW t \in Threads, made' = made, Return(t)
    PROVE  /\ call' \in [Threads -> Calls]
           /\ call'[t] = Idle
           /\ \A u \in Threads \ {t} : call'[u] = call[u]
           /\ (\A u \in Threads : CallOK(call[u]))'
  <1>1. CallOK(Idle)'
    BY DEF CallOK, Idle, Calls
  <1>2. made' \in made .. MaxSessions
    BY BoundsAssumption DEF TypeOK
  <1>3. call' = [call EXCEPT ![t] = Idle]
    BY DEF Return
  <1>. QED BY <1>1, <1>2, <1>3, Steps

\* Adding an operation to the queue.
LEMMA QueueAppend ==
    ASSUME NEW S, NEW q \in Seq(S), NEW x \in S
    PROVE  /\ Append(q, x) \in Seq(S) /\ Len(q) \in Nat /\ Len(Append(q, x)) = Len(q) + 1
           /\ Append(q, x)[Len(q) + 1] = x
           /\ \A i \in 1 .. Len(q) : Append(q, x)[i] = q[i]
  OBVIOUS

\* Taking the first operation off the queue.
LEMMA QueueTail ==
    ASSUME NEW S, NEW q \in Seq(S), q # <<>>
    PROVE  /\ Tail(q) \in Seq(S) /\ Head(q) \in S /\ Len(q) \in Nat \ {0} /\ Len(Tail(q)) = Len(q) - 1
           /\ Head(q) = q[1]
           /\ \A i \in 1 .. Len(Tail(q)) : Tail(q)[i] = q[i + 1]
  OBVIOUS

\* What is known of the variables, for the provers in one place.
LEMMA Types ==
    ASSUME TypeOK
    PROVE  /\ made \in Nat /\ made <= MaxSessions /\ MaxSessions \in Nat /\ made \in made .. MaxSessions
           /\ 1 .. made \subseteq Ids /\ None \notin Ids
           /\ current \in Ids \cup {None} /\ current \in 1 .. made \cup {None}
           /\ sendQueue \in Seq(1 .. made) /\ call \in [Threads -> Calls]
           /\ MaxCount \in Nat
  BY BoundsAssumption, NoneAssumption DEF TypeOK, Ids

\* A sequence over a set is one over every larger set.
LEMMA SeqWiden ==
    ASSUME NEW S, NEW T, S \subseteq T, NEW q \in Seq(S)
    PROVE  q \in Seq(T)
  OBVIOUS

\* What TypeOK says of the files, by itself.
StoreOK ==
    /\ clock \in Nat /\ created \in [Ids -> 0 .. clock]
    /\ \A s, n \in Files : created[s] = created[n] => s = n

\* A step that writes and deletes no file
LEMMA StoreKept ==
    ASSUME TypeOK, UNCHANGED store
    PROVE  StoreOK' /\ UNCHANGED Files
  <1>1. UNCHANGED Files /\ UNCHANGED <<clock, created>>
    BY DEF store, Files
  <1>. QED BY <1>1 DEF TypeOK, StoreOK

\* What is left of the variables when one session is made.
LEMMA MakeStep ==
    ASSUME TypeOK, made < MaxSessions
    PROVE  /\ made + 1 \in Ids /\ made + 1 \in made .. MaxSessions
           /\ activeIds \subseteq 1 .. (made + 1) /\ sendQueue \in Seq(1 .. (made + 1))
  <1>1. made \in Nat /\ 1 .. made \subseteq 1 .. (made + 1) /\ made + 1 \in Ids /\ made + 1 \in made .. MaxSessions
    BY BoundsAssumption DEF TypeOK, Ids
  <1>2. sendQueue \in Seq(1 .. (made + 1))
    BY <1>1, Types
  <1>. QED BY <1>1, <1>2 DEF TypeOK

\* The methods that start, stop and replace the current session.
LEMMA MethodsBase ==
    ASSUME TypeOK, CallsInv, NEW t \in Threads,
           \/ StartNewSession(t) \/ PauseSession(t) \/ ResumeSession(t)
           \/ RegisterExistingSession(t) \/ HandleErrorEvent(t)
    PROVE  TypeOK' /\ CallsInv'
  <1>0. UNCHANGED store /\ UNCHANGED Files /\ StoreOK'
    BY StoreKept DEF StartNewSession, PauseSession, ResumeSession, RegisterExistingSession,
                     HandleErrorEvent
  <1>1. CASE /\ Make(t) /\ UNCHANGED <<threads, crashData, store, client, relaunches>>
    <2>1. made' = made + 1 /\ made' \in Ids /\ made' \in made .. MaxSessions /\ made \in Nat
      BY <1>1, MakeStep, Types DEF Make
    <2>2. call' \in [Threads -> Calls] /\ (\A u \in Threads : CallOK(call[u]))'
      BY <1>1, <2>1, BecomeStep DEF Make
    <2>3. current' \in 1 .. made' \cup {None}
      BY <1>1, <2>1 DEF Make
    <2>4. outcome' \in [Ids -> {"none", "registered", "new", "unwritten", "written", "settled"}]
      BY <1>1, <2>1 DEF Make, TypeOK
    <2>5. made' \in 0 .. MaxSessions /\ activeIds' \subseteq 1 .. made' /\ sendQueue' \in Seq(1 .. made')
      BY <1>1, <2>1, MakeStep, Types DEF Make, client
    <2>6. TypeOK'
      BY <1>0, <1>1, <2>2, <2>3, <2>4, <2>5 DEF Make, TypeOK, StoreOK, client
    <2>7. CallsInv'
      <3>1. Files' = Files /\ \A s \in Files : s \in Nat /\ s <= made
        BY <1>0 DEF CallsInv, Files, Ids
      <3>. QED BY <2>1, <2>2, <3>1 DEF CallsInv, Ids
    <2>. QED BY <2>6, <2>7
  <1>2. CASE PauseSession(t)
    <2>1. call' \in [Threads -> Calls] /\ (\A u \in Threads : CallOK(call[u]))'
      BY <1>2, Types, BecomeStep DEF PauseSession
    <2>2. TypeOK'
      BY <1>0, <1>2, <2>1 DEF PauseSession, TypeOK, StoreOK, client
    <2>. QED BY <1>0, <1>2, <2>1, <2>2 DEF PauseSession, CallsInv
  <1>3. CASE ResumeSession(t) /\ current # None /\ ~ stopped' /\ UNCHANGED <<made, current, count, outcome, call>>
    <2>1. TypeOK'
      BY <1>0, <1>3 DEF ResumeSession, TypeOK, StoreOK, client
    <2>. QED BY <1>0, <1>3, <2>1 DEF CallsInv, CallOK
  <1>4. CASE RegisterExistingSession(t)
    <2>1. made' \in Nat /\ made' \in made .. MaxSessions /\ made \in Nat /\ MaxSessions \in Nat
      BY <1>4, MakeStep, Types DEF RegisterExistingSession
    <2>2. call' \in [Threads -> Calls] /\ (\A u \in Threads : CallOK(call[u]))'
      BY <1>4, <2>1, BecomeStep DEF RegisterExistingSession
    <2>3. current' \in 1 .. made' \cup {None}
      BY <1>4, <2>1 DEF RegisterExistingSession
    <2>4. activeIds' \subseteq 1 .. made' /\ sendQueue' \in Seq(1 .. made')
      <3>1. (made' = made + 1 /\ made < MaxSessions) \/ made' = made
        BY <1>4 DEF RegisterExistingSession
      <3>2. UNCHANGED <<activeIds, sendQueue>>
        BY <1>4 DEF RegisterExistingSession, client
      <3>. QED BY <3>1, <3>2, MakeStep, Types DEF TypeOK
    <2>5. count' \in [Ids -> 0 .. MaxCount]
      BY <1>4, MakeStep DEF RegisterExistingSession, TypeOK
    <2>6. outcome' \in [Ids -> {"none", "registered", "new", "unwritten", "written", "settled"}]
      BY <1>4, MakeStep DEF RegisterExistingSession, TypeOK
    <2>7. TypeOK'
      <3>1. made' \in 0 .. MaxSessions
        BY <2>1
      <3>2. UNCHANGED <<threads, crashData, requests, handlers, relaunches>> /\ stopped' = FALSE
        BY <1>4 DEF RegisterExistingSession, client
      <3>. QED BY <1>0, <2>2, <2>3, <2>4, <2>5, <2>6, <3>1, <3>2 DEF TypeOK, StoreOK
    <2>8. CallsInv'
      <3>1. Files' = Files /\ \A s \in Files : s \in Nat /\ s <= made
        BY <1>0 DEF CallsInv, Files, Ids
      <3>. QED BY <2>1, <2>2, <3>1 DEF CallsInv, Ids
    <2>. QED BY <2>7, <2>8
  <1>5. CASE HandleErrorEvent(t)
    <2>1. RunningSession \in 1 .. made /\ RunningSession # None
      BY <1>5, Types DEF HandleErrorEvent, RunningSession
    <2>2. made' = made
      BY <1>5 DEF HandleErrorEvent, tracker
    <2>3. call' \in [Threads -> Calls] /\ (\A u \in Threads : CallOK(call[u]))'
      BY <1>5, <2>1, <2>2, Types, BecomeStep DEF HandleErrorEvent
    <2>4. TypeOK'
      BY <1>0, <1>5, <2>3 DEF HandleErrorEvent, TypeOK, StoreOK, tracker, client
    <2>. QED BY <1>0, <2>2, <2>3, <2>4 DEF CallsInv
  <1>. QED BY <1>1, <1>2, <1>3, <1>4, <1>5 DEF StartNewSession, ResumeSession

\* What AfterCallback leaves of the calls.
LEMMA AfterCallbackStep ==
    ASSUME TypeOK, CallsInv, NEW t \in Threads, made' = made, AfterCallback(t)
    PROVE  /\ call' \in [Threads -> Calls]
           /\ call'[t] = Idle \/ call'[t] = [at |-> "list", session |-> None, then |-> "return", list |-> {}]
           /\ \A u \in Threads \ {t} : call'[u] = call[u]
           /\ (\A u \in Threads : CallOK(call[u]))'
  <1>1. CASE Return(t)
    BY <1>1, ReturnStep
  <1>2. CASE Become(t, "list", None, "return", {})
    <2>1. made' \in made .. MaxSessions /\ {} \in SUBSET (1 .. made') /\ None \in 1 .. made' \cup {None}
      BY Types
    <2>2. /\ call' \in [Threads -> Calls]
          /\ call'[t] = [at |-> "list", session |-> None, then |-> "return", list |-> {}]
          /\ \A u \in Threads \ {t} : call'[u] = call[u]
          /\ (\A u \in Threads : CallOK(call[u]))'
      <3>1. /\ "list" \in {"write", "prune", "evict", "current", "callback", "counts", "lock", "list", "deliver"}
            /\ "return" \in {"return", "list", "unlock"} /\ ("list" \in {"lock", "counts"} => None # None)
        OBVIOUS
      <3>. QED BY <1>2, <2>1, <3>1, BecomeStep
    <2>. QED BY <2>2
  <1>. QED BY <1>1, <1>2 DEF AfterCallback

\* Counting an error and copying a session to the crash data.
LEMMA CallbackBase ==
    ASSUME TypeOK, CallsInv, NEW t \in Threads,
           CountError(t) \/ WriteSessionId(t) \/ WriteSessionCounts(t)
    PROVE  TypeOK' /\ CallsInv'
  <1>0. /\ UNCHANGED made /\ UNCHANGED Files /\ StoreOK' /\ made' \in made .. MaxSessions
        /\ CallOK(call[t]) /\ call[t] \in Calls /\ {} \in SUBSET (1 .. made')
    <2>1. UNCHANGED store /\ UNCHANGED made
      BY DEF CountError, WriteSessionId, WriteSessionCounts, tracker
    <2>. QED BY <2>1, StoreKept, Types DEF CallsInv
  <1>1. call' \in [Threads -> Calls] /\ (\A u \in Threads : CallOK(call[u]))'
    <2>1. CASE CountError(t)
      <3>1. call[t].session \in 1 .. made' \cup {None} /\ Become(t, "callback", call[t].session, "unlock", {})
        BY <1>0, <2>1 DEF CountError, CallOK
      <3>. QED BY <1>0, <3>1, BecomeStep
    <2>2. CASE WriteSessionId(t) /\ AfterCallback(t)
      BY <1>0, <2>2, AfterCallbackStep
    <2>. DEFINE s == IF call[t].at = "current" THEN current ELSE call[t].session
    <2>3. CASE s # None /\ Become(t, "counts", s, call[t].then, {})
      <3>1. s \in 1 .. made' \cup {None} /\ call[t].then \in {"return", "list", "unlock"}
        BY <1>0, <2>3, Types DEF CallOK, Calls
      <3>2. "counts" \in {"lock", "counts"} => s # None
        BY <2>3
      <3>. HIDE DEF s
      <3>. QED BY <1>0, <2>3, <3>1, <3>2, BecomeStep
    <2>4. CASE WriteSessionCounts(t)
      BY <1>0, <2>4, AfterCallbackStep DEF WriteSessionCounts
    <2>5. CASE WriteSessionId(t)
      <3>1. AfterCallback(t) \/ (s # None /\ Become(t, "counts", s, call[t].then, {}))
        BY <2>5, Zenon DEF WriteSessionId
      <3>. QED BY <2>2, <2>3, <2>5, <3>1
    <2>. QED BY <2>1, <2>4, <2>5
  <1>2. crashData' \in [recorded : BOOLEAN, session : Ids \cup {None}, count : 0 .. MaxCount]
    <2>1. CASE CountError(t)
      BY <2>1 DEF CountError, TypeOK
    <2>2. CASE WriteSessionId(t)
      BY <1>0, <2>2, Types DEF WriteSessionId, TypeOK, Calls
    <2>3. CASE WriteSessionCounts(t)
      <3>1. call[t].session \in Ids
        BY <1>0, <2>3, Types DEF WriteSessionCounts, CallOK
      <3>. QED BY <2>3, <3>1 DEF WriteSessionCounts, TypeOK
    <2>. QED BY <2>1, <2>2, <2>3
  <1>3. count' \in [Ids -> 0 .. MaxCount]
    <2>1. CASE CountError(t)
      <3>1. call[t].session \in Ids
        BY <1>0, <2>1, Types DEF CountError, CallOK
      <3>2. count[call[t].session] + 1 \in 0 .. MaxCount
        <4>1. count \in [Ids -> 0 .. MaxCount] /\ count[call[t].session] < MaxCount /\ MaxCount \in Nat
          BY <2>1, Types DEF CountError, TypeOK
        <4>. QED BY <3>1, <4>1
      <3>. QED BY <2>1, <3>1, <3>2 DEF CountError, TypeOK
    <2>. QED BY <2>1 DEF WriteSessionId, WriteSessionCounts, tracker, TypeOK
  <1>4. UNCHANGED <<threads, made, current, stopped, outcome, client, relaunches>>
    BY DEF CountError, WriteSessionId, WriteSessionCounts, tracker
  <1>5. TypeOK'
    BY <1>0, <1>1, <1>2, <1>3, <1>4 DEF TypeOK, StoreOK, client
  <1>. QED BY <1>0, <1>1, <1>5 DEF CallsInv

\* Writing a file makes it the newest.
LEMMA WriteFileStep ==
    ASSUME TypeOK, NEW s \in Ids, WriteFile(s)
    PROVE  /\ StoreOK' /\ Files' = Files \cup {s}
           /\ created'[s] > clock
           /\ \A n \in Ids : created[n] <= clock /\ (n # s => created'[n] = created[n])
  <1>1. /\ clock \in Nat /\ created \in [Ids -> 0 .. clock]
        /\ clock' = clock + 1 /\ created' = [created EXCEPT ![s] = clock + 1]
    BY DEF TypeOK, WriteFile
  <1>2. /\ created'[s] = clock + 1 /\ \A n \in Ids : n # s => created'[n] = created[n]
        /\ \A n \in Ids : created[n] \in Nat /\ created[n] <= clock
    BY <1>1
  <1>3. Files' = Files \cup {s}
    BY <1>1, <1>2 DEF Files
  <1>4. created' \in [Ids -> 0 .. clock'] /\ clock' \in Nat
    BY <1>1, <1>2
  <1>5. ASSUME NEW m \in Files', NEW n \in Files', created'[m] = created'[n]
        PROVE  m = n
    <2>1. CASE m = s \/ n = s
      BY <1>1, <1>2, <1>3, <1>5, <2>1 DEF Files
    <2>2. CASE m # s /\ n # s
      BY <1>2, <1>3, <1>5, <2>2 DEF TypeOK, Files
    <2>. QED BY <2>1, <2>2
  <1>. QED BY <1>1, <1>2, <1>3, <1>4, <1>5 DEF StoreOK

\* Deleting files leaves the others as they were.
LEMMA DeleteFilesStep ==
    ASSUME TypeOK, NEW set, DeleteFiles(set)
    PROVE  /\ StoreOK' /\ Files' = Files \ set
           /\ \A n \in Files' : created'[n] = created[n]
  <1>1. /\ clock \in Nat /\ created \in [Ids -> 0 .. clock] /\ clock' = clock
        /\ created' = [s \in Ids |-> IF s \in set THEN 0 ELSE created[s]]
    BY DEF TypeOK, DeleteFiles
  <1>2. created' \in [Ids -> 0 .. clock] /\ \A n \in Ids : created'[n] = IF n \in set THEN 0 ELSE created[n]
    BY <1>1
  <1>3. Files' = Files \ set
    BY <1>2 DEF Files
  <1>4. \A n \in Files' : n \in Files /\ created'[n] = created[n]
    BY <1>2, <1>3 DEF Files
  <1>5. \A m, n \in Files' : created'[m] = created'[n] => m = n
    BY <1>4 DEF TypeOK
  <1>. QED BY <1>1, <1>2, <1>3, <1>4, <1>5 DEF StoreOK

\* Writing and pruning files.
LEMMA StoreBase ==
    ASSUME TypeOK, CallsInv, NEW t \in Threads, Write(t) \/ ListExcess(t) \/ Evict(t)
    PROVE  TypeOK' /\ CallsInv'
  <1>1. /\ UNCHANGED made /\ made' \in made .. MaxSessions /\ {} \in SUBSET (1 .. made')
        /\ UNCHANGED <<threads, current, stopped, count, crashData, client, relaunches>>
    BY Types DEF Write, ListExcess, Evict, tracker
  <1>2. Files \in SUBSET (1 .. made) /\ Excess \in SUBSET (1 .. made)
    BY Types DEF CallsInv, Files, Excess, Ids
  <1>3. call' \in [Threads -> Calls] /\ (\A u \in Threads : CallOK(call[u]))'
    <2>1. CASE Write(t)
      <3>1. Become(t, "prune", None, "list", {}) \/ Become(t, "current", None, "list", {})
        BY <2>1 DEF Write
      <3>. QED BY <1>1, <3>1, BecomeStep
    <2>2. CASE ListExcess(t)
      <3>1. Become(t, "evict", None, "list", Excess) /\ Excess \in SUBSET (1 .. made')
        BY <1>1, <1>2, <2>2 DEF ListExcess
      <3>. QED BY <1>1, <3>1, BecomeStep
    <2>3. CASE Evict(t)
      BY <1>1, <2>3, BecomeStep DEF Evict
    <2>. QED BY <2>1, <2>2, <2>3
  <1>4. StoreOK' /\ Files' \subseteq 1 .. made
    <2>1. CASE Write(t) /\ UNCHANGED store
      BY <1>2, <2>1, StoreKept
    <2>2. CASE Write(t) /\ current # None /\ WriteFile(current)
      <3>1. current \in 1 .. made /\ current \in Ids
        BY <2>2, Types
      <3>. QED BY <1>2, <2>2, <3>1, WriteFileStep
    <2>3. CASE ListExcess(t)
      BY <1>2, <2>3, StoreKept DEF ListExcess
    <2>4. CASE Evict(t)
      <3>1. DeleteFiles(call[t].list)
        BY <2>4 DEF Evict
      <3>. QED BY <1>2, <3>1, DeleteFilesStep
    <2>. QED BY <2>1, <2>2, <2>3, <2>4 DEF Write
  <1>5. outcome' \in [Ids -> {"none", "registered", "new", "unwritten", "written", "settled"}]
    <2>1. CASE Write(t)
      BY <2>1 DEF Write, TypeOK
    <2>2. CASE ListExcess(t) \/ Evict(t)
      BY <2>2 DEF ListExcess, Evict, TypeOK
    <2>. QED BY <2>1, <2>2
  <1>6. TypeOK'
    BY <1>1, <1>3, <1>4, <1>5 DEF TypeOK, StoreOK, client
  <1>7. \A s \in Files' : s <= made'
    BY <1>1, <1>4, Types
  <1>. QED BY <1>3, <1>6, <1>7 DEF CallsInv

\* Listing the files and delivering their sessions.
LEMMA DeliverBase ==
    ASSUME TypeOK, CallsInv, NEW t \in Threads, ListFiles(t) \/ Deliver(t)
    PROVE  TypeOK' /\ CallsInv'
  <1>1. /\ UNCHANGED made /\ made' \in made .. MaxSessions
        /\ UNCHANGED <<threads, current, stopped, count, crashData, store, outcome, requests, handlers, relaunches>>
        /\ StoreOK' /\ UNCHANGED Files
    BY Types, StoreKept DEF ListFiles, Deliver, tracker, client
  <1>2. Files \in SUBSET (1 .. made)
    BY Types DEF CallsInv, Files, Ids
  <1>3. CASE ListFiles(t)
    <2>1. call' \in [Threads -> Calls] /\ (\A u \in Threads : CallOK(call[u]))'
      <3>1. Return(t) \/ Become(t, "deliver", None, "return", Files)
        BY <1>3 DEF ListFiles
      <3>. QED BY <1>1, <1>2, <3>1, BecomeStep, ReturnStep
    <2>2. TypeOK'
      BY <1>1, <1>3, <2>1 DEF ListFiles, TypeOK, StoreOK, client
    <2>. QED BY <1>1, <2>1, <2>2 DEF CallsInv
  <1>4. CASE Deliver(t)
    <2>1. PICK s \in call[t].list :
             /\ DeliverRest(t, s)
             /\ \/ UNCHANGED <<activeIds, sendQueue>>
                \/ activeIds' = activeIds \cup {s} /\ sendQueue' = Append(sendQueue, s)
      BY <1>4 DEF Deliver
    <2>2. s \in 1 .. made /\ call[t].list \ {s} \in SUBSET (1 .. made)
      BY DEF CallsInv, CallOK
    <2>3. call' \in [Threads -> Calls] /\ (\A u \in Threads : CallOK(call[u]))'
      <3>1. Return(t) \/ Become(t, "deliver", None, "return", call[t].list \ {s})
        BY <2>1 DEF DeliverRest
      <3>. QED BY <1>1, <2>2, <3>1, BecomeStep, ReturnStep
    <2>4. activeIds' \subseteq 1 .. made /\ sendQueue' \in Seq(1 .. made)
      <3>1. activeIds \subseteq 1 .. made /\ sendQueue \in Seq(1 .. made)
        BY DEF TypeOK
      <3>2. Append(sendQueue, s) \in Seq(1 .. made)
        BY <2>2, <3>1, QueueAppend
      <3>3. activeIds \cup {s} \subseteq 1 .. made
        BY <2>2, <3>1
      <3>. QED BY <2>1, <3>1, <3>2, <3>3
    <2>5. TypeOK'
      BY <1>1, <2>3, <2>4 DEF TypeOK, StoreOK
    <2>. QED BY <1>1, <2>3, <2>5 DEF CallsInv
  <1>. QED BY <1>3, <1>4

\* Sending, the answers of the server, and the end of the process.
LEMMA OthersBase ==
    ASSUME TypeOK, CallsInv,
           Send \/ Relaunch \/ \E s \in Ids : Release(s) \/ \E answer \in Answers : Answer(s, answer)
    PROVE  TypeOK' /\ CallsInv'
  <1>1. CASE Send
    <2>1. StoreOK' /\ UNCHANGED Files /\ UNCHANGED <<made, call>>
      BY <1>1, StoreKept DEF Send, tracker
    <2>2. Head(sendQueue) \in Ids /\ sendQueue' \in Seq(1 .. made)
      <3>1. sendQueue \in Seq(1 .. made) /\ sendQueue # <<>> /\ sendQueue' = Tail(sendQueue)
        BY <1>1, Types DEF Send
      <3>. QED BY <3>1, QueueTail, Types
    <2>3. requests' \in [Ids -> Nat]
      <3>1. requests' = [requests EXCEPT ![Head(sendQueue)] = @ + 1] /\ requests \in [Ids -> Nat]
        BY <1>1 DEF Send, TypeOK
      <3>. QED BY <2>2, <3>1
    <2>4. TypeOK'
      BY <1>1, <2>1, <2>2, <2>3 DEF Send, TypeOK, StoreOK, tracker
    <2>. QED BY <2>1, <2>4 DEF CallsInv, CallOK
  <1>2. CASE Relaunch
    <2>1. StoreOK' /\ UNCHANGED Files /\ UNCHANGED <<threads, made>>
      BY <1>2, StoreKept DEF Relaunch
    <2>2. call' = [t \in Threads |-> Idle] /\ Idle \in Calls
      BY <1>2 DEF Relaunch, Idle, Calls
    <2>3. outcome' \in [Ids -> {"none", "registered", "new", "unwritten", "written", "settled"}]
      BY <1>2 DEF Relaunch, TypeOK
    <2>4. crashData' \in [recorded : BOOLEAN, session : Ids \cup {None}, count : 0 .. MaxCount]
      BY <1>2, Types DEF Relaunch, NoCrashData
    <2>5. relaunches' \in 0 .. MaxRelaunches
      BY <1>2, BoundsAssumption DEF Relaunch, TypeOK
    <2>6. /\ current' = None /\ stopped' = FALSE /\ count' \in [Ids -> 0 .. MaxCount] /\ activeIds' = {}
          /\ sendQueue' \in Seq(1 .. made) /\ requests' \in [Ids -> Nat] /\ handlers' \in [Ids -> Nat]
      <3>1. /\ count' = [s \in Ids |-> 0] /\ requests' = [s \in Ids |-> 0] /\ handlers' = [s \in Ids |-> 0]
            /\ current' = None /\ stopped' = FALSE /\ activeIds' = {} /\ sendQueue' = <<>>
        BY <1>2 DEF Relaunch
      <3>. QED BY <3>1, Types
    <2>7. TypeOK'
      BY <2>1, <2>2, <2>3, <2>4, <2>5, <2>6 DEF TypeOK, StoreOK
    <2>8. (\A t \in Threads : CallOK(call[t]))'
      BY <2>2 DEF CallOK, Idle
    <2>. QED BY <2>1, <2>7, <2>8 DEF CallsInv
  <1>3. ASSUME NEW s \in Ids, Release(s)
        PROVE  TypeOK' /\ CallsInv'
    <2>1. StoreOK' /\ UNCHANGED Files /\ UNCHANGED <<made, call>>
      <3>1. UNCHANGED store /\ UNCHANGED <<made, call>>
        BY <1>3 DEF Release, tracker
      <3>. QED BY <3>1, StoreKept
    <2>2. handlers' \in [Ids -> Nat]
      <3>1. handlers \in [Ids -> Nat] /\ handlers[s] > 0 /\ handlers' = [handlers EXCEPT ![s] = handlers[s] - 1]
        BY <1>3 DEF Release, TypeOK
      <3>2. handlers[s] - 1 \in Nat
        BY <3>1
      <3>. QED BY <3>1, <3>2
    <2>3. TypeOK'
      BY <1>3, <2>1, <2>2 DEF Release, TypeOK, StoreOK, tracker
    <2>. QED BY <2>1, <2>3 DEF CallsInv, CallOK
  <1>4. ASSUME NEW s \in Ids, NEW answer \in Answers, Answer(s, answer)
        PROVE  TypeOK' /\ CallsInv'
    <2>1. StoreOK' /\ Files' \subseteq Files
      <3>1. UNCHANGED store \/ DeleteFiles({s})
        BY <1>4 DEF Answer
      <3>. QED BY <3>1, StoreKept, DeleteFilesStep
    <2>2. UNCHANGED <<threads, made, current, stopped, count, crashData, call, activeIds, sendQueue, relaunches>>
      BY <1>4 DEF Answer, tracker
    <2>3. requests' \in [Ids -> Nat] /\ handlers' \in [Ids -> Nat]
      <3>1. /\ requests \in [Ids -> Nat] /\ handlers \in [Ids -> Nat] /\ requests[s] > 0
            /\ requests' = [requests EXCEPT ![s] = requests[s] - 1]
            /\ handlers' = [handlers EXCEPT ![s] = handlers[s] + 1]
        BY <1>4 DEF Answer, TypeOK
      <3>2. requests[s] - 1 \in Nat /\ handlers[s] + 1 \in Nat
        BY <3>1
      <3>. QED BY <3>1, <3>2
    <2>4. outcome' \in [Ids -> {"none", "registered", "new", "unwritten", "written", "settled"}]
      <3>1. outcome' = outcome \/ outcome' = [outcome EXCEPT ![s] = "settled"]
        BY <1>4 DEF Answer
      <3>. QED BY <3>1 DEF TypeOK
    <2>5. TypeOK'
      BY <2>1, <2>2, <2>3, <2>4 DEF TypeOK, StoreOK
    <2>. QED BY <2>1, <2>2, <2>5 DEF CallsInv, CallOK
  <1>. QED BY <1>1, <1>2, <1>3, <1>4

\* Types and the form of the calls are kept by every step.
LEMMA BaseStep ==
    ASSUME TypeOK, CallsInv, [Next]_vars
    PROVE  TypeOK' /\ CallsInv'
  <1>1. CASE UNCHANGED vars
    <2>1. StoreOK' /\ UNCHANGED Files
      BY <1>1, StoreKept DEF vars
    <2>. QED BY <1>1, <2>1 DEF vars, TypeOK, StoreOK, CallsInv, CallOK, tracker, client
  <1>2. ASSUME NEW t \in Threads, Proceed(t)
        PROVE  TypeOK' /\ CallsInv'
    BY <1>2, CallbackBase, StoreBase, DeliverBase DEF Proceed
  <1>. QED BY <1>1, <1>2, MethodsBase, OthersBase DEF Next

-----------------------------------------------------------------------------
(***************************************************************************)
(* Every session is sent once at a time                                    *)
(***************************************************************************)

\* A session that is not queued joins the queue once.
LEMMA QueuedAppend ==
    ASSUME TypeOK, QueuedOnce, NEW s \in Ids, ~ Queued(s), sendQueue' = Append(sendQueue, s)
    PROVE  QueuedOnce' /\ \A n : Queued(n)' <=> Queued(n) \/ n = s
  <1>1. sendQueue \in Seq(Ids)
    BY Types, SeqWiden
  <1>2. /\ Len(sendQueue) \in Nat /\ Len(sendQueue') = Len(sendQueue) + 1
        /\ sendQueue'[Len(sendQueue) + 1] = s
        /\ \A i \in 1 .. Len(sendQueue) : sendQueue'[i] = sendQueue[i]
    BY <1>1, QueueAppend
  <1>3. \A i \in 1 .. Len(sendQueue) : sendQueue[i] # s
    BY DEF Queued
  <1>4. QueuedOnce'
    BY <1>2, <1>3 DEF QueuedOnce
  <1>5. ASSUME NEW n
        PROVE  Queued(n)' <=> Queued(n) \/ n = s
    <2>1. Queued(n)' => Queued(n) \/ n = s
      BY <1>2 DEF Queued
    <2>2. Queued(n) => Queued(n)'
      BY <1>2 DEF Queued
    <2>3. n = s => Queued(n)'
      BY <1>2 DEF Queued
    <2>. QED BY <2>1, <2>2, <2>3
  <1>. QED BY <1>4, <1>5

\* The first operation leaves a queue without its session.
LEMMA QueuedTail ==
    ASSUME TypeOK, QueuedOnce, sendQueue # <<>>, sendQueue' = Tail(sendQueue)
    PROVE  /\ QueuedOnce' /\ Head(sendQueue) \in Ids /\ Queued(Head(sendQueue))
           /\ \A n : Queued(n)' <=> Queued(n) /\ n # Head(sendQueue)
  <1>1. sendQueue \in Seq(Ids)
    BY Types, SeqWiden
  <1>2. /\ Head(sendQueue) \in Ids /\ Len(sendQueue) \in Nat \ {0} /\ Len(sendQueue') = Len(sendQueue) - 1
        /\ Head(sendQueue) = sendQueue[1]
        /\ \A i \in 1 .. Len(sendQueue') : sendQueue'[i] = sendQueue[i + 1]
    BY <1>1, QueueTail
  <1>3. QueuedOnce'
    BY <1>2 DEF QueuedOnce
  <1>4. Queued(Head(sendQueue))
    BY <1>2 DEF Queued
  <1>5. ASSUME NEW n
        PROVE  Queued(n)' <=> Queued(n) /\ n # Head(sendQueue)
    <2>1. ASSUME Queued(n)'
          PROVE  Queued(n) /\ n # Head(sendQueue)
      <3>1. PICK i \in 1 .. Len(sendQueue') : sendQueue'[i] = n
        BY <2>1 DEF Queued
      <3>2. i + 1 \in 1 .. Len(sendQueue) /\ sendQueue[i + 1] = n /\ i + 1 # 1 /\ 1 \in 1 .. Len(sendQueue)
        BY <1>2, <3>1
      <3>. QED BY <1>2, <3>2 DEF Queued, QueuedOnce
    <2>2. ASSUME Queued(n), n # Head(sendQueue)
          PROVE  Queued(n)'
      <3>1. PICK i \in 1 .. Len(sendQueue) : sendQueue[i] = n
        BY <2>2 DEF Queued
      <3>2. i - 1 \in 1 .. Len(sendQueue') /\ (i - 1) + 1 = i
        BY <1>2, <2>2, <3>1
      <3>. QED BY <1>2, <3>1, <3>2 DEF Queued
    <2>. QED BY <2>1, <2>2
  <1>. QED BY <1>2, <1>3, <1>4, <1>5

\* Delivering the listed files, sending, and what ends a request keep count.
LEMMA OnceStep ==
    ASSUME TypeOK, CallsInv, OnceInv, [Next]_vars
    PROVE  OnceInv'
  <1>. USE DEF OnceInv
  <1>0. requests \in [Ids -> Nat] /\ handlers \in [Ids -> Nat]
    BY DEF TypeOK
  <1>1. CASE UNCHANGED client
    BY <1>1 DEF client, QueuedOnce, Queued
  <1>2. ASSUME NEW t \in Threads, Deliver(t)
        PROVE  OnceInv'
    <2>1. PICK s \in call[t].list :
             \/ UNCHANGED <<activeIds, sendQueue>>
             \/ /\ s \notin activeIds
                /\ activeIds' = activeIds \cup {s} /\ sendQueue' = Append(sendQueue, s)
      BY <1>2 DEF Deliver
    <2>2. UNCHANGED <<requests, handlers>>
      BY <1>2 DEF Deliver
    <2>3. CASE UNCHANGED <<activeIds, sendQueue>>
      BY <2>2, <2>3 DEF QueuedOnce, Queued
    <2>4. CASE /\ s \notin activeIds
               /\ activeIds' = activeIds \cup {s} /\ sendQueue' = Append(sendQueue, s)
      <3>1. s \in Ids /\ ~ Queued(s)
        BY <2>4, Types DEF CallsInv, CallOK
      <3>2. QueuedOnce' /\ \A n : Queued(n)' <=> Queued(n) \/ n = s
        BY <2>4, <3>1, QueuedAppend
      <3>. QED BY <2>2, <2>4, <3>2
    <2>. QED BY <2>1, <2>3, <2>4
  <1>3. CASE Send
    <2>1. /\ sendQueue # <<>> /\ sendQueue' = Tail(sendQueue) /\ UNCHANGED <<activeIds, handlers>>
          /\ requests' = [requests EXCEPT ![Head(sendQueue)] = @ + 1]
      BY <1>3 DEF Send
    <2>2. /\ QueuedOnce' /\ Head(sendQueue) \in Ids /\ Queued(Head(sendQueue))
          /\ \A n : Queued(n)' <=> Queued(n) /\ n # Head(sendQueue)
      BY <2>1, QueuedTail
    <2>3. \A n \in Ids : requests'[n] = IF n = Head(sendQueue) THEN requests[n] + 1 ELSE requests[n]
      BY <1>0, <2>1, <2>2
    <2>. QED BY <1>0, <2>1, <2>2, <2>3
  <1>4. ASSUME NEW s \in Ids, NEW answer \in Answers, Answer(s, answer)
        PROVE  OnceInv'
    <2>1. UNCHANGED <<activeIds, sendQueue>>
      BY <1>4 DEF Answer
    <2>2. \A n \in Ids : requests'[n] + handlers'[n] = requests[n] + handlers[n]
      <3>1. /\ requests' = [requests EXCEPT ![s] = @ - 1]
            /\ handlers' = [handlers EXCEPT ![s] = @ + 1]
        BY <1>4 DEF Answer
      <3>. QED BY <1>0, <3>1
    <2>. QED BY <2>1, <2>2 DEF QueuedOnce, Queued
  <1>5. ASSUME NEW s \in Ids, Release(s)
        PROVE  OnceInv'
    <2>1. /\ handlers[s] > 0 /\ handlers' = [handlers EXCEPT ![s] = @ - 1]
          /\ activeIds' = activeIds \ {s} /\ UNCHANGED <<sendQueue, requests>>
      BY <1>5 DEF Release
    <2>2. requests[s] + handlers[s] = 1 /\ ~ Queued(s)
      BY <1>0, <2>1
    <2>3. \A n \in Ids : requests'[n] + handlers'[n] = IF n = s THEN 0 ELSE requests[n] + handlers[n]
      BY <1>0, <2>1, <2>2
    <2>4. UNCHANGED QueuedOnce /\ \A n : UNCHANGED Queued(n)
      BY <2>1 DEF QueuedOnce, Queued
    <2>. QED BY <2>1, <2>2, <2>3, <2>4
  <1>6. CASE Relaunch
    <2>1. /\ activeIds' = {} /\ sendQueue' = <<>>
          /\ requests' = [s \in Ids |-> 0] /\ handlers' = [s \in Ids |-> 0]
      BY <1>6 DEF Relaunch
    <2>. QED BY <2>1 DEF QueuedOnce, Queued
  <1>7. ASSUME NEW t \in Threads,
               \/ StartNewSession(t) \/ PauseSession(t) \/ ResumeSession(t)
               \/ RegisterExistingSession(t) \/ HandleErrorEvent(t)
               \/ CountError(t) \/ WriteSessionId(t) \/ WriteSessionCounts(t)
               \/ Write(t) \/ ListExcess(t) \/ Evict(t) \/ ListFiles(t)
        PROVE  UNCHANGED client
    BY <1>7 DEF StartNewSession, PauseSession, ResumeSession, RegisterExistingSession, HandleErrorEvent,
                CountError, WriteSessionId, WriteSessionCounts, Write, ListExcess, Evict, ListFiles
  <1>8. UNCHANGED vars => UNCHANGED client
    BY DEF vars
  <1>. QED BY <1>1, <1>2, <1>3, <1>4, <1>5, <1>6, <1>7, <1>8 DEF Next, Proceed

\* No session counted at all, or one: what InFlight adds up.
LEMMA OnceExact ==
    ASSUME TypeOK, OnceInv
    PROVE  ActiveExact
  <1>. SUFFICES ASSUME NEW s \in Ids
                PROVE  InFlight(s) = IF s \in activeIds THEN 1 ELSE 0
    BY DEF ActiveExact
  <1>. DEFINE Places == {i \in DOMAIN sendQueue : sendQueue[i] = s}
  <1>1. DOMAIN sendQueue = 1 .. Len(sendQueue)
    BY Types
  <1>2. /\ requests[s] + handlers[s] = (IF s \in activeIds /\ ~ Queued(s) THEN 1 ELSE 0)
        /\ Queued(s) => s \in activeIds
        /\ requests[s] \in Nat /\ handlers[s] \in Nat
    BY DEF OnceInv, TypeOK
  <1>3. CASE Queued(s)
    <2>1. PICK i \in 1 .. Len(sendQueue) : sendQueue[i] = s
      BY <1>3 DEF Queued
    <2>2. Places = {i}
      BY <1>1, <2>1 DEF OnceInv, QueuedOnce
    <2>3. Cardinality(Places) = 1
      BY <2>2, FS_Singleton
    <2>. QED BY <1>2, <1>3, <2>3 DEF InFlight
  <1>4. CASE ~ Queued(s)
    <2>1. Places = {}
      BY <1>1, <1>4 DEF Queued
    <2>2. Cardinality(Places) = 0
      BY <2>1, FS_EmptySet
    <2>. QED BY <1>2, <1>4, <2>2 DEF InFlight
  <1>. QED BY <1>3, <1>4

-----------------------------------------------------------------------------
(***************************************************************************)
(* The crash data is that of the running session                           *)
(***************************************************************************)

\* The steps of a thread
Step(t) ==
    \/ StartNewSession(t) \/ PauseSession(t) \/ ResumeSession(t)
    \/ RegisterExistingSession(t) \/ HandleErrorEvent(t) \/ Proceed(t)

\* On the main thread alone only the main thread has steps to take.
LEMMA OnlyMain ==
    ASSUME MainInv, threads = "main", NEW t \in Threads, Step(t)
    PROVE  t = MainThread /\ UNCHANGED threads
  <1>1. t # MainThread => call[t].at = "idle"
    BY DEF MainInv, Idle
  <1>2. CASE Proceed(t)
    BY <1>1, <1>2 DEF Proceed, CountError, WriteSessionId, WriteSessionCounts, Write, ListExcess,
                      Evict, ListFiles, Deliver
  <1>3. CASE ~ Proceed(t)
    BY <1>3 DEF Step, StartNewSession, PauseSession, ResumeSession, RegisterExistingSession,
                HandleErrorEvent, MayCall
  <1>. QED BY <1>2, <1>3

\* The calls the main thread makes and their steps.
LEMMA MainCalls ==
    ASSUME TypeOK, CallsInv, MainInv, threads = "main", NEW t \in Threads, t = MainThread, Step(t)
    PROVE  MainOK(call[t])'
  <1>0. CallOK(call[t]) /\ MainOK(call[t]) /\ call \in [Threads -> Calls] /\ None \notin 1 .. made
    BY Types DEF CallsInv, MainInv
  <1>1. CASE Make(t)
    <2>1. stopped' = FALSE /\ call'[t].at = "write"
      BY <1>0, <1>1 DEF Make, Become
    <2>. QED BY <2>1 DEF MainOK
  <1>2. CASE PauseSession(t)
    <2>1. call'[t].at = "callback" /\ call'[t].session = None
      BY <1>0, <1>2 DEF PauseSession, Become
    <2>. QED BY <2>1 DEF MainOK
  <1>3. CASE ResumeSession(t) /\ UNCHANGED <<current, count, call, crashData>> /\ stopped' = FALSE
    <2>1. call[t].at = "idle"
      BY <1>3 DEF ResumeSession, MayCall, Idle
    <2>2. Fresh'
      BY <1>0, <1>3, <2>1 DEF MainOK, Fresh
    <2>. QED BY <1>3, <2>1, <2>2 DEF MainOK
  <1>4. CASE RegisterExistingSession(t)
    <2>1. stopped' = FALSE /\ call'[t].at = "current"
      BY <1>0, <1>4 DEF RegisterExistingSession, Become
    <2>. QED BY <2>1 DEF MainOK
  <1>5. CASE HandleErrorEvent(t)
    <2>1. /\ call'[t].at = "lock" /\ call'[t].session = RunningSession /\ RunningSession # None
          /\ UNCHANGED <<stopped, current>>
      BY <1>0, <1>5 DEF HandleErrorEvent, Become, tracker
    <2>. QED BY <2>1 DEF MainOK, RunningSession
  <1>6. CASE CountError(t)
    <2>1. /\ call[t].at = "lock" /\ call'[t].at = "callback" /\ call'[t].session = call[t].session
          /\ UNCHANGED <<stopped, current>>
      BY <1>0, <1>6 DEF CountError, Become
    <2>. QED BY <1>0, <2>1 DEF MainOK
  <1>7. CASE WriteSessionId(t)
    <2>. DEFINE s == IF call[t].at = "current" THEN current ELSE call[t].session
    <2>1. /\ call[t].at \in {"current", "callback"} /\ UNCHANGED <<stopped, current, made>>
          /\ \/ s = None /\ crashData' = [crashData EXCEPT !.recorded = FALSE] /\ AfterCallback(t)
             \/ /\ s # None /\ crashData' = [crashData EXCEPT !.session = s]
                /\ Become(t, "counts", s, call[t].then, {})
      BY <1>7, Zenon DEF WriteSessionId, tracker
    <2>2. s # None => s = current /\ ~ stopped
      BY <1>0, <2>1 DEF MainOK
    <2>3. crashData \in [recorded : BOOLEAN, session : Ids \cup {None}, count : 0 .. MaxCount]
      BY DEF TypeOK
    <2>. HIDE DEF s
    <2>4. CASE crashData' = [crashData EXCEPT !.recorded = FALSE] /\ AfterCallback(t)
      <3>1. call'[t].at \in {"idle", "list"}
        BY <2>1, <2>4, AfterCallbackStep DEF Idle
      <3>2. crashData'.recorded = FALSE
        BY <2>3, <2>4
      <3>. QED BY <3>1, <3>2 DEF MainOK, Fresh
    <2>5. CASE /\ s # None /\ crashData' = [crashData EXCEPT !.session = s]
               /\ Become(t, "counts", s, call[t].then, {})
      <3>1. call'[t].at = "counts" /\ call'[t].session = s
        BY <1>0, <2>5 DEF Become
      <3>2. crashData'.session = s
        BY <2>3, <2>5
      <3>. QED BY <2>1, <2>2, <2>5, <3>1, <3>2 DEF MainOK
    <2>. QED BY <2>1, <2>4, <2>5
  <1>8. CASE WriteSessionCounts(t)
    <2>1. /\ call[t].at = "counts" /\ UNCHANGED <<stopped, current, count, made>> /\ AfterCallback(t)
          /\ crashData' = [crashData EXCEPT !.recorded = TRUE, !.count = count[call[t].session]]
      BY <1>8 DEF WriteSessionCounts, tracker
    <2>2. ~ stopped /\ call[t].session = current /\ crashData.session = current /\ current # None
      BY <1>0, <2>1 DEF MainOK, CallOK
    <2>3. call'[t].at \in {"idle", "list"}
      BY <2>1, AfterCallbackStep DEF Idle
    <2>4. crashData'.session = current /\ crashData'.count = count[current]
      <3>1. crashData \in [recorded : BOOLEAN, session : Ids \cup {None}, count : 0 .. MaxCount]
        BY DEF TypeOK
      <3>. QED BY <2>1, <2>2, <3>1
    <2>. QED BY <2>1, <2>2, <2>3, <2>4 DEF MainOK, Fresh
  <1>9. CASE Write(t) \/ ListExcess(t) \/ Evict(t)
    <2>1. /\ call[t].at \in {"write", "prune", "evict"} /\ call'[t].at \in {"prune", "evict", "current"}
          /\ UNCHANGED stopped
      BY <1>0, <1>9 DEF Write, ListExcess, Evict, Become, tracker
    <2>. QED BY <1>0, <2>1 DEF MainOK
  <1>10. CASE ListFiles(t) \/ Deliver(t)
    <2>1. /\ call[t].at \in {"list", "deliver"} /\ UNCHANGED <<stopped, current, count, crashData>>
          /\ Return(t) \/ \E l : Become(t, "deliver", None, "return", l)
      BY <1>10 DEF ListFiles, Deliver, DeliverRest, tracker
    <2>2. call'[t].at \in {"idle", "deliver"}
      BY <1>0, <2>1 DEF Return, Become, Idle
    <2>3. Fresh'
      BY <1>0, <2>1 DEF MainOK, Fresh
    <2>. QED BY <2>2, <2>3 DEF MainOK
  <1>. QED BY <1>1, <1>2, <1>3, <1>4, <1>5, <1>6, <1>7, <1>8, <1>9, <1>10
           DEF Step, Proceed, StartNewSession, ResumeSession

\* A thread's step leaves the calls of the others.
LEMMA OtherCalls ==
    ASSUME TypeOK, NEW t \in Threads, Step(t), NEW u \in Threads, u # t
    PROVE  call'[u] = call[u]
  <1>1. call \in [Threads -> Calls]
    BY Types
  <1>2. call' = call \/ \E c : call' = [call EXCEPT ![t] = c]
    <2>1. \A at, s, then, list : Become(t, at, s, then, list) => \E c : call' = [call EXCEPT ![t] = c]
      BY DEF Become
    <2>2. Return(t) => \E c : call' = [call EXCEPT ![t] = c]
      BY DEF Return
    <2>3. AfterCallback(t) => Return(t) \/ Become(t, "list", None, "return", {})
      BY DEF AfterCallback
    <2>4. \A s : DeliverRest(t, s) => Return(t) \/ Become(t, "deliver", None, "return", call[t].list \ {s})
      BY DEF DeliverRest
    <2>5. CASE Proceed(t)
      BY <2>1, <2>2, <2>3, <2>4, <2>5, Zenon
         DEF Proceed, CountError, WriteSessionId, WriteSessionCounts, Write, ListExcess,
             Evict, ListFiles, Deliver
    <2>6. CASE ~ Proceed(t)
      BY <2>1, <2>6, Zenon
         DEF Step, StartNewSession, PauseSession, ResumeSession, RegisterExistingSession,
             HandleErrorEvent, Make
    <2>. QED BY <2>5, <2>6
  <1>. QED BY <1>1, <1>2

\* The crash data follows the current session on the main thread.
LEMMA MainStep ==
    ASSUME TypeOK, CallsInv, MainInv, [Next]_vars
    PROVE  MainInv'
  <1>1. ASSUME NEW t \in Threads, Step(t)
        PROVE  MainInv'
    <2>1. threads' = threads
      BY <1>1 DEF Step, Proceed, StartNewSession, PauseSession, ResumeSession, RegisterExistingSession,
                  HandleErrorEvent, CountError, WriteSessionId, WriteSessionCounts, Write, ListExcess,
                  Evict, ListFiles, Deliver
    <2>2. SUFFICES ASSUME threads = "main"
                   PROVE  (\A u \in Threads \ {MainThread} : call[u] = Idle)' /\ MainOK(call[MainThread])'
      BY <2>1 DEF MainInv
    <2>3. t = MainThread
      BY <1>1, <2>2, OnlyMain
    <2>4. \A u \in Threads \ {MainThread} : call'[u] = Idle
      BY <1>1, <2>2, <2>3, OtherCalls DEF MainInv
    <2>. QED BY <1>1, <2>2, <2>3, <2>4, MainCalls
  <1>2. CASE Relaunch
    <2>1. call' = [t \in Threads |-> Idle] /\ crashData' = NoCrashData
      BY <1>2 DEF Relaunch
    <2>. QED BY <2>1, MainThreadAssumption DEF MainInv, MainOK, Fresh, NoCrashData, Idle
  <1>3. CASE UNCHANGED <<threads, current, stopped, count, crashData, call>>
    BY <1>3 DEF MainInv, MainOK, Fresh
  <1>4. ASSUME Send \/ \E s \in Ids : Release(s) \/ \E answer \in Answers : Answer(s, answer)
        PROVE  UNCHANGED <<threads, current, stopped, count, crashData, call>>
    BY <1>4 DEF Send, Release, Answer, tracker
  <1>5. UNCHANGED vars => UNCHANGED <<threads, current, stopped, count, crashData, call>>
    BY DEF vars, tracker
  <1>. QED BY <1>1, <1>2, <1>3, <1>4, <1>5 DEF Next, Step

-----------------------------------------------------------------------------
(***************************************************************************)
(* Started sessions are kept                                               *)
(***************************************************************************)

\* A session made by the call of a thread was not heard of before.
LEMMA MadeOutcome ==
    ASSUME TypeOK, FilesInv, made < MaxSessions, NEW o,
           outcome' = [outcome EXCEPT ![made + 1] = o]
    PROVE  /\ made + 1 \in Ids /\ outcome'[made + 1] = o /\ outcome[made + 1] = "none"
           /\ \A s \in Ids : s # made + 1 => outcome'[s] = outcome[s]
  <1>1. made + 1 \in Ids /\ made + 1 > made
    BY Types, MakeStep
  <1>2. outcome[made + 1] = "none"
    BY <1>1 DEF FilesInv
  <1>3. DOMAIN outcome = Ids
    BY DEF TypeOK
  <1>. QED BY <1>1, <1>2, <1>3

\* A session that was written or settled stays one of the two.
LEMMA OutcomeGrows ==
    ASSUME TypeOK, FilesInv, [Next]_vars, NEW s \in Ids, outcome[s] \in {"written", "settled"}
    PROVE  outcome'[s] \in {"written", "settled"}
  <1>1. outcome \in [Ids -> {"none", "registered", "new", "unwritten", "written", "settled"}]
    BY DEF TypeOK
  <1>2. ASSUME NEW o, made < MaxSessions, outcome' = [outcome EXCEPT ![made + 1] = o]
        PROVE  outcome'[s] \in {"written", "settled"}
    BY <1>2, MadeOutcome
  <1>3. ASSUME NEW t \in Threads, Write(t)
        PROVE  outcome'[s] \in {"written", "settled"}
    BY <1>1, <1>3 DEF Write
  <1>4. CASE \E n \in Ids, answer \in Answers : Answer(n, answer)
    BY <1>1, <1>4 DEF Answer
  <1>5. CASE Relaunch
    BY <1>1, <1>5 DEF Relaunch
  <1>6. CASE UNCHANGED outcome
    BY <1>6
  <1>7. ASSUME NEW t \in Threads,
               StartNewSession(t) \/ ResumeSession(t) \/ RegisterExistingSession(t)
        PROVE  \/ UNCHANGED outcome
               \/ \E o : made < MaxSessions /\ outcome' = [outcome EXCEPT ![made + 1] = o]
    BY <1>7, Zenon DEF StartNewSession, ResumeSession, RegisterExistingSession, Make
  <1>8. ASSUME NEW t \in Threads,
               \/ PauseSession(t) \/ HandleErrorEvent(t)
               \/ CountError(t) \/ WriteSessionId(t) \/ WriteSessionCounts(t)
               \/ ListExcess(t) \/ Evict(t) \/ ListFiles(t) \/ Deliver(t)
        PROVE  UNCHANGED outcome
    BY <1>8 DEF PauseSession, HandleErrorEvent, CountError, WriteSessionId, WriteSessionCounts,
                ListExcess, Evict, ListFiles, Deliver
  <1>9. CASE Send \/ UNCHANGED vars \/ \E n \in Ids : Release(n)
    BY <1>6, <1>9 DEF Send, vars, Release
  <1>. QED BY <1>2, <1>3, <1>4, <1>5, <1>6, <1>7, <1>8, <1>9 DEF Next, Proceed

\* There are finitely many sessions, so that more of them count for more.
LEMMA LaterFinite ==
    ASSUME TypeOK, NEW s
    PROVE  IsFiniteSet(Later(s)) /\ IsFiniteSet(Later(s)')
  <1>1. IsFiniteSet(Ids)
    BY BoundsAssumption, FS_Interval DEF Ids
  <1>2. Later(s) \subseteq Ids /\ Later(s)' \subseteq Ids
    BY DEF Later
  <1>. QED BY <1>1, <1>2, FS_Subset

\* What has gone had to go, and stays so.
LEMMA EnoughStays ==
    ASSUME TypeOK, FilesInv, [Next]_vars, NEW s, Enough(s)
    PROVE  Enough(s)'
  <1>1. Later(s) \subseteq Later(s)'
    BY OutcomeGrows DEF Later
  <1>2. /\ Cardinality(Later(s)) <= Cardinality(Later(s)')
        /\ Cardinality(Later(s)) \in Nat /\ Cardinality(Later(s)') \in Nat
    BY <1>1, LaterFinite, FS_Subset, FS_CardinalityType
  <1>. QED BY <1>2, LimitAssumption DEF Enough

\* What the pruning lists are files with enough newer ones.
LEMMA ExcessEnough ==
    ASSUME TypeOK, FilesInv, NEW s \in Excess
    PROVE  s \in Ids /\ Enough(s)
  <1>1. s \in Files /\ Cardinality(Newer(s)) >= MaxPersistedSessions /\ s \in Ids
    BY DEF Excess, Files
  <1>2. Newer(s) \subseteq Later(s)
    BY <1>1 DEF Newer, Later, FilesInv, Files
  <1>3. /\ Cardinality(Newer(s)) <= Cardinality(Later(s))
        /\ Cardinality(Newer(s)) \in Nat /\ Cardinality(Later(s)) \in Nat
    BY <1>2, LaterFinite, FS_Subset, FS_CardinalityType
  <1>. QED BY <1>1, <1>3, LimitAssumption DEF Enough

\* Steps that touch neither files nor outcomes.
LEMMA CalmStep ==
    ASSUME TypeOK, FilesInv, StartedInv, GoneInv, [Next]_vars, UNCHANGED <<made, store, outcome>>,
           call[MainThread].at # "write", call'[MainThread].at # "write",
           call'[MainThread].at = "evict" => \A s \in call'[MainThread].list : s \in Ids /\ Enough(s)
    PROVE  FilesInv' /\ StartedInv' /\ GoneInv'
  <1>1. UNCHANGED Files /\ UNCHANGED created
    BY StoreKept DEF store
  <1>2. FilesInv'
    BY <1>1 DEF FilesInv
  <1>3. StartedInv'
    BY DEF StartedInv
  <1>4. \A s : Enough(s) => Enough(s)'
    BY EnoughStays
  <1>5. GoneInv'
    BY <1>1, <1>4 DEF GoneInv
  <1>. QED BY <1>2, <1>3, <1>5

\* A session is made by a call that goes on to write it, or is another
\* notifier's.
LEMMA MakeKept ==
    ASSUME TypeOK, CallsInv, FilesInv, StartedInv, GoneInv, [Next]_vars, UNCHANGED store,
           made < MaxSessions, made' = made + 1, NEW o,
           outcome' = [outcome EXCEPT ![made + 1] = o],
           call[MainThread].at = "idle", call'[MainThread].at \in {"write", "current"},
           call'[MainThread].at = "write" => current' = made',
           o = "new" => call'[MainThread].at = "write",
           o \in {"new", "registered"}
    PROVE  FilesInv' /\ StartedInv' /\ GoneInv'
  <1>1. UNCHANGED Files /\ UNCHANGED created
    BY StoreKept DEF store
  <1>2. /\ made + 1 \in Ids /\ outcome'[made + 1] = o /\ made \in Nat
        /\ \A s \in Ids : s # made + 1 => outcome'[s] = outcome[s]
    BY MadeOutcome, Types
  <1>3. Files \subseteq Ids /\ made + 1 \notin Files
    BY <1>2 DEF Files, CallsInv
  <1>4. FilesInv'
    <2>1. \A s \in Files' : outcome'[s] = "written"
      BY <1>1, <1>2, <1>3 DEF FilesInv
    <2>2. \A s \in Ids : s > made' => outcome'[s] = "none"
      BY <1>2 DEF FilesInv, Ids
    <2>3. \A s, n \in Files' : created'[n] > created'[s] => n > s
      BY <1>1 DEF FilesInv
    <2>. QED BY <2>1, <2>2, <2>3 DEF FilesInv
  <1>5. StartedInv'
    <2>1. \A s \in Ids : outcome'[s] = "new" => s = made + 1 /\ o = "new"
      BY <1>2 DEF StartedInv
    <2>. QED BY <1>2, <2>1 DEF StartedInv
  <1>6. \A s : Enough(s) => Enough(s)'
    BY EnoughStays
  <1>7. GoneInv'
    BY <1>1, <1>2, <1>6 DEF GoneInv
  <1>. QED BY <1>4, <1>5, <1>7

\* Writing the session that was started: the newest file and the highest number.
LEMMA WriteKept ==
    ASSUME TypeOK, CallsInv, FilesInv, StartedInv, GoneInv, [Next]_vars, Write(MainThread)
    PROVE  FilesInv' /\ StartedInv' /\ GoneInv'
  <1>1. /\ call[MainThread].at = "write" /\ call \in [Threads -> Calls]
        /\ UNCHANGED <<made, current>> /\ current = made /\ made \in Ids
        /\ outcome \in [Ids -> {"none", "registered", "new", "unwritten", "written", "settled"}]
    BY Types DEF Write, tracker, StartedInv, TypeOK, Ids
  <1>2. call'[MainThread].at \in {"prune", "current"}
    BY <1>1, MainThreadAssumption DEF Write, Become
  <1>3. \A s : Enough(s) => Enough(s)'
    BY EnoughStays
  <1>4. CASE WriteFile(current) /\ outcome' = [outcome EXCEPT ![current] = "written"]
    <2>1. /\ Files' = Files \cup {made} /\ created'[made] > clock
          /\ \A n \in Ids : created[n] <= clock /\ (n # made => created'[n] = created[n])
      BY <1>1, <1>4, WriteFileStep
    <2>2. /\ \A s \in Ids : outcome'[s] = IF s = made THEN "written" ELSE outcome[s]
          /\ Files \subseteq Ids /\ \A s \in Files : s <= made
      BY <1>1, <1>4 DEF Files, CallsInv
    <2>3. \A s, n \in Files' : created'[n] > created'[s] => n > s
      <3>. SUFFICES ASSUME NEW s \in Files', NEW n \in Files', created'[n] > created'[s]
                    PROVE  n > s
        OBVIOUS
      <3>1. created[s] \in Nat /\ created[n] \in Nat /\ clock \in Nat /\ s \in Nat /\ n \in Nat
        <4>1. Files' \subseteq Ids /\ Ids \subseteq Nat
          BY <1>1, <2>1, <2>2 DEF Ids
        <4>2. clock \in Nat /\ created \in [Ids -> 0 .. clock]
          BY DEF TypeOK
        <4>3. \A i \in Ids : created[i] \in Nat
          BY <4>2
        <4>. QED BY <4>1, <4>2, <4>3
      <3>2. CASE s = made
        <4>1. n # made
          BY <3>1, <3>2, <1>4, <2>1 DEF WriteFile, TypeOK
        <4>2. created'[n] <= clock /\ created'[s] > clock /\ created'[n] \in Nat
          BY <1>1, <2>1, <2>2, <3>1, <3>2, <4>1
        <4>3. created'[s] \in Nat
          BY <1>1, <1>4, <3>1, <3>2 DEF WriteFile, TypeOK
        <4>. QED BY <3>1, <4>2, <4>3
      <3>3. CASE s # made /\ n = made
        BY <1>1, <2>1, <2>2, <3>1, <3>3 DEF Ids
      <3>4. CASE s # made /\ n # made
        BY <2>1, <2>2, <3>4 DEF FilesInv
      <3>. QED BY <3>2, <3>3, <3>4
    <2>4. FilesInv'
      BY <1>1, <2>1, <2>2, <2>3 DEF FilesInv, Ids
    <2>5. StartedInv'
      BY <1>1, <1>2, <2>2 DEF StartedInv
    <2>6. GoneInv'
      BY <1>2, <1>3, <2>1, <2>2 DEF GoneInv
    <2>. QED BY <2>4, <2>5, <2>6
  <1>5. CASE /\ UNCHANGED store
             /\ outcome' = IF current # None /\ outcome[current] = "new"
                           THEN [outcome EXCEPT ![current] = "unwritten"] ELSE outcome
    <2>1. UNCHANGED Files /\ UNCHANGED created
      BY <1>5, StoreKept DEF store
    <2>2. \A s \in Ids : outcome'[s] = IF outcome[s] = "new" THEN "unwritten" ELSE outcome[s]
      <3>1. current # None /\ \A s \in Ids : outcome[s] = "new" => s = current
        BY <1>1, Types DEF StartedInv
      <3>. QED BY <1>1, <1>5, <3>1
    <2>3. FilesInv'
      BY <1>1, <2>1, <2>2 DEF FilesInv, Files
    <2>4. StartedInv'
      BY <1>1, <1>2, <2>2 DEF StartedInv
    <2>5. GoneInv'
      BY <1>2, <1>3, <2>1, <2>2 DEF GoneInv
    <2>. QED BY <2>3, <2>4, <2>5
  <1>. QED BY <1>4, <1>5 DEF Write

\* Deleting what was listed as excessive.
LEMMA EvictKept ==
    ASSUME TypeOK, CallsInv, FilesInv, StartedInv, GoneInv, [Next]_vars, Evict(MainThread)
    PROVE  FilesInv' /\ StartedInv' /\ GoneInv'
  <1>1. /\ call[MainThread].at = "evict" /\ call \in [Threads -> Calls]
        /\ UNCHANGED <<made, current, outcome>> /\ DeleteFiles(call[MainThread].list)
    BY Types DEF Evict, tracker
  <1>2. call'[MainThread].at = "current"
    BY <1>1, MainThreadAssumption DEF Evict, Become
  <1>3. Files' = Files \ call[MainThread].list /\ \A n \in Files' : created'[n] = created[n]
    BY <1>1, DeleteFilesStep
  <1>4. FilesInv'
    BY <1>1, <1>3 DEF FilesInv
  <1>5. StartedInv'
    BY <1>1, <1>2 DEF StartedInv
  <1>6. \A s : Enough(s) => Enough(s)'
    BY EnoughStays
  <1>7. GoneInv'
    BY <1>1, <1>2, <1>3, <1>6 DEF GoneInv
  <1>. QED BY <1>4, <1>5, <1>7

\* The server took a session or refused it.
LEMMA AnswerKept ==
    ASSUME TypeOK, OnceInv, FilesInv, StartedInv, GoneInv, [Next]_vars,
           NEW s \in Ids, NEW answer \in Answers, Answer(s, answer)
    PROVE  FilesInv' /\ StartedInv' /\ GoneInv'
  <1>1. UNCHANGED <<made, current, call>>
    BY DEF Answer, tracker
  <1>2. \A n : Enough(n) => Enough(n)'
    BY EnoughStays
  <1>3. CASE UNCHANGED <<store, outcome>>
    <2>1. UNCHANGED Files /\ UNCHANGED created
      BY <1>3, StoreKept DEF store
    <2>. QED BY <1>1, <1>2, <1>3, <2>1 DEF FilesInv, StartedInv, GoneInv
  <1>4. CASE DeleteFiles({s}) /\ outcome' = [outcome EXCEPT ![s] = "settled"]
    <2>1. Files' = Files \ {s} /\ \A n \in Files' : created'[n] = created[n]
      BY <1>4, DeleteFilesStep
    <2>2. (\A n \in Ids : outcome'[n] = IF n = s THEN "settled" ELSE outcome[n]) /\ Files \subseteq Ids
      BY <1>4 DEF TypeOK, Files
    <2>3. s \in activeIds /\ s <= made
      <3>1. requests[s] > 0 /\ requests[s] \in Nat /\ handlers[s] \in Nat
        BY DEF Answer, TypeOK
      <3>2. s \in activeIds
        BY <3>1 DEF OnceInv
      <3>. QED BY <3>2, Types DEF TypeOK
    <2>4. FilesInv'
      <3>1. \A n \in Ids : n > made' => n # s
        BY <1>1, <2>3, Types DEF Ids
      <3>. QED BY <1>1, <2>1, <2>2, <3>1 DEF FilesInv
    <2>5. StartedInv'
      BY <1>1, <2>2 DEF StartedInv
    <2>6. GoneInv'
      BY <1>1, <1>2, <2>1, <2>2 DEF GoneInv
    <2>. QED BY <2>4, <2>5, <2>6
  <1>. QED BY <1>3, <1>4 DEF Answer

\* The steps of the main thread.
LEMMA MainKept ==
    ASSUME TypeOK, CallsInv, FilesInv, StartedInv, GoneInv, [Next]_vars, Step(MainThread)
    PROVE  FilesInv' /\ StartedInv' /\ GoneInv'
  <1>. DEFINE t == MainThread
  <1>0. t \in Threads /\ call \in [Threads -> Calls] /\ MaxSessions \in Nat /\ made \in Nat
    BY Types, MainThreadAssumption
  <1>1. CASE Make(t) /\ call[t] = Idle /\ UNCHANGED store
    <2>1. call[t].at = "idle" /\ call'[t].at = "write"
      BY <1>0, <1>1 DEF Make, Become, Idle
    <2>2. /\ made < MaxSessions /\ made' = made + 1 /\ current' = made'
          /\ outcome' = [outcome EXCEPT ![made + 1] = "new"]
      BY <1>1 DEF Make
    <2>. QED BY <1>1, <2>1, <2>2, MakeKept
  <1>2. CASE RegisterExistingSession(t) /\ made < MaxSessions /\ made' = made + 1
             /\ outcome' = [outcome EXCEPT ![made + 1] = "registered"]
    <2>1. call[t].at = "idle" /\ call'[t].at = "current" /\ UNCHANGED store
      BY <1>0, <1>2 DEF RegisterExistingSession, MayCall, Become, Idle
    <2>. QED BY <1>2, <2>1, MakeKept
  <1>3. CASE RegisterExistingSession(t) /\ UNCHANGED <<made, outcome>>
    <2>1. call[t].at = "idle" /\ call'[t].at = "current" /\ UNCHANGED store
      BY <1>0, <1>3 DEF RegisterExistingSession, MayCall, Become, Idle
    <2>. QED BY <1>3, <2>1, CalmStep
  <1>4. CASE ResumeSession(t) /\ UNCHANGED <<made, outcome, call>>
    <2>1. call[t].at = "idle" /\ UNCHANGED store
      BY <1>4 DEF ResumeSession, MayCall, Idle
    <2>. QED BY <1>4, <2>1, CalmStep
  <1>5. CASE PauseSession(t) \/ HandleErrorEvent(t)
    <2>1. /\ call[t].at = "idle" /\ call'[t].at \in {"callback", "lock"}
          /\ UNCHANGED <<made, store, outcome>>
      BY <1>0, <1>5 DEF PauseSession, HandleErrorEvent, MayCall, Become, Idle, tracker
    <2>. QED BY <2>1, CalmStep
  <1>6. CASE CountError(t) \/ WriteSessionId(t) \/ WriteSessionCounts(t)
    <2>1. call[t].at \in {"lock", "current", "callback", "counts"} /\ UNCHANGED <<made, store, outcome>>
      BY <1>6 DEF CountError, WriteSessionId, WriteSessionCounts, tracker
    <2>2. AfterCallback(t) => call'[t].at \in {"idle", "list"}
      BY <1>0, <2>1, AfterCallbackStep DEF Idle
    <2>3. \A s, then : Become(t, "counts", s, then, {}) => call'[t].at = "counts"
      BY <1>0 DEF Become
    <2>4. \A s : Become(t, "callback", s, "unlock", {}) => call'[t].at = "callback"
      BY <1>0 DEF Become
    <2>5. call'[t].at \in {"idle", "list", "counts", "callback"}
      BY <1>6, <2>2, <2>3, <2>4, Zenon DEF CountError, WriteSessionId, WriteSessionCounts
    <2>. QED BY <2>1, <2>5, CalmStep
  <1>7. CASE ListExcess(t)
    <2>1. /\ call[t].at = "prune" /\ call'[t].at = "evict" /\ call'[t].list = Excess
          /\ UNCHANGED <<made, store, outcome>>
      BY <1>0, <1>7 DEF ListExcess, Become, tracker
    <2>. QED BY <2>1, ExcessEnough, CalmStep
  <1>8. CASE ListFiles(t) \/ Deliver(t)
    <2>1. /\ call[t].at \in {"list", "deliver"} /\ UNCHANGED <<made, store, outcome>>
          /\ Return(t) \/ \E l : Become(t, "deliver", None, "return", l)
      BY <1>8 DEF ListFiles, Deliver, DeliverRest, tracker
    <2>2. call'[t].at \in {"idle", "deliver"}
      BY <1>0, <2>1 DEF Return, Become, Idle
    <2>. QED BY <2>1, <2>2, CalmStep
  <1>9. CASE Write(t) \/ Evict(t)
    BY <1>9, WriteKept, EvictKept
  <1>10. CASE StartNewSession(t) \/ ResumeSession(t)
    BY <1>1, <1>4, <1>10, Zenon DEF StartNewSession, ResumeSession, MayCall
  <1>11. CASE RegisterExistingSession(t)
    BY <1>2, <1>3, <1>11, Zenon DEF RegisterExistingSession
  <1>. QED BY <1>5, <1>6, <1>7, <1>8, <1>9, <1>10, <1>11 DEF Step, Proceed

\* Files and outcomes keep to what the calls of the main thread say.
LEMMA KeptStep ==
    ASSUME TypeOK, CallsInv, OnceInv, MainInv, KeptInv, [Next]_vars
    PROVE  KeptInv'
  <1>. SUFFICES ASSUME threads' = "main"
                PROVE  FilesInv' /\ StartedInv' /\ GoneInv'
    BY DEF KeptInv
  <1>1. threads = "main"
    <2>1. ASSUME NEW t \in Threads, Step(t)
          PROVE  threads' = threads
      BY <2>1 DEF Step, Proceed, StartNewSession, PauseSession, ResumeSession, RegisterExistingSession,
                  HandleErrorEvent, CountError, WriteSessionId, WriteSessionCounts, Write, ListExcess,
                  Evict, ListFiles, Deliver
    <2>2. CASE Send \/ Relaunch \/ UNCHANGED vars
               \/ \E s \in Ids : Release(s) \/ \E answer \in Answers : Answer(s, answer)
      BY <2>2 DEF Send, Relaunch, Release, Answer, vars
    <2>. QED BY <2>1, <2>2 DEF Next, Step
  <1>2. FilesInv /\ StartedInv /\ GoneInv
    BY <1>1 DEF KeptInv
  <1>3. ASSUME NEW t \in Threads, Step(t)
        PROVE  FilesInv' /\ StartedInv' /\ GoneInv'
    BY <1>1, <1>2, <1>3, OnlyMain, MainKept
  <1>4. ASSUME NEW s \in Ids, NEW answer \in Answers, Answer(s, answer)
        PROVE  FilesInv' /\ StartedInv' /\ GoneInv'
    BY <1>2, <1>4, AnswerKept
  <1>5. CASE UNCHANGED <<made, current, call, store, outcome>>
    <2>1. UNCHANGED Files /\ UNCHANGED created
      BY <1>5, StoreKept DEF store
    <2>2. \A s : Enough(s) => Enough(s)'
      BY <1>2, EnoughStays
    <2>. QED BY <1>2, <1>5, <2>1, <2>2 DEF FilesInv, StartedInv, GoneInv
  <1>6. CASE Relaunch
    <2>1. UNCHANGED made /\ UNCHANGED store /\ call'[MainThread] = Idle
      BY <1>6, MainThreadAssumption DEF Relaunch
    <2>2. UNCHANGED Files /\ UNCHANGED created
      BY <2>1, StoreKept DEF store
    <2>3. \A s \in Ids : outcome'[s] = IF outcome[s] = "new" THEN "unwritten" ELSE outcome[s]
      BY <1>6 DEF Relaunch
    <2>4. \A s : Enough(s) => Enough(s)'
      BY <1>2, EnoughStays
    <2>5. FilesInv'
      BY <1>2, <2>1, <2>2, <2>3 DEF FilesInv, Files
    <2>6. StartedInv' /\ GoneInv'
      BY <1>2, <2>1, <2>2, <2>3, <2>4 DEF StartedInv, GoneInv, Idle
    <2>. QED BY <2>5, <2>6
  <1>7. ASSUME Send \/ UNCHANGED vars \/ \E s \in Ids : Release(s)
        PROVE  UNCHANGED <<made, current, call, store, outcome>>
    BY <1>7 DEF Send, Release, vars, tracker
  <1>. QED BY <1>3, <1>4, <1>5, <1>6, <1>7 DEF Next, Step

-----------------------------------------------------------------------------
(***************************************************************************)
(* The theorems                                                            *)
(***************************************************************************)

\* The invariant holds at the first launch.
LEMMA InitIInv == Init => IInv
  <1>. SUFFICES ASSUME Init
                PROVE  IInv
    OBVIOUS
  <1>1. Files = {}
    BY DEF Init, Files
  <1>2. Idle \in Calls
    BY DEF Idle, Calls
  <1>3. TypeOK
    <2>1. crashData \in [recorded : BOOLEAN, session : Ids \cup {None}, count : 0 .. MaxCount]
      BY BoundsAssumption DEF Init, NoCrashData
    <2>2. sendQueue \in Seq(1 .. made)
      BY DEF Init
    <2>3. outcome \in [Ids -> {"none", "registered", "new", "unwritten", "written", "settled"}]
      BY DEF Init
    <2>4. made \in 0 .. MaxSessions /\ relaunches \in 0 .. MaxRelaunches /\ count \in [Ids -> 0 .. MaxCount]
      BY BoundsAssumption DEF Init
    <2>5. /\ clock \in Nat /\ created \in [Ids -> 0 .. clock]
          /\ requests \in [Ids -> Nat] /\ handlers \in [Ids -> Nat]
      BY DEF Init
    <2>. QED BY <1>1, <1>2, <2>1, <2>2, <2>3, <2>4, <2>5 DEF Init, TypeOK
  <1>4. CallsInv /\ OnceInv
    BY <1>1, <1>2 DEF Init, CallsInv, CallOK, Idle, OnceInv, QueuedOnce, Queued
  <1>5. MainInv
    BY MainThreadAssumption DEF Init, MainInv, MainOK, Fresh, NoCrashData, Idle
  <1>6. KeptInv
    BY <1>1, MainThreadAssumption DEF Init, KeptInv, FilesInv, StartedInv, GoneInv, Idle
  <1>. QED BY <1>3, <1>4, <1>5, <1>6 DEF IInv

\* The invariant holds in every state of every run of the tracker, its store and
\* its client.
THEOREM Inductive == Spec => []IInv
  <1>1. IInv /\ [Next]_vars => IInv'
    BY BaseStep, OnceStep, MainStep, KeptStep DEF IInv
  <1>. QED BY InitIInv, <1>1, PTL DEF Spec

\* Every variable keeps its type: among others the creation dates tell the files
\* apart, and no session has an answer or a release too many.
THEOREM TypeCorrect == Spec => []TypeOK
  <1>1. IInv => TypeOK
    BY DEF IInv
  <1>. QED BY <1>1, Inductive, PTL

\* activeIds holds exactly the sessions that are being sent, each of them once
\* (deliverSessionsInStore:), however many threads deliver.
THEOREM ActiveAlwaysExact == Spec => []ActiveExact
  <1>1. IInv => ActiveExact
    BY OnceExact DEF IInv
  <1>. QED BY <1>1, Inductive, PTL

\* A session started on the main thread is written by the call that started it
\* and its file stays until the server has settled it or as many newer sessions
\* as may be kept were written (write:, pruneFilesLeaving:).
THEOREM SessionsAlwaysKept == Spec => []SessionsKept
  <1>1. ASSUME IInv
        PROVE  SessionsKept
    BY <1>1 DEF IInv, KeptInv, StartedInv, GoneInv, Enough, Later, SessionsKept
  <1>. QED BY <1>1, Inductive, PTL

\* On the main thread alone the crash data names the running session and its
\* counts whenever no call is under way (BSGWriteSessionCrashData).
THEOREM CrashDataNeverStale == Spec => []NoStaleCrashData
  <1>1. ASSUME IInv
        PROVE  NoStaleCrashData
    BY <1>1 DEF IInv, MainInv, MainOK, Fresh, Idle, NoStaleCrashData, RunningSession
  <1>. QED BY <1>1, Inductive, PTL

=============================================================================
