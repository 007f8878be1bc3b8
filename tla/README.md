# Specifications of repo-merge: AppAuth-iOS and bugsnag-cocoa

The repository joins two Objective-C libraries that share no code: **AppAuth-iOS**, an OAuth 2.0 and
OpenID Connect client, and **bugsnag-cocoa**, an error reporter. What is hard in both is not what they
compute but in which order things happen: blocks on several queues, answers of a server, views the user
may close, a process that may end at any moment, and a file system nobody locks. The modules here
describe those parts in TLA+; TLC checks them on small instances, and TLAPS proves the safety properties that
matter most for every number of events, sessions, actions, flows, launches, crashing threads, breadcrumbs and images,
and for every report that is made of them.

All paths below are relative to `src/bugsnag-cocoa/Bugsnag/` or `src/AppAuth-iOS/Source/`.

## The system

### bugsnag-cocoa

| Component | State | Operations | Interacts with |
|---|---|---|---|
| Event delivery: `Delivery/BSGEventUploader.m`, its two operations, `BugsnagApiClient.m` | two directories of event files, a serial upload queue, a serial scan queue | upload an event, store an event, scan the directories, upload the latest file at launch | called by `BugsnagClient` from any thread, by connectivity changes and at launch; the crash handler adds files |
| Sessions: `BugsnagSessionTracker.m`, `Storage/BugsnagSessionFileStore.m`, `Delivery/BugsnagSessionTrackingApiClient.m` | current session and its counts, session files, the set of file ids in flight | start, pause, resume, register a session; count an error; deliver stored sessions | `notify` counts errors; every change calls back into the crash data of `BugsnagClient.m` |
| Launch and crash detection: `Client/BugsnagClient.m`, `BugsnagSystemState.m`, `Helpers/BugsnagKVStore.c` | launch state file, key-value files, crash sentinel | classify how the last run ended, count launch crashes | crash handler, app hangs, notifications |
| Crash sentries: `KSCrash/Source/KSCrash/Recording/Sentry/` | installed handlers, exception ports, the crash context, suspended threads | install, handle a fault, suspend and resume, uninstall | call the report writer; the kernel and the language runtimes call them |
| Report writer: `BSG_KSCrashReport.c`, `Tools/BSG_KSJSONCodec.c`, `BSG_KSCrashC.c` | an open file, the encoder's nesting | write the standard or the minimal report section by section | reads the images, the breadcrumbs, the session, the state; runs in a process that has crashed |
| Images and stacks: `Tools/BSG_KSMachHeaders.c`, `BSG_KSBacktrace.c`, `BSG_KSString.c`, `BSG_KSSignalInfo.c`, `BSG_KSDynamicLinker.c` | linked list of images | add and remove an image, walk a stack, find text and symbols | dyld calls back on the threads that load; the handlers read |
| Crash recorder state: `BSG_KSCrashState.m` | state file (durations, crashed last launch) | load, save at notifications and at a crash | `BugsnagClient` reads it at launch |
| Breadcrumbs: `Breadcrumbs/BugsnagBreadcrumbs.m` | numbered files, first and next number | add, remove all, load, write to a report | every component adds breadcrumbs |
| App hangs: `Helpers/BSGAppHangDetector.m` | semaphore shared by the run loop and a queue | detect, end | `BugsnagClient+AppHangs.m` stores or drops the event |
| Connectivity, configuration, metadata, payloads, migration | data | conversions | - |

### AppAuth-iOS

| Component | State | Operations | Interacts with |
|---|---|---|---|
| `AppAuthCore/OIDAuthState.m` | last authorization, token and registration response, refresh token, error, list of pending actions | perform an action with fresh tokens, update with a response or an error, force a refresh, archive | the token endpoint; the application's blocks on their queues |
| Flows: the two sessions in `AppAuthCore/OIDAuthorizationService.m`, `AppAuth/iOS/OIDExternalUserAgentIOS.m` | pending callback; the sheet or Safari view that shows the flow | present, resume with a URL, cancel, view closed | the system's sheets and animations, the application |
| `AppAuthTV/OIDTVAuthorizationService.m` | `pollRunning`, the interval, a sleeping thread | request a code, poll, cancel | the device authorization and token endpoints, the main queue |
| Loopback server and other user agents, discovery, registration, ID tokens, requests and responses | a socket; values | one request and answer each | - |

### What is hard

* **Events**: scans, uploads, stores and evictions work on listings of the same directory that are
  stale as soon as they are made; the same file can have two operations; the process may end between
  any two steps. Correct means that no event is lost once it is on disk, except to make room for newer
  ones, and none is sent again that the server has confirmed unless its file could not be removed in time.
* **Sessions**: no lock protects the current session; the crash data is a second copy of it; the files
  are listed before the ids in flight are looked at.
* **Tokens**: callers on several threads have to share one refresh; the answer updates the state outside
  the lock that guards the list of those who wait.
* **Flows**: a callback has to come once, with the response if there was one, although the dismissal of
  a view takes time.
* **Device flow**: the thread that polls does not wait for the answers.
* **Crashes**: several threads crash at once, or the handler does; threads are suspended one by one;
  nothing may be allocated, no lock taken, and what the handler reads (images, breadcrumbs, stacks) was
  being changed by the threads it has suspended. The report is written to a disk that may fill, by
  calls whose results are thrown away.

## The modules

| Module | Code | Contents |
|---|---|---|
| `EventCustody` | - | abstract specification: an event is in custody, in memory or on disk, until it meets one fate |
| `EventUploader` | event delivery | the detailed specification; `Promise` instantiates `EventCustody` |
| `EventRequests` | event delivery | `EventUploader` with a history variable for the requests of scans |
| `Sessions` | sessions, crash data | tracker, file store and API client |
| `AuthState` | `OIDAuthState` | calls, refresh, answers, archiving |
| `AuthFlow` | sessions of flows, iOS user agent | two flows in one user agent |
| `Launch` | launch and crash detection, app hangs, state of the crash recorder | how a run ends, what it leaves on disk, what the next launch makes of it |
| `DeviceFlow` | `OIDTVAuthorizationService` | initial request, polling thread, main queue |
| `CrashTools` | stack walk, text and addresses in memory, escaping, numbers, signals, symbols | pure algorithms, each with a reference definition |
| `JSONCodec` | the encoder and the callbacks above it | the encoder with its error paths; what a JSON parser makes of the tokens |
| `MachHeaders` | the list of images | loads, unloads, readers |
| `Breadcrumbs` | breadcrumbs | numbered files, the numbers the handler reads, the writers |
| `CrashReport` | report writer | composes the four modules above: a process runs, crashes, and writes its report |
| `CrashSentry` | sentries | faults, handlers, suspended threads, uninstalling |
| `MCEventUploader`, `MCSessions`, `MCAuthState`, `MCDeviceFlow`, `MCLaunch`, `MCCrashReport`, `MCCrashSentry` | - | constants, symmetry, small inputs for TLC |
| `EventUploaderProofs`, `SessionsProofs`, `AuthStateProofs`, `AuthFlowProofs`, `DeviceFlowProofs`, `LaunchProofs`, `CrashReportProofs`, `CrashSentryProofs` | - | theorems |

### EventUploader

`disk`, `born` and `corrupt` are the files with their creation dates and whether they hold an event;
`calls`/`storeList` are the calls of `uploadEvent:` and `storeEventPayload:`, the latter with their local
listing; `uploadQ` is the upload queue with the executing operation first; `scanCalls`, `scanOps`, `scanPc`,
`scanList` are the threads in `uploadStoredEvents`, the scan queue and the local variables of a scan;
`mainPc` and `latest` are the part of `-[BugsnagClient start]` that uploads the latest file. Each directory
listing, deletion and enqueueing is one action, because each is one call in the code with no lock around it
and its neighbours; so is each count of a queue that decides whether an operation is added (`UploadEvent`
before `UploadAdd`, `RequestScan` before `AddScan`). An operation reads its file, is answered (delivered,
undeliverable, failed), and only then, in a step of its own that may fail, removes the file (`Removed`,
`NotRemoved`) or stores the event. Trimming may fail to remove a file too. `Die(R)` ends the process
anywhere; with `R = {r}` the crash leaves a report `r`, perhaps a cut one. An event has at most one file, so
that files are named by events. `acks` and `fate` are history. `wanted` of `EventRequests` holds the files
that were there at a call of `uploadStoredEvents`; only a scan that lists the directory after the call takes
them off.

### Sessions

`call[t]` is what is left of thread `t`'s call of a tracker method. The accesses of `currentSession`
in `startNewSession` (set, read to write the file, read for the callback) are separate actions, and so
are the id and the counts in `BSGWriteSessionCrashData`. `activeIds`, `sendQueue`, `requests` and
`handlers` follow a file from the claim under the lock to the release under the lock. `created` is the
creation date of each file, by which the store lists and prunes them; `clock` counts the files written,
so that no two have the same date. `threads` says
whether the application calls the tracker on the main thread only: the properties that need it say so.

### Launch

The first six variables are what is on disk: the four keys of `BugsnagKVStore`, the file of
`BugsnagSystemState`, the launching flag of `state.json`, the state file of KSCrash, the crash sentinel
and `app_hang.json`. `pc` walks the main thread through the initializers and `start`, one file access per
action, so that a run can end between any two. `handler` is the crash handler, which the system may stop before the state
file or the sentinel is written. The blocks of `mutateLaunchState:` only matter for the count of crashes
while launching: they take the lock in any order, and read and write the file outside it, in any
order. `block[b]` is what one of them is at and the count it has read; they differ in nothing else, so that
`MCLaunch` may permute them. In the launches of `Failing` any file operation may fail and leave what there
was (`IfFails`); the code logs that and goes on. `isInBackground` is what the detector of hangs goes by: it
starts as NO, also for a launch in the background. `ended`, `streak`, `unreported`, `uncleared` and `torn`
are history: what really happened, and what could not be written or removed. Simplified: the
handlers are always armed once `start` has installed them, `autoDetectErrors` is on, one notification
sets the key, the KSCrash state and the block in one step, and `state.json` is written in one piece.

### AuthState

`pc[a]` is how far the call of `performActionWithFreshTokens:` for action `a` has got; `open` and
`pending` are `_pendingActions`; `request[a]` the token request it has made; `draining` the main thread
while it dispatches what was queued. Tokens are numbered and know their authorization (`grantOf`); `bare`
are responses with status 200 that have no access token, which the code accepts
(`OIDAuthorizationService.m:525`), with or without an expiration date.
`threads` again tells applications that use the object on the main thread from others.

### AuthFlow and DeviceFlow

`AuthFlow` runs on the main thread; its concurrency is that of callbacks. `handlers`, `shown` and
`dismissing` are what the system still has to do. A sheet that the code cancels does not call its
handler any more. `DeviceFlow` has the polling thread (`loop`), the requests without an answer
(`polls`), and the main queue that each answer passes through. The interval the server asks for is any
number in `Intervals`, in tenths of a second: fractions, zero and negative ones too.

### CrashTools

Addresses are small numbers and text is a sequence of classes of bytes. The loops of the code are
recursive functions; the sizes of the code (depth of a backtrace, work buffer, significant digits,
width of a word) are constants, so that their boundaries are near. Beside each algorithm stands what it
should compute, said another way: `BacktraceHonest` against `Walk`, `TextExact`, `HexExact`,
`EscapeFaithful`, `IntegerExact`, `DecimalNearest`, `SymbolNearest`. The assumptions on the constants are
those of the code's values: a work buffer has room for the longest escape, and a stack that counts as an
overflow (200 entries) has at least two more than are stored of it (150).

### JSONCodec

A token is what one call of `addJSONData` writes. The operations of the encoder follow the code with
every early return: one that fails writes nothing more, the writer above it ignores the result (`Call`)
and goes on with the next. The acceptor reads the same tokens as a JSON parser would and notes which
members it meets where. `Texts` are the strings, for the names and values of a report; the tokens of the
encoder are among them, and "quote" is none that a caller can pass, because quotation marks are escaped.
`Docs`, `Encoders` and `Calls` are the types. `Calls` has no JSON element of NULL: the report writer takes its
length before it looks at it. The loops over tokens and levels are functions over an
interval of numbers.

### MachHeaders and Breadcrumbs

`list` is the linked list from its head, in the order in which the serial queue appends; marking records
of an unloaded image is one step per record, because nothing stops a reader in between. `mapped` is what
is really in memory; `unrecorded` are images for whose record `malloc` returned NULL. In `Breadcrumbs`, `nextFileNumber` is the property, `first` and `next` the two
numbers of `g_context`, which the code writes one after the other under the lock (`TakeNumber`,
`PublishNumber`); the file is written (`WriteCrumb`) and the one that has left the range deleted
(`DeleteOldCrumb`) outside it. A new client first resets the numbers, then deletes the files, of which some may stay ("undeleted").

### CrashReport

`phase` is the section of the report to be written next; a section is the sequence of encoder calls the
code makes for it, computed from `crash` (what the sentries found), `scene` (what was prepared while
the process was well) and the state of `MachHeaders` and `Breadcrumbs` at the crash. The process may be
killed between sections, the handler may crash itself (then the minimal report is written to a
file of its own), and `room` tokens fit on the disk; once a write has failed all later ones do. A callback
of the application is `Polite` if all it adds has a name, which is not "breadcrumbs", and is finite or JSON, and if it ends
only what it has begun; it may leave containers open, which `endEncode` closes. It begins `MaxBegun` containers
at most, so that the levels of the encoder (`isObject[200]`) suffice: the code does not look. `enc` has an encoder for
each report that was opened. `Fields` are the names of the members the code uses. The inputs of the
algorithms (`Machines`, `SymbolTables`, `Addresses`, `Memories`, `Strings`) are constants of this module,
so that what is said of them can be checked for small sets and proved for any.

### CrashSentry

`at[t]` is the stack frame of a thread in a handler: the stage, the kind of crash, the thread it is
about, whether a crash was being handled when it entered, the threads still to be suspended. The orders
of the stages differ between the four sentries and are data (`MachOrder`, `SignalOrder`, `CPPOrder`,
`NSOrder`). Threads are suspended and resumed one by one, and the flag that says that they run (`threadsRun`)
is set after the last: a thread that was resumed earlier may crash and find it unset, and then suspends
nobody. `suspended` counts as the kernel does; `inbox` is the Mach port; `gone` are threads that
have ended. `Fault` and `HandlerFault` may come in any thread at any time up to the bound; a fault goes
where the installed handlers and the owner of the ports send it.

## The runs

| Run | Question | Bounds | States |
|---|---|---|---|
| `events_safety` | Is every event in the custody its fate says; is none that was confirmed sent again while its file could be removed; are files evicted only for newer ones; does the uploader implement `EventCustody`? | 2 events, limit 1, 2 concurrent reporters, 2 threads asking for scans, one death | 757,644 |
| `events_online` | Is a request for a scan followed by a listing even when it is dropped because one waits; do files leave the disk when the library is online? | 2 events, both from crashes, limit 2, 2 threads asking for scans, 2 deaths | 154,117 |
| `sessions_live` | Is each session sent once at a time and released; is a started session kept; is the crash data never stale? | 2 threads, 2 sessions, limit 1, one relaunch | 414,154 |
| `sessions_resume` | finding, see below | as above | |
| `auth_safety` | Is there one refresh; is each action in exactly one place; is none dispatched without an error before the refresh it needs, or without a token the server gave; is every action called? | 2 actions, 1 authorization, 2 responses, one restart | 443,740 |
| `auth_grant` | finding | 2 authorizations | |
| `launch_safety` | Is a crash reported once and never forgotten; are the ways to end told apart; are launch crashes not counted too often? | 3 launches, the last up to its verdict, 2 blocks under way, file operations fail in the second launch | 5,532,067 |
| `flow_live` | Is each callback called once, with the response that was accepted, and does every shown flow end? | 2 flows in one user agent | 5,535 |
| `device_live` | Do polls keep their distance and stop with the flow; is the answer reported? | 2 outstanding polls, one cancellation, servers asking for nothing, -1, 0, 0.3 or 2 s, interval at most 6 s | 54,721 |
| `device_double` | finding | 2 outstanding polls, no cancellation | |
| `report_safety` | Is a report that parses whole, with exactly the images and breadcrumbs there are? Do the algorithms on stacks, symbols, texts and numbers compute what they should? | 2 images (memory may be missing for the record of one), 2 loaders, 2 breadcrumb writers, 1 breadcrumb kept, numbers to 2, 9 steps before the crash, 7 situations, 2 recrashes, stacks of 6 frames, rooms of 40, 60, 160 tokens or unlimited; all small inputs of the algorithms, see below | 781,364 |
| `crash_live` | Is each report about one crash; has a process that ends left one; does it end? | 2 threads and both exception threads, 2 faults and one of a handler, 3 sets of sentries | 397,156 |

Why the bounds are enough for what they are meant for: with two events and a limit of one, two
threads and a scan can trim to the limit at once, an eviction can hit a file with operations in the queue,
and two threads can each find one scan and leave two that wait. A second death adds only runs that begin with
files on disk, which the first one already does. Longer runs were made by hand, without a violation: three
events with one reporter, one scan call and no death (2.6 million states); two events, limit 2, with two
deaths (1.2 million); the liveness properties with one reporter and no death (0.6 million). Two threads, two flows or two actions are the least that race; a third
would repeat the part of one of them, since the code treats them alike. Two outstanding polls are the
least that can both end a flow. Three launches let a run end in a way the second launch does not get to
judge and the third does, and let two crashes be counted. The second authorization of `OIDAuthState` is in
`auth_grant` only: it brings new tokens, the actions that wait are untouched by it. One breadcrumb kept
and three numbers let two writers be two numbers apart, so that a late writer meets a file that has
left the range. Nine steps are enough for a load and an unload on one thread with a second thread
anywhere in its own, and for two breadcrumbs at once. The rooms stop the standard report inside its first section, or at
the images or threads, and the minimal one inside its thread. In `crash_live` two
faults with a fault of a handler are three crashes in one run; three threads that crash take too long to
explore, and are what `FirstReportAlwaysOfOneCrash` is about. In `launch_safety` files fail in the second
launch only, so that one before and one after it write theirs; the third is followed up to its verdict.

`ToolsFaithful` (`StacksHonest` and `TextsFaithful`) and `ValuesFaithful` say nothing of the state; `report_safety`
evaluates them in one initial state (`AtStart`) over all small inputs: every stack of up to four frames,
with loops and with unreadable frames, all symbol tables of up to three symbols, all memories of up to four bytes, all texts of
up to five units and those of up to nine that fill a work buffer of eight, all words of eight bits, the decimals of
up to four digits around 1, 1000 and 10000.

`CHECK_DEADLOCK FALSE` stands where the system may come to rest: all flows are over, all actions
called, all sessions made.

### Fairness

* Operation and dispatch queues run what is on them (weak fairness of `Run`, `Scan`, `Send`, the main
  queue). A URL session calls its completion handler eventually, with an error if there is no
  answer, so answers are weakly fair, but which answer comes is not.
* `events_online`: `NoRequestLost` needs the queues only, and that a thread that has decided to add a scan
  does so. `EventuallySettled` has the premise `Online`: triggers come again, a server that can be reached
  infinitely often is reached (strong fairness of `Delivered`), a file whose removal is tried again and again
  is removed some time (strong fairness of `Removed`), and the configuration keeps a URL. Without them nothing
  obliges a file to leave.
* `flow_live`: the system ends animations, and what is on the screen is closed some day, by the user or
  by a redirect. Nothing makes a user who was sent to the browser come back.
* `crash_live`: a thread that is not suspended runs (weak fairness of each thread's `Step`). Faults and
  kills are not fair: nothing has to crash.
* Nothing else is assumed of the application or of the user.

## What the code does otherwise than said

* `auth_grant`: the answer to a refresh may arrive after a new authorization and overwrites its tokens,
  although `OIDAuthState.m:360` discards the old ones as no longer relevant.
* `device_double`: two answers on their way each call the completion block.
* `sessions_resume`: `pauseSession` clears the crash data and `resumeSession` does not restore it, so
  that a crash afterwards does not count towards the session.

Seen and modelled, where it is in a modelled part, but without a run of its own.

AppAuth-iOS:

* Cancelling while a Safari view is being dismissed replaces a response that was accepted
  (`OIDAuthorizationService.m:91`); `OIDExternalUserAgentSession.h:26` says that cancel has no effect
  after a URL was resumed. `AcceptedResponseWins` has the exception.
* `setNeedsTokenRefresh` during a refresh is lost when its answer comes (`OIDAuthState.m:519`).
* `updateWithTokenResponse:error:` clears the authorization error before it looks at its arguments (`:385`).
* A response with status 200 and no access token passes for a successful one (`OIDAuthorizationService.m:525`);
  with an expiration date it counts as fresh (`OIDAuthState.m:558`), and the blocks are called with neither a
  token nor an error, against `OIDAuthState.h:214`. `DispatchedFresh` has the exception.
* The interval of a device flow is any number the server sends: a fraction of a second is polled as often, and a
  negative one without a pause (`OIDTVAuthorizationService.m:212`). `PollsSpaced` says no more than that the thread
  keeps to what was asked.
* `OIDTVAuthorizationService` calls the completion block on cancelling a flow whose initial request
  failed, and calls nothing when the code expires.
* After the user closes a sheet the user agent stays "in progress"; cancelling reports the error code of
  a cancellation by the user; resuming a finished session raises an exception where the header says it
  has no effect.

bugsnag-cocoa, deliveries and launches:

* The count of crashes while launching is lost when a second crash comes before the block that writes it
  (`BugsnagSystemState.m:169,267`), so `CountNotExceeded` is only an upper bound.
* A launch that ends before its verdict hides an out-of-memory kill, and `app_hang.json` of a hang that
  is over, or of a run before the last, makes a launch report a crash (`BugsnagClient.m:577`;
  `BugsnagLastRunInfo.h:26` says "True if the previous run crashed."). `EndRecognized` has the premise that
  no run was torn in such a way.
* A state file that cannot be written at a launch (`BSG_KSCrashC.c:150`), or a sentinel that cannot be removed,
  makes the next launch report the crash again: `CrashReportedOnce` has the premise `~ uncleared`, and a run that
  could not write or remove one of the files its verdict or the next one reads counts as torn.
* An event that the server has confirmed is sent again if the process ends before its file is removed, or if it
  cannot be removed, which is only logged (`BSGEventUploadFileOperation.m:38`). `AcknowledgedOnce` says that
  nothing else makes it be sent again.
* More than one scan may wait, one for each thread that has counted (`BSGEventUploader.m:81`) before another has
  added its own (`:86`), although the comment on line 82 wants to prevent that; each finds what the one before has left.
* Two threads can add two upload operations for one file (`BSGEventUploader.m:167-172`; harmless, by
  `AcknowledgedOnce`); a session can be listed before and claimed after its delivery and is then sent
  twice (`BugsnagSessionTrackingApiClient.m:46-54`).

bugsnag-cocoa, crashes:

* `beginHandlingCrash` clears the reserved threads (`BSG_KSCrashSentry.c:209`) that
  `BSG_KSCrashSentry.h:68` says are not suspended: the exception threads are suspended with the others.
  A handler that crashes on the primary exception thread, or while the exception threads are suspended,
  then waits for ever; `Terminates` has the premise that no handler crashes.
* An NSException among other crashes fills the context before the threads are suspended, and from
  `CPPExceptionTerminate` without beginning to handle a crash: reports may mix two crashes or all stay cut
  short. `OneCrashPerReport` and `ReportLeft` exclude it. Three crashes at once may leave no whole report.
* The flag `bsg_g_threads_are_running` is set after the threads have been resumed one by one
  (`BSG_KSMach.c:425`, `BSG_KSCrashSentry.c:184`): two threads resumed before that may both crash, suspend nobody
  and fill the context beside each other, so that with three crashes the second report may mix two.
  `OneCrashPerReport` says nothing of a later report of three crashes.
* Unloading an image marks every record with the same preferred address (`BSG_KSMachHeaders.c:167`;
  `BSG_KSMachHeaders.h:25` says the field means "that the library has since been unloaded"); `ImagesExact` and
  the theorem about it claim presence only for images whose address is their own, which that of a dynamic library
  usually is not, and for whose record there was memory.
  Installing again frees the list before `g_installed` is looked at.
* `isBacktraceTooLong` returns 1, which is true, for an unreadable frame pointer
  (`BSG_KSBacktrace.c`; `BSG_KSBacktrace_Private.h:62`): a protection failure with a bad frame pointer is
  then rewritten as a stack overflow. For the same thread `backtraceThreadState` returns no entry, although
  `backtraceLength` says that there is one.
* Printing the smallest 64-bit integer negates it, which is undefined; NaN and infinity print as words
  that are not JSON. `ParsesWhole` asks the application's callback to be well-behaved for the second.
* The files of the previous launch that cannot be deleted stay (`BugsnagBreadcrumbs.m:210`), and a crash may find
  them among its own; `CrumbsKept` speaks of this launch's, and says that there are no others unless that happened.
* A breadcrumb whose writer is late by more than the limit leaves a file that nothing deletes before the
  next launch; it is outside the range the handler reads.

## The proofs

The provers use the named assumptions of the modules on their constants and nothing else: sets of
events, actions or flows are finite, bounds are natural numbers, at least one event file is kept, the
bound on the polling interval is at least the five seconds a slow-down adds and anything the server may ask
for, unnamed images are images,
"free" is no writer; the names and values of a report are texts (`TextsAssumption`, `Fields`), what
happens to a process is of the kinds `SituationsOK` lists, and the sizes of buffers are as in
`ToolsAssumption`. All results below hold for every value of the constants that satisfies them.

`EventUploaderProofs` (`TypeCorrect`, `CustodyKept`, `NeverAcknowledgedTwice`). `TypeOK` alone is not
inductive. Threads count the scans and add theirs later, so what bounds the scans is the sum of those that are
there and those about to come: `ScanCounted` says that it never exceeds the threads that may call by more than
one, and that a scan that is under way is counted. `Custody` is not inductive either. An operation that has
sent its event and is about to store it, or to remove its file, a listing made before a file was deleted, and
an event that only a thread's local variable names could each bring an event back or lose it; the invariant

    IInv == TypeOK /\ ScanCounted /\ ListsInv /\ Core
    Core == QueueInv /\ FilesInv /\ AddInv /\ NewInv /\ HeldInv /\ AckInv

says what they may be. `QueueInv`: only the first operation of the queue has started, and an event has
at most one object operation. `FilesInv` and `ListsInv`: whatever names a file names one that was once
created, and an event in an object operation that may still send has never had one. `AddInv`: an event that a
thread is about to add is in no operation and no file yet. `NewInv`: an event not yet reported is nowhere.
`HeldInv` is `Custody`. `AckInv`: a confirmed event is confirmed once since a removal last failed, has no file
but the one that its operation is about to remove, and no other operation has loaded it. Most of the actions
change custody in one of ten ways or end the process; `StepKinds` sorts the actions into these kinds, and one
lemma per kind shows that `Core` is kept. Two operations for one file do no harm because the second finds no
file (`SettlesStep`), unless the first could not remove it (`LeavesStep`).

For `AlwaysEvictedForNewer` and `UploaderImplementsCustody` it is added that
creation dates tell files apart (`BornInv`), that a thread about to trim has more files in its list than
the limit (`TrimInv`), and that an evicted event had a file. Evicting is by a stale list; it is still for
newer events only because the list holds enough files created after the oldest. The refinement
sorts the steps by what they do to the files and the fates of events; each kind is a step of
`EventCustody` or a stutter under the mapping `Whereabouts` of `EventUploader`.

`SessionsProofs` (`TypeCorrect`, `ActiveAlwaysExact`, `SessionsAlwaysKept`, `CrashDataNeverStale`):

    IInv == TypeOK /\ CallsInv /\ OnceInv /\ MainInv /\ KeptInv

`CallsInv`: what a call has read was a session when it was read. `OnceInv` says without counting that the
place of an id in flight is one: it is in the queue, and there once, or has one request or one handler. This
holds whichever threads call, because ids are claimed and released under the lock. `MainInv` and
`KeptInv` are what calls on the main thread alone guarantee. `MainInv` says for each step
of a call what it still knows of the current session, and that the crash data is fresh between calls.
`KeptInv`: files are written in the order of the sessions, and a session that a call has
listed to be deleted has as many newer ones as may be kept until it is deleted (`Enough`), so that
nothing newer than what is kept is ever pruned.

`AuthStateProofs` (`TypeCorrect`, `OneRefreshAtATime`, `EachActionExactlyOnce`,
`AlwaysDispatchedFresh`): `IInv == TypeOK /\ RefreshInv /\ OneThreadInv /\ PendingInv /\ ExactlyOnce`.
`RefreshInv`: while there is an array of pending actions and the main thread does not drain it, one action
is refreshing, and otherwise none is. `PendingInv`: without an array none waits. `OneThreadInv` is what calls on the main thread alone guarantee, and what
`AlwaysDispatchedFresh` needs: on other threads the tokens may go between the test and the dispatch.

`AuthFlowProofs` (`TypeCorrect`, `AlwaysCalledOnce`, `AcceptedAlwaysWins`): `CalledInv` ties the number
of calls to the state of the flow, `AgentInv` says that a session which has taken a URL is not the user
agent's any more, `DismissInv` that a view is dismissed with what was accepted or for a session that
was cancelled. Without them a closed view could report a cancellation after a URL was taken.

`DeviceFlowProofs` (`TypeCorrect`, `PollsAlwaysSpaced`): nothing is polled before the initial answer
(`PhaseInv`), and the interval is always one that the thread may sleep for next: not zero, no less than the server asked
for, and five seconds at least if it did not ask or has said slow_down (`IntervalInv`). The server may ask for any
number.

`LaunchProofs` (`TypeCorrect`, `CrashIsNeverForgotten`, `CrashIsReportedOnce`, `EndIsRecognized`,
`CountIsNotExceeded`). The types need that no count in memory, in the file or read by a block has come further
than there were launches (`CountsInv`). `CrashInv` relates the sentinel, the state file and the local copies of both to the
crash no launch has reported yet, and gives `CrashIsNeverForgotten` and `CrashIsReportedOnce`.
`EndInv == TracesTypeOK /\ KeysInv /\ HangInv /\ HandlerInv /\ EndedInv` says, for each way a run
may end, what it has left in the five places, and while the next launch reads and overwrites them, which
of them still stand for the last run; it gives `EndIsRecognized`. `CountInv == NoCountYet /\ FirstInv
/\ StreakInv` follows the count through the verdict: before it no block has one to write, and once the file is new
(it always is unless the run is torn, which stays so: `TornStays`) that is empty as well, so that whatever a late block writes afterwards is this launch's count; and that is
one more than the last only if the last run crashed while it was launching, which `FirstInv` says of
the first launch.

`CrashReportProofs`: `CrumbsInv` says that the lock is held just while the two numbers disagree, that a
number belongs to one writer, and that a written breadcrumb keeps its file while it is one of the last
(`CrumbsAlwaysKept`, for any number of writers and breadcrumbs). `ImagesInv == ImagesTypeOK /\ HeldOnce
/\ RecordsInv /\ LoadersInv /\ ListedInv` says that one thread at most is at an image, which
record is its own, and that an unloading thread has marked all records it has passed (`ImagesAlwaysExact`).

What a report is made of is computed by functions over sequences of calls, tokens and levels, of any length. The
library's induction theorems have an operator as their parameter, which the provers cannot
instantiate; `NatSetInduction` says the same of a *set* of numbers, and is proved from the least element of the numbers
that are missing. Each recursive function of the model is then built up step by step (the lemmas `...Steps`),
and what it computes is proved by induction over its argument.

`ReportsWhole` is about the file. `ParsesWhole` says nothing of a file that does not parse yet, so it is
not inductive. The invariant that is,

    ReportInv == ReportTypes /\ ReportStages /\ ReportEnds

says for each section which container is open, what has been written so far, and how often each path
that counts occurs in it (`ReportStages`), and that a report which was left or is not closed yet does not parse
(`ReportEnds`). The proof goes up the layers of the code.

1. An operation of the encoder (`Ready`, `Opened`, `Kept`, `Ended`): between two calls the levels of the
   encoder are those of the text. A call writes all its tokens, or the disk fills (`Halted`), and then no
   later call changes the file (`Frozen`), though its writers know nothing of it.
2. A function of the report writer: `Does(p, obj, P, q, n)` says that the calls `p`, made in the container at the path
   `P`, leave it open as it was and add `n` occurrences of the path `q`; `Silent` that they add
   none because all they add lies deeper. Both are preserved by sequence, by containers around the calls and by
   concatenation of any number of them, which is how the thirty functions are made (stacks, registers, threads,
   images of any number).
3. A section: `Stage` says where the encoder is and how often `q` occurs; `StandardAt` and `MinimalAt` say it of every
   section of both reports.
4. The callback of the application may open containers and leave them so. While it runs, and after it, the encoder is somewhere
   below "user_atcrash" and not in its breadcrumbs (`Wild`, `Adrift`), and that is all the
   sections after it need (`Loose`), since closing all levels at the end (`Whole`) puts them right.

`ReportTypeCorrect` adds `SituationInv` and the invariants above. It holds for callbacks that are not
well-behaved too.

`StacksAlwaysHonest`: for any machine context, cyclic or not, the entries are counted by the longest run that
can be read, and the four cases (whether there is a link register, whether the stack is cut) are proved
one by one. A cut stack skips at least two entries by the assumption on the threshold. Had the
two limits been one apart, a cut stack would skip one entry, the link register would be stored
in place of the one behind it, and the report would not be a piece of the stack: the proof found this, TLC
with the limits of its run had not. The constants in the code are 50 apart.
`TextsAlwaysFaithful`: the scan of memory is right at the end of the buffer, and at a byte if it is right behind the
character that begins there (`LookRight`); a text is taken into chunks unit by unit, none too long
(`LongerFits`, `TextTaken`), and cut into pieces whose chunks follow each other (`EscapesFaithful`).
`ToolsAlwaysFaithful` is both.

Two things were changed in the model for these proofs. In the acceptor a token that ends an array could also be
read as a value, and only the order in which TLC looks at the cases of a `CASE` told the two apart; the
cases exclude each other now. And folds with a local operator, which the provers cannot expand, became recursive functions.

`CrashSentryProofs` (`TypeCorrect`, `FirstReportAlwaysOfOneCrash`, `ReportAlwaysLeft`), the longest of the
proofs. No lock guards the context of a crash. What does, unless one of several crashes is an NSException, is
that each handler suspends all other threads before it fills it; but several may be at that at once and suspend
each other halfway, so the proof is about the kernel's counts: `Exclusion` says that the count of a thread is no
less than the number of those that hold it (`CountInv`), and that whoever has suspended all others is the one
that runs (`AloneInv`). It holds until the first report is whole or its writer crashes (`Early`): then the others
are resumed one by one before the flag is set, a thread may find it unset and suspend nobody, and what protects the
context is gone. The theorem is therefore about the first report, for any number of crashes; that the second of
two crashes is not mixed either is model-checked (`OneCrashPerReport`), and of three it may be.

    SentryInv == TypeInv /\ (Early => Exclusion) /\ SingleInv /\ HandlerInv /\ FillInv /\ FirstReportOfOneCrash

`SingleInv`: after a single crash, of any kind, one thread is in a handler. `HandlerInv`: a handler crashes only
when it writes a report. `FillInv`: the context that is about to be reported first is that of its thread's crash.
That a process which ends by itself leaves a report
needs more, because the order in which handlers are uninstalled, signals raised again and reports opened
decides it:

    LeftInv == QuietInv /\ InstalledInv /\ FirstInv /\ SecondInv /\ ChainInv /\ FewInv /\ PairInv

Nothing happens before the first fault (`QuietInv`); handlers of signals and Mach exceptions are
uninstalled together (`InstalledInv`). `FirstInv` is about the stages of a single crash, `SecondInv` about the minimal
report of a handler that has crashed. For two crashes at once, `ChainInv` says that each has one
handler at a time, which passes from the exception thread to the thread itself when the signal is raised, `FewInv`
that there are no more crashes than faults, and `PairInv` that before there is a report nobody is done, and
that only the second that has begun uninstalls the handlers: it has seen the other, who
therefore writes the report, or writes the minimal one itself.

Only model-checked: `OneCrashPerReport` for the report after the first; `ValuesFaithful` (addresses in texts, integers, decimals: powers with a variable exponent and folds,
of which the provers know nothing); the history variable of `EventRequests`; and all liveness, which needs
fairness and `ENABLED`.

## What is not modelled

* Sentries: a failure while installing, a second installation, `bsg_reportException` of iOS applications
  on macOS, the capture of the C++ stack in `__cxa_throw`.
* Numbers: a double is an exact rational; the rounding of `log10` and `pow` (`BSG_KSJSONCodec.c:173`) is not modelled.
* Report: containers nested deeper than the levels of the encoder, which it does not test; a NULL passed for
  a JSON element, which crashes; the trace on the console (`logCrash`), the JSON decoder, base64 data elements, which no caller
  uses; a disk that fills and has room again, after which a section could land in the wrong place.
* Images and system information: reads of the kernel (`sysctl`, registers), which have no state.
* Crash recorder state: the durations and counts beside the crash flag.
* Breadcrumbs: the callbacks that filter them, reading them back, the notifications that add them.
* Sessions: the 30 seconds in the background after which the application starts one, `onSession` blocks.
* Launches: the event made for the verdict, the two seconds `start` waits for it.
* Flows: `failExternalUserAgentFlowWithError:` called by the application, the user agents of macOS,
  Mac Catalyst and custom browsers, the loopback server. Discovery, registration and ID tokens are one
  request and one answer each, and checks of the fields of a document.
* Connectivity, configuration, metadata, payloads, migration, requests and responses: values, their
  conversion and their declarations, with no order of events to get wrong. They are most of the lines of
  the two libraries, headers above all, which is why the modules cover a minor part of all lines.

## Plan

1. Of `ValuesFaithful`, that an integer is the value of its digits, by induction over them.
2. The durations of `BSG_KSCrashState`; the loopback server.
