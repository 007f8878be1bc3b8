------------------------------- MODULE Launch -------------------------------
(***************************************************************************)
(* How a run of the application ends, what it leaves on disk, and what     *)
(* BugsnagClient makes of that when the application is launched again.     *)
(*                                                                         *)
(* A run leaves traces in five places: the key-value store and the file of *)
(* BugsnagSystemState, state.json (is the application launching?), the     *)
(* state file of KSCrash, the sentinel the crash handler creates, and      *)
(* app_hang.json. The next launch reads and overwrites them one by one on  *)
(* the main thread, and may itself end between any two of these steps.     *)
(* The file of BugsnagSystemState is written by blocks on a concurrent     *)
(* queue, of which it is only modelled what they do to the count of        *)
(* crashes while launching: what else they write is not read again here.   *)
(*                                                                         *)
(* Files that cannot be written, read or removed are passed over, with a   *)
(* line in the log at most.  The keys are in a file mapped into memory,    *)
(* which does not fail.                                                    *)
(***************************************************************************)
EXTENDS Naturals

CONSTANTS MaxLaunches,  \* bound
          Blocks,       \* bound: the blocks there may be at once that have not written the file
          Failing       \* bound: the launches in which files may fail

ASSUME BoundsAssumption == MaxLaunches \in Nat

VARIABLES
    \* on disk
    kv,           \* wasTerminated, isActive, inForeground, debuggerIsActive
    systemFile,   \* whether there is one, and consecutiveLaunchCrashes in it
    stateJSON,    \* isLaunching
    stateFile,    \* crashedLastLaunch for the next launch, or "broken"
    sentinel,     \* crashSentinelPath exists
    hangFile,     \* the run that made app_hang.json: "this", "last" or "older", or "none"
    \* the process
    pc,           \* the main thread, "off" without a process
    config,       \* what configuration.enabledErrorTypes has
    app,          \* whether the application is active, in the foreground, and debugged,
                  \* and isInBackground, what the detector of hangs has been told
    updated,      \* the version or the boot time is not that of the last run
    last,         \* lastLaunchState
    wasLaunching, \* isLaunching in stateMetadataFromLastLaunch
    crashedLast,  \* crashedLastLaunch
    verdict,      \* what computeDidCrashLastLaunch found
    handler,      \* the crash handler
    hang,         \* the main thread hangs, or has stopped to ("over") and nobody has noticed
    \* BugsnagSystemState
    consecutive,  \* consecutiveLaunchCrashes
    current,      \* the same in currentLaunchState
    block,        \* what the blocks of mutateLaunchState are at: to set it or something
                  \* else, out of the lock, or about to write what they have read
    \* history
    launches,
    ended,        \* how the last run ended
    streak,       \* runs in a row that crashed while launching
    unreported,   \* what a crash has left since the last verdict: "saved", "marked" or "no"
    uncleared,    \* a trace of a crash that was reported could not be removed
    torn          \* a run has ended too early, left an app_hang.json it should not have,
                  \* or could not write or remove a file that the verdict depends on

disk    == <<kv, systemFile, stateJSON, stateFile, sentinel, hangFile>>
loaded  == <<config, updated, last, wasLaunching, crashedLast, verdict>>
process == <<pc, loaded, app, handler, hang>>
system  == <<consecutive, current, block>>
history == <<launches, ended, streak, unreported, uncleared, torn>>
vars    == <<disk, process, system, history>>

-----------------------------------------------------------------------------

Counts == 0 .. MaxLaunches
Starting == {"load", "deleteTerminated", "setActive", "setForeground", "setDebugger",
             "sync", "loadState", "saveState"}       \* the initializers
Started  == {"install", "arm", "uuid", "compute", "detector", "run"}   \* -start
Judged   == pc \in {"detector", "run"}
Armed    == {"uuid", "compute", "detector", "run"}
Crashes  == {"crash", "hang", "oom"}

TypeOK ==
    /\ kv \in [terminated : BOOLEAN, active : BOOLEAN, foreground : BOOLEAN, debugger : BOOLEAN]
    /\ systemFile \in [exists : BOOLEAN, count : Counts]
    /\ stateJSON \in BOOLEAN
    /\ stateFile \in {"clean", "crashed", "broken"}
    /\ sentinel \in BOOLEAN
    /\ hangFile \in {"none", "this", "last", "older"}
    /\ pc \in {"off"} \cup Starting \cup Started
    /\ config \subseteq {"appHangs", "ooms"}
    /\ app \in [active : BOOLEAN, foreground : BOOLEAN, debugger : BOOLEAN, isInBackground : BOOLEAN]
    /\ updated \in BOOLEAN
    /\ last \in [oom : BOOLEAN, count : Counts]
    /\ wasLaunching \in BOOLEAN /\ crashedLast \in BOOLEAN
    /\ verdict \in {"none", "other"} \cup Crashes
    /\ handler \in {"none", "saving", "writing", "done"}
    /\ hang \in {"no", "hung", "detected", "over"}
    /\ consecutive \in Counts /\ current \in Counts
    /\ block \in [Blocks -> [at : {"none", "count", "other", "applied", "read"}, count : Counts]]
    /\ launches \in 0 .. MaxLaunches
    /\ ended \in {"none", "other"} \cup Crashes
    /\ streak \in Counts
    /\ unreported \in {"no", "saved", "marked"}
    /\ uncleared \in BOOLEAN /\ torn \in BOOLEAN

NotRunning == [active |-> FALSE, foreground |-> FALSE, debugger |-> FALSE, isInBackground |-> FALSE]
NothingLoaded == [oom |-> FALSE, count |-> 0]
NoBlock == [at |-> "none", count |-> 0]

\* What there still is if the file operation fails.
IfFails(old) == IF launches \in Failing THEN {old} ELSE {}

Init ==
    /\ kv = [terminated |-> FALSE, active |-> FALSE, foreground |-> FALSE, debugger |-> FALSE]
    /\ systemFile = [exists |-> FALSE, count |-> 0]
    /\ stateJSON = FALSE /\ stateFile = "clean" /\ sentinel = FALSE /\ hangFile = "none"
    /\ pc = "off" /\ config = {} /\ app = NotRunning /\ updated = FALSE
    /\ last = NothingLoaded /\ wasLaunching = FALSE /\ crashedLast = FALSE
    /\ verdict = "none" /\ handler = "none" /\ hang = "no"
    /\ consecutive = 0 /\ current = 0 /\ block = [b \in Blocks |-> NoBlock]
    /\ launches = 0 /\ ended = "none" /\ streak = 0 /\ unreported = "no"
    /\ uncleared = FALSE /\ torn = FALSE

-----------------------------------------------------------------------------
(***************************************************************************)
(* The initializers of BugsnagSystemState and BugsnagClient                *)
(***************************************************************************)

Launched ==
    /\ pc = "off" /\ launches < MaxLaunches
    /\ launches' = launches + 1
    /\ pc' = "load"
    /\ config' \in SUBSET {"appHangs", "ooms"}
    /\ \E debugger \in BOOLEAN : app' \in
          {[active |-> TRUE,  foreground |-> TRUE,  debugger |-> debugger, isInBackground |-> FALSE],
           [active |-> FALSE, foreground |-> TRUE,  debugger |-> debugger, isInBackground |-> FALSE],
           [active |-> FALSE, foreground |-> FALSE, debugger |-> debugger, isInBackground |-> FALSE]}
    /\ updated' \in BOOLEAN
    /\ hangFile' = CASE hangFile = "none" -> "none" [] hangFile = "this" -> "last" [] OTHER -> "older"
    /\ UNCHANGED <<kv, systemFile, stateJSON, stateFile, sentinel, last, wasLaunching, crashedLast,
                   verdict, handler, hang, system, ended, streak, unreported, uncleared, torn>>

\* On to the next step of the main thread, unless a crash is being handled.
Step(from, to) == pc = from /\ handler = "none" /\ pc' = to

\* What didLikelyOOM looks at, apart from the version and the boot time.
LooksKilled ==
    systemFile.exists /\ ~ kv.debugger /\ kv.active /\ kv.foreground /\ ~ kv.terminated

LoadPreviousState ==
    /\ Step("load", "deleteTerminated")
    /\ last' = [oom |-> LooksKilled, count |-> systemFile.count]
    /\ consecutive' = systemFile.count
    /\ UNCHANGED <<disk, config, updated, wasLaunching, crashedLast, verdict, app, handler, hang,
                   current, block, history>>

SetKey(from, to, key, value) ==
    /\ Step(from, to)
    /\ kv' = [kv EXCEPT ![key] = value]
    /\ UNCHANGED <<systemFile, stateJSON, stateFile, sentinel, hangFile, loaded, app, handler, hang,
                   system, history>>

\* Mutant: wasTerminated stays.
MutInitCurrentState ==
    \/ SetKey("deleteTerminated", "setActive", "terminated", kv.terminated)
    \/ SetKey("setActive", "setForeground", "active", app.active)
    \/ SetKey("setForeground", "setDebugger", "foreground", app.foreground)
    \/ SetKey("setDebugger", "sync", "debugger", app.debugger)

InitCurrentState ==
    \/ SetKey("deleteTerminated", "setActive", "terminated", FALSE)
    \/ SetKey("setActive", "setForeground", "active", app.active)
    \/ SetKey("setForeground", "setDebugger", "foreground", app.foreground)
    \/ SetKey("setDebugger", "sync", "debugger", app.debugger)

\* The new state has no count yet; what sync cannot write it does not.
SyncInitialState ==
    /\ Step("sync", "loadState")
    /\ \/ systemFile' = [exists |-> TRUE, count |-> 0] /\ UNCHANGED torn
       \/ systemFile' \in IfFails(systemFile) /\ torn' = TRUE
    /\ current' = 0
    /\ UNCHANGED <<kv, stateJSON, stateFile, sentinel, hangFile, loaded, app, handler, hang,
                   consecutive, block, launches, ended, streak, unreported, uncleared>>

LoadStateMetadata ==
    /\ Step("loadState", "saveState")
    /\ wasLaunching' = stateJSON
    /\ UNCHANGED <<disk, config, updated, last, crashedLast, verdict, app, handler, hang, system, history>>

SaveStateMetadata ==
    /\ Step("saveState", "install")
    /\ stateJSON' \in {TRUE} \cup IfFails(stateJSON)
    /\ UNCHANGED <<kv, systemFile, stateFile, sentinel, hangFile, loaded, app, handler, hang, system, history>>

-----------------------------------------------------------------------------
(***************************************************************************)
(* -[BugsnagClient start]                                                  *)
(***************************************************************************)

\* bsg_kscrashstate_i_saveState: a file that cannot be opened stays as it is, and
\* one that is cut says no more than a clean one.
SaveState == stateFile' \in {"clean"} \cup IfFails(stateFile)

\* bsg_kscrashstate_init
InstallState ==
    /\ Step("install", "arm")
    /\ crashedLast' = (stateFile = "crashed")
    /\ SaveState
    /\ uncleared' = (uncleared \/ stateFile' = "crashed") /\ torn' = (torn \/ stateFile' = "crashed")
    /\ UNCHANGED <<kv, systemFile, stateJSON, sentinel, hangFile, config, updated, last, wasLaunching,
                   verdict, app, handler, hang, system, launches, ended, streak, unreported>>

\* From here on crashes are handled.
InstallHandlers ==
    /\ Step("arm", "uuid")
    /\ UNCHANGED <<disk, loaded, app, handler, hang, system, history>>

\* -[BugsnagSystemState mutateLaunchState:], up to the block it dispatches
MutateLaunchState(sets) ==
    \E b \in Blocks : /\ block[b] = NoBlock
                      /\ block' = [block EXCEPT ![b].at = sets]

RecordAppUUID ==
    /\ Step("uuid", "compute")
    /\ MutateLaunchState("other")
    /\ UNCHANGED <<disk, loaded, app, handler, hang, consecutive, current, history>>

\* Mutant: the sentinel is not looked at.
MutVerdict == IF crashedLast THEN "crash" ELSE IF hangFile # "none" THEN "hang"
              ELSE IF "ooms" \in config /\ last.oom /\ ~ updated THEN "oom" ELSE "other"

Verdict ==
    CASE crashedLast \/ sentinel                      -> "crash"
      [] ~ (crashedLast \/ sentinel)
           /\ hangFile # "none"                       -> "hang"
      [] ~ (crashedLast \/ sentinel)
           /\ hangFile = "none" /\ "ooms" \in config
           /\ last.oom /\ ~ updated                   -> "oom"
      [] OTHER                                        -> "other"

\* Mutant: the count is only ever increased.
MutLaunchCrashes == IF Verdict \in Crashes /\ wasLaunching THEN consecutive + 1 ELSE consecutive

\* Mutant: it is counted down.
MutLaunchCrashesDown == IF Verdict \in Crashes /\ wasLaunching THEN consecutive + 1 ELSE consecutive - 1

LaunchCrashes == IF Verdict \in Crashes /\ wasLaunching THEN consecutive + 1 ELSE 0

\* Mutant: the sentinel stays.
MutComputeDidCrashLastLaunch ==
    /\ Step("compute", "detector")
    /\ verdict' = Verdict
    /\ consecutive' = LaunchCrashes /\ MutateLaunchState("count")
    /\ unreported' = "no"
    /\ UNCHANGED <<disk, config, updated, last, wasLaunching, crashedLast, app, handler, hang, current,
                   launches, ended, streak, uncleared, torn>>

ComputeDidCrashLastLaunch ==
    /\ Step("compute", "detector")
    /\ verdict' = Verdict
    /\ sentinel' \in {FALSE} \cup IfFails(sentinel)
    /\ consecutive' = LaunchCrashes /\ MutateLaunchState("count")
    /\ unreported' = "no"
    /\ uncleared' = (uncleared \/ sentinel') /\ torn' = (torn \/ sentinel')
    /\ UNCHANGED <<kv, systemFile, stateJSON, stateFile, hangFile, config, updated, last, wasLaunching,
                   crashedLast, app, handler, hang, current, launches, ended, streak>>

StartAppHangDetector ==
    /\ Step("detector", "run")
    /\ hangFile' \in IF "appHangs" \in config THEN {"none"} \cup IfFails(hangFile) ELSE {hangFile}
    /\ UNCHANGED <<kv, systemFile, stateJSON, stateFile, sentinel, loaded, app, handler, hang, system, history>>

-----------------------------------------------------------------------------
(***************************************************************************)
(* The application runs.                                                   *)
(***************************************************************************)

\* The main thread processes events.
Responsive == pc = "run" /\ handler = "none" /\ hang \in {"no", "over"}

\* Notifications: active, not active, background, foreground.
Lifecycle(key, value) ==
    /\ Responsive
    /\ app[key] # value
    /\ key = "active" => app.foreground
    /\ key = "foreground" => ~ app.active
    /\ app' = [app EXCEPT ![key] = value,
                          !.isInBackground = IF key = "foreground" THEN ~ value ELSE @]
    /\ kv' = [kv EXCEPT ![key] = value]
    /\ IF key = "foreground" /\ ~ value THEN SaveState ELSE UNCHANGED stateFile
    /\ MutateLaunchState("other")
    /\ UNCHANGED <<systemFile, stateJSON, sentinel, hangFile, pc, loaded, handler, hang, consecutive,
                   current, history>>

SessionUpdateNotification ==
    /\ Responsive
    /\ MutateLaunchState("other")
    /\ UNCHANGED <<disk, process, consecutive, current, history>>

MarkLaunchCompleted ==
    /\ Responsive
    /\ stateJSON /\ stateJSON' = FALSE
    /\ UNCHANGED <<kv, systemFile, stateFile, sentinel, hangFile, process, system, history>>

\* The main thread hangs, the detector notices and stores the event, the main
\* thread goes on, and the detector notices that too and removes the event. A
\* launch in the background the detector is not told of.
Hang ==
    /\ Responsive /\ hang = "no" /\ "appHangs" \in config /\ ~ app.isInBackground /\ ~ app.debugger
    /\ hang' = "hung"
    /\ UNCHANGED <<disk, pc, loaded, app, handler, system, history>>

HangDetected ==
    /\ handler = "none" /\ hang = "hung"
    /\ hang' = "detected"
    /\ \/ hangFile' = "this" /\ UNCHANGED torn
       \/ hangFile' \in IfFails(hangFile) /\ torn' = TRUE
    /\ UNCHANGED <<kv, systemFile, stateJSON, stateFile, sentinel, pc, loaded, app, handler, system,
                   launches, ended, streak, unreported, uncleared>>

HangOver ==
    /\ handler = "none"
    /\ \/ hang = "hung" /\ hang' = "no"
       \/ hang = "detected" /\ hang' = "over"
    /\ UNCHANGED <<disk, pc, loaded, app, handler, system, history>>

HangEnded ==
    /\ handler = "none" /\ hang = "over"
    /\ hang' = "no"
    /\ \/ hangFile' = "none" /\ UNCHANGED torn
       \/ hangFile' \in IfFails(hangFile) /\ torn' = TRUE
    /\ UNCHANGED <<kv, systemFile, stateJSON, stateFile, sentinel, pc, loaded, app, handler, system,
                   launches, ended, streak, unreported, uncleared>>

-----------------------------------------------------------------------------
(***************************************************************************)
(* Blocks of -[BugsnagSystemState mutateLaunchState:]: they take the lock  *)
(* in any order, and read what they write after they have left it.         *)
(***************************************************************************)

ApplyCount(b) ==
    /\ handler = "none" /\ block[b].at = "count"
    /\ current' = consecutive /\ block' = [block EXCEPT ![b].at = "applied"]
    /\ UNCHANGED <<disk, process, consecutive, history>>

ApplyOther(b) ==
    /\ handler = "none" /\ block[b].at = "other"
    /\ block' = [block EXCEPT ![b].at = "applied"]
    /\ UNCHANGED <<disk, process, consecutive, current, history>>

ReadCurrent(b) ==
    /\ handler = "none" /\ block[b].at = "applied"
    /\ block' = [block EXCEPT ![b] = [at |-> "read", count |-> current]]
    /\ UNCHANGED <<disk, process, consecutive, current, history>>

WriteSnapshot(b) ==
    /\ handler = "none" /\ block[b].at = "read"
    /\ block' = [block EXCEPT ![b] = NoBlock]
    /\ systemFile' \in {[exists |-> TRUE, count |-> block[b].count]} \cup IfFails(systemFile)
    /\ UNCHANGED <<kv, stateJSON, stateFile, sentinel, hangFile, process, consecutive, current, history>>

-----------------------------------------------------------------------------
(***************************************************************************)
(* Ends                                                                    *)
(***************************************************************************)

\* The process is gone; kind says how it ended, if anything was to tell. A run
\* is torn that ends before its verdict, with the file of an older hang still
\* there, or between the end of a hang and the removal of its file.
End(kind) ==
    /\ pc' = "off" /\ app' = NotRunning /\ config' = {} /\ updated' = FALSE
    /\ last' = NothingLoaded /\ wasLaunching' = FALSE /\ crashedLast' = FALSE /\ verdict' = "none"
    /\ handler' = "none" /\ hang' = "no"
    /\ consecutive' = 0 /\ current' = 0 /\ block' = [b \in Blocks |-> NoBlock]
    /\ ended' = kind
    /\ streak' = IF kind \in Crashes /\ stateJSON THEN streak + 1 ELSE 0
    /\ torn' = (torn \/ ~ Judged \/ hangFile \in {"last", "older"} \/ hang = "over")

\* The crash handler: KSCrash's state file is truncated and written, or cut if
\* that fails, then the report and with it the sentinel.
CrashBegins ==
    /\ pc \in Armed /\ handler = "none"
    /\ handler' = "saving" /\ stateFile' = "broken"
    /\ UNCHANGED <<kv, systemFile, stateJSON, sentinel, hangFile, pc, loaded, app, hang, system, history>>

CrashSaved ==
    /\ handler = "saving"
    /\ handler' = "writing"
    /\ \/ /\ stateFile' = "crashed"
          /\ unreported' = IF unreported = "no" THEN "saved" ELSE unreported
       \/ stateFile' \in IfFails(stateFile) /\ UNCHANGED unreported
    /\ UNCHANGED <<kv, systemFile, stateJSON, sentinel, hangFile, pc, loaded, app, hang, system,
                   launches, ended, streak, uncleared, torn>>

CrashMarked ==
    /\ handler = "writing"
    /\ handler' = "done" /\ sentinel' = TRUE
    /\ unreported' = "marked"
    /\ UNCHANGED <<kv, systemFile, stateJSON, stateFile, hangFile, pc, loaded, app, hang, system,
                   launches, ended, streak, uncleared, torn>>

Crashed ==
    /\ handler = "done"
    /\ End("crash")
    /\ UNCHANGED <<disk, launches, unreported, uncleared>>

\* Mutant: the termination is not recorded.
MutWillTerminate ==
    /\ Responsive
    /\ SaveState
    /\ End("other")
    /\ UNCHANGED <<kv, systemFile, stateJSON, sentinel, hangFile, launches, unreported, uncleared>>

\* A regular end.
WillTerminate ==
    /\ Responsive
    /\ kv' = [kv EXCEPT !.terminated = TRUE] /\ SaveState
    /\ End("other")
    /\ UNCHANGED <<systemFile, stateJSON, sentinel, hangFile, launches, unreported, uncleared>>

\* The system kills the process, perhaps while it handles a crash.
Killed ==
    /\ pc # "off" /\ handler # "done"
    /\ LET crashed == handler = "writing" /\ stateFile = "crashed"
           alert == app.active /\ app.foreground /\ ~ app.debugger
       IN  End(CASE crashed                                      -> "crash"
                 [] ~ crashed /\ hang = "detected"               -> "hang"
                 [] ~ crashed /\ hang # "detected" /\ alert      -> "oom"
                 [] OTHER                                        -> "other")
    /\ UNCHANGED <<disk, launches, unreported, uncleared>>

-----------------------------------------------------------------------------

Initialize ==
    \/ LoadPreviousState \/ InitCurrentState \/ SyncInitialState
    \/ LoadStateMetadata \/ SaveStateMetadata

Start ==
    \/ InstallState \/ InstallHandlers \/ RecordAppUUID
    \/ ComputeDidCrashLastLaunch \/ StartAppHangDetector

Next ==
    \/ Launched \/ Initialize \/ Start
    \/ \E key \in {"active", "foreground"}, value \in BOOLEAN : Lifecycle(key, value)
    \/ SessionUpdateNotification \/ MarkLaunchCompleted
    \/ Hang \/ HangDetected \/ HangOver \/ HangEnded
    \/ \E b \in Blocks : ApplyCount(b) \/ ApplyOther(b) \/ ReadCurrent(b) \/ WriteSnapshot(b)
    \/ CrashBegins \/ CrashSaved \/ CrashMarked \/ Crashed
    \/ WillTerminate \/ Killed

Spec == Init /\ [][Next]_vars

-----------------------------------------------------------------------------
(***************************************************************************)
(* Properties                                                              *)
(***************************************************************************)

\* The next step of the main thread computes the verdict.
Judging == pc = "compute" /\ handler = "none"

\* A crash whose handler has created the sentinel is reported by the first
\* launch that gets as far as to compute a verdict, however many launches end
\* before that and whatever they overwrite (BSSerializeDataCrashHandler,
\* computeDidCrashLastLaunch).
CrashNeverForgotten == Judging /\ unreported = "marked" => Verdict = "crash"

\* A crash is reported by one launch only, and none is reported that the handler
\* has not recorded, unless a launch could not clear the state file
\* (BSG_KSCrashC.c:149) or remove the sentinel.
CrashReportedOnce == ~ uncleared /\ Judging /\ Verdict = "crash" => unreported # "no"

\* The end of a run is recognized by the next: a crash, an
\* end while the main thread hung, an end in the foreground without a
\* notification, or none of these (didLikelyOOM, loadFatalAppHangEvent), if no
\* run was torn.
EndRecognized ==
    Judging /\ ~ torn /\ launches > 1 =>
        \/ Verdict = ended
        \/ ended = "oom" /\ Verdict = "other" /\ (updated \/ "ooms" \notin config)

\* The count never exceeds the number of runs in a row that crashed while
\* launching, although it is written late and read after the crash
\* (setConsecutiveLaunchCrashes:, mutateLaunchState:).
CountNotExceeded == ~ torn /\ Judging => LaunchCrashes <= streak

=============================================================================
