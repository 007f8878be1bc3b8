----------------------------- MODULE LaunchProofs -----------------------------
(***************************************************************************)
(* What a launch says of a crash, for any number of launches and blocks,   *)
(* wherever the runs before it have ended.                                 *)
(***************************************************************************)
EXTENDS Launch, TLAPS

\* The sentinel stands for a crash that no launch has reported; the state file
\* says that there was a crash only until the next launch has read it, and is
\* written anew only by a handler, after which the process does nothing else;
\* unless one of them could not be cleared.
CrashInv ==
    /\ sentinel \in BOOLEAN /\ crashedLast \in BOOLEAN /\ uncleared \in BOOLEAN
    /\ unreported = "marked" => sentinel
    /\ crashedLast => pc \in {"arm"} \cup Armed
    /\ handler # "none" => pc \in Armed
    /\ ~uncleared =>
          /\ sentinel => unreported = "marked"
          /\ stateFile = "crashed" => unreported # "no"
          /\ crashedLast /\ ~Judged => unreported # "no"
          /\ pc \in {"arm"} \cup Armed /\ handler = "none" => stateFile # "crashed"

\* The steps of the initializers and of -start, except those that read or
\* remove the traces of a crash.
LEMMA StartStep ==
    ASSUME CrashInv,
           Launched \/ Initialize \/ InstallHandlers \/ RecordAppUUID \/ StartAppHangDetector
    PROVE  CrashInv'
  <1>1. UNCHANGED <<stateFile, sentinel, unreported, crashedLast, handler, uncleared>>
    BY DEF Launched, Initialize, LoadPreviousState, InitCurrentState, SetKey, SyncInitialState,
           LoadStateMetadata, SaveStateMetadata, InstallHandlers, RecordAppUUID,
           StartAppHangDetector, disk, loaded, process, system, history
  <1>2. \/ pc \notin {"arm"} \cup Armed /\ pc' \notin {"arm"} \cup Armed
        \/ handler = "none" /\ pc = "arm" /\ pc' = "uuid"
        \/ handler = "none" /\ pc = "uuid" /\ pc' = "compute"
        \/ handler = "none" /\ pc = "detector" /\ pc' = "run"
    BY DEF Launched, Initialize, LoadPreviousState, InitCurrentState, SetKey, SyncInitialState,
           LoadStateMetadata, SaveStateMetadata, InstallHandlers, RecordAppUUID,
           StartAppHangDetector, Step, Armed
  <1>3. handler # "none" => pc' \in Armed
    BY <1>2 DEF CrashInv
  <1>. QED BY <1>1, <1>2, <1>3 DEF CrashInv, Armed, Judged

\* The two steps that do read or remove them.
LEMMA VerdictStep ==
    ASSUME CrashInv, InstallState \/ ComputeDidCrashLastLaunch
    PROVE  CrashInv'
  <1>1. CASE InstallState
    BY <1>1 DEF InstallState, SaveState, IfFails, Step, CrashInv, Armed, Judged
  <1>2. CASE ComputeDidCrashLastLaunch
    BY <1>2 DEF ComputeDidCrashLastLaunch, IfFails, Step, CrashInv, Armed, Judged
  <1>. QED BY <1>1, <1>2

\* The application runs, and blocks write the state of the launch.
LEMMA RunningStep ==
    ASSUME CrashInv,
           \/ \E key \in {"active", "foreground"}, value \in BOOLEAN : Lifecycle(key, value)
           \/ SessionUpdateNotification \/ MarkLaunchCompleted
           \/ Hang \/ HangDetected \/ HangOver \/ HangEnded
           \/ \E b \in Blocks : ApplyCount(b) \/ ApplyOther(b) \/ ReadCurrent(b) \/ WriteSnapshot(b)
           \/ UNCHANGED vars
    PROVE  CrashInv'
  <1>1. UNCHANGED <<sentinel, unreported, crashedLast, handler, pc, uncleared>>
    BY DEF Lifecycle, SessionUpdateNotification, MarkLaunchCompleted, Hang, HangDetected, HangOver,
           HangEnded, ApplyCount, ApplyOther, ReadCurrent, WriteSnapshot,
           disk, loaded, process, system, history, vars
  <1>2. stateFile' \in {stateFile, "clean"}
    BY DEF Lifecycle, SessionUpdateNotification, MarkLaunchCompleted, Hang, HangDetected, HangOver,
           HangEnded, ApplyCount, ApplyOther, ReadCurrent, WriteSnapshot, SaveState, IfFails,
           disk, loaded, process, system, history, vars
  <1>. QED BY <1>1, <1>2 DEF CrashInv, Judged

\* The crash handler, and the end of the process.
LEMMA EndStep ==
    ASSUME CrashInv, CrashBegins \/ CrashSaved \/ CrashMarked \/ Crashed \/ WillTerminate \/ Killed
    PROVE  CrashInv'
  <1>1. CASE CrashBegins
    BY <1>1 DEF CrashBegins, loaded, history, CrashInv, Judged
  <1>2. CASE CrashSaved
    BY <1>2 DEF CrashSaved, IfFails, loaded, CrashInv, Judged
  <1>3. CASE CrashMarked
    BY <1>3 DEF CrashMarked, loaded, CrashInv, Judged
  <1>4. CASE Crashed \/ WillTerminate \/ Killed
    <2>1. /\ pc' = "off" /\ handler' = "none" /\ crashedLast' = FALSE
          /\ stateFile' \in {stateFile, "clean"} /\ UNCHANGED <<sentinel, unreported, uncleared>>
      BY <1>4 DEF Crashed, WillTerminate, Killed, End, SaveState, IfFails, disk
    <2>. QED BY <2>1 DEF CrashInv, Judged, Armed
  <1>. QED BY <1>1, <1>2, <1>3, <1>4

\* Both properties of crashes follow from one inductive invariant.
LEMMA CrashInvariant == Spec => []CrashInv
  <1>1. Init => CrashInv
    BY DEF Init, CrashInv, Armed, Judged
  <1>2. CrashInv /\ [Next]_vars => CrashInv'
    BY StartStep, VerdictStep, RunningStep, EndStep DEF Next, Start
  <1>. QED BY <1>1, <1>2, PTL DEF Spec

-----------------------------------------------------------------------------

\* A crash whose handler has created the sentinel is reported by the first
\* launch that computes a verdict, after any number of launches that do not.
THEOREM CrashIsNeverForgotten == Spec => []CrashNeverForgotten
  <1>1. CrashInv => CrashNeverForgotten
    BY DEF CrashInv, CrashNeverForgotten, Verdict
  <1>. QED BY <1>1, CrashInvariant, PTL

\* A launch reports a crash only if a handler has recorded one since the last
\* verdict: none is reported twice and none is made up.
THEOREM CrashIsReportedOnce == Spec => []CrashReportedOnce
  <1>1. CrashInv => CrashReportedOnce
    <2>1. Verdict = "crash" => crashedLast \/ sentinel
      BY DEF Verdict
    <2>. QED BY <2>1 DEF CrashInv, CrashReportedOnce, Judging, Judged, Armed
  <1>. QED BY <1>1, CrashInvariant, PTL

-----------------------------------------------------------------------------
(***************************************************************************)
(* Types.  What bounds the counts is the number of launches: the count of  *)
(* a launch is one more than that of an earlier one at most.               *)
(***************************************************************************)

\* No count has been increased by this launch before its verdict.
CountsUpTo(m) ==
    /\ systemFile.count <= m /\ consecutive <= m /\ current <= m
    /\ \A b \in Blocks : block[b].count <= m

CountsInv ==
    /\ pc # "off" /\ ~Judged => CountsUpTo(launches - 1)
    /\ CountsUpTo(launches)
    /\ streak <= launches
    /\ pc # "off" => launches > 0 /\ streak <= launches - 1

TypeInv == TypeOK /\ CountsInv

\* The parts of TypeOK: what is on disk, of the process, and the counts.
DiskTypes ==
    /\ kv \in [terminated : BOOLEAN, active : BOOLEAN, foreground : BOOLEAN, debugger : BOOLEAN]
    /\ systemFile \in [exists : BOOLEAN, count : Counts]
    /\ stateJSON \in BOOLEAN
    /\ stateFile \in {"clean", "crashed", "broken"}
    /\ sentinel \in BOOLEAN
    /\ hangFile \in {"none", "this", "last", "older"}

ProcessTypes ==
    /\ pc \in {"off"} \cup Starting \cup Started
    /\ config \subseteq {"appHangs", "ooms"}
    /\ app \in [active : BOOLEAN, foreground : BOOLEAN, debugger : BOOLEAN, isInBackground : BOOLEAN]
    /\ updated \in BOOLEAN
    /\ last \in [oom : BOOLEAN, count : Counts]
    /\ wasLaunching \in BOOLEAN /\ crashedLast \in BOOLEAN
    /\ verdict \in {"none", "other"} \cup Crashes
    /\ handler \in {"none", "saving", "writing", "done"}
    /\ hang \in {"no", "hung", "detected", "over"}

SystemTypes ==
    /\ consecutive \in Counts /\ current \in Counts
    /\ block \in [Blocks -> [at : {"none", "count", "other", "applied", "read"}, count : Counts]]
    /\ launches \in 0 .. MaxLaunches
    /\ ended \in {"none", "other"} \cup Crashes
    /\ streak \in Counts
    /\ unreported \in {"no", "saved", "marked"}
    /\ uncleared \in BOOLEAN /\ torn \in BOOLEAN

\* The parts together are TypeOK, and so they are after a step.
LEMMA TypeParts == TypeOK <=> DiskTypes /\ ProcessTypes /\ SystemTypes
  BY DEF TypeOK, DiskTypes, ProcessTypes, SystemTypes

\* The same of the state after a step, which only has to be put together.
LEMMA TypePartsNext == DiskTypes' /\ ProcessTypes' /\ SystemTypes' => TypeOK'
  BY DEF TypeOK, DiskTypes, ProcessTypes, SystemTypes

\* The numbers among the types, for the provers in one place.
LEMMA Numbers ==
    ASSUME TypeOK
    PROVE  /\ MaxLaunches \in Nat /\ launches \in Nat /\ launches <= MaxLaunches /\ 0 \in Counts
           /\ systemFile.count \in Nat /\ consecutive \in Nat /\ current \in Nat /\ streak \in Nat
           /\ \A b \in Blocks : block[b].count \in Nat
           /\ \A n \in Nat : n <= launches => n \in Counts
  <1>1. MaxLaunches \in Nat
    BY BoundsAssumption
  <1>2. \A n \in Counts : n \in Nat
    BY <1>1 DEF Counts
  <1>3. launches \in Nat /\ launches <= MaxLaunches
    BY <1>1 DEF TypeOK
  <1>4. systemFile.count \in Counts /\ consecutive \in Counts /\ current \in Counts /\ streak \in Counts
    BY DEF TypeOK
  <1>5. \A b \in Blocks : block[b].count \in Counts
    BY DEF TypeOK
  <1>. QED BY <1>1, <1>2, <1>3, <1>4, <1>5 DEF Counts

\* Steps that leave every count as it is.
LEMMA CountsKept ==
    ASSUME TypeOK, CountsInv, UNCHANGED <<systemFile, consecutive, current, streak, launches>>,
           \A b \in Blocks : block'[b].count = block[b].count,
           pc' = "off" <=> pc = "off", Judged => Judged'
    PROVE  CountsInv'
  BY DEF CountsInv, CountsUpTo

\* What dispatching a block and what a block does leave of the blocks.
LEMMA DispatchType ==
    ASSUME TypeOK, NEW sets \in {"count", "other"}, MutateLaunchState(sets)
    PROVE  /\ block' \in [Blocks -> [at : {"none", "count", "other", "applied", "read"}, count : Counts]]
           /\ \A b \in Blocks : block'[b].count = block[b].count
  <1>1. block \in [Blocks -> [at : {"none", "count", "other", "applied", "read"}, count : Counts]]
    BY DEF TypeOK
  <1>2. PICK b \in Blocks : block' = [block EXCEPT ![b].at = sets]
    BY DEF MutateLaunchState
  <1>. QED BY <1>1, <1>2

\* A process is launched.
LEMMA LaunchedType ==
    ASSUME TypeInv, Launched
    PROVE  TypeInv'
  <1>1. TypeOK /\ CountsInv
    BY DEF TypeInv
  <1>2. /\ pc = "off" /\ pc' = "load" /\ launches' = launches + 1 /\ launches < MaxLaunches
        /\ hangFile' = CASE hangFile = "none" -> "none" [] hangFile = "this" -> "last" [] OTHER -> "older"
        /\ config' \subseteq {"appHangs", "ooms"} /\ updated' \in BOOLEAN
        /\ UNCHANGED <<kv, systemFile, stateJSON, stateFile, sentinel, last, wasLaunching, crashedLast,
                       verdict, handler, hang, consecutive, current, block, ended, streak, unreported,
                       uncleared, torn>>
    BY DEF Launched, system
  <1>3. app' \in [active : BOOLEAN, foreground : BOOLEAN, debugger : BOOLEAN, isInBackground : BOOLEAN]
    <2>1. PICK debugger \in BOOLEAN : app' \in
             {[active |-> TRUE,  foreground |-> TRUE,  debugger |-> debugger, isInBackground |-> FALSE],
              [active |-> FALSE, foreground |-> TRUE,  debugger |-> debugger, isInBackground |-> FALSE],
              [active |-> FALSE, foreground |-> FALSE, debugger |-> debugger, isInBackground |-> FALSE]}
      BY Zenon DEF Launched
    <2>2. {[active |-> TRUE,  foreground |-> TRUE,  debugger |-> debugger, isInBackground |-> FALSE],
           [active |-> FALSE, foreground |-> TRUE,  debugger |-> debugger, isInBackground |-> FALSE],
           [active |-> FALSE, foreground |-> FALSE, debugger |-> debugger, isInBackground |-> FALSE]}
             \subseteq [active : BOOLEAN, foreground : BOOLEAN, debugger : BOOLEAN, isInBackground : BOOLEAN]
      OBVIOUS
    <2>. QED BY <2>1, <2>2
  <1>4. hangFile' \in {"none", "last", "older"}
    BY <1>2
  <1>5. launches' \in 0 .. MaxLaunches
    BY <1>1, <1>2, Numbers
  <1>6. TypeOK'
    BY <1>1, <1>2, <1>3, <1>4, <1>5 DEF TypeOK, Starting
  <1>7. CountsInv'
    BY <1>1, <1>2, Numbers DEF CountsInv, CountsUpTo
  <1>. QED BY <1>6, <1>7 DEF TypeInv

\* The initializers: the new state of the launch has no count yet.
LEMMA InitializeType ==
    ASSUME TypeInv, Initialize
    PROVE  TypeInv'
  <1>1. TypeOK /\ CountsInv
    BY DEF TypeInv
  <1>2. /\ pc \in Starting /\ pc' \in Starting \cup {"install"}
        /\ UNCHANGED <<stateFile, sentinel, hangFile, config, updated, crashedLast, verdict, app, handler,
                       hang, block, launches, ended, streak, unreported, uncleared>>
        /\ torn' \in {TRUE, torn}
    BY DEF Initialize, LoadPreviousState, InitCurrentState, SetKey, SyncInitialState,
           LoadStateMetadata, SaveStateMetadata, Step, disk, loaded, system, history, Starting
  <1>3. /\ kv' \in [terminated : BOOLEAN, active : BOOLEAN, foreground : BOOLEAN, debugger : BOOLEAN]
        /\ last' \in [oom : BOOLEAN, count : Counts] /\ wasLaunching' \in BOOLEAN /\ stateJSON' \in BOOLEAN
        /\ systemFile' \in [exists : BOOLEAN, count : Counts]
        /\ systemFile'.count \in {0, systemFile.count}
        /\ consecutive' \in {consecutive, systemFile.count} /\ current' \in {0, current}
    <2>1. CASE LoadPreviousState
      <3>1. LooksKilled \in BOOLEAN
        BY <1>1 DEF LooksKilled, TypeOK
      <3>2. /\ last' = [oom |-> LooksKilled, count |-> systemFile.count] /\ consecutive' = systemFile.count
            /\ UNCHANGED <<kv, systemFile, wasLaunching, stateJSON, current>>
        BY <2>1 DEF LoadPreviousState, disk
      <3>. QED BY <1>1, <3>1, <3>2 DEF TypeOK
    <2>2. ASSUME NEW from, NEW to, NEW key \in {"terminated", "active", "foreground", "debugger"},
                 NEW value \in BOOLEAN, SetKey(from, to, key, value)
          PROVE  /\ kv' \in [terminated : BOOLEAN, active : BOOLEAN, foreground : BOOLEAN, debugger : BOOLEAN]
                 /\ UNCHANGED <<systemFile, last, wasLaunching, stateJSON, consecutive, current>>
      BY <1>1, <2>2 DEF SetKey, loaded, system, TypeOK
    <2>3. CASE InitCurrentState
      <3>1. app.active \in BOOLEAN /\ app.foreground \in BOOLEAN /\ app.debugger \in BOOLEAN
        BY <1>1 DEF TypeOK
      <3>2. /\ kv' \in [terminated : BOOLEAN, active : BOOLEAN, foreground : BOOLEAN, debugger : BOOLEAN]
            /\ UNCHANGED <<systemFile, last, wasLaunching, stateJSON, consecutive, current>>
        BY <2>2, <2>3, <3>1 DEF InitCurrentState
      <3>. QED BY <1>1, <3>2 DEF TypeOK
    <2>4. CASE SyncInitialState
      <3>1. /\ systemFile' \in {[exists |-> TRUE, count |-> 0], systemFile} /\ current' = 0
            /\ UNCHANGED <<kv, last, wasLaunching, stateJSON, consecutive>>
        BY <2>4 DEF SyncInitialState, IfFails, loaded
      <3>2. systemFile \in [exists : BOOLEAN, count : Counts] /\ 0 \in Counts
        BY <1>1, Numbers DEF TypeOK
      <3>3. /\ systemFile' \in [exists : BOOLEAN, count : Counts]
            /\ systemFile'.count \in {0, systemFile.count}
        <4>1. CASE systemFile' = [exists |-> TRUE, count |-> 0]
          BY <3>2, <4>1
        <4>2. CASE UNCHANGED systemFile
          BY <3>2, <4>2
        <4>. QED BY <3>1, <4>1, <4>2
      <3>. QED BY <1>1, <3>1, <3>3 DEF TypeOK
    <2>5. CASE LoadStateMetadata \/ SaveStateMetadata
      BY <1>1, <2>5 DEF LoadStateMetadata, SaveStateMetadata, IfFails, disk, loaded, system, TypeOK
    <2>. QED BY <2>1, <2>3, <2>4, <2>5 DEF Initialize
  <1>4. consecutive' \in Counts /\ current' \in Counts
    BY <1>1, <1>3, Numbers DEF TypeOK
  <1>5. TypeOK'
    <2>1. DiskTypes'
      BY <1>1, <1>2, <1>3, TypeParts DEF DiskTypes
    <2>2. ProcessTypes'
      BY <1>1, <1>2, <1>3, TypeParts DEF ProcessTypes, Starting, Started
    <2>3. SystemTypes'
      BY <1>1, <1>2, <1>4, TypeParts DEF SystemTypes
    <2>. QED BY <2>1, <2>2, <2>3, TypePartsNext
  <1>6. pc # "off" /\ ~Judged /\ pc' # "off" /\ UNCHANGED <<launches, streak, block>>
    BY <1>2 DEF Starting, Judged, history
  <1>7. /\ systemFile'.count \in Nat /\ consecutive' \in Nat /\ current' \in Nat /\ launches \in Nat
        /\ \A b \in Blocks : block'[b].count \in Nat /\ block'[b].count <= launches - 1
        /\ systemFile'.count <= launches - 1 /\ consecutive' <= launches - 1 /\ current' <= launches - 1
    BY <1>1, <1>3, <1>6, Numbers DEF CountsInv, CountsUpTo
  <1>8. CountsUpTo(launches - 1)' /\ CountsUpTo(launches)'
    BY <1>6, <1>7 DEF CountsUpTo
  <1>9. CountsInv'
    BY <1>1, <1>6, <1>8 DEF CountsInv
  <1>. QED BY <1>5, <1>9 DEF TypeInv

\* The steps of -start: the verdict adds one to the count at most.
LEMMA StartType ==
    ASSUME TypeInv, Start
    PROVE  TypeInv'
  <1>1. TypeOK /\ CountsInv
    BY DEF TypeInv
  <1>0. DiskTypes /\ ProcessTypes /\ SystemTypes
    BY <1>1, TypeParts
  <1>2. /\ pc \in Started \ {"run"} /\ pc' \in Started
        /\ UNCHANGED <<kv, systemFile, stateJSON, config, updated, last, wasLaunching, app, handler, hang,
                       current, launches, ended, streak>>
    BY DEF Start, InstallState, InstallHandlers, RecordAppUUID, ComputeDidCrashLastLaunch,
           StartAppHangDetector, Step, disk, loaded, system, history, Started
  <1>3. /\ crashedLast' \in BOOLEAN /\ stateFile' \in {"clean", stateFile} /\ sentinel' \in {FALSE, sentinel}
        /\ hangFile' \in {"none", hangFile} /\ unreported' \in {"no", unreported}
        /\ uncleared' \in BOOLEAN /\ torn' \in BOOLEAN
    BY <1>1 DEF Start, InstallState, InstallHandlers, RecordAppUUID, ComputeDidCrashLastLaunch,
                StartAppHangDetector, SaveState, IfFails, disk, loaded, system, history, TypeOK
  <1>4. /\ block' \in [Blocks -> [at : {"none", "count", "other", "applied", "read"}, count : Counts]]
        /\ \A b \in Blocks : block'[b].count = block[b].count
    <2>1. UNCHANGED block \/ MutateLaunchState("count") \/ MutateLaunchState("other")
      BY DEF Start, InstallState, InstallHandlers, RecordAppUUID, ComputeDidCrashLastLaunch,
             StartAppHangDetector, system
    <2>. QED BY <1>1, <2>1, DispatchType DEF TypeOK
  <1>5. DiskTypes'
    <2>1. stateFile' \in {"clean", "crashed", "broken"} /\ hangFile' \in {"none", "this", "last", "older"}
      BY <1>0, <1>3 DEF DiskTypes
    <2>2. sentinel' \in BOOLEAN
      BY <1>0, <1>3 DEF DiskTypes
    <2>3. UNCHANGED <<kv, systemFile, stateJSON>>
      BY <1>2
    <2>. QED BY <1>0, <2>1, <2>2, <2>3 DEF DiskTypes
  <1>6. CASE ComputeDidCrashLastLaunch
    <2>1. /\ pc = "compute" /\ pc' = "detector" /\ consecutive' = LaunchCrashes /\ verdict' = Verdict
      BY <1>6 DEF ComputeDidCrashLastLaunch, Step
    <2>2. Verdict \in {"other"} \cup Crashes
      BY DEF Verdict, Crashes
    <2>3. /\ consecutive' \in {0, consecutive + 1} /\ consecutive <= launches - 1
          /\ launches > 0
      BY <1>1, <2>1 DEF LaunchCrashes, CountsInv, CountsUpTo, Judged
    <2>4. consecutive' \in Counts /\ consecutive' <= launches
      BY <1>1, <2>3, Numbers
    <2>5. TypeOK'
      <3>1. ProcessTypes'
        BY <1>0, <1>2, <1>3, <2>1, <2>2 DEF ProcessTypes
      <3>2. SystemTypes'
        BY <1>0, <1>2, <1>3, <1>4, <2>1, <2>2, <2>4 DEF SystemTypes
      <3>. QED BY <1>5, <3>1, <3>2, TypePartsNext
    <2>6. CountsInv'
      BY <1>1, <1>2, <1>4, <2>1, <2>4 DEF CountsInv, CountsUpTo, Judged
    <2>. QED BY <2>5, <2>6 DEF TypeInv
  <1>7. CASE ~ComputeDidCrashLastLaunch
    <2>1. UNCHANGED <<consecutive, verdict>> /\ (Judged => Judged') /\ pc # "off" /\ pc' # "off"
      BY <1>7 DEF Start, InstallState, InstallHandlers, RecordAppUUID, StartAppHangDetector, Step,
                  loaded, system, Judged
    <2>2. TypeOK'
      <3>1. ProcessTypes'
        BY <1>0, <1>2, <1>3, <2>1 DEF ProcessTypes
      <3>2. SystemTypes'
        BY <1>0, <1>2, <1>3, <1>4, <2>1 DEF SystemTypes
      <3>. QED BY <1>5, <3>1, <3>2, TypePartsNext
    <2>3. CountsInv'
      BY <1>1, <1>2, <1>4, <2>1, CountsKept
    <2>. QED BY <2>2, <2>3 DEF TypeInv
  <1>. QED BY <1>6, <1>7

\* The application runs, and the crash handler.
LEMMA RunningType ==
    ASSUME TypeInv,
           \/ \E key \in {"active", "foreground"}, value \in BOOLEAN : Lifecycle(key, value)
           \/ SessionUpdateNotification \/ MarkLaunchCompleted
           \/ Hang \/ HangDetected \/ HangOver \/ HangEnded
           \/ CrashBegins \/ CrashSaved \/ CrashMarked
    PROVE  TypeInv'
  <1>1. TypeOK /\ CountsInv
    BY DEF TypeInv
  <1>2. UNCHANGED <<systemFile, pc, loaded, consecutive, current, launches, ended, streak, uncleared>>
    BY DEF Lifecycle, SessionUpdateNotification, MarkLaunchCompleted, Hang, HangDetected, HangOver,
           HangEnded, CrashBegins, CrashSaved, CrashMarked, disk, process, system, history
  <1>3. /\ block' \in [Blocks -> [at : {"none", "count", "other", "applied", "read"}, count : Counts]]
        /\ \A b \in Blocks : block'[b].count = block[b].count
    <2>1. UNCHANGED block \/ MutateLaunchState("other")
      BY DEF Lifecycle, SessionUpdateNotification, MarkLaunchCompleted, Hang, HangDetected, HangOver,
             HangEnded, CrashBegins, CrashSaved, CrashMarked, system
    <2>. QED BY <1>1, <2>1, DispatchType DEF TypeOK
  <1>4. /\ app' \in [active : BOOLEAN, foreground : BOOLEAN, debugger : BOOLEAN, isInBackground : BOOLEAN]
        /\ kv' \in [terminated : BOOLEAN, active : BOOLEAN, foreground : BOOLEAN, debugger : BOOLEAN]
    <2>1. ASSUME NEW key \in {"active", "foreground"}, NEW value \in BOOLEAN, Lifecycle(key, value)
          PROVE  /\ app' \in [active : BOOLEAN, foreground : BOOLEAN, debugger : BOOLEAN, isInBackground : BOOLEAN]
                 /\ kv' \in [terminated : BOOLEAN, active : BOOLEAN, foreground : BOOLEAN, debugger : BOOLEAN]
      BY <1>1, <2>1 DEF Lifecycle, TypeOK
    <2>2. CASE UNCHANGED <<app, kv>>
      BY <1>1, <2>2 DEF TypeOK
    <2>. QED BY <2>1, <2>2 DEF SessionUpdateNotification, MarkLaunchCompleted, Hang, HangDetected,
                               HangOver, HangEnded, CrashBegins, CrashSaved, CrashMarked, disk, process
  <1>5. /\ stateJSON' \in {FALSE, stateJSON} /\ stateFile' \in {stateFile, "clean", "broken", "crashed"}
        /\ sentinel' \in {TRUE, sentinel} /\ hangFile' \in {hangFile, "this", "none"}
        /\ hang' \in {hang, "no", "hung", "detected", "over"}
        /\ handler' \in {handler, "saving", "writing", "done"}
        /\ unreported' \in {unreported, "saved", "marked"} /\ torn' \in {TRUE, torn}
    BY DEF Lifecycle, SessionUpdateNotification, MarkLaunchCompleted, Hang, HangDetected, HangOver,
           HangEnded, CrashBegins, CrashSaved, CrashMarked, SaveState, IfFails, disk, process, system, history
  <1>6. TypeOK'
    <2>1. DiskTypes'
      BY <1>1, <1>2, <1>3, <1>4, <1>5, TypeParts DEF DiskTypes, loaded
    <2>2. ProcessTypes'
      BY <1>1, <1>2, <1>3, <1>4, <1>5, TypeParts DEF ProcessTypes, loaded
    <2>3. SystemTypes'
      BY <1>1, <1>2, <1>3, <1>4, <1>5, TypeParts DEF SystemTypes, loaded
    <2>. QED BY <2>1, <2>2, <2>3, TypePartsNext
  <1>7. CountsInv'
    BY <1>1, <1>2, <1>3, CountsKept DEF Judged
  <1>. QED BY <1>6, <1>7 DEF TypeInv

\* The blocks carry counts, and write no other.
LEMMA BlocksType ==
    ASSUME TypeInv,
           NEW b \in Blocks, ApplyCount(b) \/ ApplyOther(b) \/ ReadCurrent(b) \/ WriteSnapshot(b)
    PROVE  TypeInv'
  <1>1. TypeOK /\ CountsInv
    BY DEF TypeInv
  <1>2. /\ UNCHANGED <<kv, stateJSON, stateFile, sentinel, hangFile, process, consecutive, history>>
        /\ UNCHANGED Judged
    BY DEF ApplyCount, ApplyOther, ReadCurrent, WriteSnapshot, disk, process, Judged
  <1>3. block \in [Blocks -> [at : {"none", "count", "other", "applied", "read"}, count : Counts]]
    BY <1>1 DEF TypeOK
  <1>4. /\ block' \in [Blocks -> [at : {"none", "count", "other", "applied", "read"}, count : Counts]]
        /\ \A c \in Blocks : block'[c].count \in {0, current, block[c].count}
    <2>1. current \in Counts /\ 0 \in Counts
      BY <1>1, Numbers DEF TypeOK
    <2>2. \/ \E at \in {"applied"} : block' = [block EXCEPT ![b].at = at]
          \/ block' = [block EXCEPT ![b] = [at |-> "read", count |-> current]]
          \/ block' = [block EXCEPT ![b] = [at |-> "none", count |-> 0]]
      BY DEF ApplyCount, ApplyOther, ReadCurrent, WriteSnapshot, NoBlock
    <2>. QED BY <1>3, <2>1, <2>2
  <1>5. current' \in {current, consecutive}
    BY DEF ApplyCount, ApplyOther, ReadCurrent, WriteSnapshot
  <1>6. /\ systemFile' \in [exists : BOOLEAN, count : Counts]
        /\ systemFile'.count \in {systemFile.count, block[b].count}
    <2>1. systemFile' \in {systemFile, [exists |-> TRUE, count |-> block[b].count]}
      BY DEF ApplyCount, ApplyOther, ReadCurrent, WriteSnapshot, IfFails, disk
    <2>2. systemFile \in [exists : BOOLEAN, count : Counts] /\ block[b].count \in Counts
      BY <1>1, <1>3 DEF TypeOK
    <2>3. CASE systemFile' = [exists |-> TRUE, count |-> block[b].count]
      BY <2>2, <2>3
    <2>4. CASE UNCHANGED systemFile
      BY <2>2, <2>4
    <2>. QED BY <2>1, <2>3, <2>4
  <1>7. current' \in Counts
    BY <1>1, <1>5 DEF TypeOK
  <1>8. TypeOK'
    BY <1>1, <1>2, <1>4, <1>6, <1>7 DEF TypeOK, process, loaded, history
  <1>9. \A m \in Nat : CountsUpTo(m) => CountsUpTo(m)'
    BY <1>1, <1>2, <1>4, <1>5, <1>6 DEF CountsUpTo
  <1>10. CountsInv'
    BY <1>1, <1>2, <1>9, Numbers DEF CountsInv, process, history
  <1>. QED BY <1>8, <1>10 DEF TypeInv

\* The end of the process.
LEMMA EndType ==
    ASSUME TypeInv, CrashInv, Crashed \/ WillTerminate \/ Killed
    PROVE  TypeInv'
  <1>1. TypeOK /\ CountsInv
    BY DEF TypeInv
  <1>2. PICK kind \in {"other"} \cup Crashes : End(kind)
    BY DEF Crashed, WillTerminate, Killed, Crashes
  <1>3. /\ UNCHANGED <<systemFile, stateJSON, sentinel, hangFile, launches, unreported, uncleared>>
        /\ stateFile' \in {stateFile, "clean"}
        /\ kv' \in [terminated : BOOLEAN, active : BOOLEAN, foreground : BOOLEAN, debugger : BOOLEAN]
    BY <1>1 DEF Crashed, WillTerminate, Killed, SaveState, IfFails, disk, TypeOK
  <1>4. /\ pc' = "off" /\ app' = NotRunning /\ config' = {} /\ updated' = FALSE
        /\ last' = NothingLoaded /\ wasLaunching' = FALSE /\ crashedLast' = FALSE /\ verdict' = "none"
        /\ handler' = "none" /\ hang' = "no"
        /\ consecutive' = 0 /\ current' = 0 /\ block' = [b \in Blocks |-> NoBlock]
        /\ ended' = kind /\ streak' \in {0, streak + 1} /\ torn' \in BOOLEAN
    BY <1>1, <1>2 DEF End, TypeOK
  <1>5. pc # "off" /\ launches > 0 /\ streak <= launches - 1
    <2>1. pc # "off"
      BY DEF Crashed, WillTerminate, Killed, Responsive, CrashInv, Armed
    <2>. QED BY <1>1, <2>1 DEF CountsInv
  <1>6. streak' \in Counts /\ streak' <= launches
    BY <1>1, <1>4, <1>5, Numbers
  <1>7. TypeOK'
    <2>1. NotRunning \in [active : BOOLEAN, foreground : BOOLEAN, debugger : BOOLEAN, isInBackground : BOOLEAN]
      BY DEF NotRunning
    <2>2. NothingLoaded \in [oom : BOOLEAN, count : Counts] /\ 0 \in Counts
      BY <1>1, Numbers DEF NothingLoaded
    <2>3. NoBlock \in [at : {"none", "count", "other", "applied", "read"}, count : Counts]
      BY <2>2 DEF NoBlock
    <2>4. DiskTypes'
      BY <1>1, <1>3, TypeParts DEF DiskTypes
    <2>5. ProcessTypes'
      BY <1>4, <2>1, <2>2 DEF ProcessTypes
    <2>6. SystemTypes'
      BY <1>1, <1>3, <1>4, <1>6, <2>2, <2>3, TypeParts DEF SystemTypes
    <2>. QED BY <2>4, <2>5, <2>6, TypePartsNext
  <1>8. CountsInv'
    BY <1>1, <1>3, <1>4, <1>6, Numbers DEF CountsInv, CountsUpTo, NoBlock
  <1>. QED BY <1>7, <1>8 DEF TypeInv

\* Types and counts are kept by every step of every launch.
LEMMA TypeInvariant == Spec => []TypeInv
  <1>1. Init => TypeInv
    <2>. SUFFICES ASSUME Init PROVE TypeInv
      OBVIOUS
    <2>1. 0 \in Counts
      BY BoundsAssumption DEF Counts
    <2>2. /\ NotRunning \in [active : BOOLEAN, foreground : BOOLEAN, debugger : BOOLEAN, isInBackground : BOOLEAN]
          /\ NothingLoaded \in [oom : BOOLEAN, count : Counts]
          /\ NoBlock \in [at : {"none", "count", "other", "applied", "read"}, count : Counts]
      BY <2>1 DEF NotRunning, NothingLoaded, NoBlock
    <2>3. TypeOK
      <3>1. DiskTypes
        BY <2>1 DEF Init, DiskTypes
      <3>2. ProcessTypes
        BY <2>2 DEF Init, ProcessTypes
      <3>3. SystemTypes
        <4>1. block \in [Blocks -> [at : {"none", "count", "other", "applied", "read"}, count : Counts]]
          BY <2>2 DEF Init
        <4>2. launches \in 0 .. MaxLaunches
          BY BoundsAssumption DEF Init
        <4>. QED BY <2>1, <4>1, <4>2 DEF Init, SystemTypes
      <3>. QED BY <3>1, <3>2, <3>3, TypeParts
    <2>4. CountsInv
      BY DEF Init, CountsInv, CountsUpTo, NoBlock
    <2>. QED BY <2>3, <2>4 DEF TypeInv
  <1>2. TypeInv /\ UNCHANGED vars => TypeInv'
    BY DEF TypeInv, TypeOK, CountsInv, CountsUpTo, Judged, vars, disk, process, loaded, system, history
  <1>3. TypeInv /\ CrashInv /\ [Next]_vars => TypeInv'
    BY <1>2, LaunchedType, InitializeType, StartType, RunningType, BlocksType, EndType DEF Next
  <1>. QED BY <1>1, <1>3, CrashInvariant, PTL DEF Spec

\* The variables have their types in every reachable state; in particular no
\* count is greater than the number of launches.
THEOREM TypeCorrect == Spec => []TypeOK
  <1>1. TypeInv => TypeOK
    BY DEF TypeInv
  <1>. QED BY <1>1, TypeInvariant, PTL

-----------------------------------------------------------------------------
(***************************************************************************)
(* The end of a run is recognized.  The traces a run leaves are tied to    *)
(* what happens while it lasts; at its end they tell how it ended; and the *)
(* next launch carries what they told from one step to the next, while it  *)
(* overwrites them.                                                        *)
(***************************************************************************)

Flags == [terminated : BOOLEAN, active : BOOLEAN, foreground : BOOLEAN, debugger : BOOLEAN]
App   == [active : BOOLEAN, foreground : BOOLEAN, debugger : BOOLEAN, isInBackground : BOOLEAN]

TracesTypeOK ==
    /\ kv \in Flags /\ app \in App
    /\ systemFile \in [exists : BOOLEAN, count : Counts]
    /\ last \in [oom : BOOLEAN, count : Counts]
    /\ sentinel \in BOOLEAN /\ crashedLast \in BOOLEAN /\ torn \in BOOLEAN /\ launches \in Nat
    /\ handler \in {"none", "saving", "writing", "done"}
    /\ hang \in {"no", "hung", "detected", "over"}
    /\ hangFile \in {"none", "this", "last", "older"}

\* The initializers set one key after the other, and dispatch no block.
KeysInv ==
    /\ pc \in {"setActive", "setForeground", "setDebugger", "sync", "loadState", "saveState"} \cup Started
          => ~kv.terminated
    /\ pc \in {"setForeground", "setDebugger", "sync", "loadState", "saveState"} \cup Started
          => kv.active = app.active
    /\ pc \in {"setDebugger", "sync", "loadState", "saveState"} \cup Started
          => kv.foreground = app.foreground
    /\ pc \in {"sync", "loadState", "saveState"} \cup Started => kv.debugger = app.debugger
    /\ ~torn /\ pc \in {"loadState", "saveState"} \cup Started => systemFile.exists
    /\ pc \notin Started => \A b \in Blocks : block[b].at = "none"

\* app_hang.json is that of this run from the detection of a hang to its end.
HangInv ==
    /\ hang # "no" => pc = "run"
    /\ ~torn => /\ hang \in {"detected", "over"} => hangFile = "this"
                /\ hangFile = "this" => pc = "off" \/ hang \in {"detected", "over"}

\* The crash handler writes the state file, unless that fails, and then the
\* sentinel.
HandlerInv ==
    /\ handler # "none" => pc \in Armed
    /\ ~torn => /\ pc \in {"arm"} \cup Armed /\ stateFile = "crashed" => handler \in {"writing", "done"}
                /\ Judged => (sentinel <=> handler = "done")

\* How a run has ended, from what is known of its traces.
Found(crashed, hung, killed) ==
    IF crashed THEN "crash" ELSE IF hung THEN "hang" ELSE IF killed THEN "oom" ELSE "other"

Recognizable == ~torn /\ (launches > 1 \/ (launches = 1 /\ pc = "off"))

EndedInv ==
    Recognizable =>
        /\ pc \in {"off", "load"} =>
              ended = Found(stateFile = "crashed" \/ sentinel, hangFile # "none", LooksKilled)
        /\ pc \in (Starting \ {"load"}) \cup {"install"} =>
              ended = Found(stateFile = "crashed" \/ sentinel, hangFile # "none", last.oom)
        /\ pc \in {"arm", "uuid", "compute"} /\ handler = "none" =>
              ended = Found(crashedLast \/ sentinel, hangFile # "none", last.oom)

EndInv == TracesTypeOK /\ KeysInv /\ HangInv /\ HandlerInv /\ EndedInv

\* A process is launched: what the last one left is as it was.
LEMMA LaunchedEnd ==
    ASSUME EndInv, Launched
    PROVE  EndInv'
  <1>1. /\ pc = "off" /\ pc' = "load" /\ launches' = launches + 1
        /\ hangFile' = CASE hangFile = "none" -> "none" [] hangFile = "this" -> "last" [] OTHER -> "older"
        /\ UNCHANGED <<kv, systemFile, stateFile, sentinel, last, crashedLast, handler, hang, block, ended, torn>>
    BY DEF Launched, system
  <1>2. app' \in App
    <2>1. PICK debugger \in BOOLEAN : app' \in
             {[active |-> TRUE,  foreground |-> TRUE,  debugger |-> debugger, isInBackground |-> FALSE],
              [active |-> FALSE, foreground |-> TRUE,  debugger |-> debugger, isInBackground |-> FALSE],
              [active |-> FALSE, foreground |-> FALSE, debugger |-> debugger, isInBackground |-> FALSE]}
      BY Zenon DEF Launched
    <2>2. {[active |-> TRUE,  foreground |-> TRUE,  debugger |-> debugger, isInBackground |-> FALSE],
           [active |-> FALSE, foreground |-> TRUE,  debugger |-> debugger, isInBackground |-> FALSE],
           [active |-> FALSE, foreground |-> FALSE, debugger |-> debugger, isInBackground |-> FALSE]} \subseteq App
      BY DEF App
    <2>. QED BY <2>1, <2>2
  <1>3. hangFile' \in {"none", "last", "older"} /\ (hangFile' = "none" <=> hangFile = "none")
    BY <1>1
  <1>4. TracesTypeOK'
    BY <1>1, <1>3, <1>2 DEF EndInv, TracesTypeOK
  <1>5. KeysInv' /\ HangInv' /\ HandlerInv'
    BY <1>1, <1>3 DEF EndInv, KeysInv, HangInv, HandlerInv, Started, Armed, Judged
  <1>6. Recognizable' => Recognizable
    BY <1>1 DEF EndInv, TracesTypeOK, Recognizable
  <1>7. LooksKilled' = LooksKilled
    BY <1>1 DEF LooksKilled
  <1>8. EndedInv'
    BY <1>1, <1>3, <1>6, <1>7 DEF EndInv, EndedInv, Starting, Found
  <1>. QED BY <1>4, <1>5, <1>8 DEF EndInv

\* The initializers overwrite the keys one by one, after last has what they
\* said.
LEMMA InitializeEnd ==
    ASSUME EndInv, Initialize
    PROVE  EndInv'
  <1>1. /\ UNCHANGED <<app, stateFile, sentinel, hangFile, crashedLast, handler, hang, block, ended, launches>>
        /\ torn' = torn \/ torn' = TRUE
        /\ ~torn' => ~torn
    <2>1. /\ UNCHANGED <<app, stateFile, sentinel, hangFile, crashedLast, handler, hang, block, ended, launches>>
          /\ torn' = torn \/ torn' = TRUE
      BY DEF Initialize, LoadPreviousState, InitCurrentState, SetKey, SyncInitialState,
             LoadStateMetadata, SaveStateMetadata, disk, loaded, system, history
    <2>. QED BY <2>1 DEF EndInv, TracesTypeOK
  <1>2. CASE LoadPreviousState
    <2>1. /\ pc = "load" /\ pc' = "deleteTerminated" /\ last' = [oom |-> LooksKilled, count |-> systemFile.count]
          /\ UNCHANGED <<kv, systemFile>>
      BY <1>2 DEF LoadPreviousState, Step, disk
    <2>2. last'.oom = LooksKilled /\ last' \in [oom : BOOLEAN, count : Counts]
      <3>1. LooksKilled \in BOOLEAN /\ systemFile.count \in Counts
        BY DEF LooksKilled, EndInv, TracesTypeOK, Flags
      <3>. QED BY <2>1, <3>1
    <2>3. TracesTypeOK'
      BY <1>1, <2>1, <2>2 DEF EndInv, TracesTypeOK
    <2>4. KeysInv' /\ HangInv' /\ HandlerInv'
      BY <1>1, <2>1 DEF EndInv, KeysInv, HangInv, HandlerInv, Started, Armed, Judged
    <2>5. EndedInv'
      BY <1>1, <2>1, <2>2 DEF EndInv, EndedInv, Recognizable, Starting, Found
    <2>. QED BY <2>3, <2>4, <2>5 DEF EndInv
  <1>3. CASE InitCurrentState
    <2>1. PICK from \in Starting, to \in Starting, key \in {"terminated", "active", "foreground", "debugger"}, value \in BOOLEAN :
             /\ SetKey(from, to, key, value)
             /\ \/ from = "deleteTerminated" /\ to = "setActive" /\ key = "terminated" /\ value = FALSE
                \/ from = "setActive" /\ to = "setForeground" /\ key = "active" /\ value = app.active
                \/ from = "setForeground" /\ to = "setDebugger" /\ key = "foreground" /\ value = app.foreground
                \/ from = "setDebugger" /\ to = "sync" /\ key = "debugger" /\ value = app.debugger
      <3>1. app.active \in BOOLEAN /\ app.foreground \in BOOLEAN /\ app.debugger \in BOOLEAN
        BY DEF EndInv, TracesTypeOK, App
      <3>. QED BY <1>3, <3>1 DEF InitCurrentState, Starting
    <2>2. /\ pc = from /\ pc' = to /\ kv' = [kv EXCEPT ![key] = value] /\ UNCHANGED <<systemFile, last>>
      BY <2>1 DEF SetKey, Step, loaded
    <2>3. kv' \in Flags /\ kv'[key] = value
          /\ \A k \in {"terminated", "active", "foreground", "debugger"} \ {key} : kv'[k] = kv[k]
      BY <2>2 DEF EndInv, TracesTypeOK, Flags
    <2>4. TracesTypeOK'
      BY <1>1, <2>2, <2>3 DEF EndInv, TracesTypeOK
    <2>5. HangInv' /\ HandlerInv'
      BY <1>1, <2>1, <2>2 DEF EndInv, HangInv, HandlerInv, Armed, Judged
    <2>6. KeysInv'
      BY <1>1, <2>1, <2>2, <2>3 DEF EndInv, KeysInv, Started
    <2>7. EndedInv'
      BY <1>1, <2>1, <2>2 DEF EndInv, EndedInv, Recognizable, Starting, Found
    <2>. QED BY <2>4, <2>5, <2>6, <2>7 DEF EndInv
  <1>4. CASE SyncInitialState \/ LoadStateMetadata \/ SaveStateMetadata
    <2>1. /\ \/ pc = "sync" /\ pc' = "loadState" /\ systemFile' = [exists |-> TRUE, count |-> 0]
             \/ pc = "sync" /\ pc' = "loadState" /\ UNCHANGED systemFile /\ torn'
             \/ pc = "loadState" /\ pc' = "saveState" /\ UNCHANGED systemFile
             \/ pc = "saveState" /\ pc' = "install" /\ UNCHANGED systemFile
          /\ UNCHANGED <<kv, last>>
      BY <1>4 DEF SyncInitialState, LoadStateMetadata, SaveStateMetadata, IfFails, Step, disk, loaded
    <2>2. systemFile' \in [exists : BOOLEAN, count : Counts] /\ (pc = "sync" => systemFile'.exists \/ torn')
      <3>1. 0 \in Counts
        BY BoundsAssumption DEF Counts
      <3>2. CASE pc = "sync" /\ systemFile' = [exists |-> TRUE, count |-> 0]
        BY <3>1, <3>2
      <3>3. CASE (pc # "sync" \/ torn') /\ UNCHANGED systemFile
        BY <3>3 DEF EndInv, TracesTypeOK
      <3>. QED BY <2>1, <3>2, <3>3
    <2>3. TracesTypeOK'
      BY <1>1, <2>1, <2>2 DEF EndInv, TracesTypeOK
    <2>4. HangInv' /\ HandlerInv'
      BY <1>1, <2>1 DEF EndInv, HangInv, HandlerInv, Armed, Judged
    <2>5. KeysInv'
      BY <1>1, <2>1, <2>2 DEF EndInv, KeysInv, Started
    <2>6. EndedInv'
      BY <1>1, <2>1 DEF EndInv, EndedInv, Recognizable, Starting, Found
    <2>. QED BY <2>3, <2>4, <2>5, <2>6 DEF EndInv
  <1>. QED BY <1>2, <1>3, <1>4 DEF Initialize

\* -start reads the other traces before it overwrites them.
LEMMA StartEnd ==
    ASSUME EndInv, Start
    PROVE  EndInv'
  <1>1. /\ handler = "none"
        /\ UNCHANGED <<kv, systemFile, app, last, handler, hang, ended, launches>>
    BY DEF Start, InstallState, InstallHandlers, RecordAppUUID, ComputeDidCrashLastLaunch,
           StartAppHangDetector, Step, disk, loaded, system, history
  <1>2. \/ /\ pc = "install" /\ pc' = "arm" /\ crashedLast' \in BOOLEAN
           /\ (crashedLast' <=> stateFile = "crashed")
           /\ (~torn' => ~torn /\ stateFile' # "crashed") /\ torn' \in BOOLEAN /\ UNCHANGED <<sentinel, hangFile>>
        \/ /\ \/ pc = "arm" /\ pc' = "uuid"
              \/ pc = "uuid" /\ pc' = "compute"
           /\ UNCHANGED <<stateFile, sentinel, hangFile, crashedLast, torn>>
        \/ /\ pc = "compute" /\ pc' = "detector" /\ sentinel' \in BOOLEAN
           /\ (~torn' => ~torn /\ ~sentinel') /\ torn' \in BOOLEAN /\ UNCHANGED <<stateFile, hangFile, crashedLast>>
        \/ /\ pc = "detector" /\ pc' = "run" /\ hangFile' \in {"none", hangFile}
           /\ UNCHANGED <<stateFile, sentinel, crashedLast, torn>>
    <2>1. CASE InstallState
      BY <2>1 DEF InstallState, Step, system, history, EndInv, TracesTypeOK
    <2>2. CASE ComputeDidCrashLastLaunch
      BY <2>2 DEF ComputeDidCrashLastLaunch, IfFails, Step, EndInv, TracesTypeOK
    <2>3. CASE InstallHandlers \/ RecordAppUUID \/ StartAppHangDetector
      BY <2>3 DEF InstallHandlers, RecordAppUUID, StartAppHangDetector, IfFails,
                  Step, disk, loaded, system, history
    <2>. QED BY <2>1, <2>2, <2>3 DEF Start
  <1>3. TracesTypeOK'
    <2>1. TracesTypeOK
      BY DEF EndInv
    <2>2. /\ sentinel' \in BOOLEAN /\ crashedLast' \in BOOLEAN /\ torn' \in BOOLEAN
          /\ hangFile' \in {"none", hangFile}
      BY <1>2, <2>1 DEF TracesTypeOK
    <2>. QED BY <1>1, <2>1, <2>2 DEF TracesTypeOK
  <1>4. KeysInv'
    <2>1. pc \in Started /\ pc' \in Started /\ UNCHANGED <<kv, app, systemFile>> /\ (~torn' => ~torn)
      BY <1>1, <1>2 DEF Started
    <2>. QED BY <2>1 DEF EndInv, KeysInv
  <1>5. HangInv'
    BY <1>1, <1>2 DEF EndInv, HangInv
  <1>6. HandlerInv'
    BY <1>1, <1>2 DEF EndInv, HandlerInv, Armed, Judged
  <1>7. EndedInv'
    <2>1. CASE pc = "install" /\ pc' = "arm"
      <3>1. (crashedLast' \/ sentinel') <=> (stateFile = "crashed" \/ sentinel)
        BY <1>2, <2>1
      <3>. QED BY <1>1, <1>2, <2>1, <3>1 DEF EndInv, EndedInv, Recognizable, Starting, Found
    <2>2. CASE (pc = "arm" /\ pc' = "uuid") \/ (pc = "uuid" /\ pc' = "compute")
      BY <1>1, <1>2, <2>2 DEF EndInv, EndedInv, Recognizable, Starting, Found
    <2>3. CASE pc' \in {"detector", "run"}
      BY <2>3 DEF EndedInv, Starting
    <2>. QED BY <1>2, <2>1, <2>2, <2>3
  <1>. QED BY <1>3, <1>4, <1>5, <1>6, <1>7 DEF EndInv

\* The application runs: only notifications change the keys, and hangs the file
\* of hangs.
LEMMA RunningEnd ==
    ASSUME EndInv,
           \/ \E key \in {"active", "foreground"}, value \in BOOLEAN : Lifecycle(key, value)
           \/ SessionUpdateNotification \/ MarkLaunchCompleted
           \/ Hang \/ HangDetected \/ HangOver \/ HangEnded
    PROVE  EndInv'
  <1>1. /\ pc = "run" /\ pc' = pc /\ handler = "none"
        /\ UNCHANGED <<systemFile, sentinel, last, crashedLast, handler, ended, launches>>
    BY DEF Lifecycle, SessionUpdateNotification, MarkLaunchCompleted, Hang, HangDetected, HangOver,
           HangEnded, Responsive, EndInv, HangInv, disk, loaded, process, system, history
  <1>2. stateFile' \in {stateFile, "clean"}
    BY DEF Lifecycle, SessionUpdateNotification, MarkLaunchCompleted, Hang, HangDetected, HangOver,
           HangEnded, SaveState, IfFails, disk, process, system, history
  <1>. DEFINE KeysFollow ==
                /\ kv' \in Flags /\ app' \in App
                /\ kv'.terminated = kv.terminated /\ kv'.debugger = kv.debugger
                /\ app'.debugger = app.debugger
                /\ (kv.active = app.active => kv'.active = app'.active)
                /\ (kv.foreground = app.foreground => kv'.foreground = app'.foreground)
  <1>3. KeysFollow
    <2>1. ASSUME NEW key \in {"active", "foreground"}, NEW value \in BOOLEAN, Lifecycle(key, value)
          PROVE  KeysFollow
      <3>1. /\ app' = [app EXCEPT ![key] = value,
                                  !.isInBackground = IF key = "foreground" THEN ~value ELSE @]
            /\ kv' = [kv EXCEPT ![key] = value]
        BY <2>1 DEF Lifecycle
      <3>. QED BY <3>1 DEF EndInv, TracesTypeOK, Flags, App
    <2>2. ASSUME UNCHANGED <<kv, app>> PROVE KeysFollow
      BY <2>2 DEF EndInv, TracesTypeOK
    <2>. QED BY <2>1, <2>2 DEF SessionUpdateNotification, MarkLaunchCompleted, Hang, HangDetected,
                               HangOver, HangEnded, disk, process, system, history
  <1>4. \/ UNCHANGED <<hang, hangFile, torn>>
        \/ hang = "no" /\ hang' = "hung" /\ UNCHANGED <<hangFile, torn>>
        \/ hang = "hung" /\ hang' = "detected" /\ hangFile' = "this" /\ UNCHANGED torn
        \/ hang = "hung" /\ hang' = "detected" /\ UNCHANGED hangFile /\ torn' = TRUE
        \/ hang = "hung" /\ hang' = "no" /\ UNCHANGED <<hangFile, torn>>
        \/ hang = "detected" /\ hang' = "over" /\ UNCHANGED <<hangFile, torn>>
        \/ hang = "over" /\ hang' = "no" /\ hangFile' = "none" /\ UNCHANGED torn
        \/ hang = "over" /\ hang' = "no" /\ UNCHANGED hangFile /\ torn' = TRUE
    BY DEF Lifecycle, SessionUpdateNotification, MarkLaunchCompleted, Hang, HangDetected, HangOver,
           HangEnded, IfFails, disk, process, system, history
  <1>5. TracesTypeOK'
    BY <1>1, <1>3, <1>4 DEF EndInv, TracesTypeOK
  <1>6. KeysInv'
    BY <1>1, <1>3, <1>4 DEF EndInv, KeysInv, Started
  <1>7. HangInv'
    BY <1>1, <1>4 DEF EndInv, HangInv
  <1>8. HandlerInv'
    BY <1>1, <1>2, <1>4 DEF EndInv, HandlerInv, Armed, Judged
  <1>9. EndedInv'
    BY <1>1 DEF EndedInv, Starting
  <1>. QED BY <1>5, <1>6, <1>7, <1>8, <1>9 DEF EndInv

\* A block that writes the file leaves it there.
LEMMA BlocksEnd ==
    ASSUME TypeOK, EndInv,
           \/ \E b \in Blocks : ApplyCount(b) \/ ApplyOther(b) \/ ReadCurrent(b) \/ WriteSnapshot(b)
           \/ UNCHANGED vars
    PROVE  EndInv'
  <1>1. UNCHANGED <<kv, app, stateFile, sentinel, hangFile, pc, last, crashedLast, handler, hang,
                    ended, torn, launches>>
    BY DEF ApplyCount, ApplyOther, ReadCurrent, WriteSnapshot, disk, loaded, process, system, history, vars
  <1>2. /\ pc \in Started \/ UNCHANGED <<systemFile, block>>
        /\ UNCHANGED systemFile \/ \E n \in Counts : systemFile' = [exists |-> TRUE, count |-> n]
    <2>1. ASSUME NEW b \in Blocks, ApplyCount(b) \/ ApplyOther(b) \/ ReadCurrent(b) \/ WriteSnapshot(b)
          PROVE  /\ block[b].at # "none" /\ block[b].count \in Counts
                 /\ systemFile' \in {systemFile, [exists |-> TRUE, count |-> block[b].count]}
      BY <2>1 DEF ApplyCount, ApplyOther, ReadCurrent, WriteSnapshot, IfFails, disk, TypeOK
    <2>2. ASSUME UNCHANGED vars
          PROVE  UNCHANGED <<systemFile, block>>
      BY <2>2 DEF vars, disk, system
    <2>. QED BY <2>1, <2>2 DEF EndInv, KeysInv
  <1>3. systemFile' \in [exists : BOOLEAN, count : Counts] /\ (systemFile.exists => systemFile'.exists)
    <2>1. CASE UNCHANGED systemFile
      BY <2>1 DEF EndInv, TracesTypeOK
    <2>2. ASSUME NEW n \in Counts, systemFile' = [exists |-> TRUE, count |-> n]
          PROVE  systemFile' \in [exists : BOOLEAN, count : Counts] /\ systemFile'.exists
      BY <2>2
    <2>. QED BY <1>2, <2>1, <2>2
  <1>4. TracesTypeOK'
    BY <1>1, <1>3 DEF EndInv, TracesTypeOK
  <1>5. KeysInv'
    BY <1>1, <1>2, <1>3 DEF EndInv, KeysInv
  <1>6. HangInv' /\ HandlerInv'
    BY <1>1 DEF EndInv, HangInv, HandlerInv, Judged
  <1>7. EndedInv'
    <2>1. CASE pc \in Started
      BY <1>1, <2>1 DEF EndInv, EndedInv, Recognizable, Started, Starting
    <2>2. CASE UNCHANGED systemFile
      <3>1. LooksKilled' = LooksKilled
        BY <1>1, <2>2 DEF LooksKilled
      <3>. QED BY <1>1, <3>1 DEF EndInv, EndedInv, Recognizable
    <2>. QED BY <1>2, <2>1, <2>2
  <1>. QED BY <1>4, <1>5, <1>6, <1>7 DEF EndInv

\* A crash handler that begins before the verdict ends in a torn run.
LEMMA HandlerEnd ==
    ASSUME EndInv, CrashBegins \/ CrashSaved \/ CrashMarked
    PROVE  EndInv'
  <1>1. /\ pc \in Armed /\ handler' # "none"
        /\ UNCHANGED <<kv, app, systemFile, hangFile, pc, last, crashedLast, hang, block, ended, torn, launches>>
    BY DEF CrashBegins, CrashSaved, CrashMarked, loaded, system, history, EndInv, HandlerInv
  <1>2. \/ handler = "none" /\ handler' = "saving" /\ stateFile' = "broken" /\ UNCHANGED sentinel
        \/ handler = "saving" /\ handler' = "writing" /\ stateFile' \in {"crashed", stateFile} /\ UNCHANGED sentinel
        \/ handler = "writing" /\ handler' = "done" /\ sentinel' = TRUE /\ UNCHANGED stateFile
    BY DEF CrashBegins, CrashSaved, CrashMarked, IfFails
  <1>3. TracesTypeOK'
    BY <1>1, <1>2 DEF EndInv, TracesTypeOK
  <1>4. KeysInv' /\ HangInv'
    BY <1>1 DEF EndInv, KeysInv, HangInv
  <1>5. HandlerInv'
    BY <1>1, <1>2 DEF EndInv, HandlerInv, Judged
  <1>6. EndedInv'
    BY <1>1 DEF EndedInv, Starting, Armed
  <1>. QED BY <1>3, <1>4, <1>5, <1>6 DEF EndInv

\* The traces of a run that has come to its verdict tell how it ends.
LEMMA ProcessEnd ==
    ASSUME EndInv, Crashed \/ WillTerminate \/ Killed
    PROVE  EndInv'
  <1>1. /\ pc' = "off" /\ app' = NotRunning /\ last' = NothingLoaded /\ crashedLast' = FALSE
        /\ handler' = "none" /\ hang' = "no"
        /\ torn' = (torn \/ ~Judged \/ hangFile \in {"last", "older"} \/ hang = "over")
        /\ block' = [b \in Blocks |-> NoBlock]
        /\ UNCHANGED <<systemFile, sentinel, hangFile, launches>>
    BY DEF Crashed, WillTerminate, Killed, End, disk
  <1>2. \/ handler = "done" /\ ended' = "crash" /\ UNCHANGED <<kv, stateFile>>
        \/ /\ Responsive /\ ended' = "other" /\ stateFile' \in {"clean", stateFile}
           /\ kv' = [kv EXCEPT !.terminated = TRUE]
        \/ /\ handler # "done" /\ UNCHANGED <<kv, stateFile>>
           /\ ended' = IF handler = "writing" /\ stateFile = "crashed" THEN "crash"
                       ELSE IF hang = "detected" THEN "hang"
                       ELSE IF app.active /\ app.foreground /\ ~app.debugger THEN "oom" ELSE "other"
    BY DEF Crashed, WillTerminate, Killed, End, SaveState, IfFails, disk
  <1>3. kv' \in Flags
    BY <1>2 DEF EndInv, TracesTypeOK, Flags
  <1>4. TracesTypeOK'
    <2>1. NotRunning \in App /\ NothingLoaded \in [oom : BOOLEAN, count : Counts]
      <3>1. 0 \in Counts
        BY BoundsAssumption DEF Counts
      <3>. QED BY <3>1 DEF NotRunning, App, NothingLoaded
    <2>2. torn' \in BOOLEAN
      BY <1>1 DEF EndInv, TracesTypeOK
    <2>. QED BY <1>1, <1>3, <2>1, <2>2 DEF EndInv, TracesTypeOK
  <1>5. KeysInv' /\ HangInv' /\ HandlerInv'
    BY <1>1 DEF KeysInv, HangInv, HandlerInv, NoBlock, Started, Armed, Judged
  <1>6. EndedInv'
    <2>. SUFFICES ASSUME ~torn'
                  PROVE  ended' = Found(stateFile' = "crashed" \/ sentinel', hangFile' # "none", LooksKilled')
      BY <1>1 DEF EndedInv, Recognizable, Starting
    <2>0. ~torn
      BY <1>1 DEF EndInv, TracesTypeOK
    <2>1. Judged /\ hangFile \in {"none", "this"} /\ hang # "over"
      BY <1>1 DEF EndInv, TracesTypeOK
    <2>2. pc \in {"detector", "run"}
      BY <2>1 DEF Judged
    <2>3. /\ ~kv.terminated /\ kv.active = app.active /\ kv.foreground = app.foreground
          /\ kv.debugger = app.debugger /\ systemFile.exists
      BY <2>0, <2>2 DEF EndInv, KeysInv, Started
    <2>4. hangFile # "none" <=> hang = "detected"
      BY <2>0, <2>1, <2>2 DEF EndInv, HangInv, TracesTypeOK
    <2>5. /\ stateFile = "crashed" => handler \in {"writing", "done"}
          /\ sentinel <=> handler = "done"
      BY <2>0, <2>1, <2>2 DEF EndInv, HandlerInv, Armed
    <2>6. CASE handler = "done" /\ ended' = "crash" /\ UNCHANGED <<kv, stateFile>>
      BY <1>1, <2>5, <2>6 DEF Found
    <2>7. CASE /\ Responsive /\ ended' = "other" /\ stateFile' \in {"clean", stateFile}
               /\ kv' = [kv EXCEPT !.terminated = TRUE]
      <3>1. handler = "none" /\ hang = "no"
        BY <2>1, <2>7 DEF Responsive
      <3>2. kv'.terminated
        BY <2>7 DEF EndInv, TracesTypeOK, Flags
      <3>. QED BY <1>1, <2>4, <2>5, <2>7, <3>1, <3>2 DEF Found, LooksKilled
    <2>8. CASE /\ handler # "done" /\ UNCHANGED <<kv, stateFile>>
               /\ ended' = IF handler = "writing" /\ stateFile = "crashed" THEN "crash"
                           ELSE IF hang = "detected" THEN "hang"
                           ELSE IF app.active /\ app.foreground /\ ~app.debugger THEN "oom" ELSE "other"
      <3>1. LooksKilled' <=> app.active /\ app.foreground /\ ~app.debugger
        BY <1>1, <2>3, <2>8 DEF LooksKilled
      <3>. QED BY <1>1, <2>4, <2>5, <2>8, <3>1 DEF Found
    <2>. QED BY <1>2, <2>6, <2>7, <2>8
  <1>. QED BY <1>4, <1>5, <1>6 DEF EndInv

\* The traces of every run agree with how it ended, as long as no run was torn.
LEMMA EndInvariant == Spec => []EndInv
  <1>1. Init => EndInv
    <2>. SUFFICES ASSUME Init PROVE EndInv
      OBVIOUS
    <2>1. 0 \in Counts
      BY BoundsAssumption DEF Counts
    <2>2. TracesTypeOK
      BY <2>1 DEF Init, TracesTypeOK, Flags, App, NotRunning, NothingLoaded
    <2>3. KeysInv /\ HangInv /\ HandlerInv /\ EndedInv
      BY DEF Init, KeysInv, HangInv, HandlerInv, EndedInv, Recognizable, NoBlock, Started, Starting, Armed, Judged
    <2>. QED BY <2>2, <2>3 DEF EndInv
  <1>2. TypeOK /\ EndInv /\ [Next]_vars => EndInv'
    BY LaunchedEnd, InitializeEnd, StartEnd, RunningEnd, BlocksEnd, HandlerEnd, ProcessEnd DEF Next
  <1>. QED BY <1>1, <1>2, TypeCorrect, PTL DEF Spec

\* If no run was torn, the verdict of a launch says how the last run ended: a
\* crash, an end in a hang, an end in the foreground without notice (unless the
\* configuration or an update forbids to say so), or none of these.
THEOREM EndIsRecognized == Spec => []EndRecognized
  <1>1. EndInv => EndRecognized
    <2>. SUFFICES ASSUME EndInv, Judging, ~torn, launches > 1
                  PROVE  \/ Verdict = ended
                         \/ ended = "oom" /\ Verdict = "other" /\ (updated \/ "ooms" \notin config)
      BY DEF EndRecognized
    <2>1. ended = Found(crashedLast \/ sentinel, hangFile # "none", last.oom)
      BY DEF EndInv, EndedInv, Recognizable, Judging
    <2>. QED BY <2>1 DEF Found, Verdict
  <1>. QED BY <1>1, EndInvariant, PTL

-----------------------------------------------------------------------------
(***************************************************************************)
(* The count of crashes while launching.  Until a launch has its verdict   *)
(* the count is that of the last one, in the file or in consecutive, and   *)
(* what the file gets from blocks is zero; from then on no count there is  *)
(* exceeds the crashes in a row.                                           *)
(***************************************************************************)

\* What a launch knows of the last one: that it was launching, from state.json
\* before it is overwritten, and its count, from the file before that is.
WasLaunching ==
    IF pc \in {"saveState", "install", "arm", "uuid", "compute"} THEN wasLaunching ELSE stateJSON

LastCount == IF pc \in {"off", "load"} THEN systemFile.count ELSE consecutive

\* Before the verdict no block has a count, nor has the file once it is new.
NoCountYet ==
    ~Judged => /\ current = 0 /\ \A b \in Blocks : block[b].count = 0 /\ block[b].at # "count"
               /\ ~torn /\ pc \in {"loadState", "saveState"} \cup Started => systemFile.count = 0

\* The first launch follows no run that was launching.
FirstInv ==
    ~Judged /\ (launches = 0 \/ (launches = 1 /\ pc # "off")) => ~WasLaunching

StreakInv ==
    ~torn => /\ Judged => CountsUpTo(streak)
             /\ ~Judged /\ WasLaunching /\ ended \in Crashes => LastCount + 1 <= streak

CountInv == NoCountYet /\ FirstInv /\ StreakInv

\* A run that is torn stays so.
LEMMA TornStays ==
    ASSUME \/ Initialize \/ Start
           \/ \E key \in {"active", "foreground"}, value \in BOOLEAN : Lifecycle(key, value)
           \/ SessionUpdateNotification \/ MarkLaunchCompleted
           \/ Hang \/ HangDetected \/ HangOver \/ HangEnded
           \/ CrashBegins \/ CrashSaved \/ CrashMarked
           \/ UNCHANGED vars
    PROVE  ~torn' => ~torn
  <1>1. CASE Initialize
    <2>1. torn' = TRUE \/ torn' = torn
      BY <1>1 DEF Initialize, LoadPreviousState, InitCurrentState, SetKey, SyncInitialState,
                  LoadStateMetadata, SaveStateMetadata, history
    <2>. QED BY <2>1
  <1>2. CASE Start
    <2>1. \/ torn' = torn
          \/ InstallState
          \/ ComputeDidCrashLastLaunch
      BY <1>2 DEF Start, InstallHandlers, RecordAppUUID, StartAppHangDetector, history
    <2>2. CASE InstallState
      <3>1. torn' = (torn \/ stateFile' = "crashed")
        BY <2>2 DEF InstallState
      <3>. QED BY <3>1, Zenon
    <2>3. CASE ComputeDidCrashLastLaunch
      <3>1. torn' = (torn \/ sentinel')
        BY <2>3 DEF ComputeDidCrashLastLaunch
      <3>. QED BY <3>1, Zenon
    <2>. QED BY <2>1, <2>2, <2>3
  <1>3. CASE ~Initialize /\ ~Start
    <2>1. torn' = TRUE \/ torn' = torn
      BY <1>3 DEF Lifecycle, SessionUpdateNotification, MarkLaunchCompleted, Hang, HangDetected,
                  HangOver, HangEnded, CrashBegins, CrashSaved, CrashMarked, history, vars
    <2>. QED BY <2>1
  <1>. QED BY <1>1, <1>2, <1>3

\* A process is launched; it knows of the last run what the disk says.
LEMMA LaunchedCount ==
    ASSUME TypeOK, CountInv, Launched
    PROVE  CountInv'
  <1>1. /\ pc = "off" /\ pc' = "load" /\ launches' = launches + 1
        /\ UNCHANGED <<stateJSON, systemFile, current, block, ended, streak, torn>>
    BY DEF Launched, system
  <1>2. ~Judged /\ ~Judged' /\ WasLaunching' = WasLaunching /\ LastCount' = LastCount
    BY <1>1 DEF Judged, WasLaunching, LastCount
  <1>3. NoCountYet'
    BY <1>1, <1>2 DEF CountInv, NoCountYet, Started
  <1>4. FirstInv'
    BY <1>1, <1>2, Numbers DEF CountInv, FirstInv
  <1>5. StreakInv'
    BY <1>1, <1>2 DEF CountInv, StreakInv
  <1>. QED BY <1>3, <1>4, <1>5 DEF CountInv

\* The initializers read what they know of the last run before they overwrite
\* it: the count before the file is new, state.json before it says TRUE.
LEMMA InitializeCount ==
    ASSUME CountInv, Initialize
    PROVE  CountInv'
  <1>1. /\ pc \in Starting /\ pc' \in Starting \cup {"install"}
        /\ UNCHANGED <<block, launches, ended, streak>>
    BY DEF Initialize, LoadPreviousState, InitCurrentState, SetKey, SyncInitialState,
           LoadStateMetadata, SaveStateMetadata, Step, system, history, Starting
  <1>2. ~Judged /\ ~Judged' /\ pc # "off" /\ pc' # "off"
    BY <1>1 DEF Judged, Starting
  <1>3. /\ WasLaunching' = WasLaunching /\ LastCount' = LastCount /\ current' \in {0, current}
        /\ ~torn' /\ pc' \in {"loadState", "saveState"} \cup Started =>
              \/ systemFile'.count = 0
              \/ pc \in {"loadState", "saveState"} /\ UNCHANGED systemFile
    <2>1. CASE LoadPreviousState
      BY <2>1 DEF LoadPreviousState, Step, disk, WasLaunching, LastCount, Started
    <2>2. CASE InitCurrentState
      BY <2>2 DEF InitCurrentState, SetKey, Step, loaded, system, WasLaunching, LastCount, Started
    <2>3. CASE SyncInitialState
      BY <2>3 DEF SyncInitialState, Step, loaded, WasLaunching, LastCount
    <2>4. CASE LoadStateMetadata
      BY <2>4 DEF LoadStateMetadata, Step, disk, system, WasLaunching, LastCount
    <2>5. CASE SaveStateMetadata
      BY <2>5 DEF SaveStateMetadata, Step, loaded, system, WasLaunching, LastCount
    <2>. QED BY <2>1, <2>2, <2>3, <2>4, <2>5 DEF Initialize
  <1>4. NoCountYet'
    BY <1>1, <1>2, <1>3, TornStays DEF CountInv, NoCountYet
  <1>5. FirstInv' /\ StreakInv'
    BY <1>1, <1>2, <1>3, TornStays DEF CountInv, FirstInv, StreakInv
  <1>. QED BY <1>4, <1>5 DEF CountInv

\* What the verdict makes of the count, given that it names the end of the
\* last run.
LEMMA VerdictCount ==
    ASSUME TypeOK, EndInv, CountInv, ~torn, pc = "compute", handler = "none", launches > 0
    PROVE  LaunchCrashes <= streak
  <1>1. ~Judged /\ WasLaunching = wasLaunching /\ LastCount = consecutive
    BY DEF Judged, WasLaunching, LastCount
  <1>2. consecutive \in Nat /\ streak \in Nat /\ launches \in Nat
    BY Numbers
  <1>3. CASE Verdict \in Crashes /\ wasLaunching
    <2>1. launches > 1
      BY <1>1, <1>2, <1>3 DEF CountInv, FirstInv
    <2>2. ended = Found(crashedLast \/ sentinel, hangFile # "none", last.oom)
      BY <2>1 DEF EndInv, EndedInv, Recognizable
    <2>3. ended = Verdict
      BY <1>3, <2>2 DEF Found, Verdict, Crashes
    <2>4. LastCount + 1 <= streak
      BY <1>1, <1>3, <2>3 DEF CountInv, StreakInv
    <2>. QED BY <1>1, <1>3, <2>4 DEF LaunchCrashes
  <1>4. CASE ~(Verdict \in Crashes /\ wasLaunching)
    BY <1>2, <1>4 DEF LaunchCrashes
  <1>. QED BY <1>3, <1>4

\* The steps of -start: with the verdict the count becomes that of this launch.
LEMMA StartCount ==
    ASSUME TypeInv, EndInv, CountInv, Start
    PROVE  CountInv'
  <1>1. /\ pc \in Started \ {"run"} /\ pc' \in Started /\ handler = "none"
        /\ UNCHANGED <<systemFile, stateJSON, wasLaunching, current, launches, ended, streak>>
    BY DEF Start, InstallState, InstallHandlers, RecordAppUUID, ComputeDidCrashLastLaunch,
           StartAppHangDetector, Step, disk, loaded, system, history, Started
  <1>2. TypeOK /\ launches > 0
    BY <1>1 DEF TypeInv, CountsInv, Started
  <1>3. /\ \A b \in Blocks : block'[b].count = block[b].count
        /\ ~ComputeDidCrashLastLaunch => \A b \in Blocks : block'[b].at \in {block[b].at, "other"}
    <2>1. \/ UNCHANGED block
          \/ ComputeDidCrashLastLaunch /\ MutateLaunchState("count")
          \/ MutateLaunchState("other")
      BY DEF Start, InstallState, InstallHandlers, RecordAppUUID, ComputeDidCrashLastLaunch,
             StartAppHangDetector, system
    <2>2. block \in [Blocks -> [at : {"none", "count", "other", "applied", "read"}, count : Counts]]
      BY <1>2 DEF TypeOK
    <2>3. CASE UNCHANGED block
      BY <2>3
    <2>4. CASE MutateLaunchState("other")
      BY <2>2, <2>4 DEF MutateLaunchState
    <2>5. CASE ComputeDidCrashLastLaunch /\ MutateLaunchState("count")
      BY <2>2, <2>5 DEF MutateLaunchState
    <2>. QED BY <2>1, <2>3, <2>4, <2>5
  <1>4. CASE ComputeDidCrashLastLaunch
    <2>1. pc = "compute" /\ pc' = "detector" /\ consecutive' = LaunchCrashes
      BY <1>4 DEF ComputeDidCrashLastLaunch, Step
    <2>2. ~Judged /\ Judged' /\ streak \in Nat
      BY <1>2, <2>1, Numbers DEF Judged
    <2>3. (~torn => systemFile.count = 0) /\ current = 0 /\ \A b \in Blocks : block[b].count = 0
      BY <2>1, <2>2 DEF CountInv, NoCountYet, Started
    <2>4. ~torn => consecutive' <= streak
      BY <1>1, <1>2, <2>1, VerdictCount
    <2>5. StreakInv'
      BY <1>1, <1>3, <2>2, <2>3, <2>4, TornStays DEF StreakInv, CountsUpTo
    <2>. QED BY <2>2, <2>5 DEF CountInv, NoCountYet, FirstInv
  <1>5. CASE ~ComputeDidCrashLastLaunch
    <2>1. /\ UNCHANGED <<consecutive, Judged>>
          /\ pc # "off" /\ pc' # "off" /\ pc # "load" /\ pc' # "load"
          /\ (WasLaunching' = WasLaunching) \/ Judged
      BY <1>1, <1>5 DEF Start, InstallState, InstallHandlers, RecordAppUUID, StartAppHangDetector, Step,
                        system, Judged, WasLaunching, Started
    <2>2. LastCount' = LastCount
      BY <1>1, <2>1 DEF LastCount
    <2>3. NoCountYet'
      BY <1>1, <1>3, <1>5, <2>1, TornStays DEF CountInv, NoCountYet
    <2>4. FirstInv'
      BY <1>1, <2>1 DEF CountInv, FirstInv
    <2>5. StreakInv'
      BY <1>1, <1>3, <2>1, <2>2, TornStays DEF CountInv, StreakInv, CountsUpTo
    <2>. QED BY <2>3, <2>4, <2>5 DEF CountInv
  <1>. QED BY <1>4, <1>5

\* The application runs, or a crash handler does: no count changes.
LEMMA RunningCount ==
    ASSUME TypeOK, EndInv, CountInv,
           \/ \E key \in {"active", "foreground"}, value \in BOOLEAN : Lifecycle(key, value)
           \/ SessionUpdateNotification \/ MarkLaunchCompleted
           \/ Hang \/ HangDetected \/ HangOver \/ HangEnded
           \/ CrashBegins \/ CrashSaved \/ CrashMarked
           \/ UNCHANGED vars
    PROVE  CountInv'
  <1>1. UNCHANGED <<systemFile, pc, wasLaunching, consecutive, current, launches, ended, streak>>
    BY DEF Lifecycle, SessionUpdateNotification, MarkLaunchCompleted, Hang, HangDetected, HangOver,
           HangEnded, CrashBegins, CrashSaved, CrashMarked, disk, process, loaded, system, history, vars
  <1>2. UNCHANGED <<stateJSON, block>> \/ (Responsive /\ UNCHANGED block)
            \/ (Responsive /\ MutateLaunchState("other"))
    BY DEF Lifecycle, SessionUpdateNotification, MarkLaunchCompleted, Hang, HangDetected, HangOver,
           HangEnded, CrashBegins, CrashSaved, CrashMarked, disk, process, system, history, vars
  <1>3. \A b \in Blocks : block'[b].count = block[b].count
    BY <1>2, DispatchType
  <1>4. UNCHANGED Judged /\ UNCHANGED LastCount
    BY <1>1 DEF Judged, LastCount
  <1>5. UNCHANGED <<WasLaunching, block>> \/ Judged
    BY <1>1, <1>2 DEF WasLaunching, Responsive, Judged
  <1>6. NoCountYet' /\ FirstInv'
    BY <1>1, <1>3, <1>4, <1>5, TornStays DEF CountInv, NoCountYet, FirstInv
  <1>7. StreakInv'
    BY <1>1, <1>3, <1>4, <1>5, TornStays DEF CountInv, StreakInv, CountsUpTo
  <1>. QED BY <1>6, <1>7 DEF CountInv

\* The blocks carry the count of the state from one place to the next: before
\* the verdict it is zero, and after it no greater than the crashes in a row.
LEMMA BlocksCount ==
    ASSUME TypeOK, CountInv,
           NEW b \in Blocks, ApplyCount(b) \/ ApplyOther(b) \/ ReadCurrent(b) \/ WriteSnapshot(b)
    PROVE  CountInv'
  <1>1. /\ UNCHANGED <<stateJSON, pc, wasLaunching, consecutive, launches, ended, streak, torn>>
        /\ UNCHANGED Judged /\ UNCHANGED WasLaunching
    BY DEF ApplyCount, ApplyOther, ReadCurrent, WriteSnapshot, disk, process, loaded, history,
           Judged, WasLaunching
  <1>2. /\ \A c \in Blocks : /\ block'[c].count \in {0, current, block[c].count}
                             /\ block'[c].at = "count" => block[c].at = "count"
        /\ current' = current \/ (current' = consecutive /\ block[b].at = "count")
        /\ systemFile'.count \in {systemFile.count, block[b].count}
    <2>1. /\ block \in [Blocks -> [at : {"none", "count", "other", "applied", "read"}, count : Counts]]
          /\ systemFile \in [exists : BOOLEAN, count : Counts]
      BY DEF TypeOK
    <2>2. UNCHANGED systemFile \/ systemFile' = [exists |-> TRUE, count |-> block[b].count]
      BY DEF ApplyCount, ApplyOther, ReadCurrent, WriteSnapshot, IfFails, disk
    <2>3. systemFile'.count \in {systemFile.count, block[b].count}
      BY <2>2
    <2>4. \/ \E at \in {"applied"} : block' = [block EXCEPT ![b].at = at]
          \/ block' = [block EXCEPT ![b] = [at |-> "read", count |-> current]]
          \/ block' = [block EXCEPT ![b] = [at |-> "none", count |-> 0]]
      BY DEF ApplyCount, ApplyOther, ReadCurrent, WriteSnapshot, NoBlock
    <2>5. current' = current \/ (current' = consecutive /\ block[b].at = "count")
      BY DEF ApplyCount, ApplyOther, ReadCurrent, WriteSnapshot
    <2>. QED BY <2>1, <2>3, <2>4, <2>5
  <1>3. NoCountYet'
    BY <1>1, <1>2 DEF CountInv, NoCountYet
  <1>4. FirstInv'
    BY <1>1 DEF CountInv, FirstInv
  <1>5. StreakInv'
    <2>1. streak \in Nat /\ systemFile.count \in Nat /\ consecutive \in Nat
      BY Numbers
    <2>2. CASE Judged
      BY <1>1, <1>2, <2>1, <2>2 DEF CountInv, StreakInv, CountsUpTo
    <2>3. CASE ~Judged
      <3>1. (LastCount' = LastCount \/ LastCount' = 0) /\ LastCount \in Nat
        BY <1>1, <1>2, <2>1, <2>3 DEF CountInv, NoCountYet, LastCount
      <3>2. LastCount + 1 <= streak => LastCount' + 1 <= streak
        BY <2>1, <3>1
      <3>3. ~torn /\ WasLaunching /\ ended \in Crashes => LastCount + 1 <= streak
        BY <2>3 DEF CountInv, StreakInv
      <3>. QED BY <1>1, <2>3, <3>2, <3>3 DEF StreakInv
    <2>. QED BY <2>2, <2>3
  <1>. QED BY <1>3, <1>4, <1>5 DEF CountInv

\* The end of the process: what the file has is no more than the crashes in a
\* row before this end.
LEMMA EndCount ==
    ASSUME TypeInv, CrashInv, CountInv, Crashed \/ WillTerminate \/ Killed
    PROVE  CountInv'
  <1>1. PICK kind \in {"other"} \cup Crashes : End(kind)
    BY DEF Crashed, WillTerminate, Killed, Crashes
  <1>2. /\ pc' = "off" /\ current' = 0 /\ block' = [b \in Blocks |-> NoBlock]
        /\ ended' = kind /\ (~torn' => ~torn /\ Judged)
        /\ streak' = IF kind \in Crashes /\ stateJSON THEN streak + 1 ELSE 0
        /\ UNCHANGED <<systemFile, stateJSON, launches>>
    BY <1>1 DEF Crashed, WillTerminate, Killed, End, disk
  <1>3. ~Judged' /\ WasLaunching' = stateJSON /\ LastCount' = systemFile.count
    BY <1>2 DEF Judged, WasLaunching, LastCount
  <1>4. NoCountYet'
    BY <1>2 DEF NoCountYet, NoBlock, Started
  <1>5. FirstInv'
    <2>1. pc # "off"
      BY DEF Crashed, WillTerminate, Killed, Responsive, CrashInv, Armed
    <2>2. launches > 0
      BY <2>1 DEF TypeInv, CountsInv
    <2>. QED BY <1>2, <2>2 DEF FirstInv
  <1>6. StreakInv'
    BY <1>2, <1>3, Numbers DEF TypeInv, CountInv, StreakInv, CountsUpTo
  <1>. QED BY <1>4, <1>5, <1>6 DEF CountInv

\* The count never exceeds the number of runs in a row that crashed while
\* launching, as long as no run was torn: whatever the blocks have written of
\* it, and in whatever order, when a run ends.
THEOREM CountIsNotExceeded == Spec => []CountNotExceeded
  <1>1. Init => CountInv
    BY DEF Init, CountInv, NoCountYet, FirstInv, StreakInv, Judged, WasLaunching, LastCount, NoBlock,
           Started
  <1>2. TypeInv /\ CrashInv /\ EndInv /\ CountInv /\ [Next]_vars => CountInv'
    BY LaunchedCount, InitializeCount, StartCount, RunningCount, BlocksCount, EndCount DEF Next, TypeInv
  <1>3. TypeInv /\ EndInv /\ CountInv => CountNotExceeded
    <2>1. TypeInv /\ pc = "compute" => launches > 0
      BY DEF TypeInv, CountsInv
    <2>. QED BY <2>1, VerdictCount DEF TypeInv, CountNotExceeded, Judging
  <1>. QED BY <1>1, <1>2, <1>3, TypeInvariant, CrashInvariant, EndInvariant, PTL DEF Spec

=============================================================================
