---------------------------- MODULE EventUploader ----------------------------
(***************************************************************************)
(* BSGEventUploader, its upload operations and the files they share.       *)
(*                                                                         *)
(* Threads of the application hand events over (uploadEvent, storeEvent),  *)
(* a serial queue scans the directories for files, a second serial queue   *)
(* runs one upload operation at a time, the main thread may upload the     *)
(* latest file while the application launches, and the process may end at  *)
(* any moment.  Nothing but the uploadQueue is shared between them apart   *)
(* from the file system, and no lock protects that: every directory        *)
(* listing, every deletion and every enqueueing is a step of its own.      *)
(*                                                                         *)
(* An event has at most one file, so a file is named by its event.         *)
(***************************************************************************)
EXTENDS Integers, Sequences, FiniteSets

CONSTANTS Events,               \* everything the application may report
          MaxPersistedEvents,   \* configuration.maxPersistedEvents
          MaxReporters,         \* bound: threads in uploadEvent or storeEvent at once
          MaxScanCalls,         \* bound: threads in uploadStoredEvents at once
          MaxDeaths             \* bound: how often the process ends

ASSUME EventsAssumption == IsFiniteSet(Events)
ASSUME MaxPersistedAssumption == MaxPersistedEvents \in Nat \ {0}
ASSUME MaxReportersAssumption == MaxReporters \in Nat
ASSUME MaxScanCallsAssumption == MaxScanCalls \in Nat \ {0}
ASSUME MaxDeathsAssumption == MaxDeaths \in Nat

VARIABLES
    disk,      \* events with a .json file in eventsDirectory or kscrashReportsDirectory
    clock,     \* the time, in files created so far
    born,      \* NSFileCreationDate of each event's file, 0 if it never had one
    corrupt,   \* files that do not hold an event (a report cut short by the crash)
    calls,     \* uploadEvent and storeEventPayload: how far the call for each event has got
    storeList, \* local variable sortedEventFiles of storeEventPayload
    uploadQ,   \* uploadQueue.operations, the executing one first
    scanCalls, \* threads in uploadStoredEvents that have found the count low enough
    scanOps,   \* scanQueue.operationCount
    scanPc,    \* how far the executing scan has got
    scanList,  \* its local variables sortedFiles, then operations
    mainPc,    \* -[BugsnagClient start] from sendLaunchCrashSynchronously on,
               \* "off" when there is no process
    latest,    \* local variable latestFile of uploadLatestStoredEvent ({} is nil)
    hasURL,    \* whether configuration.notifyURL is not nil in this run of the process
    deaths,    \* how often the process has ended
    acks,      \* how often the server has confirmed each event (counted up to 2) since
               \* the removal of its file last failed or was cut short
    fate       \* what has become of each event

files   == <<disk, clock, born, corrupt>>
store   == <<calls, storeList>>
scan    == <<scanCalls, scanOps, scanPc, scanList>>
process == <<mainPc, latest, hasURL, deaths>>
history == <<acks, fate>>
vars    == <<files, store, uploadQ, scan, process, history>>

-----------------------------------------------------------------------------

\* "new" until the application reports the event, "held" while the library has
\* it, "delivered" to the server and let go, "discarded" by a decision of the
\* client or of the server, "evicted" to make room on disk, "lost" without ever
\* being on disk.
Fates == {"new", "held", "delivered", "discarded", "evicted", "lost"}

\* A BSGEventUploadObjectOperation or BSGEventUploadFileOperation.
Operation == [kind  : {"object", "file"},
              event : Events,
              state : {"ready", "sent", "storing", "delivered", "discarded"}]

TypeOK ==
    /\ disk \subseteq Events
    /\ clock \in Nat
    /\ born \in [Events -> Nat]
    /\ corrupt \subseteq Events
    /\ calls \in [Events -> {"idle", "add", "list", "trim"}]
    /\ storeList \in [Events -> SUBSET Events]
    /\ uploadQ \in Seq(Operation)
    /\ scanCalls \in 0 .. MaxScanCalls
    /\ scanOps \in 0 .. MaxScanCalls + 1
    /\ scanPc \in {"idle", "trim", "add"}
    /\ scanList \subseteq Events
    /\ mainPc \in {"off", "latest", "add", "wait", "scan", "run"}
    /\ latest \subseteq Events
    /\ hasURL \in {"yes", "no"}
    /\ deaths \in 0 .. MaxDeaths
    /\ acks \in [Events -> 0 .. 2]
    /\ fate \in [Events -> Fates]

Running == mainPc # "off"

Init ==
    /\ disk = {} /\ clock = 0 /\ born = [e \in Events |-> 0] /\ corrupt = {}
    /\ calls = [e \in Events |-> "idle"]
    /\ storeList = [e \in Events |-> {}]
    /\ uploadQ = <<>>
    /\ scanCalls = 0 /\ scanOps = 0 /\ scanPc = "idle" /\ scanList = {}
    /\ mainPc = "off" /\ latest = {}
    /\ hasURL = "no" /\ deaths = 0
    /\ acks = [e \in Events |-> 0]
    /\ fate = [e \in Events |-> "new"]

-----------------------------------------------------------------------------
(***************************************************************************)
(* Files                                                                   *)
(***************************************************************************)

\* Mutant: the comparator of sortedEventFiles the wrong way round.
MutIsOldest(e, S) == e \in S /\ \A f \in S : born[f] <= born[e]

IsOldest(e, S) == e \in S /\ \A f \in S : born[e] <= born[f]
IsNewest(e, S) == e \in S /\ \A f \in S : born[f] <= born[e]

\* The file of e appears, complete: data are written to a file of another
\* name, which is then renamed.
WriteFile(e) == /\ disk' = disk \cup {e}
                /\ clock' = clock + 1
                /\ born' = [born EXCEPT ![e] = clock']

RemoveFiles(F) == /\ disk' = disk \ F
                  /\ corrupt' = corrupt \ F

\* e meets its fate, unless it has already met one.
Meets(e, f) == [fate EXCEPT ![e] = IF fate[e] = "held" THEN f ELSE fate[e]]

\* One turn of the loop of deleteExcessFiles.  The file may have gone since
\* the directory was listed, or its removal fails, which is logged and otherwise
\* ignored.
DeleteExcess(f) ==
    \/ /\ RemoveFiles({f})
       /\ fate' = IF f \in disk THEN Meets(f, "evicted") ELSE fate
    \/ UNCHANGED <<disk, corrupt, fate>>

-----------------------------------------------------------------------------
(***************************************************************************)
(* Events are handed over                                                  *)
(***************************************************************************)

NewOperation(kind, e) ==
    [kind |-> kind, event |-> e, state |-> "ready"]

\* Events whose uploadEvent or storeEvent has not returned.
Reporting == {e \in Events : calls[e] # "idle" /\ \A i \in 1 .. Len(uploadQ) :
                                uploadQ[i].state = "storing" => uploadQ[i].event # e}

\* uploadEvent:completionHandler:, for handled errors and eventFromLastLaunch,
\* compares the count of operations with the limit ...
UploadEvent(e) ==
    /\ Running
    /\ Cardinality(Reporting) < MaxReporters
    /\ fate[e] = "new"
    /\ \/ /\ Len(uploadQ) >= MaxPersistedEvents
          /\ fate' = [fate EXCEPT ![e] = "lost"]
          /\ UNCHANGED calls
       \/ /\ Len(uploadQ) < MaxPersistedEvents
          /\ fate' = [fate EXCEPT ![e] = "held"]
          /\ calls' = [calls EXCEPT ![e] = "add"]
    /\ UNCHANGED <<files, storeList, uploadQ, scan, process, acks>>

\* ... and adds one.
UploadAdd(e) ==
    /\ calls[e] = "add"
    /\ calls' = [calls EXCEPT ![e] = "idle"]
    /\ uploadQ' = Append(uploadQ, NewOperation("object", e))
    /\ UNCHANGED <<files, storeList, scan, process, history>>

\* storeEvent:, for unhandled errors: the first half of storeEventPayload
StoreEvent(e) ==
    /\ Running
    /\ Cardinality(Reporting) < MaxReporters
    /\ fate[e] = "new"
    /\ \/ /\ WriteFile(e)
          /\ fate' = [fate EXCEPT ![e] = "held"]
          /\ calls' = [calls EXCEPT ![e] = "list"]
       \/ /\ fate' = [fate EXCEPT ![e] = "lost"]
          /\ UNCHANGED <<disk, clock, born, calls>>
    /\ UNCHANGED <<corrupt, storeList, uploadQ, scan, process, acks>>

\* storeEventPayload returns, to the application or to the completion handler
\* of the operation that called it, which then finishes.
StoreReturns(e) ==
    /\ calls' = [calls EXCEPT ![e] = "idle"]
    /\ storeList' = [storeList EXCEPT ![e] = {}]
    /\ uploadQ' = IF /\ uploadQ # <<>>
                     /\ Head(uploadQ).event = e
                     /\ Head(uploadQ).state = "storing"
                  THEN Tail(uploadQ) ELSE uploadQ

\* The second half: [self deleteExcessFiles:[self sortedEventFiles]]
StoreList(e) ==
    /\ calls[e] = "list"
    /\ \/ /\ Cardinality(disk) <= MaxPersistedEvents
          /\ StoreReturns(e)
       \/ /\ Cardinality(disk) > MaxPersistedEvents
          /\ calls' = [calls EXCEPT ![e] = "trim"]
          /\ storeList' = [storeList EXCEPT ![e] = disk]
          /\ UNCHANGED uploadQ
    /\ UNCHANGED <<files, scan, process, history>>

StoreTrim(e) ==
    /\ calls[e] = "trim"
    /\ \E f \in storeList[e] :
          /\ IsOldest(f, storeList[e])
          /\ DeleteExcess(f)
          /\ IF Cardinality(storeList[e]) > MaxPersistedEvents + 1
             THEN /\ storeList' = [storeList EXCEPT ![e] = @ \ {f}]
                  /\ UNCHANGED <<calls, uploadQ>>
             ELSE StoreReturns(e)
    /\ UNCHANGED <<clock, born, scan, process, acks>>

-----------------------------------------------------------------------------
(***************************************************************************)
(* The scan queue                                                          *)
(***************************************************************************)

FilesBeingUploaded ==
    {uploadQ[i].event : i \in {j \in 1 .. Len(uploadQ) : uploadQ[j].kind = "file"}}

\* Mutant: if (self.scanQueue.operationCount > 0) return.
MutRequestScan ==
    /\ scanCalls < MaxScanCalls
    /\ scanCalls' = IF scanOps > 0 THEN scanCalls ELSE scanCalls + 1
    /\ UNCHANGED <<scanOps, scanPc, scanList>>

\* Mutant: no limit to the scans that wait.
MutRequestScanAlways ==
    /\ scanCalls < MaxScanCalls
    /\ scanCalls' = scanCalls + 1
    /\ UNCHANGED <<scanOps, scanPc, scanList>>

\* uploadStoredEvents returns if a scan waits behind the one that executes.
\* Otherwise it goes on to add a scan, but other threads may do so first.
RequestScan ==
    /\ scanCalls < MaxScanCalls
    /\ scanCalls' = IF scanOps > 1 THEN scanCalls ELSE scanCalls + 1
    /\ UNCHANGED <<scanOps, scanPc, scanList>>

\* Connectivity has returned, or a second has passed since an unhandled error.
UploadStoredEvents ==
    /\ Running
    /\ RequestScan
    /\ UNCHANGED <<files, store, uploadQ, process, history>>

\* [self.scanQueue addOperationWithBlock:]
AddScan ==
    /\ scanCalls > 0
    /\ scanCalls' = scanCalls - 1
    /\ scanOps' = scanOps + 1
    /\ UNCHANGED <<files, store, uploadQ, scanPc, scanList, process, history>>

ScanList ==
    /\ scanPc = "idle"
    /\ scanOps > 0
    /\ scanPc' = "trim"
    /\ scanList' = disk
    /\ UNCHANGED <<files, store, uploadQ, scanCalls, scanOps, process, history>>

ScanTrim ==
    /\ scanPc = "trim"
    /\ Cardinality(scanList) > MaxPersistedEvents
    /\ \E f \in scanList : /\ IsOldest(f, scanList)
                           /\ DeleteExcess(f)
                           /\ scanList' = scanList \ {f}
    /\ UNCHANGED <<clock, born, store, uploadQ, scanCalls, scanOps, scanPc, process, acks>>

\* The scan goes on with the files F, or ends if there are none.
ScanGoesOn(F) ==
    /\ scanList' = F
    /\ scanPc' = IF F = {} THEN "idle" ELSE "add"
    /\ scanOps' = IF F = {} THEN scanOps - 1 ELSE scanOps
    /\ UNCHANGED scanCalls

\* uploadOperationsWithFiles:
ScanCheck ==
    /\ scanPc = "trim"
    /\ Cardinality(scanList) <= MaxPersistedEvents
    /\ ScanGoesOn(scanList \ FilesBeingUploaded)
    /\ UNCHANGED <<files, store, uploadQ, process, history>>

\* addOperations:waitUntilFinished:, oldest file first
ScanAdd ==
    /\ scanPc = "add"
    /\ \E e \in scanList : /\ IsOldest(e, scanList)
                           /\ uploadQ' = Append(uploadQ, NewOperation("file", e))
                           /\ ScanGoesOn(scanList \ {e})
    /\ UNCHANGED <<files, store, process, history>>

-----------------------------------------------------------------------------
(***************************************************************************)
(* The main thread at launch: sendLaunchCrashSynchronously (in the branch  *)
(* that calls uploadLatestStoredEvent), then uploadStoredEvents.           *)
(***************************************************************************)

\* The client starts.  Whether a crash during launch has to be sent first
\* depends on the previous run and the configuration.
Launch ==
    /\ ~Running
    /\ mainPc' \in {"latest", "scan"}
    /\ hasURL' \in {"yes", "no"}
    /\ UNCHANGED <<files, store, uploadQ, scan, latest, deaths, history>>

\* The latest file, unless there is none or it is being uploaded
LatestFind ==
    /\ mainPc = "latest"
    /\ latest' = {e \in disk : IsNewest(e, disk)} \ FilesBeingUploaded
    /\ mainPc' = IF latest' = {} THEN "scan" ELSE "add"
    /\ UNCHANGED <<files, store, uploadQ, scan, hasURL, deaths, history>>

LatestAdd ==
    /\ mainPc = "add"
    /\ mainPc' = "wait"
    /\ \E e \in latest : uploadQ' = Append(uploadQ, NewOperation("file", e))
    /\ latest' = {}
    /\ UNCHANGED <<files, store, scan, hasURL, deaths, history>>

\* The operation signals the semaphore, or two seconds pass: either can be
\* the case at any time.
LatestWaitEnds ==
    /\ mainPc = "wait"
    /\ mainPc' = "scan"
    /\ UNCHANGED <<files, store, uploadQ, scan, latest, hasURL, deaths, history>>

StartScan ==
    /\ mainPc = "scan"
    /\ mainPc' = "run"
    /\ RequestScan
    /\ UNCHANGED <<files, store, uploadQ, latest, hasURL, deaths, history>>

-----------------------------------------------------------------------------
(***************************************************************************)
(* The upload queue: the executing operation                               *)
(***************************************************************************)

Executing(state) == uploadQ # <<>> /\ Head(uploadQ).state = state
Event   == Head(uploadQ).event
IsFile  == Head(uploadQ).kind = "file"
Loads   == IsFile => Event \in disk \ corrupt

\* Mutant: a file operation inherits the empty deleteEvent.
MutDeleteEvent(verdict) ==
    /\ uploadQ' = Tail(uploadQ)
    /\ fate' = IF IsFile THEN fate ELSE Meets(Event, verdict)

\* deleteEvent: an operation for a file goes on to remove it, with Removed or
\* NotRemoved; one whose event is not in a file has nothing to do and is over.
DeleteEvent(verdict) ==
    \/ /\ IsFile
       /\ uploadQ' = [uploadQ EXCEPT ![1].state = verdict]
       /\ UNCHANGED fate
    \/ /\ ~IsFile
       /\ uploadQ' = Tail(uploadQ)
       /\ fate' = Meets(Event, verdict)

\* Mutant: an early return that does not call the completion handler.
MutLoadMissing ==
    /\ Executing("ready") /\ IsFile /\ Event \notin disk
    /\ UNCHANGED vars

\* runWithDelegate: ends before anything is sent.
LoadMissing ==
    /\ Executing("ready") /\ IsFile /\ Event \notin disk
    /\ uploadQ' = Tail(uploadQ)
    /\ UNCHANGED <<files, store, scan, process, history>>

LoadUnreadable ==
    /\ Executing("ready") /\ IsFile /\ Event \in disk \cap corrupt
    /\ DeleteEvent("discarded")
    /\ UNCHANGED <<files, store, scan, process, acks>>

\* Release stage, discarded class, an onSend block that says no, or an event
\* that cannot be converted.
Discard ==
    /\ Executing("ready") /\ Loads
    /\ DeleteEvent("discarded")
    /\ UNCHANGED <<files, store, scan, process, acks>>

\* Mutant: deletes the event when there is no URL, as the other early returns do.
MutNoURL ==
    /\ Executing("ready") /\ Loads /\ hasURL = "no"
    /\ uploadQ' = Tail(uploadQ)
    /\ RemoveFiles(IF IsFile THEN {Event} ELSE {})
    /\ fate' = IF IsFile THEN fate ELSE Meets(Event, "lost")
    /\ UNCHANGED <<clock, born, store, scan, process, acks>>

NoURL ==
    /\ Executing("ready") /\ Loads /\ hasURL = "no"
    /\ uploadQ' = Tail(uploadQ)
    /\ fate' = IF IsFile THEN fate ELSE Meets(Event, "lost")
    /\ UNCHANGED <<files, store, scan, process, acks>>

Send ==
    /\ Executing("ready") /\ Loads /\ hasURL = "yes"
    /\ uploadQ' = [uploadQ EXCEPT ![1].state = "sent"]
    /\ UNCHANGED <<files, store, scan, process, history>>

\* BugsnagApiClientDeliveryStatusDelivered
Delivered ==
    /\ Executing("sent")
    /\ DeleteEvent("delivered")
    /\ acks' = [acks EXCEPT ![Event] = IF @ < 2 THEN @ + 1 ELSE @]
    /\ UNCHANGED <<files, store, scan, process>>

\* BugsnagApiClientDeliveryStatusUndeliverable
Undeliverable ==
    /\ Executing("sent")
    /\ DeleteEvent("discarded")
    /\ UNCHANGED <<files, store, scan, process, acks>>

Removing == Executing("delivered") \/ Executing("discarded")

\* removeItemAtPath:error: in deleteEvent.
Removed ==
    /\ Removing /\ Event \in disk
    /\ uploadQ' = Tail(uploadQ)
    /\ RemoveFiles({Event})
    /\ fate' = Meets(Event, Head(uploadQ).state)
    /\ UNCHANGED <<clock, born, store, scan, process, acks>>

\* It fails, because the file has gone or for another reason: this is logged,
\* and the operation is over all the same.
NotRemoved ==
    /\ Removing
    /\ uploadQ' = Tail(uploadQ)
    /\ acks' = IF Event \in disk THEN [acks EXCEPT ![Event] = 0] ELSE acks
    /\ UNCHANGED <<files, store, scan, process, fate>>

\* BugsnagApiClientDeliveryStatusFailed: a file stays where it is, an event
\* that is not in a file is stored for retry.
FailedFile ==
    /\ Executing("sent") /\ IsFile
    /\ uploadQ' = Tail(uploadQ)
    /\ UNCHANGED <<files, store, scan, process, history>>

\* Mutant: shouldStoreEventPayloadForRetry is not overridden.
MutFailedObject ==
    /\ Executing("sent") /\ ~IsFile
    /\ uploadQ' = Tail(uploadQ)
    /\ UNCHANGED <<files, store, scan, process, history>>

FailedObject ==
    /\ Executing("sent") /\ ~IsFile
    /\ \/ /\ WriteFile(Event)
          /\ calls' = [calls EXCEPT ![Event] = "list"]
          /\ uploadQ' = [uploadQ EXCEPT ![1].state = "storing"]
          /\ UNCHANGED fate
       \/ /\ uploadQ' = Tail(uploadQ)
          /\ fate' = Meets(Event, "lost")
          /\ UNCHANGED <<disk, clock, born, calls>>
    /\ UNCHANGED <<corrupt, storeList, scan, process, acks>>

-----------------------------------------------------------------------------
(***************************************************************************)
(* The process ends.  R is the set of crash reports it leaves, none or     *)
(* one, which may be cut short.                                            *)
(***************************************************************************)

\* The server has confirmed the event of a file that has not been removed yet.
Unremoved(e) == Executing("delivered") /\ Event = e /\ e \in disk

Die(R) ==
    /\ Running /\ deaths < MaxDeaths
    /\ \A r \in R : fate[r] = "new"
    /\ deaths' = deaths + 1
    /\ \/ R = {} /\ UNCHANGED files
       \/ \E r \in R : /\ WriteFile(r)
                       /\ corrupt' \in {corrupt, corrupt \cup {r}}
    /\ fate' = [e \in Events |->
                  IF e \in R THEN "held"
                  ELSE IF fate[e] = "held" /\ e \notin disk THEN "lost"
                  ELSE fate[e]]
    /\ calls' = [e \in Events |-> "idle"]
    /\ storeList' = [e \in Events |-> {}]
    /\ uploadQ' = <<>>
    /\ scanCalls' = 0 /\ scanOps' = 0 /\ scanPc' = "idle" /\ scanList' = {}
    /\ mainPc' = "off" /\ latest' = {}
    /\ acks' = [e \in Events |-> IF Unremoved(e) THEN 0 ELSE acks[e]]
    /\ UNCHANGED hasURL

-----------------------------------------------------------------------------

Store == \E e \in Events : UploadAdd(e) \/ StoreList(e) \/ StoreTrim(e)

Scan == ScanList \/ ScanTrim \/ ScanCheck \/ ScanAdd

Start == LatestFind \/ LatestAdd \/ LatestWaitEnds \/ StartScan

\* The client's side of an upload, and the server's or the network's.
Run == LoadMissing \/ LoadUnreadable \/ Discard \/ NoURL \/ Send \/ Removed \/ NotRemoved
Answer == Delivered \/ Undeliverable \/ FailedFile \/ FailedObject

Next ==
    \/ \E e \in Events : UploadEvent(e) \/ StoreEvent(e)
    \/ Store
    \/ UploadStoredEvents \/ AddScan \/ Scan
    \/ Launch \/ Start
    \/ Run \/ Answer
    \/ Die({}) \/ \E r \in Events : Die({r})

\* The queues and threads of a live process make progress, and every request
\* ends: NSURLSession calls the completion handler, if only with a timeout.
Fairness == /\ WF_vars(Store) /\ WF_vars(AddScan) /\ WF_vars(Scan)
            /\ WF_vars(Start) /\ WF_vars(Run) /\ WF_vars(Answer)

Spec == Init /\ [][Next]_vars

-----------------------------------------------------------------------------
(***************************************************************************)
(* Properties                                                              *)
(***************************************************************************)

InObjectOperation(e) ==
    \E i \in 1 .. Len(uploadQ) : /\ uploadQ[i].kind = "object"
                                 /\ uploadQ[i].event = e
                                 /\ uploadQ[i].state # "storing"

\* An event the library has taken is in exactly the custody its fate says:
\* as long as nothing has become of it, it is in a file, in an operation that
\* will store it if sending fails, or on its way into one, and once something
\* has, it is in none of them.  Nothing is forgotten and nothing comes back, in
\* whatever order scans, uploads, evictions, failing removals and the process's
\* end fall.
Custody ==
    \A e \in Events : (fate[e] = "held") <=>
        (e \in disk \/ InObjectOperation(e) \/ calls[e] = "add")

\* An event that the server has confirmed is sent again only if its file could
\* not be removed or the process ended before it was.  Nothing else makes it be
\* sent again: not a second operation for the file that a scan or the launch has
\* put in the queue, not a scan that listed the file before it was removed, not
\* a restart.
AcknowledgedOnce == \A e \in Events : acks[e] <= 1

\* deleteExcessFiles gives up an event only for at least maxPersistedEvents
\* events whose files are newer, however many threads run it at once.
EvictedForNewer ==
    \A e \in Events : fate[e] = "evicted" =>
        Cardinality({f \in Events : born[f] > born[e]}) >= MaxPersistedEvents

\* Where each event is, or what became of it.
Whereabouts == [e \in Events |-> IF fate[e] # "held" THEN fate[e]
                                 ELSE IF e \in disk THEN "disk" ELSE "memory"]

\* The abstract promise.
Promise == INSTANCE EventCustody WITH custody <- Whereabouts, stamp <- born

CustodySpec == Promise!Spec

\* The server can be reached again and again, triggers (the connection comes
\* back, the application is started) come again and again, files are not
\* impossible to remove for ever, and from some run on the configuration has a URL.
Online == /\ WF_vars(UploadStoredEvents) /\ WF_vars(Launch)
          /\ SF_vars(Delivered) /\ SF_vars(Removed)
          /\ <>[](hasURL = "yes")

\* Every file leaves the disk as long as the library is online.
EventuallySettled == Online => \A e \in Events : (e \in disk) ~> (e \notin disk)

=============================================================================
