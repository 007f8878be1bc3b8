---------------------------- MODULE EventRequests ----------------------------
(***************************************************************************)
(* EventUploader with a history variable that remembers for which files a  *)
(* scan has been asked for.  It changes nothing the uploader does.         *)
(***************************************************************************)
EXTENDS EventUploader

VARIABLE wanted    \* files that were there at a call of uploadStoredEvents, while no
                   \* scan has listed the directory since

\* Of files that have gone nothing is asked any more.
Quiet == \/ \E e \in Events : UploadEvent(e) \/ StoreEvent(e)
         \/ Store \/ AddScan \/ ScanTrim \/ ScanCheck \/ ScanAdd
         \/ Launch \/ LatestFind \/ LatestAdd \/ LatestWaitEnds
         \/ Run \/ Answer

RequestInit == Init /\ wanted = {}

RequestNext ==
    \/ Quiet /\ wanted' = wanted \cap disk'
    \/ (UploadStoredEvents \/ StartScan) /\ wanted' = wanted \cup disk
    \/ ScanList /\ wanted' = wanted \ scanList'
    \/ (Die({}) \/ \E r \in Events : Die({r})) /\ wanted' = {}

RequestSpec == /\ RequestInit /\ [][RequestNext]_<<vars, wanted>>
               /\ Fairness

\* After every call of uploadStoredEvents a scan lists the directory, and no
\* earlier than the call, so that it finds each file that was there at the call
\* and still is: also when the call schedules no scan because one executes and
\* another waits, and when that decision rests on a count that other threads
\* change.  (No trigger has to come again for that: only the queues and the
\* threads in the call have to make progress.)
NoRequestLost == \A e \in Events : (e \in wanted) ~> (e \notin wanted)

=============================================================================
