------------------------- MODULE EventUploaderProofs -------------------------
(***************************************************************************)
(* Proofs about EventUploader, for every set of events and every limit:    *)
(* types, the custody of events and their acknowledgement from one         *)
(* inductive invariant, and with more of it evictions and the              *)
(* implementation of EventCustody.                                         *)
(***************************************************************************)
EXTENDS EventUploader, TLAPS, FiniteSetTheorems

\* The upload queue holds operations at all times: adding one at the end,
\* taking the first away and changing the state of the first keep it so.
LEMMA QueueAppend ==
    ASSUME NEW q \in Seq(Operation), NEW op \in Operation
    PROVE  /\ Append(q, op) \in Seq(Operation)
           /\ Len(Append(q, op)) = Len(q) + 1
           /\ \A i \in 1 .. Len(q) : Append(q, op)[i] = q[i]
           /\ Append(q, op)[Len(q) + 1] = op
  OBVIOUS

\* What dequeueing an operation leaves.
LEMMA QueueTail ==
    ASSUME NEW q \in Seq(Operation), q # <<>>
    PROVE  /\ Tail(q) \in Seq(Operation)
           /\ Len(Tail(q)) = Len(q) - 1
           /\ \A i \in 1 .. Len(Tail(q)) : Tail(q)[i] = q[i + 1]
           /\ Head(q) = q[1]
           /\ Head(q) \in Operation
           /\ Len(q) \in Nat \ {0}
  OBVIOUS

\* What changing the state of the executing operation leaves.
LEMMA QueueState ==
    ASSUME NEW q \in Seq(Operation), q # <<>>, NEW s \in {"ready", "sent", "storing", "delivered", "discarded"},
           NEW r, r = [q EXCEPT ![1].state = s]
    PROVE  /\ r \in Seq(Operation)
           /\ Len(r) = Len(q)
           /\ \A i \in 2 .. Len(q) : r[i] = q[i]
           /\ r[1].kind = q[1].kind /\ r[1].event = q[1].event /\ r[1].state = s
  <1> DEFINE op == [q[1] EXCEPT !.state = s]
  <1>1. Len(q) \in Nat /\ 1 \in DOMAIN q /\ DOMAIN q = 1 .. Len(q)
    OBVIOUS
  <1>2. q[1] \in Operation
    BY <1>1
  <1>3. op \in Operation /\ op.kind = q[1].kind /\ op.event = q[1].event /\ op.state = s
    BY <1>2 DEF Operation
  <1>4. r = [q EXCEPT ![1] = op]
    BY <1>1
  <1>. HIDE DEF op
  <1>5. r \in Seq(Operation) /\ Len(r) = Len(q) /\ r[1] = op /\ \A i \in 2 .. Len(q) : r[i] = q[i]
    BY <1>1, <1>3, <1>4
  <1>. QED BY <1>3, <1>5

-----------------------------------------------------------------------------
(***************************************************************************)
(* Type correctness                                                        *)
(***************************************************************************)

\* A new operation has the type of an operation.
LEMMA NewOperationType ==
    ASSUME NEW k \in {"object", "file"}, NEW e \in Events
    PROVE  NewOperation(k, e) \in Operation
  BY DEF NewOperation, Operation

\* Meeting a fate keeps the type of the fates.
LEMMA MeetsType ==
    ASSUME TypeOK, NEW e \in Events, NEW f \in Fates
    PROVE  Meets(e, f) \in [Events -> Fates]
  BY DEF Meets, TypeOK

\* Writing a file keeps the types of files and dates.
LEMMA WriteFileType ==
    ASSUME TypeOK, NEW e \in Events, WriteFile(e)
    PROVE  disk' \subseteq Events /\ clock' \in Nat /\ born' \in [Events -> Nat]
  BY DEF WriteFile, TypeOK

\* The executing operation has the type of an operation.
LEMMA HeadType ==
    ASSUME TypeOK, NEW s, Executing(s)
    PROVE  /\ uploadQ # <<>>
           /\ uploadQ[1] = Head(uploadQ)
           /\ Head(uploadQ) \in Operation
           /\ Event \in Events
           /\ Tail(uploadQ) \in Seq(Operation)
  <1>1. uploadQ \in Seq(Operation) /\ uploadQ # <<>>
    BY DEF TypeOK, Executing
  <1>2. Head(uploadQ) \in Operation /\ Tail(uploadQ) \in Seq(Operation)
    BY <1>1, QueueTail
  <1>3. uploadQ[1] = Head(uploadQ)
    BY <1>1, QueueTail
  <1>. QED BY <1>1, <1>2, <1>3 DEF Event, Operation

\* Evicting a file keeps the types of files and fates.
LEMMA DeleteExcessType ==
    ASSUME TypeOK, NEW f \in Events, DeleteExcess(f)
    PROVE  disk' \subseteq Events /\ corrupt' \subseteq Events /\ fate' \in [Events -> Fates]
  BY MeetsType DEF DeleteExcess, RemoveFiles, TypeOK, Fates

\* What a thread that has stored an event does next has its type.
LEMMA StoreReturnsType ==
    ASSUME TypeOK, NEW e \in Events, StoreReturns(e)
    PROVE  /\ calls' \in [Events -> {"idle", "add", "list", "trim"}]
           /\ storeList' \in [Events -> SUBSET Events]
           /\ uploadQ' \in Seq(Operation)
  BY QueueTail DEF StoreReturns, TypeOK

\* A scan that is under way is counted in scanOps.  A thread that has found one
\* scan at most makes it two at most, and so does each of the others that were
\* there with it.
ScanCounted == /\ scanPc # "idle" => scanOps > 0
               /\ scanCalls + scanOps <= MaxScanCalls + 1

\* What deleteEvent leaves has its type.
LEMMA DeleteEventType ==
    ASSUME TypeOK, NEW s, Executing(s), NEW v \in {"delivered", "discarded"}, DeleteEvent(v)
    PROVE  uploadQ' \in Seq(Operation) /\ fate' \in [Events -> Fates]
  <1>1. /\ uploadQ \in Seq(Operation) /\ uploadQ # <<>> /\ Event \in Events
        /\ Tail(uploadQ) \in Seq(Operation)
    BY HeadType DEF TypeOK
  <1>2. Meets(Event, v) \in [Events -> Fates]
    BY <1>1, MeetsType DEF Fates
  <1>3. CASE IsFile /\ uploadQ' = [uploadQ EXCEPT ![1].state = v] /\ UNCHANGED fate
    <2>1. uploadQ' \in Seq(Operation)
      BY <1>1, <1>3, QueueState
    <2>. QED BY <1>3, <2>1 DEF TypeOK
  <1>4. CASE uploadQ' = Tail(uploadQ) /\ fate' = Meets(Event, v)
    BY <1>1, <1>2, <1>4
  <1>. QED BY <1>3, <1>4 DEF DeleteEvent

\* The variables keep their types in every step.
LEMMA TypeStep ==
    ASSUME TypeOK, ScanCounted, [Next]_vars
    PROVE  TypeOK'
  <1>. USE DEF vars, files, store, scan, process, history
  <1>1. ASSUME NEW e \in Events, UploadEvent(e) \/ UploadAdd(e) PROVE TypeOK'
    <2>1. CASE UploadAdd(e)
      <3>1. NewOperation("object", e) \in Operation /\ uploadQ \in Seq(Operation)
        BY NewOperationType DEF TypeOK
      <3>2. uploadQ' \in Seq(Operation)
        BY <2>1, <3>1, QueueAppend DEF UploadAdd
      <3>. QED BY <2>1, <3>2 DEF UploadAdd, TypeOK
    <2>2. CASE UploadEvent(e)
      <3>1. fate' \in [Events -> Fates]
        BY <2>2 DEF UploadEvent, TypeOK, Fates
      <3>2. calls' \in [Events -> {"idle", "add", "list", "trim"}]
        BY <2>2 DEF UploadEvent, TypeOK
      <3>. QED BY <2>2, <3>1, <3>2 DEF UploadEvent, TypeOK
    <2>. QED BY <1>1, <2>1, <2>2
  <1>2. ASSUME NEW e \in Events, StoreEvent(e) PROVE TypeOK'
    <2>1. disk' \subseteq Events /\ clock' \in Nat /\ born' \in [Events -> Nat]
      BY <1>2, WriteFileType DEF StoreEvent, TypeOK
    <2>2. fate' \in [Events -> Fates] /\ calls' \in [Events -> {"idle", "add", "list", "trim"}]
      <3>1. /\ fate' \in {[fate EXCEPT ![e] = "held"], [fate EXCEPT ![e] = "lost"]}
            /\ calls' \in {[calls EXCEPT ![e] = "list"], calls}
        BY <1>2 DEF StoreEvent
      <3>2. fate \in [Events -> Fates] /\ calls \in [Events -> {"idle", "add", "list", "trim"}]
            /\ "held" \in Fates /\ "lost" \in Fates
        BY DEF TypeOK, Fates
      <3>. QED BY <3>1, <3>2
    <2>. QED BY <1>2, <2>1, <2>2 DEF StoreEvent, TypeOK
  <1>3. ASSUME NEW e \in Events, StoreList(e) PROVE TypeOK'
    <2>1. CASE StoreReturns(e)
      <3>1. /\ calls' \in [Events -> {"idle", "add", "list", "trim"}]
            /\ storeList' \in [Events -> SUBSET Events]
            /\ uploadQ' \in Seq(Operation)
        BY <2>1, StoreReturnsType
      <3>. QED BY <1>3, <3>1 DEF StoreList, TypeOK
    <2>2. CASE ~StoreReturns(e)
      BY <1>3, <2>2 DEF StoreList, TypeOK
    <2>. QED BY <2>1, <2>2
  <1>4. ASSUME NEW e \in Events, StoreTrim(e) PROVE TypeOK'
    <2>1. PICK f \in storeList[e] : StoreTrim(e)!2!(f)
      BY <1>4 DEF StoreTrim
    <2>2. f \in Events
      BY <2>1 DEF TypeOK
    <2>3. disk' \subseteq Events /\ corrupt' \subseteq Events /\ fate' \in [Events -> Fates]
      BY <2>1, <2>2, DeleteExcessType
    <2>4. /\ calls' \in [Events -> {"idle", "add", "list", "trim"}]
          /\ storeList' \in [Events -> SUBSET Events]
          /\ uploadQ' \in Seq(Operation)
      <3>1. CASE StoreReturns(e)
        BY <3>1, StoreReturnsType
      <3>2. CASE storeList' = [storeList EXCEPT ![e] = @ \ {f}] /\ UNCHANGED <<calls, uploadQ>>
        <4>1. storeList \in [Events -> SUBSET Events]
          BY DEF TypeOK
        <4>2. storeList' \in [Events -> SUBSET Events]
          BY <3>2, <4>1
        <4>. QED BY <3>2, <4>2 DEF TypeOK
      <3>. QED BY <2>1, <3>1, <3>2
    <2>. QED BY <1>4, <2>3, <2>4 DEF StoreTrim, TypeOK
  <1>5. ASSUME UploadStoredEvents \/ StartScan \/ AddScan PROVE TypeOK'
    BY <1>5, MaxScanCallsAssumption
       DEF UploadStoredEvents, StartScan, RequestScan, AddScan, ScanCounted, TypeOK
  <1>6. ASSUME ScanList PROVE TypeOK'
    BY <1>6 DEF ScanList, TypeOK
  <1>7. ASSUME ScanTrim PROVE TypeOK'
    BY <1>7, DeleteExcessType DEF ScanTrim, TypeOK
  <1>8. ASSUME ScanCheck PROVE TypeOK'
    BY <1>8, MaxScanCallsAssumption DEF ScanCheck, ScanGoesOn, ScanCounted, TypeOK
  <1>9. ASSUME ScanAdd PROVE TypeOK'
    <2>1. PICK e \in scanList : ScanAdd!2!(e)
      BY <1>9 DEF ScanAdd
    <2>2. uploadQ' \in Seq(Operation)
      BY <2>1, QueueAppend, NewOperationType DEF TypeOK
    <2>. QED BY <1>9, <2>1, <2>2, MaxScanCallsAssumption DEF ScanAdd, ScanGoesOn, ScanCounted, TypeOK
  <1>10. ASSUME Launch \/ LatestFind \/ LatestWaitEnds PROVE TypeOK'
    BY <1>10 DEF Launch, LatestFind, LatestWaitEnds, TypeOK
  <1>11. ASSUME LatestAdd PROVE TypeOK'
    BY <1>11, QueueAppend, NewOperationType DEF LatestAdd, TypeOK
  <1>12. ASSUME Run PROVE TypeOK'
    <2>1. PICK s : Executing(s)
      BY <1>12 DEF Run, LoadMissing, LoadUnreadable, Discard, NoURL, Send, Removed, NotRemoved, Removing
    <2>2. Event \in Events /\ Tail(uploadQ) \in Seq(Operation) /\ uploadQ # <<>> /\ Head(uploadQ) \in Operation
      BY <2>1, HeadType
    <2>3. Meets(Event, "delivered") \in [Events -> Fates] /\ Meets(Event, "discarded") \in [Events -> Fates]
          /\ Meets(Event, "lost") \in [Events -> Fates]
      BY <2>2, MeetsType DEF Fates
    <2>4. CASE Send
      BY <2>2, <2>4, QueueState DEF Send, TypeOK
    <2>5. CASE LoadUnreadable \/ Discard
      <3>1. uploadQ' \in Seq(Operation) /\ fate' \in [Events -> Fates]
        BY <2>1, <2>5, DeleteEventType DEF LoadUnreadable, Discard
      <3>. QED BY <2>5, <3>1 DEF LoadUnreadable, Discard, TypeOK
    <2>6. CASE Removed
      <3>1. Head(uploadQ).state \in {"delivered", "discarded"}
        BY <2>6 DEF Removed, Removing, Executing
      <3>2. fate' \in [Events -> Fates]
        BY <2>3, <2>6, <3>1 DEF Removed
      <3>. QED BY <2>2, <2>6, <3>2 DEF Removed, RemoveFiles, TypeOK
    <2>7. CASE NotRemoved
      <3>1. acks' \in [Events -> 0 .. 2]
        BY <2>7 DEF NotRemoved, TypeOK
      <3>. QED BY <2>2, <2>7, <3>1 DEF NotRemoved, TypeOK
    <2>8. CASE LoadMissing \/ NoURL
      BY <2>2, <2>3, <2>8 DEF LoadMissing, NoURL, TypeOK
    <2>. QED BY <1>12, <2>4, <2>5, <2>6, <2>7, <2>8 DEF Run
  <1>13. ASSUME Answer PROVE TypeOK'
    <2>1. Executing("sent")
      BY <1>13 DEF Answer, Delivered, Undeliverable, FailedFile, FailedObject
    <2>2. Event \in Events /\ Tail(uploadQ) \in Seq(Operation) /\ uploadQ # <<>>
      BY <2>1, HeadType
    <2>3. Meets(Event, "lost") \in [Events -> Fates]
      BY <2>2, MeetsType DEF Fates
    <2>4. CASE FailedObject
      <3>1. uploadQ' \in Seq(Operation)
        <4>1. uploadQ \in Seq(Operation)
          BY DEF TypeOK
        <4>2. uploadQ' = [uploadQ EXCEPT ![1].state = "storing"] \/ uploadQ' = Tail(uploadQ)
          BY <2>4 DEF FailedObject
        <4>. QED BY <2>2, <4>1, <4>2, QueueState
      <3>2. disk' \subseteq Events /\ clock' \in Nat /\ born' \in [Events -> Nat]
        BY <2>2, <2>4, WriteFileType DEF FailedObject, TypeOK
      <3>. QED BY <2>2, <2>3, <2>4, <3>1, <3>2 DEF FailedObject, TypeOK
    <2>5. CASE Delivered \/ Undeliverable
      <3>1. uploadQ' \in Seq(Operation) /\ fate' \in [Events -> Fates]
        BY <2>1, <2>5, DeleteEventType DEF Delivered, Undeliverable
      <3>2. acks' \in [Events -> 0 .. 2]
        BY <2>2, <2>5 DEF Delivered, Undeliverable, TypeOK
      <3>. QED BY <2>5, <3>1, <3>2 DEF Delivered, Undeliverable, TypeOK
    <2>6. CASE FailedFile
      BY <2>2, <2>6 DEF FailedFile, TypeOK
    <2>. QED BY <1>13, <2>4, <2>5, <2>6 DEF Answer
  <1>14. ASSUME NEW R \in SUBSET Events, Die(R) PROVE TypeOK'
    <2>1. disk' \subseteq Events /\ clock' \in Nat /\ born' \in [Events -> Nat] /\ corrupt' \subseteq Events
      <3>1. CASE R = {}
        BY <1>14, <3>1 DEF Die, TypeOK
      <3>2. ASSUME NEW r \in R, WriteFile(r), corrupt' \in {corrupt, corrupt \cup {r}}
            PROVE  disk' \subseteq Events /\ clock' \in Nat /\ born' \in [Events -> Nat] /\ corrupt' \subseteq Events
        BY <3>2, WriteFileType DEF TypeOK
      <3>. QED BY <1>14, <3>1, <3>2 DEF Die
    <2>2. fate' \in [Events -> Fates]
      BY <1>14 DEF Die, TypeOK, Fates
    <2>3. uploadQ' \in Seq(Operation)
      BY <1>14 DEF Die
    <2>4. acks' \in [Events -> 0 .. 2]
      BY <1>14 DEF Die, TypeOK
    <2>. QED BY <1>14, <2>1, <2>2, <2>3, <2>4, MaxDeathsAssumption, MaxScanCallsAssumption DEF Die, TypeOK
  <1>15. ASSUME UNCHANGED vars PROVE TypeOK'
    BY <1>15 DEF TypeOK
  <1>. QED BY <1>1, <1>2, <1>3, <1>4, <1>5, <1>6, <1>7, <1>8, <1>9, <1>10, <1>11, <1>12, <1>13, <1>14, <1>15
           DEF Next, Store, Scan, Start

\* A scan of the file names stays counted until it is over.
LEMMA ScanCountedStep ==
    ASSUME TypeOK, ScanCounted, [Next]_vars
    PROVE  ScanCounted'
  <1>. USE DEF vars, files, store, scan, process, history, ScanCounted
  <1>1. ASSUME UploadStoredEvents \/ StartScan \/ AddScan PROVE ScanCounted'
    BY <1>1, MaxScanCallsAssumption DEF UploadStoredEvents, StartScan, RequestScan, AddScan, TypeOK
  <1>2. ASSUME Scan PROVE ScanCounted'
    BY <1>2, MaxScanCallsAssumption DEF Scan, ScanList, ScanTrim, ScanCheck, ScanAdd, ScanGoesOn, TypeOK
  <1>3. ASSUME NEW R \in SUBSET Events, Die(R) PROVE ScanCounted'
    BY <1>3, MaxScanCallsAssumption DEF Die
  <1>4. ASSUME UNCHANGED scan PROVE ScanCounted'
    BY <1>4
  <1>. QED BY <1>1, <1>2, <1>3, <1>4
           DEF Next, UploadEvent, UploadAdd, StoreEvent, Store, StoreList, StoreTrim, Launch, Start,
               LatestFind, LatestAdd, LatestWaitEnds, Run, LoadMissing, LoadUnreadable,
               Discard, NoURL, Send, Removed, NotRemoved, Answer, Delivered, Undeliverable,
               FailedFile, FailedObject

\* Type correctness: the initial state.
LEMMA TypeInit == Init => TypeOK /\ ScanCounted
  <1>. SUFFICES ASSUME Init PROVE TypeOK /\ ScanCounted
    OBVIOUS
  <1>1. uploadQ \in Seq(Operation)
    BY DEF Init
  <1>2. fate \in [Events -> Fates]
    BY DEF Init, Fates
  <1>3. deaths \in 0 .. MaxDeaths
    BY MaxDeathsAssumption DEF Init
  <1>. QED BY <1>1, <1>2, <1>3, MaxScanCallsAssumption DEF Init, TypeOK, ScanCounted

\* The variables have their types in every reachable state: in particular the
\* scan queue never holds more than one scan for each thread that may be in
\* uploadStoredEvents, and one, although the count is read and increased without
\* a lock.
THEOREM TypeCorrect == Spec => []TypeOK
  <1>1. Init => TypeOK /\ ScanCounted
    BY TypeInit
  <1>2. (TypeOK /\ ScanCounted) /\ [Next]_vars => (TypeOK /\ ScanCounted)'
    BY TypeStep, ScanCountedStep
  <1>. QED BY <1>1, <1>2, PTL DEF Spec

-----------------------------------------------------------------------------
(***************************************************************************)
(* Custody and single acknowledgement.  The inductive invariant says, of   *)
(* the queue, that only the first operation has started and that an event  *)
(* has one object operation at most; of the file system, that everything   *)
(* which names a file names one that was once created, while an event in   *)
(* an object operation has not had a file yet; and of an acknowledged      *)
(* event, that its file has gone or is about to be removed, and that no    *)
(* operation that could send it again has loaded it.                       *)
(***************************************************************************)

IsObject(op) == op.kind = "object" /\ op.state # "storing"

QueueInv ==
    /\ \A i \in 1 .. Len(uploadQ) : i > 1 => uploadQ[i].state = "ready"
    /\ \A i \in 1 .. Len(uploadQ) :
          uploadQ[i].state \in (IF uploadQ[i].kind = "file"
                               THEN {"ready", "sent", "delivered", "discarded"}
                               ELSE {"ready", "sent", "storing"})
    /\ \A i, j \in 1 .. Len(uploadQ) :
          (uploadQ[i].kind = "object" /\ uploadQ[j].kind = "object"
             /\ uploadQ[i].event = uploadQ[j].event) => i = j

ListsInv ==
    /\ \A e \in scanList \cup latest : born[e] > 0
    /\ \A e \in Events : \A f \in storeList[e] : born[f] > 0

FilesInv ==
    /\ \A e \in disk : born[e] > 0
    /\ \A i \in 1 .. Len(uploadQ) :
          IF IsObject(uploadQ[i]) THEN born[uploadQ[i].event] = 0
                                  ELSE born[uploadQ[i].event] > 0

\* Events of threads that are about to add an object operation.
Adding == {e \in Events : calls[e] = "add"}

AddInv ==
    \A e \in Adding : /\ born[e] = 0 /\ acks[e] = 0 /\ fate[e] = "held"
                      /\ \A i \in 1 .. Len(uploadQ) : uploadQ[i].event # e

NewInv ==
    \A e \in Events : fate[e] = "new" =>
        /\ born[e] = 0 /\ acks[e] = 0
        /\ \A i \in 1 .. Len(uploadQ) : uploadQ[i].event # e

\* Custody, in terms of Adding.
HeldInv ==
    \A e \in Events : (fate[e] = "held") <=> (e \in disk \/ InObjectOperation(e) \/ e \in Adding)

AckInv ==
    \A e \in Events : acks[e] > 0 =>
        /\ acks[e] = 1
        /\ e \in disk => Unremoved(e)
        /\ \A i \in 1 .. Len(uploadQ) : uploadQ[i].event = e =>
              uploadQ[i].state = "storing" \/ (uploadQ[i].kind = "file" /\ uploadQ[i].state # "sent")

Core == QueueInv /\ FilesInv /\ AddInv /\ NewInv /\ HeldInv /\ AckInv

IInv == TypeOK /\ ScanCounted /\ ListsInv /\ Core

\* How each change of the queue changes what is in its object operations.
LEMMA ObjectAppend ==
    ASSUME uploadQ \in Seq(Operation), NEW k \in {"object", "file"}, NEW f \in Events,
           uploadQ' = Append(uploadQ, NewOperation(k, f)), NEW e \in Events
    PROVE  InObjectOperation(e)' <=> InObjectOperation(e) \/ (k = "object" /\ e = f)
  <1>. DEFINE op == NewOperation(k, f)
  <1>1. op \in Operation /\ op.kind = k /\ op.event = f /\ op.state = "ready"
    BY DEF NewOperation, Operation
  <1>2. /\ Len(uploadQ') = Len(uploadQ) + 1
        /\ \A i \in 1 .. Len(uploadQ) : uploadQ'[i] = uploadQ[i]
        /\ uploadQ'[Len(uploadQ) + 1] = op
        /\ Len(uploadQ) \in Nat
    BY <1>1, QueueAppend
  <1>. HIDE DEF op
  <1>. QED BY <1>1, <1>2 DEF InObjectOperation

\* Dequeueing leaves at most one operation for the object of an event.
LEMMA ObjectTail ==
    ASSUME uploadQ \in Seq(Operation), uploadQ # <<>>, QueueInv, uploadQ' = Tail(uploadQ),
           NEW e \in Events
    PROVE  InObjectOperation(e)' <=>
             InObjectOperation(e) /\ ~(IsObject(Head(uploadQ)) /\ Event = e)
  <1>1. /\ Len(uploadQ') = Len(uploadQ) - 1
        /\ \A i \in 1 .. Len(uploadQ') : uploadQ'[i] = uploadQ[i + 1]
        /\ Head(uploadQ) = uploadQ[1]
        /\ Len(uploadQ) \in Nat \ {0}
    BY QueueTail
  <1>2. ASSUME InObjectOperation(e)' PROVE InObjectOperation(e) /\ ~(IsObject(Head(uploadQ)) /\ Event = e)
    <2>1. PICK i \in 1 .. Len(uploadQ') : /\ uploadQ[i + 1].kind = "object"
                                          /\ uploadQ[i + 1].event = e
                                          /\ uploadQ[i + 1].state # "storing"
      BY <1>1, <1>2 DEF InObjectOperation
    <2>2. i + 1 \in 1 .. Len(uploadQ) /\ i + 1 # 1 /\ 1 \in 1 .. Len(uploadQ)
      BY <1>1, <2>1
    <2>. QED BY <1>1, <2>1, <2>2 DEF InObjectOperation, QueueInv, IsObject, Event
  <1>3. ASSUME InObjectOperation(e), ~(IsObject(Head(uploadQ)) /\ Event = e) PROVE InObjectOperation(e)'
    <2>1. PICK i \in 1 .. Len(uploadQ) : /\ uploadQ[i].kind = "object"
                                         /\ uploadQ[i].event = e
                                         /\ uploadQ[i].state # "storing"
      BY <1>3 DEF InObjectOperation
    <2>2. i # 1
      BY <1>1, <1>3, <2>1 DEF IsObject, Event
    <2>3. i - 1 \in 1 .. Len(uploadQ') /\ uploadQ'[i - 1] = uploadQ[i]
      BY <1>1, <2>2
    <2>. QED BY <2>1, <2>3 DEF InObjectOperation
  <1>. QED BY <1>2, <1>3

\* Changing the state of the executing operation does too.
LEMMA ObjectState ==
    ASSUME uploadQ \in Seq(Operation), uploadQ # <<>>, QueueInv,
           NEW s \in {"sent", "storing", "delivered", "discarded"}, Head(uploadQ).state # "storing",
           uploadQ' = [uploadQ EXCEPT ![1].state = s], NEW e \in Events
    PROVE  InObjectOperation(e)' <=>
             InObjectOperation(e) /\ ~(s = "storing" /\ IsObject(Head(uploadQ)) /\ Event = e)
  <1>1. /\ Head(uploadQ) = uploadQ[1]
        /\ Len(uploadQ) \in Nat \ {0}
    BY QueueTail
  <1>2. /\ Len(uploadQ') = Len(uploadQ)
        /\ \A i \in 2 .. Len(uploadQ) : uploadQ'[i] = uploadQ[i]
        /\ uploadQ'[1].kind = uploadQ[1].kind /\ uploadQ'[1].event = uploadQ[1].event /\ uploadQ'[1].state = s
    BY QueueState
  <1>3. 1 \in 1 .. Len(uploadQ)
    BY <1>1
  <1>4. ASSUME InObjectOperation(e)'
        PROVE  InObjectOperation(e) /\ ~(s = "storing" /\ IsObject(Head(uploadQ)) /\ Event = e)
    <2>1. PICK i \in 1 .. Len(uploadQ) : /\ uploadQ'[i].kind = "object"
                                         /\ uploadQ'[i].event = e
                                         /\ uploadQ'[i].state # "storing"
      BY <1>1, <1>4 DEF InObjectOperation
    <2>2. CASE i = 1
      <3>1. uploadQ[1].kind = "object" /\ uploadQ[1].event = e /\ s # "storing"
        BY <1>2, <2>1, <2>2
      <3>2. uploadQ[1].state # "storing"
        BY <1>1
      <3>. QED BY <1>3, <3>1, <3>2 DEF InObjectOperation
    <2>3. CASE i \in 2 .. Len(uploadQ)
      <3>1. uploadQ[i].kind = "object" /\ uploadQ[i].event = e /\ uploadQ[i].state # "storing"
        BY <1>1, <2>1, <2>3
      <3>2. ~(IsObject(Head(uploadQ)) /\ Event = e)
        BY <1>1, <1>3, <2>3, <3>1 DEF QueueInv, IsObject, Event
      <3>. QED BY <2>1, <3>1, <3>2 DEF InObjectOperation
    <2>. QED BY <1>1, <2>1, <2>2, <2>3
  <1>5. ASSUME InObjectOperation(e), ~(s = "storing" /\ IsObject(Head(uploadQ)) /\ Event = e)
        PROVE  InObjectOperation(e)'
    <2>1. PICK i \in 1 .. Len(uploadQ) : /\ uploadQ[i].kind = "object"
                                         /\ uploadQ[i].event = e
                                         /\ uploadQ[i].state # "storing"
      BY <1>5 DEF InObjectOperation
    <2>2. CASE i = 1
      BY <1>1, <1>2, <1>3, <1>5, <2>1, <2>2 DEF InObjectOperation, IsObject, Event
    <2>3. CASE i \in 2 .. Len(uploadQ)
      BY <1>1, <2>1, <2>3 DEF InObjectOperation
    <2>. QED BY <1>1, <2>1, <2>2, <2>3
  <1>. QED BY <1>4, <1>5

\* The same changes, seen operation by operation.
LEMMA AfterAppend ==
    ASSUME uploadQ \in Seq(Operation), NEW k \in {"object", "file"}, NEW f \in Events,
           uploadQ' = Append(uploadQ, NewOperation(k, f)),
           NEW i \in 1 .. Len(uploadQ')
    PROVE  /\ Len(uploadQ) \in Nat
           /\ \/ i \in 1 .. Len(uploadQ) /\ uploadQ'[i] = uploadQ[i]
              \/ /\ i = Len(uploadQ) + 1
                 /\ uploadQ'[i].kind = k /\ uploadQ'[i].event = f /\ uploadQ'[i].state = "ready"
  <1>1. NewOperation(k, f) \in Operation
    BY NewOperationType
  <1>2. NewOperation(k, f).kind = k /\ NewOperation(k, f).event = f /\ NewOperation(k, f).state = "ready"
    BY DEF NewOperation
  <1>3. /\ Len(uploadQ') = Len(uploadQ) + 1
        /\ \A j \in 1 .. Len(uploadQ) : uploadQ'[j] = uploadQ[j]
        /\ uploadQ'[Len(uploadQ) + 1] = NewOperation(k, f)
        /\ Len(uploadQ) \in Nat
    BY <1>1, QueueAppend
  <1>. QED BY <1>2, <1>3

\* What was after an operation in the queue is so after dequeueing.
LEMMA AfterTail ==
    ASSUME uploadQ \in Seq(Operation), uploadQ # <<>>, uploadQ' = Tail(uploadQ),
           NEW i \in 1 .. Len(uploadQ')
    PROVE  i \in Nat /\ i > 0 /\ i + 1 \in 1 .. Len(uploadQ) /\ uploadQ'[i] = uploadQ[i + 1]
  <1>1. Len(uploadQ') = Len(uploadQ) - 1 /\ Len(uploadQ) \in Nat \ {0}
    BY QueueTail
  <1>2. uploadQ'[i] = uploadQ[i + 1]
    BY QueueTail
  <1>. QED BY <1>1, <1>2

\* Changing a state changes the order of nothing.
LEMMA AfterState ==
    ASSUME uploadQ \in Seq(Operation), uploadQ # <<>>, NEW s \in {"sent", "storing", "delivered", "discarded"},
           uploadQ' = [uploadQ EXCEPT ![1].state = s],
           NEW i \in 1 .. Len(uploadQ')
    PROVE  /\ i \in 1 .. Len(uploadQ)
           /\ uploadQ'[i].kind = uploadQ[i].kind /\ uploadQ'[i].event = uploadQ[i].event
           /\ i = 1 => uploadQ'[i].state = s
           /\ i # 1 => uploadQ'[i].state = uploadQ[i].state
           /\ Head(uploadQ) = uploadQ[1] /\ 1 \in 1 .. Len(uploadQ)
  <1>1. /\ Head(uploadQ) = uploadQ[1]
        /\ Len(uploadQ) \in Nat \ {0}
    BY QueueTail
  <1>2. /\ Len(uploadQ') = Len(uploadQ)
        /\ \A j \in 2 .. Len(uploadQ) : uploadQ'[j] = uploadQ[j]
        /\ uploadQ'[1].kind = uploadQ[1].kind /\ uploadQ'[1].event = uploadQ[1].event /\ uploadQ'[1].state = s
    BY QueueState
  <1>3. i \in 1 .. Len(uploadQ) /\ 1 \in 1 .. Len(uploadQ)
    BY <1>1
  <1>4. CASE i = 1
    BY <1>1, <1>2, <1>3, <1>4
  <1>5. CASE i # 1
    <2>1. i \in 2 .. Len(uploadQ)
      BY <1>1, <1>3, <1>5
    <2>2. uploadQ'[i] = uploadQ[i]
      BY <1>1, <2>1
    <2>. QED BY <1>1, <1>3, <1>5, <2>2
  <1>. QED BY <1>4, <1>5

\* Everything the proof needs to know of the types.
LEMMA Types ==
    ASSUME TypeOK
    PROVE  /\ disk \subseteq Events /\ clock \in Nat
           /\ born \in [Events -> Nat] /\ acks \in [Events -> 0 .. 2]
           /\ fate \in [Events -> Fates] /\ uploadQ \in Seq(Operation)
           /\ \A i \in 1 .. Len(uploadQ) : uploadQ[i] \in Operation /\ uploadQ[i].event \in Events
           /\ scanList \subseteq Events /\ latest \subseteq Events
           /\ storeList \in [Events -> SUBSET Events]
  <1>1. uploadQ \in Seq(Operation)
    BY DEF TypeOK
  <1>2. \A i \in 1 .. Len(uploadQ) : uploadQ[i] \in Operation
    BY <1>1
  <1>3. \A i \in 1 .. Len(uploadQ) : uploadQ[i].event \in Events
    BY <1>2 DEF Operation
  <1>. QED BY <1>1, <1>2, <1>3 DEF TypeOK

-----------------------------------------------------------------------------
(***************************************************************************)
(* The kinds of step.  Every action of Next changes the files, the queue   *)
(* and the history in one of these ways.                                   *)
(***************************************************************************)

\* A file operation is added.
AddsFile ==
    /\ \E f \in Events : born[f] > 0 /\ uploadQ' = Append(uploadQ, NewOperation("file", f))
    /\ UNCHANGED <<disk, born, acks, fate, Adding>>

\* An event is accepted ...
Takes ==
    /\ \E f \in Events : /\ fate[f] = "new" /\ fate' = [fate EXCEPT ![f] = "held"]
                         /\ Adding' = Adding \cup {f}
    /\ UNCHANGED <<disk, born, acks, uploadQ>>

\* ... into an object operation.
AddsObject ==
    /\ \E f \in Adding : /\ uploadQ' = Append(uploadQ, NewOperation("object", f))
                         /\ Adding' = Adding \ {f}
    /\ UNCHANGED <<disk, born, acks, fate>>

\* An event is reported, and stored or lost.
Reports ==
    \E e \in Events :
       /\ fate[e] = "new"
       /\ \/ WriteFile(e) /\ fate' = [fate EXCEPT ![e] = "held"]
          \/ UNCHANGED <<disk, born>> /\ fate' = [fate EXCEPT ![e] = "lost"]
       /\ UNCHANGED <<uploadQ, acks, Adding>>

\* An operation that no longer holds an event, and has none to remove, leaves
\* the queue, or none does.
Drops == \/ UNCHANGED uploadQ
         \/ /\ uploadQ # <<>> /\ ~IsObject(Head(uploadQ))
            /\ Head(uploadQ).state \notin {"delivered", "discarded"}
            /\ uploadQ' = Tail(uploadQ)

\* ... and at most one file is evicted.
Evicts ==
    /\ Drops
    /\ \/ UNCHANGED <<disk, fate>>
       \/ \E f \in Events : disk' = disk \ {f} /\ fate' = IF f \in disk THEN Meets(f, "evicted") ELSE fate
    /\ UNCHANGED <<born, acks, Adding>>

\* The first operation leaves the queue and its event meets a fate.
Settles ==
    /\ uploadQ # <<>> /\ Head(uploadQ).state # "storing"
    /\ uploadQ' = Tail(uploadQ)
    /\ disk' = IF IsFile THEN disk \ {Event} ELSE disk
    /\ \E x \in {"delivered", "discarded", "lost"} : fate' = Meets(Event, x)
    /\ \/ UNCHANGED acks
       \/ /\ Head(uploadQ).state = "sent"
          /\ acks' = [acks EXCEPT ![Event] = IF @ < 2 THEN @ + 1 ELSE @]
    /\ UNCHANGED <<born, Adding>>

\* What becomes of the first operation's event is decided, its file is still there.
Decides ==
    /\ uploadQ # <<>> /\ IsFile /\ Head(uploadQ).state \in {"ready", "sent"}
    /\ \E v \in {"delivered", "discarded"} :
          /\ uploadQ' = [uploadQ EXCEPT ![1].state = v]
          /\ \/ UNCHANGED acks
             \/ /\ v = "delivered" /\ Head(uploadQ).state = "sent"
                /\ acks' = [acks EXCEPT ![Event] = IF @ < 2 THEN @ + 1 ELSE @]
    /\ UNCHANGED <<disk, born, fate, Adding>>

\* The first operation ends without having removed its file.
Leaves ==
    /\ Removing
    /\ uploadQ' = Tail(uploadQ)
    /\ acks' = IF Event \in disk THEN [acks EXCEPT ![Event] = 0] ELSE acks
    /\ UNCHANGED <<disk, born, fate, Adding>>

Sends == /\ Executing("ready") /\ Loads
         /\ uploadQ' = [uploadQ EXCEPT ![1].state = "sent"]
         /\ UNCHANGED <<disk, born, acks, fate, Adding>>

Stores == /\ Executing("sent") /\ ~IsFile
          /\ uploadQ' = [uploadQ EXCEPT ![1].state = "storing"]
          /\ WriteFile(Event) /\ UNCHANGED <<acks, fate>>
          /\ Adding' = Adding \ {Event}

\* A file operation is added by a scan.
LEMMA AddsFileStep ==
    ASSUME TypeOK, Core, AddsFile
    PROVE  Core'
  <1>1. PICK f \in Events : born[f] > 0 /\ uploadQ' = Append(uploadQ, NewOperation("file", f))
    BY DEF AddsFile
  <1>2. UNCHANGED <<disk, born, acks, fate, Adding>>
    BY DEF AddsFile
  <1>3. uploadQ \in Seq(Operation) /\ NewOperation("file", f) \in Operation
    BY Types, NewOperationType
  <1>4. QueueInv'
    BY <1>1, <1>3, AfterAppend DEF Core, QueueInv
  <1>5. FilesInv'
    BY <1>1, <1>2, <1>3, AfterAppend DEF Core, FilesInv, IsObject
  <1>6. AddInv'
    <2>1. Adding \subseteq Events
      BY DEF Adding
    <2>. QED BY <1>1, <1>2, <1>3, <2>1, AfterAppend DEF Core, AddInv
  <1>7. NewInv'
    BY <1>1, <1>2, <1>3, AfterAppend DEF Core, NewInv
  <1>8. HeldInv'
    BY <1>1, <1>2, <1>3, ObjectAppend DEF Core, HeldInv
  <1>9. AckInv'
    <2>1. \A e \in Events : Unremoved(e) => Unremoved(e)'
      <3>1. uploadQ # <<>> => uploadQ' # <<>> /\ Head(uploadQ') = Head(uploadQ)
        BY <1>1, <1>3
      <3>. QED BY <1>2, <3>1 DEF Unremoved, Executing, Event
    <2>. QED BY <1>1, <1>2, <1>3, <2>1, AfterAppend DEF Core, AckInv
  <1>. QED BY <1>4, <1>5, <1>6, <1>7, <1>8, <1>9 DEF Core

\* An event is accepted.
LEMMA TakesStep ==
    ASSUME TypeOK, Core, Takes
    PROVE  Core'
  <1>1. PICK f \in Events : /\ fate[f] = "new" /\ fate' = [fate EXCEPT ![f] = "held"]
                            /\ Adding' = Adding \cup {f}
    BY DEF Takes
  <1>2. UNCHANGED <<disk, born, acks, uploadQ>>
    BY DEF Takes
  <1>3. fate \in [Events -> Fates] /\ Adding \subseteq Events
    BY Types DEF Adding
  <1>4. born[f] = 0 /\ acks[f] = 0 /\ \A i \in 1 .. Len(uploadQ) : uploadQ[i].event # f
    BY <1>1 DEF Core, NewInv
  <1>5. \A e \in Events : /\ InObjectOperation(e)' <=> InObjectOperation(e)
                          /\ Unremoved(e)' <=> Unremoved(e)
    BY <1>2 DEF InObjectOperation, Unremoved, Executing, Event
  <1>6. QueueInv' /\ FilesInv'
    BY <1>2 DEF Core, QueueInv, FilesInv
  <1>7. AddInv'
    BY <1>1, <1>2, <1>3, <1>4 DEF Core, AddInv
  <1>10. NewInv'
    <2>1. \A e \in Events : fate'[e] = "new" => fate[e] = "new"
      BY <1>1, <1>3
    <2>. QED BY <1>2, <2>1 DEF Core, NewInv
  <1>8. HeldInv'
    <2>1. \A e \in Events : /\ fate'[e] = IF e = f THEN "held" ELSE fate[e]
                            /\ e \in Adding' <=> e \in Adding \/ e = f
      BY <1>1, <1>3
    <2>2. UNCHANGED disk
      BY <1>2
    <2>3. ASSUME NEW e \in Events PROVE HeldInv!(e)'
      <3>1. HeldInv!(e) /\ (InObjectOperation(e)' <=> InObjectOperation(e))
        BY <1>5 DEF Core, HeldInv
      <3>. QED BY <2>1, <2>2, <3>1
    <2>. QED BY <2>3 DEF HeldInv
  <1>9. AckInv'
    BY <1>2, <1>5 DEF Core, AckInv
  <1>. QED BY <1>6, <1>7, <1>8, <1>9, <1>10 DEF Core

\* An event is handed over as an object.
LEMMA AddsObjectStep ==
    ASSUME TypeOK, Core, AddsObject
    PROVE  Core'
  <1>1. PICK f \in Adding : /\ uploadQ' = Append(uploadQ, NewOperation("object", f))
                            /\ Adding' = Adding \ {f}
    BY DEF AddsObject
  <1>2. UNCHANGED <<disk, born, acks, fate>>
    BY DEF AddsObject
  <1>3. uploadQ \in Seq(Operation) /\ f \in Events /\ Adding \subseteq Events
        /\ NewOperation("object", f) \in Operation
    BY Types, NewOperationType DEF Adding
  <1>4. born[f] = 0 /\ acks[f] = 0 /\ fate[f] = "held" /\ \A i \in 1 .. Len(uploadQ) : uploadQ[i].event # f
    BY DEF Core, AddInv
  <1>5. QueueInv'
    BY <1>1, <1>3, <1>4, AfterAppend DEF Core, QueueInv
  <1>6. FilesInv'
    BY <1>1, <1>2, <1>3, <1>4, AfterAppend DEF Core, FilesInv, IsObject
  <1>7. AddInv'
    BY <1>1, <1>2, <1>3, AfterAppend DEF Core, AddInv
  <1>8. NewInv'
    BY <1>2, <1>1, <1>3, <1>4, AfterAppend DEF Core, NewInv
  <1>9. HeldInv'
    BY <1>1, <1>2, <1>3, <1>4, ObjectAppend DEF Core, HeldInv
  <1>10. AckInv'
    <2>1. \A e \in Events : Unremoved(e) => Unremoved(e)'
      <3>1. uploadQ # <<>> => uploadQ' # <<>> /\ Head(uploadQ') = Head(uploadQ)
        BY <1>1, <1>3
      <3>. QED BY <1>2, <3>1 DEF Unremoved, Executing, Event
    <2>. QED BY <1>1, <1>2, <1>3, <1>4, <2>1, AfterAppend DEF Core, AckInv
  <1>. QED BY <1>5, <1>6, <1>7, <1>8, <1>9, <1>10 DEF Core

\* The crash handler writes a report.
LEMMA ReportsStep ==
    ASSUME TypeOK, Core, Reports
    PROVE  Core'
  <1>1. PICK e \in Events :
           /\ fate[e] = "new"
           /\ \/ WriteFile(e) /\ fate' = [fate EXCEPT ![e] = "held"]
              \/ UNCHANGED <<disk, born>> /\ fate' = [fate EXCEPT ![e] = "lost"]
    BY DEF Reports
  <1>2. UNCHANGED <<uploadQ, acks, Adding>>
    BY DEF Reports
  <1>3. fate \in [Events -> Fates] /\ born \in [Events -> Nat] /\ clock \in Nat /\ disk \subseteq Events
    BY Types
  <1>4. \A g \in Events : InObjectOperation(g)' <=> InObjectOperation(g)
    BY <1>2 DEF InObjectOperation
  <1>12. Adding \subseteq Events /\ e \notin Adding
    BY <1>1 DEF Adding, Core, AddInv
  <1>13. AddInv'
    BY <1>1, <1>2, <1>3, <1>12 DEF Core, AddInv, WriteFile
  <1>5. born[e] = 0 /\ acks[e] = 0 /\ \A i \in 1 .. Len(uploadQ) : uploadQ[i].event # e
    BY <1>1 DEF Core, NewInv
  <1>6. e \notin disk /\ ~InObjectOperation(e)
    BY <1>3, <1>5 DEF Core, FilesInv, InObjectOperation
  <1>7. QueueInv'
    BY <1>2 DEF Core, QueueInv
  <1>8. FilesInv'
    <2>1. \A i \in 1 .. Len(uploadQ) : uploadQ[i].event \in Events
      BY Types
    <2>. QED BY <1>1, <1>2, <1>3, <1>5, <2>1 DEF Core, FilesInv, WriteFile
  <1>9. NewInv'
    BY <1>1, <1>2, <1>3 DEF Core, NewInv, WriteFile
  <1>10. HeldInv'
    BY <1>1, <1>2, <1>3, <1>4, <1>6, <1>12 DEF Core, HeldInv, WriteFile
  <1>11. AckInv'
    BY <1>1, <1>2, <1>3, <1>5 DEF Core, AckInv, WriteFile, Unremoved, Executing, Event
  <1>. QED BY <1>7, <1>8, <1>9, <1>10, <1>11, <1>13 DEF Core

\* A file is evicted.
LEMMA EvictsStep ==
    ASSUME TypeOK, Core, Evicts
    PROVE  Core'
  <1>1. uploadQ \in Seq(Operation) /\ fate \in [Events -> Fates] /\ disk \subseteq Events
    BY Types
  <1>2. \A e \in Events : InObjectOperation(e)' <=> InObjectOperation(e)
    <2>1. CASE UNCHANGED uploadQ
      BY <2>1 DEF InObjectOperation
    <2>2. CASE uploadQ # <<>> /\ ~IsObject(Head(uploadQ)) /\ uploadQ' = Tail(uploadQ)
      BY <1>1, <2>2, ObjectTail DEF Core
    <2>. QED BY <2>1, <2>2 DEF Evicts, Drops
  <1>3. \A i \in 1 .. Len(uploadQ') : \E j \in 1 .. Len(uploadQ) : uploadQ'[i] = uploadQ[j]
    <2>1. CASE UNCHANGED uploadQ
      BY <2>1
    <2>2. CASE uploadQ # <<>> /\ uploadQ' = Tail(uploadQ)
      BY <1>1, <2>2, AfterTail
    <2>. QED BY <2>1, <2>2 DEF Evicts, Drops
  <1>4. \A e \in Events : /\ fate'[e] = "new" => fate[e] = "new"
                          /\ e \in disk' => e \in disk
    BY <1>1 DEF Evicts, Meets
  <1>5. QueueInv'
    <2>1. CASE UNCHANGED uploadQ
      BY <2>1 DEF Core, QueueInv
    <2>2. CASE uploadQ # <<>> /\ uploadQ' = Tail(uploadQ)
      BY <1>1, <2>2, AfterTail DEF Core, QueueInv
    <2>. QED BY <2>1, <2>2 DEF Evicts, Drops
  <1>10. AddInv'
    <2>1. \A e \in Events : fate[e] = "held" /\ born[e] = 0 => fate'[e] = "held"
      BY <1>1 DEF Evicts, Meets, Core, FilesInv
    <2>. QED BY <1>3, <2>1 DEF Core, AddInv, Evicts, Adding
  <1>6. FilesInv'
    BY <1>1, <1>3 DEF Core, FilesInv, Evicts
  <1>7. NewInv'
    BY <1>3, <1>4 DEF Core, NewInv, Evicts
  <1>8. HeldInv'
    <2>1. CASE UNCHANGED <<disk, fate>>
      BY <1>2, <2>1 DEF Core, HeldInv, Evicts
    <2>2. ASSUME NEW f \in Events, disk' = disk \ {f},
                 fate' = IF f \in disk THEN Meets(f, "evicted") ELSE fate
          PROVE  HeldInv'
      <3>1. f \in disk => ~InObjectOperation(f)
        BY DEF Core, FilesInv, InObjectOperation, IsObject
      <3>2. f \in disk => f \notin Adding
        BY DEF Core, FilesInv, AddInv
      <3>. QED BY <1>1, <1>2, <2>2, <3>1, <3>2 DEF Core, HeldInv, Meets, Evicts
    <2>. QED BY <2>1, <2>2 DEF Evicts
  <1>9. AckInv'
    <2>1. ASSUME NEW e \in Events, acks[e] > 0 PROVE e \notin disk' \/ Unremoved(e)'
      <3>1. CASE Unremoved(e)
        <4>1. UNCHANGED uploadQ
          BY <3>1 DEF Evicts, Drops, Unremoved, Executing
        <4>. QED BY <3>1, <4>1 DEF Unremoved, Executing, Event
      <3>. QED BY <1>4, <2>1, <3>1 DEF Core, AckInv
    <2>. QED BY <1>3, <2>1 DEF Core, AckInv, Evicts
  <1>. QED BY <1>5, <1>6, <1>7, <1>8, <1>9, <1>10 DEF Core

\* An operation is over.
LEMMA SettlesStep ==
    ASSUME TypeOK, Core, Settles
    PROVE  Core'
  <1>1. /\ uploadQ \in Seq(Operation) /\ fate \in [Events -> Fates] /\ disk \subseteq Events
        /\ acks \in [Events -> 0 .. 2]
    BY Types
  <1>2. uploadQ # <<>> /\ Head(uploadQ).state # "storing" /\ uploadQ' = Tail(uploadQ)
    BY DEF Settles
  <1>3. Len(uploadQ) \in Nat \ {0} /\ Head(uploadQ) = uploadQ[1] /\ 1 \in 1 .. Len(uploadQ)
    BY <1>1, <1>2, QueueTail
  <1>4. Event \in Events /\ uploadQ[1].event = Event /\ uploadQ[1].kind \in {"file", "object"}
    BY <1>3, Types DEF Event, Operation
  <1>5. PICK x \in {"delivered", "discarded", "lost"} : fate' = Meets(Event, x)
    BY DEF Settles
  <1>6. \A e \in Events : InObjectOperation(e)' <=>
                            InObjectOperation(e) /\ ~(IsObject(Head(uploadQ)) /\ Event = e)
    BY <1>1, <1>2, ObjectTail DEF Core
  <1>7. ~(Event \in disk /\ IsObject(uploadQ[1]))
    BY <1>3, <1>4 DEF Core, FilesInv
  <1>8. IF IsFile THEN ~InObjectOperation(Event) ELSE InObjectOperation(Event)
    <2>1. CASE IsFile
      BY <1>3, <1>4, <2>1 DEF Core, FilesInv, InObjectOperation, IsObject, IsFile
    <2>2. CASE ~IsFile
      BY <1>2, <1>3, <1>4, <2>2 DEF InObjectOperation, IsFile
    <2>. QED BY <2>1, <2>2
  <1>9. QueueInv'
    BY <1>1, <1>2, AfterTail DEF Core, QueueInv
  <1>10. FilesInv'
    <2>1. disk' \subseteq disk /\ born' = born
      BY DEF Settles
    <2>. QED BY <1>1, <1>2, <2>1, AfterTail DEF Core, FilesInv
  <1>11. fate[Event] # "new"
    BY <1>3, <1>4 DEF Core, NewInv
  <1>12. \A e \in Events : fate'[e] = "new" => fate[e] = "new" /\ acks'[e] = acks[e]
    BY <1>1, <1>5, <1>11 DEF Settles, Meets
  <1>13. NewInv'
    <2>1. born' = born
      BY DEF Settles
    <2>. QED BY <1>1, <1>2, <1>12, <2>1, AfterTail DEF Core, NewInv
  <1>16. Event \notin Adding
    BY <1>3, <1>4 DEF Core, AddInv
  <1>17. \A e \in Events : e # Event => fate'[e] = fate[e] /\ acks'[e] = acks[e]
    BY <1>1, <1>5 DEF Settles, Meets
  <1>18. AddInv'
    <2>1. born' = born /\ Adding' = Adding /\ Adding \subseteq Events
      BY DEF Settles, Adding
    <2>. QED BY <1>1, <1>2, <1>16, <1>17, <2>1, AfterTail DEF Core, AddInv
  <1>14. HeldInv'
    <2>1. \A e \in Events : e \in disk' <=> e \in disk /\ ~(IsFile /\ e = Event)
      BY DEF Settles
    <2>2. IsObject(Head(uploadQ)) <=> ~IsFile
      BY <1>2, <1>3, <1>4 DEF IsObject, IsFile
    <2>3. ASSUME NEW e \in Events, e = Event
          PROVE  e \notin disk' /\ ~InObjectOperation(e)' /\ fate'[e] # "held"
      <3>1. fate'[e] # "held"
        BY <1>1, <1>5, <2>3 DEF Meets
      <3>2. e \notin disk'
        BY <1>3, <1>7, <2>1, <2>2, <2>3
      <3>3. ~InObjectOperation(e)'
        BY <1>6, <1>8, <2>2, <2>3
      <3>. QED BY <3>1, <3>2, <3>3
    <2>4. ASSUME NEW e \in Events, e # Event
          PROVE  /\ e \in disk' <=> e \in disk
                 /\ InObjectOperation(e)' <=> InObjectOperation(e)
                 /\ fate'[e] = fate[e]
      <3>1. fate'[e] = fate[e]
        BY <1>1, <1>5, <2>4 DEF Meets
      <3>. QED BY <1>6, <2>1, <2>4, <3>1
    <2>5. Adding' = Adding
      BY DEF Settles
    <2>. QED BY <1>16, <2>3, <2>4, <2>5 DEF Core, HeldInv
  <1>15. AckInv'
    <2>1. ASSUME NEW e \in Events, acks'[e] > 0, e # Event PROVE AckInv!(e)'
      <3>1. acks[e] > 0 /\ acks'[e] = acks[e] /\ ~Unremoved(e) /\ (e \in disk' => e \in disk)
        BY <1>17, <2>1 DEF Unremoved, Settles
      <3>2. acks[e] = 1 /\ e \notin disk'
        BY <3>1 DEF Core, AckInv
      <3>. QED BY <1>1, <1>2, <3>1, <3>2, AfterTail DEF Core, AckInv
    <2>2. ASSUME NEW e \in Events, acks'[e] > 0, e = Event PROVE AckInv!(e)'
      <3>1. CASE UNCHANGED acks
        <4>1. acks[e] > 0 /\ acks'[e] = 1 /\ acks[e] = 1
          BY <2>2, <3>1 DEF Core, AckInv
        <4>2. IsFile
          BY <1>2, <1>3, <1>4, <2>2, <4>1 DEF Core, AckInv, IsFile
        <4>3. e \notin disk'
          BY <2>2, <4>2 DEF Settles
        <4>4. \A i \in 1 .. Len(uploadQ') : uploadQ'[i].event = e =>
                uploadQ'[i].state = "storing" \/ (uploadQ'[i].kind = "file" /\ uploadQ'[i].state # "sent")
          BY <1>1, <1>2, <4>1, AfterTail DEF Core, AckInv
        <4>. QED BY <4>1, <4>3, <4>4
      <3>2. CASE /\ Head(uploadQ).state = "sent"
                 /\ acks' = [acks EXCEPT ![Event] = IF @ < 2 THEN @ + 1 ELSE @]
        <4>1. acks[Event] = 0
          BY <1>1, <1>3, <1>4, <3>2 DEF Core, AckInv
        <4>2. acks'[e] = 1
          BY <1>1, <1>4, <2>2, <3>2, <4>1
        <4>3. e \notin disk'
          BY <1>2, <1>3, <1>4, <1>7, <2>2 DEF Settles, IsFile, IsObject
        <4>4. ASSUME NEW i \in 1 .. Len(uploadQ'), uploadQ'[i].event = e
              PROVE  uploadQ'[i].kind = "file" /\ uploadQ'[i].state = "ready"
          <5>1. /\ i \in Nat /\ i > 0 /\ i + 1 \in 1 .. Len(uploadQ) /\ i + 1 # 1
                /\ uploadQ'[i] = uploadQ[i + 1]
            BY <1>1, <1>2, AfterTail
          <5>2. uploadQ[i + 1].state = "ready"
            BY <5>1 DEF Core, QueueInv
          <5>3. uploadQ[i + 1].kind # "object"
            <6>1. CASE IsFile
              BY <1>3, <1>4, <2>2, <4>4, <5>1, <5>2, <6>1 DEF Core, FilesInv, IsObject, IsFile
            <6>2. CASE ~IsFile
              BY <1>3, <1>4, <2>2, <4>4, <5>1, <6>2 DEF Core, QueueInv, IsFile
            <6>. QED BY <6>1, <6>2
          <5>4. uploadQ[i + 1].kind \in {"file", "object"}
            BY <5>1, Types DEF Operation
          <5>. QED BY <5>1, <5>2, <5>3, <5>4
        <4>. QED BY <4>2, <4>3, <4>4
      <3>. QED BY <3>1, <3>2 DEF Settles
    <2>. QED BY <2>1, <2>2 DEF AckInv
  <1>. QED BY <1>9, <1>10, <1>13, <1>14, <1>15, <1>18 DEF Core

\* An operation sends its event.
LEMMA SendsStep ==
    ASSUME TypeOK, Core, Sends
    PROVE  Core'
  <1>1. /\ uploadQ \in Seq(Operation) /\ uploadQ # <<>> /\ Head(uploadQ).state = "ready"
        /\ uploadQ' = [uploadQ EXCEPT ![1].state = "sent"]
        /\ UNCHANGED <<disk, born, acks, fate, Adding>>
    BY Types DEF Sends, Executing
  <1>2. Head(uploadQ) = uploadQ[1] /\ 1 \in 1 .. Len(uploadQ) /\ Len(uploadQ) \in Nat
    BY <1>1, QueueTail
  <1>3. \A e \in Events : InObjectOperation(e)' <=> InObjectOperation(e)
    BY <1>1, ObjectState DEF Core
  <1>4. ASSUME NEW i \in 1 .. Len(uploadQ')
        PROVE  /\ i \in 1 .. Len(uploadQ)
               /\ uploadQ'[i].kind = uploadQ[i].kind /\ uploadQ'[i].event = uploadQ[i].event
               /\ i = 1 => uploadQ'[i].state = "sent"
               /\ i # 1 => uploadQ'[i].state = uploadQ[i].state
    BY <1>1, AfterState
  <1>5. QueueInv'
    BY <1>1, <1>4 DEF Core, QueueInv
  <1>6. FilesInv'
    BY <1>1, <1>2, <1>4 DEF Core, FilesInv, IsObject
  <1>7. NewInv'
    BY <1>1, <1>4 DEF Core, NewInv
  <1>8. HeldInv'
    BY <1>1, <1>3 DEF Core, HeldInv
  <1>10. AddInv'
    <2>1. Adding \subseteq Events
      BY DEF Adding
    <2>. QED BY <1>1, <1>4, <2>1 DEF Core, AddInv
  <1>9. AckInv'
    <2>2. \A e \in Events : ~Unremoved(e)
      BY <1>1 DEF Unremoved, Executing
    <2>1. acks[Event] = 0
      <3>1. Event \in Events /\ acks \in [Events -> 0 .. 2]
            /\ uploadQ[1].kind \in {"file", "object"} /\ uploadQ[1].event = Event
        BY <1>2, Types DEF Event, Operation
      <3>. QED BY <1>1, <1>2, <2>2, <3>1 DEF Core, AckInv, Sends, Loads, IsFile
    <2>. QED BY <1>1, <1>2, <1>4, <2>1, <2>2 DEF Core, AckInv, Event
  <1>. QED BY <1>5, <1>6, <1>7, <1>8, <1>9, <1>10 DEF Core

\* The fate of an event is decided while its file is still there.
LEMMA DecidesStep ==
    ASSUME TypeOK, Core, Decides
    PROVE  Core'
  <1>1. PICK v \in {"delivered", "discarded"} : Decides!2!(v)
    BY DEF Decides
  <1>2. /\ uploadQ \in Seq(Operation) /\ uploadQ # <<>> /\ IsFile
        /\ Head(uploadQ).state \in {"ready", "sent"}
        /\ uploadQ' = [uploadQ EXCEPT ![1].state = v]
        /\ UNCHANGED <<disk, born, fate, Adding>>
    BY <1>1, Types DEF Decides
  <1>3. Head(uploadQ) = uploadQ[1] /\ 1 \in 1 .. Len(uploadQ) /\ Len(uploadQ) \in Nat
    BY <1>2, QueueTail
  <1>4. /\ Event \in Events /\ acks \in [Events -> 0 .. 2]
        /\ uploadQ[1].kind = "file" /\ uploadQ[1].event = Event
    BY <1>2, <1>3, Types DEF Event, IsFile
  <1>5. \A e \in Events : InObjectOperation(e)' <=> InObjectOperation(e)
    BY <1>2, ObjectState DEF Core
  <1>6. ASSUME NEW i \in 1 .. Len(uploadQ')
        PROVE  /\ i \in 1 .. Len(uploadQ)
               /\ uploadQ'[i].kind = uploadQ[i].kind /\ uploadQ'[i].event = uploadQ[i].event
               /\ i = 1 => uploadQ'[i].state = v
               /\ i # 1 => uploadQ'[i].state = uploadQ[i].state
    BY <1>2, AfterState
  <1>7. QueueInv'
    <2>1. \A i \in 1 .. Len(uploadQ') : i > 1 => uploadQ'[i].state = "ready"
      BY <1>6 DEF Core, QueueInv
    <2>2. ASSUME NEW i \in 1 .. Len(uploadQ')
          PROVE  uploadQ'[i].state \in (IF uploadQ'[i].kind = "file"
                                        THEN {"ready", "sent", "delivered", "discarded"}
                                        ELSE {"ready", "sent", "storing"})
      BY <1>4, <1>6 DEF Core, QueueInv
    <2>3. \A i, j \in 1 .. Len(uploadQ') :
             (uploadQ'[i].kind = "object" /\ uploadQ'[j].kind = "object"
                /\ uploadQ'[i].event = uploadQ'[j].event) => i = j
      BY <1>6 DEF Core, QueueInv
    <2>. QED BY <2>1, <2>2, <2>3 DEF QueueInv
  <1>8. FilesInv'
    BY <1>2, <1>4, <1>6 DEF Core, FilesInv, IsObject
  <1>9. AddInv'
    <2>1. fate[Event] # "new" /\ Event \notin Adding
      BY <1>3, <1>4 DEF Core, NewInv, AddInv
    <2>2. \A e \in Events \ {Event} : acks'[e] = acks[e]
      BY <1>1, <1>4
    <2>3. Adding \subseteq Events
      BY DEF Adding
    <2>. QED BY <1>2, <1>6, <2>1, <2>2, <2>3 DEF Core, AddInv
  <1>10. NewInv'
    <2>1. fate[Event] # "new"
      BY <1>3, <1>4 DEF Core, NewInv
    <2>2. \A e \in Events \ {Event} : acks'[e] = acks[e]
      BY <1>1, <1>4
    <2>. QED BY <1>2, <1>6, <2>1, <2>2 DEF Core, NewInv
  <1>11. HeldInv'
    BY <1>2, <1>5 DEF Core, HeldInv
  <1>12. AckInv'
    <2>1. \A e \in Events : ~Unremoved(e)
      BY <1>2 DEF Unremoved, Executing
    <2>2. ASSUME NEW e \in Events, e # Event, acks'[e] > 0 PROVE AckInv!(e)'
      <3>1. acks'[e] = acks[e]
        BY <1>1, <1>4, <2>2
      <3>. QED BY <1>2, <1>3, <1>4, <1>6, <2>1, <2>2, <3>1 DEF Core, AckInv
    <2>3. ASSUME NEW e \in Events, e = Event, acks'[e] > 0 PROVE AckInv!(e)'
      <3>1. \A i \in 1 .. Len(uploadQ') : uploadQ'[i].event = e =>
              uploadQ'[i].kind = "file" /\ uploadQ'[i].state # "sent"
        <4>1. ASSUME NEW i \in 1 .. Len(uploadQ'), i # 1, uploadQ'[i].event = e
              PROVE  uploadQ'[i].kind = "file" /\ uploadQ'[i].state = "ready"
          <5>1. uploadQ[i].state = "ready" /\ uploadQ[i].kind \in {"file", "object"}
            <6>1. i \in 1 .. Len(uploadQ) /\ i > 1
              BY <1>3, <1>6, <4>1
            <6>2. uploadQ[i] \in Operation
              BY <6>1, Types
            <6>. QED BY <6>1, <6>2 DEF Core, QueueInv, Operation
          <5>2. born[Event] > 0
            BY <1>3, <1>4 DEF Core, FilesInv, IsObject
          <5>. QED BY <1>6, <2>3, <4>1, <5>1, <5>2 DEF Core, FilesInv, IsObject
        <4>2. 1 \in 1 .. Len(uploadQ') => uploadQ'[1].kind = "file" /\ uploadQ'[1].state # "sent"
          BY <1>4, <1>6
        <4>. QED BY <4>1, <4>2
      <3>2. CASE UNCHANGED acks
        BY <1>2, <2>1, <2>3, <3>1, <3>2, <1>4 DEF Core, AckInv
      <3>3. CASE /\ v = "delivered" /\ Head(uploadQ).state = "sent"
                 /\ acks' = [acks EXCEPT ![Event] = IF @ < 2 THEN @ + 1 ELSE @]
        <4>1. acks[Event] = 0
          BY <1>3, <1>4, <3>3 DEF Core, AckInv
        <4>2. acks'[e] = 1
          BY <1>4, <2>3, <3>3, <4>1
        <4>3. e \in disk' => Unremoved(e)'
          <5>1. /\ uploadQ' \in Seq(Operation) /\ Len(uploadQ') = Len(uploadQ)
            BY <1>2, QueueState
          <5>2. uploadQ' # <<>> /\ Head(uploadQ') = uploadQ'[1]
            BY <1>3, <5>1
          <5>. QED BY <1>2, <1>3, <1>4, <1>6, <2>3, <3>3, <5>1, <5>2 DEF Unremoved, Executing, Event
        <4>. QED BY <3>1, <4>2, <4>3
      <3>. QED BY <1>1, <3>2, <3>3
    <2>. QED BY <2>2, <2>3, <1>4 DEF AckInv
  <1>. QED BY <1>7, <1>8, <1>9, <1>10, <1>11, <1>12 DEF Core

\* An operation ends without having removed its file.
LEMMA LeavesStep ==
    ASSUME TypeOK, Core, Leaves
    PROVE  Core'
  <1>1. /\ uploadQ \in Seq(Operation) /\ uploadQ # <<>> /\ uploadQ' = Tail(uploadQ)
        /\ Head(uploadQ).state \in {"delivered", "discarded"}
        /\ UNCHANGED <<disk, born, fate, Adding>> /\ acks \in [Events -> 0 .. 2]
        /\ Adding \subseteq Events
    BY Types DEF Leaves, Removing, Executing, Adding
  <1>2. Head(uploadQ) = uploadQ[1] /\ 1 \in 1 .. Len(uploadQ) /\ Len(uploadQ) \in Nat
    BY <1>1, QueueTail
  <1>3. Event \in Events /\ ~IsObject(Head(uploadQ))
    BY <1>1, <1>2, Types DEF Core, QueueInv, Event, IsObject
  <1>4. \A e \in Events : InObjectOperation(e)' <=> InObjectOperation(e)
    BY <1>1, <1>3, ObjectTail DEF Core
  <1>5. \A e \in Events : acks'[e] = acks[e] \/ acks'[e] = 0
    BY <1>1, <1>3 DEF Leaves
  <1>6. QueueInv'
    BY <1>1, AfterTail DEF Core, QueueInv
  <1>7. FilesInv'
    BY <1>1, AfterTail DEF Core, FilesInv
  <1>8. AddInv'
    BY <1>1, <1>5, AfterTail DEF Core, AddInv
  <1>9. NewInv'
    BY <1>1, <1>5, AfterTail DEF Core, NewInv
  <1>10. HeldInv'
    BY <1>1, <1>4 DEF Core, HeldInv
  <1>11. AckInv'
    <2>1. ASSUME NEW e \in Events, acks'[e] > 0 PROVE e \notin disk' /\ acks[e] > 0 /\ acks'[e] = acks[e]
      <3>1. acks'[e] = acks[e]
        BY <1>5, <2>1
      <3>2. ~Unremoved(e)
        <4>1. Unremoved(e) => acks' = [acks EXCEPT ![e] = 0]
          BY DEF Unremoved, Leaves
        <4>. QED BY <1>1, <2>1, <4>1
      <3>. QED BY <1>1, <2>1, <3>1, <3>2 DEF Core, AckInv
    <2>. QED BY <1>1, <2>1, AfterTail DEF Core, AckInv
  <1>. QED BY <1>6, <1>7, <1>8, <1>9, <1>10, <1>11 DEF Core

\* The event of an operation is written to a file.
LEMMA StoresStep ==
    ASSUME TypeOK, Core, Stores
    PROVE  Core'
  <1>1. /\ uploadQ \in Seq(Operation) /\ uploadQ # <<>> /\ Head(uploadQ).state = "sent"
        /\ uploadQ' = [uploadQ EXCEPT ![1].state = "storing"]
        /\ UNCHANGED <<acks, fate>> /\ WriteFile(Event)
        /\ Adding' = Adding \ {Event} /\ Adding \subseteq Events
    BY Types DEF Stores, Executing, Adding
  <1>2. Head(uploadQ) = uploadQ[1] /\ 1 \in 1 .. Len(uploadQ) /\ Len(uploadQ) \in Nat
    BY <1>1, QueueTail
  <1>3. /\ Event \in Events /\ acks \in [Events -> 0 .. 2] /\ born \in [Events -> Nat]
        /\ clock \in Nat /\ uploadQ[1].kind = "object" /\ uploadQ[1].event = Event
    BY <1>2, Types DEF Event, Operation, Stores, IsFile
  <1>4. born'[Event] > 0 /\ \A e \in Events \ {Event} : born'[e] = born[e]
    BY <1>1, <1>3 DEF WriteFile
  <1>5. \A e \in Events : InObjectOperation(e)' <=> InObjectOperation(e) /\ ~(Event = e)
    <2>1. IsObject(Head(uploadQ))
      BY <1>1, <1>2, <1>3 DEF IsObject
    <2>. QED BY <1>1, <2>1, ObjectState DEF Core
  <1>6. ASSUME NEW i \in 1 .. Len(uploadQ')
        PROVE  /\ i \in 1 .. Len(uploadQ)
               /\ uploadQ'[i].kind = uploadQ[i].kind /\ uploadQ'[i].event = uploadQ[i].event
               /\ i = 1 => uploadQ'[i].state = "storing"
               /\ i # 1 => uploadQ'[i].state = uploadQ[i].state
               /\ uploadQ[i].event \in Events
    BY <1>1, AfterState, Types
  <1>7. QueueInv'
    <2>1. \A i \in 1 .. Len(uploadQ') : i > 1 => uploadQ'[i].state = "ready"
      BY <1>6 DEF Core, QueueInv
    <2>2. ASSUME NEW i \in 1 .. Len(uploadQ')
          PROVE  uploadQ'[i].state \in (IF uploadQ'[i].kind = "file"
                                        THEN {"ready", "sent", "delivered", "discarded"}
                                        ELSE {"ready", "sent", "storing"})
      BY <1>3, <1>6 DEF Core, QueueInv
    <2>3. \A i, j \in 1 .. Len(uploadQ') :
             (uploadQ'[i].kind = "object" /\ uploadQ'[j].kind = "object"
                /\ uploadQ'[i].event = uploadQ'[j].event) => i = j
      BY <1>6 DEF Core, QueueInv
    <2>. QED BY <2>1, <2>2, <2>3 DEF QueueInv
  <1>8. FilesInv'
    <2>1. \A e \in disk' : born'[e] > 0
      BY <1>1, <1>3, <1>4, Types DEF Core, FilesInv, WriteFile
    <2>2. ASSUME NEW i \in 1 .. Len(uploadQ')
          PROVE  IF IsObject(uploadQ'[i]) THEN born'[uploadQ'[i].event] = 0
                                          ELSE born'[uploadQ'[i].event] > 0
      <3>1. CASE i = 1
        BY <1>3, <1>4, <1>6, <3>1 DEF IsObject
      <3>2. CASE i # 1 /\ uploadQ[i].event = Event
        <4>1. uploadQ[i].state = "ready" /\ uploadQ[i].kind # "object"
          BY <1>2, <1>3, <1>6, <2>2, <3>2 DEF Core, QueueInv
        <4>. QED BY <1>4, <1>6, <3>2, <4>1 DEF IsObject
      <3>3. CASE i # 1 /\ uploadQ[i].event # Event
        BY <1>4, <1>6, <3>3 DEF Core, FilesInv, IsObject
      <3>. QED BY <3>1, <3>2, <3>3
    <2>. QED BY <2>1, <2>2 DEF FilesInv
  <1>9. NewInv'
    <2>1. fate[Event] # "new"
      BY <1>2, <1>3 DEF Core, NewInv
    <2>. QED BY <1>1, <1>4, <1>6, <2>1 DEF Core, NewInv
  <1>12. Event \notin Adding
    BY <1>2, <1>3 DEF Core, AddInv
  <1>13. AddInv'
    BY <1>1, <1>4, <1>6 DEF Core, AddInv
  <1>10. HeldInv'
    <2>1. InObjectOperation(Event)
      BY <1>1, <1>2, <1>3 DEF InObjectOperation
    <2>. QED BY <1>1, <1>5, <1>12, <2>1 DEF Core, HeldInv, WriteFile
  <1>11. AckInv'
    <2>1. acks[Event] = 0
      BY <1>1, <1>2, <1>3 DEF Core, AckInv, Unremoved, Executing
    <2>2. \A e \in Events : ~Unremoved(e)
      BY <1>1 DEF Unremoved, Executing
    <2>. QED BY <1>1, <1>3, <1>6, <2>1, <2>2 DEF Core, AckInv, WriteFile
  <1>. QED BY <1>7, <1>8, <1>9, <1>10, <1>11, <1>13 DEF Core

\* The process ends.
LEMMA DieStep ==
    ASSUME TypeOK, Core, NEW R \in SUBSET Events, \A r, q \in R : r = q, Die(R)
    PROVE  Core'
  <1>1. /\ fate \in [Events -> Fates] /\ born \in [Events -> Nat] /\ clock \in Nat
        /\ disk \subseteq Events
    BY Types
  <1>2. /\ uploadQ' = <<>>
        /\ acks' = [e \in Events |-> IF Unremoved(e) THEN 0 ELSE acks[e]]
        /\ fate' = [e \in Events |-> IF e \in R THEN "held"
                                     ELSE IF fate[e] = "held" /\ e \notin disk THEN "lost"
                                     ELSE fate[e]]
    BY DEF Die
  <1>10. Adding' = {}
    BY DEF Die, Adding
  <1>11. \A e \in Events : acks'[e] = acks[e] \/ acks'[e] = 0
    BY <1>2
  <1>3. \A e \in R : fate[e] = "new" /\ born[e] = 0 /\ acks[e] = 0 /\ e \notin disk
    BY <1>1 DEF Die, Core, NewInv, FilesInv
  <1>4. \A e \in Events : ~InObjectOperation(e)'
    BY <1>2 DEF InObjectOperation
  <1>5. disk' = disk \cup R /\ \A e \in Events : IF e \in R THEN born'[e] > 0 ELSE born'[e] = born[e]
    <2>1. CASE R = {} /\ UNCHANGED files
      BY <2>1 DEF files
    <2>2. ASSUME NEW r \in R, WriteFile(r)
          PROVE  disk' = disk \cup R /\ \A e \in Events : IF e \in R THEN born'[e] > 0 ELSE born'[e] = born[e]
      <3>1. R = {r}
        OBVIOUS
      <3>2. disk' = disk \cup R /\ clock' \in Nat /\ clock' > 0 /\ born' = [born EXCEPT ![r] = clock']
        BY <1>1, <2>2, <3>1 DEF WriteFile
      <3>. QED BY <1>1, <3>1, <3>2
    <2>. QED BY <2>1, <2>2 DEF Die
  <1>6. QueueInv' /\ FilesInv'
    BY <1>1, <1>2, <1>5 DEF Core, QueueInv, FilesInv
  <1>12. AddInv'
    BY <1>10 DEF AddInv
  <1>7. NewInv'
    BY <1>2, <1>5, <1>11 DEF Core, NewInv
  <1>8. HeldInv'
    BY <1>1, <1>2, <1>3, <1>4, <1>5, <1>10 DEF Core, HeldInv
  <1>9. AckInv'
    BY <1>2, <1>3, <1>5, <1>11 DEF Core, AckInv
  <1>. QED BY <1>6, <1>7, <1>8, <1>9, <1>12 DEF Core

\* Every step is of one of these kinds.
LEMMA StepKinds ==
    ASSUME TypeOK, ListsInv, Core, [Next]_vars
    PROVE  \/ AddsFile \/ Takes \/ AddsObject \/ Reports \/ Evicts \/ Settles \/ Decides \/ Leaves
           \/ Sends \/ Stores
           \/ \E R \in SUBSET Events : (\A r, q \in R : r = q) /\ Die(R)
  <1>. DEFINE Kinds == \/ AddsFile \/ Takes \/ AddsObject \/ Reports \/ Evicts \/ Settles
                       \/ Decides \/ Leaves \/ Sends \/ Stores
                       \/ \E R \in SUBSET Events : (\A r, q \in R : r = q) /\ Die(R)
  <1>. USE DEF files, store, history
  <1>20. calls \in [Events -> {"idle", "add", "list", "trim"}]
    BY DEF TypeOK
  <1>21. UNCHANGED calls => UNCHANGED Adding
    BY DEF Adding
  <1>1. ASSUME UNCHANGED <<disk, born, acks, fate, uploadQ, calls>> PROVE Kinds
    BY <1>1, <1>21 DEF Evicts, Drops
  <1>2. ASSUME NEW e \in Events, UploadEvent(e) PROVE Kinds
    <2>1. CASE fate' = [fate EXCEPT ![e] = "lost"] /\ UNCHANGED calls
      <3>1. Reports
        BY <1>2, <1>21, <2>1 DEF UploadEvent, Reports
      <3>. QED BY <3>1
    <2>2. CASE fate' = [fate EXCEPT ![e] = "held"] /\ calls' = [calls EXCEPT ![e] = "add"]
      <3>1. Adding' = Adding \cup {e}
        BY <1>20, <2>2 DEF Adding
      <3>2. Takes
        BY <1>2, <2>2, <3>1 DEF UploadEvent, Takes
      <3>. QED BY <3>2
    <2>. QED BY <1>2, <2>1, <2>2 DEF UploadEvent
  <1>22. ASSUME NEW e \in Events, UploadAdd(e) PROVE Kinds
    <2>1. e \in Adding /\ Adding' = Adding \ {e}
      BY <1>20, <1>22 DEF UploadAdd, Adding
    <2>2. AddsObject
      BY <1>22, <2>1 DEF UploadAdd, AddsObject
    <2>. QED BY <2>2
  <1>3. ASSUME NEW e \in Events, StoreEvent(e) PROVE Kinds
    <2>1. calls[e] # "add"
      BY <1>3 DEF StoreEvent, Core, AddInv, Adding
    <2>2. Adding' = Adding
      BY <1>3, <1>20, <2>1 DEF StoreEvent, Adding
    <2>3. Reports
      BY <1>3, <2>2 DEF StoreEvent, Reports
    <2>. QED BY <2>3
  <1>4. ASSUME NEW e \in Events, calls[e] # "add", StoreReturns(e) PROVE Drops /\ UNCHANGED Adding
    <2>1. UNCHANGED Adding
      BY <1>4, <1>20 DEF StoreReturns, Adding
    <2>. QED BY <1>4, <2>1 DEF StoreReturns, Drops, IsObject
  <1>5. ASSUME NEW e \in Events, StoreList(e) PROVE Kinds
    <2>1. Drops /\ UNCHANGED Adding
      <3>1. CASE StoreReturns(e)
        BY <1>4, <1>5, <3>1 DEF StoreList
      <3>2. CASE UNCHANGED uploadQ /\ calls' = [calls EXCEPT ![e] = "trim"]
        BY <1>5, <1>20, <3>2 DEF StoreList, Drops, Adding
      <3>. QED BY <1>5, <3>1, <3>2 DEF StoreList
    <2>2. Evicts
      BY <1>5, <2>1 DEF StoreList, Evicts
    <2>. QED BY <2>2
  <1>6. ASSUME NEW e \in Events, StoreTrim(e) PROVE Kinds
    <2>1. Drops /\ UNCHANGED Adding
      <3>1. CASE StoreReturns(e)
        BY <1>4, <1>6, <3>1 DEF StoreTrim
      <3>2. CASE UNCHANGED <<calls, uploadQ>>
        BY <1>21, <3>2 DEF Drops
      <3>. QED BY <1>6, <3>1, <3>2 DEF StoreTrim
    <2>2. PICK f \in storeList[e] : DeleteExcess(f)
      BY <1>6 DEF StoreTrim
    <2>3. f \in Events
      BY <2>2, Types
    <2>4. Evicts
      BY <1>6, <2>1, <2>2, <2>3 DEF StoreTrim, DeleteExcess, RemoveFiles, Evicts
    <2>. QED BY <2>4
  <1>7. ASSUME ScanTrim PROVE Kinds
    <2>1. PICK f \in scanList : DeleteExcess(f)
      BY <1>7 DEF ScanTrim
    <2>2. f \in Events
      BY <2>1, Types
    <2>3. Evicts
      BY <1>7, <1>21, <2>1, <2>2 DEF ScanTrim, DeleteExcess, RemoveFiles, Evicts, Drops
    <2>. QED BY <2>3
  <1>8. ASSUME ScanAdd \/ LatestAdd PROVE Kinds
    <2>1. AddsFile
      BY <1>8, <1>21, Types DEF ScanAdd, LatestAdd, ListsInv, AddsFile
    <2>. QED BY <2>1
  <1>9. ASSUME LoadMissing \/ FailedFile PROVE Kinds
    <2>1. Drops
      BY <1>9 DEF LoadMissing, FailedFile, Executing, Drops, IsObject, IsFile
    <2>2. Evicts
      BY <1>9, <1>21, <2>1 DEF LoadMissing, FailedFile, Evicts
    <2>. QED BY <2>2
  <1>10. ASSUME LoadUnreadable \/ Discard \/ Undeliverable PROVE Kinds
    <2>1. /\ uploadQ # <<>> /\ Head(uploadQ).state \in {"ready", "sent"}
          /\ DeleteEvent("discarded") /\ UNCHANGED <<disk, born, acks, Adding>>
      BY <1>10, <1>21 DEF LoadUnreadable, Discard, Undeliverable, Executing
    <2>2. CASE IsFile
      <3>1. Decides
        BY <2>1, <2>2 DEF DeleteEvent, Decides
      <3>. QED BY <3>1
    <2>3. CASE ~IsFile
      <3>1. Settles
        BY <2>1, <2>3 DEF DeleteEvent, Settles
      <3>. QED BY <3>1
    <2>. QED BY <2>2, <2>3
  <1>11. ASSUME NoURL PROVE Kinds
    <2>1. CASE IsFile
      <3>1. Drops
        BY <1>11, <2>1 DEF NoURL, Executing, Drops, IsObject, IsFile
      <3>2. Evicts
        BY <1>11, <1>21, <2>1, <3>1 DEF NoURL, Evicts
      <3>. QED BY <3>2
    <2>2. CASE ~IsFile
      <3>1. Settles
        BY <1>11, <1>21, <2>2 DEF NoURL, Executing, Settles
      <3>. QED BY <3>1
    <2>. QED BY <2>1, <2>2
  <1>12. ASSUME Send PROVE Kinds
    BY <1>12, <1>21 DEF Send, Sends
  <1>13. ASSUME Delivered PROVE Kinds
    <2>1. /\ uploadQ # <<>> /\ Head(uploadQ).state = "sent"
          /\ DeleteEvent("delivered") /\ UNCHANGED <<disk, born, Adding>>
          /\ acks' = [acks EXCEPT ![Event] = IF @ < 2 THEN @ + 1 ELSE @]
      BY <1>13, <1>21 DEF Delivered, Executing
    <2>2. CASE IsFile
      <3>1. Decides
        BY <2>1, <2>2 DEF DeleteEvent, Decides
      <3>. QED BY <3>1
    <2>3. CASE ~IsFile
      <3>1. Settles
        BY <2>1, <2>3 DEF DeleteEvent, Settles
      <3>. QED BY <3>1
    <2>. QED BY <2>2, <2>3
  <1>14. ASSUME FailedObject PROVE Kinds
    <2>1. CASE /\ uploadQ' = Tail(uploadQ) /\ fate' = Meets(Event, "lost")
               /\ UNCHANGED <<disk, born, calls>>
      <3>1. Settles
        BY <1>14, <1>21, <2>1 DEF FailedObject, Executing, Settles
      <3>. QED BY <3>1
    <2>2. CASE /\ WriteFile(Event) /\ calls' = [calls EXCEPT ![Event] = "list"] /\ UNCHANGED fate
               /\ uploadQ' = [uploadQ EXCEPT ![1].state = "storing"]
      <3>1. Adding' = Adding \ {Event}
        BY <1>20, <2>2 DEF Adding
      <3>2. Stores
        BY <1>14, <2>2, <3>1 DEF FailedObject, Stores
      <3>. QED BY <3>2
    <2>. QED BY <1>14, <2>1, <2>2 DEF FailedObject
  <1>18. ASSUME Removed PROVE Kinds
    <2>1. uploadQ # <<>> /\ Head(uploadQ).state \in {"delivered", "discarded"}
      BY <1>18 DEF Removed, Removing, Executing
    <2>2. IsFile
      <3>1. Head(uploadQ) = uploadQ[1] /\ 1 \in 1 .. Len(uploadQ)
        BY <2>1, QueueTail DEF TypeOK
      <3>. QED BY <2>1, <3>1 DEF Core, QueueInv, IsFile
    <2>3. Settles
      BY <1>18, <1>21, <2>1, <2>2 DEF Removed, RemoveFiles, Settles
    <2>. QED BY <2>3
  <1>19. ASSUME NotRemoved PROVE Kinds
    <2>1. Leaves
      BY <1>19, <1>21 DEF NotRemoved, Leaves
    <2>. QED BY <2>1
  <1>15. ASSUME NEW R \in SUBSET Events, \A r, q \in R : r = q, Die(R) PROVE Kinds
    BY <1>15
  <1>16. ASSUME \/ UploadStoredEvents \/ AddScan \/ ScanList \/ ScanCheck \/ Launch \/ LatestFind
                \/ LatestWaitEnds \/ StartScan \/ UNCHANGED vars
         PROVE  Kinds
    BY <1>1, <1>16 DEF UploadStoredEvents, AddScan, ScanList, ScanCheck, Launch, LatestFind,
                       LatestWaitEnds, StartScan, vars
  <1>. HIDE DEF Kinds
  <1>17. Kinds
    BY <1>2, <1>3, <1>5, <1>6, <1>7, <1>8, <1>9, <1>10, <1>11, <1>12, <1>13, <1>14, <1>15, <1>16,
       <1>18, <1>19, <1>22
       DEF Next, Store, Scan, Start, Run, Answer
  <1>. QED BY <1>17 DEF Kinds

\* A file that has been created stays created.
LEMMA BornStays ==
    ASSUME TypeOK, [Next]_vars, NEW e \in Events, born[e] > 0
    PROVE  born'[e] > 0
  <1>1. born \in [Events -> Nat] /\ clock \in Nat
    BY Types
  <1>2. ASSUME NEW f, WriteFile(f) PROVE born'[e] > 0
    BY <1>1, <1>2 DEF WriteFile
  <1>3. (\E f : WriteFile(f)) \/ UNCHANGED born
    BY DEF Next, vars, files, UploadEvent, UploadAdd, AddScan, Removed, NotRemoved, StoreEvent, Store, StoreList, StoreTrim,
           UploadStoredEvents, Scan, ScanList, ScanTrim, ScanCheck, ScanAdd, Launch, Start,
           LatestFind, LatestAdd, LatestWaitEnds, StartScan, Run, LoadMissing, LoadUnreadable,
           Discard, NoURL, Send, Answer, Delivered, Undeliverable, FailedFile, FailedObject, Die
  <1>. QED BY <1>2, <1>3

\* A list of file names stays a list of what was there when it was taken.
LEMMA ListsStep ==
    ASSUME TypeOK, ListsInv, FilesInv, [Next]_vars
    PROVE  ListsInv'
  <1>1. scanList' \cup latest' \subseteq scanList \cup latest \cup disk
    BY DEF Next, vars, scan, process, UploadEvent, UploadAdd, AddScan, Removed, NotRemoved, StoreEvent, Store, StoreList, StoreTrim,
           UploadStoredEvents, RequestScan, Scan, ScanList, ScanTrim, ScanCheck, ScanAdd, ScanGoesOn,
           Launch, Start, LatestFind, LatestAdd, LatestWaitEnds, StartScan, Run, LoadMissing,
           LoadUnreadable, Discard, NoURL, Send, Answer, Delivered, Undeliverable, FailedFile,
           FailedObject, Die
  <1>2. ASSUME NEW e \in Events PROVE storeList'[e] \subseteq storeList[e] \cup disk
    <2>1. storeList \in [Events -> SUBSET Events]
      BY Types
    <2>2. ASSUME NEW g \in Events, StoreList(g) \/ StoreTrim(g)
          PROVE  storeList'[e] \subseteq storeList[e] \cup disk
      BY <2>1, <2>2 DEF StoreList, StoreTrim, StoreReturns
    <2>3. ASSUME NEW R, Die(R) PROVE storeList'[e] \subseteq storeList[e] \cup disk
      BY <2>3 DEF Die
    <2>4. ASSUME UNCHANGED storeList PROVE storeList'[e] \subseteq storeList[e] \cup disk
      BY <2>4
    <2>. QED BY <2>2, <2>3, <2>4
             DEF Next, vars, store, UploadEvent, UploadAdd, AddScan, Removed, NotRemoved, StoreEvent, Store, UploadStoredEvents, Scan,
                 ScanList, ScanTrim, ScanCheck, ScanAdd, Launch, Start, LatestFind, LatestAdd,
                 LatestWaitEnds, StartScan, Run, LoadMissing, LoadUnreadable, Discard, NoURL, Send,
                 Answer, Delivered, Undeliverable, FailedFile, FailedObject
  <1>3. disk \cup scanList \cup latest \subseteq Events
        /\ \A e \in Events : storeList[e] \subseteq Events
    BY Types
  <1>. QED BY <1>1, <1>2, <1>3, BornStays DEF ListsInv, FilesInv

\* The inductive invariant holds in every reachable state.
LEMMA Invariant == Spec => []IInv
  <1>1. Init => IInv
    <2>1. Init => TypeOK /\ ScanCounted
      BY TypeInit
    <2>. QED BY <2>1 DEF Init, IInv, ListsInv, Core, QueueInv, FilesInv, AddInv, NewInv, HeldInv,
                         AckInv, InObjectOperation, Adding
  <1>2. IInv /\ [Next]_vars => IInv'
    <2>. SUFFICES ASSUME IInv, [Next]_vars PROVE IInv'
      OBVIOUS
    <2>1. TypeOK' /\ ScanCounted'
      BY TypeStep, ScanCountedStep DEF IInv
    <2>2. ListsInv'
      BY ListsStep DEF IInv, Core
    <2>3. Core'
      BY StepKinds, AddsFileStep, TakesStep, AddsObjectStep, ReportsStep, EvictsStep, SettlesStep,
         DecidesStep, LeavesStep, SendsStep, StoresStep, DieStep DEF IInv
    <2>. QED BY <2>1, <2>2, <2>3 DEF IInv
  <1>. QED BY <1>1, <1>2, PTL DEF Spec

\* An event the library has taken and nothing has become of is in a file, in an
\* operation that stores it if sending fails or on its way into one, and an event something has
\* become of is in neither: for any number of events, reporting threads and
\* ends of the process.
THEOREM CustodyKept == Spec => []Custody
  <1>1. IInv => Custody
    BY DEF IInv, Core, HeldInv, Adding, Custody
  <1>. QED BY <1>1, Invariant, PTL

\* No event is confirmed by the server twice unless the removal of its file
\* failed or the process ended before it, although deliveries, removals,
\* evictions and scans that read the directory earlier run in any order.
THEOREM NeverAcknowledgedTwice == Spec => []AcknowledgedOnce
  <1>1. IInv => AcknowledgedOnce
    BY Types DEF IInv, Core, AckInv, AcknowledgedOnce
  <1>. QED BY <1>1, Invariant, PTL

-----------------------------------------------------------------------------
(***************************************************************************)
(* Evictions make room for newer events only, and EventUploader implements *)
(* EventCustody.  Both rest on IInv and on what it does not say: that      *)
(* creation dates tell files apart, and that a thread which trims still    *)
(* has more files in its list than the limit allows.                       *)
(***************************************************************************)

BornInv ==
    /\ \A e \in Events : born[e] <= clock
    /\ \A e, f \in Events : born[e] = born[f] /\ born[e] > 0 => e = f

TrimInv == \A e \in Events :
               calls[e] = "trim" => Cardinality(storeList[e]) > MaxPersistedEvents

\* An event that was evicted had a file.
EvictedBorn == \A e \in Events : fate[e] = "evicted" => born[e] > 0

CustodyInv == IInv /\ BornInv /\ TrimInv /\ EvictedBorn /\ EvictedForNewer

-----------------------------------------------------------------------------
(***************************************************************************)
(* The steps, by what they change of the files and the fates.              *)
(***************************************************************************)

\* f is the oldest of a list of more than maxPersistedEvents files.
Excess(f) == \E S \in SUBSET Events :
                /\ Cardinality(S) > MaxPersistedEvents
                /\ IsOldest(f, S)
                /\ \A g \in S : born[g] > 0

Rests == UNCHANGED <<disk, clock, born, fate>>

Accepts(e) == /\ fate[e] = "new" /\ fate' = [fate EXCEPT ![e] = "held"]
              /\ UNCHANGED <<disk, clock, born>>

Writes(e) == /\ fate[e] \in {"new", "held"} /\ born[e] = 0
             /\ WriteFile(e) /\ fate' = [fate EXCEPT ![e] = "held"]

Loses(e) == /\ fate[e] \in {"new", "held"} /\ e \notin disk
            /\ fate' = [fate EXCEPT ![e] = "lost"]
            /\ UNCHANGED <<disk, clock, born>>

Ends(e, x) == /\ disk' \in {disk, disk \ {e}} /\ fate' = Meets(e, x)
              /\ UNCHANGED <<clock, born>>

EvictsFile(e) == /\ Excess(e) /\ disk' = disk \ {e}
                 /\ fate' = IF e \in disk THEN Meets(e, "evicted") ELSE fate
                 /\ UNCHANGED <<clock, born>>

\* A file that a list names is in Excess if it is the oldest of too many.  It is
\* evicted, or its removal fails.
LEMMA ExcessOfList ==
    ASSUME NEW S \in SUBSET Events, Cardinality(S) > MaxPersistedEvents,
           \A g \in S : born[g] > 0, NEW f \in S, IsOldest(f, S), DeleteExcess(f),
           UNCHANGED <<clock, born>>
    PROVE  EvictsFile(f) \/ Rests
  BY DEF EvictsFile, Excess, DeleteExcess, RemoveFiles, Rests

\* What the invariant says of the operation that executes.
LEMMA ObjectHasNoFile ==
    ASSUME IInv, NEW s \in {"ready", "sent"}, Executing(s), ~IsFile
    PROVE  Event \in Events /\ fate[Event] = "held" /\ born[Event] = 0 /\ Event \notin disk
  <1>1. /\ uploadQ # <<>> /\ uploadQ[1] = Head(uploadQ) /\ Head(uploadQ) \in Operation
        /\ Event \in Events
    BY HeadType DEF IInv
  <1>2. 1 \in 1 .. Len(uploadQ)
    BY <1>1, QueueTail DEF IInv, TypeOK
  <1>3. IsObject(Head(uploadQ)) /\ Head(uploadQ).event = Event /\ Head(uploadQ).kind = "object"
        /\ Head(uploadQ).state # "storing"
    BY <1>1 DEF IsObject, Executing, IsFile, Operation, Event
  <1>4. InObjectOperation(Event)
    BY <1>1, <1>2, <1>3 DEF InObjectOperation
  <1>5. born[Event] = 0
    BY <1>1, <1>2, <1>3 DEF IInv, Core, FilesInv
  <1>. QED BY <1>1, <1>4, <1>5, Types DEF IInv, Core, HeldInv, FilesInv

\* Every step of the uploader is one of few kinds, by what it does to files,
\* operations and fates.
LEMMA Kinds ==
    ASSUME CustodyInv, [Next]_vars
    PROVE  \/ Rests
           \/ \E e \in Events : \/ Accepts(e) \/ Writes(e) \/ Loses(e) \/ EvictsFile(e)
                                \/ Ends(e, "delivered") \/ Ends(e, "discarded")
           \/ Die({}) \/ \E r \in Events : Die({r})
  <1>. DEFINE Kind == \/ Rests
                      \/ \E e \in Events : \/ Accepts(e) \/ Writes(e) \/ Loses(e) \/ EvictsFile(e)
                                           \/ Ends(e, "delivered") \/ Ends(e, "discarded")
                      \/ Die({}) \/ \E r \in Events : Die({r})
  <1>. USE DEF files, history
  <1>1. TypeOK /\ \A e \in Events : fate[e] = "new" => born[e] = 0 /\ e \notin disk
    BY Types DEF CustodyInv, IInv, Core, NewInv, FilesInv
  <1>2. ASSUME NEW e \in Events, UploadEvent(e) PROVE Kind
    BY <1>1, <1>2 DEF UploadEvent, Accepts, Loses
  <1>3. ASSUME NEW e \in Events, StoreEvent(e) PROVE Kind
    BY <1>1, <1>3 DEF StoreEvent, Writes, Loses
  <1>4. ASSUME NEW e \in Events, StoreTrim(e) PROVE Kind
    <2>1. PICK f \in storeList[e] : IsOldest(f, storeList[e]) /\ DeleteExcess(f)
      BY <1>4 DEF StoreTrim
    <2>2. storeList[e] \in SUBSET Events /\ \A g \in storeList[e] : born[g] > 0
      BY <1>1, Types DEF CustodyInv, IInv, ListsInv
    <2>3. Cardinality(storeList[e]) > MaxPersistedEvents
      BY <1>4 DEF StoreTrim, CustodyInv, TrimInv
    <2>4. EvictsFile(f) \/ Rests
      BY <1>4, <2>1, <2>2, <2>3, ExcessOfList DEF StoreTrim
    <2>. QED BY <2>2, <2>4
  <1>5. ASSUME ScanTrim PROVE Kind
    <2>1. PICK f \in scanList : IsOldest(f, scanList) /\ DeleteExcess(f)
      BY <1>5 DEF ScanTrim
    <2>2. scanList \in SUBSET Events /\ \A g \in scanList : born[g] > 0
      BY <1>1, Types DEF CustodyInv, IInv, ListsInv
    <2>3. EvictsFile(f) \/ Rests
      BY <1>5, <2>1, <2>2, ExcessOfList DEF ScanTrim
    <2>. QED BY <2>2, <2>3
  <1>6. ASSUME LoadUnreadable \/ Discard \/ Undeliverable PROVE Kind
    <2>1. Event \in Events
      BY <1>1, <1>6, HeadType DEF LoadUnreadable, Discard, Undeliverable
    <2>2. Ends(Event, "discarded") \/ Rests
      BY <1>6 DEF LoadUnreadable, Discard, Undeliverable, DeleteEvent, Ends, Rests
    <2>. QED BY <2>1, <2>2
  <1>7. ASSUME Delivered PROVE Kind
    <2>1. Event \in Events
      BY <1>1, <1>7, HeadType DEF Delivered
    <2>2. Ends(Event, "delivered") \/ Rests
      BY <1>7 DEF Delivered, DeleteEvent, Ends, Rests
    <2>. QED BY <2>1, <2>2
  <1>18. ASSUME Removed PROVE Kind
    <2>1. Event \in Events /\ Head(uploadQ).state \in {"delivered", "discarded"}
      BY <1>1, <1>18, HeadType DEF Removed, Removing, Executing
    <2>2. Ends(Event, Head(uploadQ).state)
      BY <1>18 DEF Removed, RemoveFiles, Ends
    <2>. QED BY <2>1, <2>2
  <1>8. ASSUME NoURL PROVE Kind
    <2>1. CASE IsFile
      BY <1>8, <2>1 DEF NoURL, Rests
    <2>2. CASE ~IsFile
      <3>1. Event \in Events /\ fate[Event] = "held" /\ Event \notin disk
        BY <1>8, <2>2, ObjectHasNoFile DEF NoURL, CustodyInv
      <3>2. Loses(Event)
        BY <1>8, <2>2, <3>1 DEF NoURL, Meets, Loses
      <3>. QED BY <3>1, <3>2
    <2>. QED BY <2>1, <2>2
  <1>9. ASSUME FailedObject PROVE Kind
    <2>1. Event \in Events /\ fate[Event] = "held" /\ born[Event] = 0 /\ Event \notin disk
      BY <1>9, ObjectHasNoFile DEF FailedObject, CustodyInv
    <2>2. fate \in [Events -> Fates]
      BY <1>1, Types
    <2>3. Writes(Event) \/ Loses(Event)
      BY <1>9, <2>1, <2>2 DEF FailedObject, Writes, Loses, Meets
    <2>. QED BY <2>1, <2>3
  <1>10. ASSUME \/ \E e \in Events : StoreList(e) \/ UploadAdd(e)
                \/ AddScan \/ NotRemoved \/ UploadStoredEvents \/ ScanList \/ ScanCheck \/ ScanAdd \/ Launch \/ Start
                \/ LoadMissing \/ Send \/ FailedFile \/ UNCHANGED vars
         PROVE  Kind
    BY <1>10 DEF StoreList, UploadAdd, AddScan, NotRemoved, UploadStoredEvents, ScanList, ScanCheck, ScanAdd, Launch, Start,
                 LatestFind, LatestAdd, LatestWaitEnds, StartScan, LoadMissing, Send, FailedFile,
                 vars, Rests
  <1>. HIDE DEF Kind
  <1>11. ASSUME Die({}) \/ \E r \in Events : Die({r}) PROVE Kind
    BY <1>11 DEF Kind
  <1>12. ASSUME Store PROVE Kind
    BY <1>4, <1>10, <1>12 DEF Store
  <1>13. ASSUME Scan PROVE Kind
    BY <1>5, <1>10, <1>13 DEF Scan
  <1>14. ASSUME Run \/ Answer PROVE Kind
    BY <1>6, <1>7, <1>8, <1>9, <1>10, <1>14, <1>18 DEF Run, Answer
  <1>15. ASSUME UNCHANGED vars PROVE Kind
    BY <1>10, <1>15
  <1>16. ASSUME Next PROVE Kind
    BY <1>2, <1>3, <1>10, <1>11, <1>12, <1>13, <1>14, <1>16 DEF Next
  <1>17. Kind
    BY <1>15, <1>16
  <1>. QED BY <1>17 DEF Kind

-----------------------------------------------------------------------------
(***************************************************************************)
(* Evictions                                                               *)
(***************************************************************************)

NewerThan(e) == {f \in Events : born[f] > born[e]}

\* The files of a list other than its oldest are newer than that.
LEMMA ExcessIsOutnumbered ==
    ASSUME TypeOK, BornInv, NEW e \in Events, Excess(e)
    PROVE  born[e] > 0 /\ Cardinality(NewerThan(e)) >= MaxPersistedEvents
  <1>1. PICK S \in SUBSET Events : /\ Cardinality(S) > MaxPersistedEvents
                                   /\ IsOldest(e, S)
                                   /\ \A g \in S : born[g] > 0
    BY DEF Excess
  <1>2. IsFiniteSet(S) /\ IsFiniteSet(NewerThan(e)) /\ IsFiniteSet(S \ {e})
    BY EventsAssumption, FS_Subset, FS_RemoveElement DEF NewerThan
  <1>3. S \ {e} \subseteq NewerThan(e)
    BY <1>1, Types DEF NewerThan, IsOldest, BornInv
  <1>4. Cardinality(S \ {e}) = Cardinality(S) - 1
    BY <1>1, <1>2, FS_RemoveElement DEF IsOldest
  <1>5. Cardinality(S \ {e}) <= Cardinality(NewerThan(e))
    BY <1>2, <1>3, FS_Subset
  <1>6. /\ Cardinality(S) \in Nat /\ Cardinality(S \ {e}) \in Nat
        /\ Cardinality(NewerThan(e)) \in Nat /\ MaxPersistedEvents \in Nat
    BY <1>2, FS_CardinalityType, MaxPersistedAssumption
  <1>7. Cardinality(NewerThan(e)) >= MaxPersistedEvents
    BY <1>1, <1>4, <1>5, <1>6
  <1>. QED BY <1>1, <1>7 DEF IsOldest

\* A step leaves the creation dates alone, or the event of a new file, which
\* has not been evicted, gets a date later than all.
LEMMA BornStep ==
    ASSUME CustodyInv, [Next]_vars
    PROVE  \/ UNCHANGED <<clock, born>>
           \/ \E e \in Events : born[e] = 0 /\ fate[e] \in {"new", "held"} /\ WriteFile(e)
  <1>1. ASSUME NEW r \in Events, Die({r})
        PROVE  born[r] = 0 /\ fate[r] \in {"new", "held"} /\ WriteFile(r)
    BY <1>1 DEF Die, CustodyInv, IInv, Core, NewInv
  <1>2. ASSUME Die({}) PROVE UNCHANGED <<clock, born>>
    BY <1>2 DEF Die, files
  <1>. QED BY <1>1, <1>2, Kinds DEF Rests, Accepts, Writes, Loses, Ends, EvictsFile

\* Only events that were written have a date, and no two have the same.
LEMMA BornInvStep ==
    ASSUME CustodyInv, [Next]_vars
    PROVE  BornInv'
  <1>1. born \in [Events -> Nat] /\ clock \in Nat
    BY Types DEF CustodyInv, IInv
  <1>2. CASE UNCHANGED <<clock, born>>
    BY <1>2 DEF CustodyInv, BornInv
  <1>3. ASSUME NEW e \in Events, WriteFile(e) PROVE BornInv'
    <2>1. clock' = clock + 1 /\ born' = [born EXCEPT ![e] = clock + 1]
      BY <1>3 DEF WriteFile
    <2>. QED BY <1>1, <2>1 DEF CustodyInv, BornInv
  <1>. QED BY <1>2, <1>3, BornStep

\* Nothing that was newer than an evicted event's file stops being so.
LEMMA NewerStays ==
    ASSUME CustodyInv, [Next]_vars, NEW e \in Events,
           born[e] > 0, Cardinality(NewerThan(e)) >= MaxPersistedEvents
    PROVE  born'[e] > 0 /\ Cardinality(NewerThan(e)') >= MaxPersistedEvents
  <1>1. born \in [Events -> Nat] /\ clock \in Nat /\ \A f \in Events : born[f] <= clock
    BY Types DEF CustodyInv, IInv, BornInv
  <1>2. \A f \in Events : born'[f] >= born[f] /\ (born[f] > 0 => born'[f] = born[f])
    <2>1. ASSUME NEW g \in Events, born[g] = 0, WriteFile(g)
          PROVE  \A f \in Events : born'[f] >= born[f] /\ (born[f] > 0 => born'[f] = born[f])
      BY <1>1, <2>1 DEF WriteFile
    <2>. QED BY <1>1, <2>1, BornStep
  <1>3. born' \in [Events -> Nat]
    <2>1. ASSUME NEW g \in Events, WriteFile(g) PROVE born' \in [Events -> Nat]
      BY <1>1, <2>1 DEF WriteFile
    <2>. QED BY <1>1, <2>1, BornStep
  <1>4. NewerThan(e) \subseteq NewerThan(e)'
    BY <1>1, <1>2, <1>3 DEF NewerThan
  <1>5. IsFiniteSet(NewerThan(e)') /\ IsFiniteSet(NewerThan(e))
    BY EventsAssumption, FS_Subset DEF NewerThan
  <1>6. Cardinality(NewerThan(e)) <= Cardinality(NewerThan(e)')
    BY <1>4, <1>5, FS_Subset
  <1>7. Cardinality(NewerThan(e)) \in Nat /\ Cardinality(NewerThan(e)') \in Nat
    BY <1>5, FS_CardinalityType
  <1>. QED BY <1>2, <1>6, <1>7, MaxPersistedAssumption

\* Only an eviction makes an event an evicted one.
LEMMA EvictedStep ==
    ASSUME CustodyInv, [Next]_vars, NEW e \in Events, fate'[e] = "evicted"
    PROVE  fate[e] = "evicted" \/ Excess(e)
  <1>1. fate \in [Events -> Fates]
    BY Types DEF CustodyInv, IInv
  <1>2. ASSUME NEW R, Die(R) PROVE fate[e] = "evicted"
    BY <1>2 DEF Die
  <1>3. ASSUME NEW f \in Events, EvictsFile(f) PROVE fate[e] = "evicted" \/ Excess(e)
    BY <1>1, <1>3 DEF EvictsFile, Meets
  <1>4. ASSUME NEW f \in Events, Ends(f, "delivered") \/ Ends(f, "discarded") PROVE fate[e] = "evicted"
    BY <1>1, <1>4 DEF Ends, Meets
  <1>5. ASSUME NEW f \in Events, Accepts(f) \/ Writes(f) \/ Loses(f) PROVE fate[e] = "evicted"
    BY <1>1, <1>5 DEF Accepts, Writes, Loses
  <1>6. ASSUME Rests PROVE fate[e] = "evicted"
    BY <1>6 DEF Rests
  <1>. QED BY <1>2, <1>3, <1>4, <1>5, <1>6, Kinds

\* An event is evicted only when newer ones were stored: the list was sorted by
\* date.
LEMMA EvictionStep ==
    ASSUME CustodyInv, [Next]_vars
    PROVE  EvictedBorn' /\ EvictedForNewer'
  <1>1. ASSUME NEW e \in Events, fate'[e] = "evicted"
        PROVE  born'[e] > 0 /\ Cardinality(NewerThan(e)') >= MaxPersistedEvents
    <2>1. born[e] > 0 /\ Cardinality(NewerThan(e)) >= MaxPersistedEvents
      BY <1>1, EvictedStep, ExcessIsOutnumbered
         DEF CustodyInv, IInv, EvictedBorn, EvictedForNewer, NewerThan
    <2>. QED BY <2>1, NewerStays
  <1>. QED BY <1>1 DEF EvictedBorn, EvictedForNewer, NewerThan

\* A thread starts to trim when its list is too long, and stops when it is not.
LEMMA TrimInvStep ==
    ASSUME CustodyInv, [Next]_vars
    PROVE  TrimInv'
  <1>1. /\ calls \in [Events -> {"idle", "add", "list", "trim"}]
        /\ storeList \in [Events -> SUBSET Events]
    BY DEF CustodyInv, IInv, TypeOK
  <1>2. ASSUME NEW e \in Events, StoreReturns(e) PROVE TrimInv'
    BY <1>1, <1>2 DEF StoreReturns, CustodyInv, TrimInv
  <1>3. ASSUME NEW e \in Events, StoreList(e) PROVE TrimInv'
    BY <1>1, <1>2, <1>3 DEF StoreList, CustodyInv, TrimInv
  <1>4. ASSUME NEW e \in Events, StoreTrim(e) PROVE TrimInv'
    <2>1. PICK f \in storeList[e] :
             \/ /\ Cardinality(storeList[e]) > MaxPersistedEvents + 1
                /\ storeList' = [storeList EXCEPT ![e] = storeList[e] \ {f}]
                /\ UNCHANGED calls
             \/ StoreReturns(e)
      BY <1>4 DEF StoreTrim
    <2>2. CASE StoreReturns(e)
      BY <1>2, <2>2
    <2>3. CASE /\ Cardinality(storeList[e]) > MaxPersistedEvents + 1
               /\ storeList' = [storeList EXCEPT ![e] = storeList[e] \ {f}]
               /\ UNCHANGED calls
      <3>1. IsFiniteSet(storeList[e])
        BY <1>1, EventsAssumption, FS_Subset
      <3>2. Cardinality(storeList[e] \ {f}) = Cardinality(storeList[e]) - 1
            /\ Cardinality(storeList[e]) \in Nat
        BY <3>1, FS_RemoveElement, FS_CardinalityType
      <3>3. Cardinality(storeList'[e]) > MaxPersistedEvents
        BY <1>1, <2>3, <3>2, MaxPersistedAssumption
      <3>4. \A g \in Events \ {e} : storeList'[g] = storeList[g]
        BY <1>1, <2>3
      <3>. QED BY <2>3, <3>3, <3>4 DEF CustodyInv, TrimInv
    <2>. QED BY <2>1, <2>2, <2>3
  <1>5. ASSUME NEW e \in Events, StoreEvent(e) PROVE TrimInv'
    BY <1>1, <1>5 DEF StoreEvent, CustodyInv, TrimInv
  <1>6. ASSUME FailedObject PROVE TrimInv'
    BY <1>1, <1>6 DEF FailedObject, CustodyInv, TrimInv
  <1>7. ASSUME NEW R, Die(R) PROVE TrimInv'
    BY <1>7 DEF Die, TrimInv
  <1>8. ASSUME UNCHANGED store PROVE TrimInv'
    BY <1>8 DEF store, CustodyInv, TrimInv
  <1>9. CASE UploadStoredEvents \/ AddScan \/ Scan \/ Launch \/ Start \/ Run \/ UNCHANGED vars
    BY <1>8, <1>9 DEF UploadStoredEvents, AddScan, Removed, NotRemoved, Scan, ScanList, ScanTrim, ScanCheck, ScanAdd, Launch,
                      Start, LatestFind, LatestAdd, LatestWaitEnds, StartScan, Run, LoadMissing,
                      LoadUnreadable, Discard, NoURL, Send, vars
  <1>10. CASE Answer
    BY <1>6, <1>8, <1>10 DEF Answer, Delivered, Undeliverable, FailedFile
  <1>11. CASE \E e \in Events : UploadEvent(e) \/ UploadAdd(e)
    BY <1>1, <1>11 DEF UploadEvent, UploadAdd, CustodyInv, TrimInv
  <1>. QED BY <1>3, <1>4, <1>5, <1>7, <1>9, <1>10, <1>11 DEF Next, Store

\* The invariant the refinement rests on holds in every reachable state.
LEMMA CustodyInvariant == Spec => []CustodyInv
  <1>1. Init => BornInv /\ TrimInv /\ EvictedBorn /\ EvictedForNewer
    BY DEF Init, BornInv, TrimInv, EvictedBorn, EvictedForNewer
  <1>2. Init /\ IInv => CustodyInv
    BY <1>1 DEF CustodyInv
  <1>3. CustodyInv /\ [Next]_vars /\ IInv' => CustodyInv'
    BY BornInvStep, TrimInvStep, EvictionStep DEF CustodyInv
  <1>. QED BY <1>2, <1>3, Invariant, PTL DEF Spec

\* An event is given up to the limit only for at least maxPersistedEvents newer
\* ones, however many threads and scans trim lists of the same directory that
\* were made at different times.
THEOREM AlwaysEvictedForNewer == Spec => []EvictedForNewer
  <1>1. CustodyInv => EvictedForNewer
    BY DEF CustodyInv
  <1>. QED BY <1>1, CustodyInvariant, PTL

-----------------------------------------------------------------------------
(***************************************************************************)
(* Refinement: each kind of step is a step of EventCustody or changes      *)
(* nothing that it speaks of.                                              *)
(***************************************************************************)

\* Where an event is, by its fate and its file.
LEMMA WhereaboutsOf ==
    ASSUME NEW e \in Events
    PROVE  /\ Whereabouts[e] = IF fate[e] # "held" THEN fate[e]
                               ELSE IF e \in disk THEN "disk" ELSE "memory"
           /\ Whereabouts'[e] = IF fate'[e] # "held" THEN fate'[e]
                                ELSE IF e \in disk' THEN "disk" ELSE "memory"
  BY DEF Whereabouts

\* Whereabouts is a function on events, before and after a step.
LEMMA WhereaboutsDomain ==
    /\ Whereabouts = [e \in Events |-> Whereabouts[e]]
    /\ Whereabouts' = [e \in Events |-> Whereabouts'[e]]
  BY DEF Whereabouts

\* A step that moves one event.
LEMMA Moved ==
    ASSUME NEW e \in Events, NEW c, Whereabouts'[e] = c,
           \A f \in Events \ {e} : fate'[f] = fate[f] /\ (f \in disk' <=> f \in disk)
    PROVE  Whereabouts' = [Whereabouts EXCEPT ![e] = c]
  <1>1. \A f \in Events \ {e} : Whereabouts'[f] = Whereabouts[f]
    BY WhereaboutsOf
  <1>. QED BY <1>1, WhereaboutsDomain

\* A step that moves none.
LEMMA Unmoved ==
    ASSUME \A f \in Events : fate'[f] = fate[f] /\ (fate[f] = "held" => (f \in disk' <=> f \in disk))
    PROVE  UNCHANGED Whereabouts
  <1>1. \A f \in Events : Whereabouts'[f] = Whereabouts[f]
    BY WhereaboutsOf
  <1>. QED BY <1>1, WhereaboutsDomain

\* A file that is written is the newest.
LEMMA WrittenIsStamped ==
    ASSUME CustodyInv, NEW e \in Events, born[e] = 0, WriteFile(e)
    PROVE  Promise!Stamped(e)
  <1>1. born \in [Events -> Nat] /\ clock \in Nat /\ \A f \in Events : born[f] <= clock
    BY Types DEF CustodyInv, IInv, BornInv
  <1>2. born' = [born EXCEPT ![e] = clock + 1]
    BY DEF WriteFile
  <1>3. born'[e] = clock + 1
    BY <1>1, <1>2
  <1>. QED BY <1>1, <1>2, <1>3 DEF Promise!Stamped

\* An event is taken: the abstract event is accepted.
LEMMA AcceptsRefines ==
    ASSUME CustodyInv, NEW e \in Events, Accepts(e)
    PROVE  Promise!Accept(e)
  <1>1. fate \in [Events -> Fates] /\ fate[e] = "new" /\ e \notin disk
    BY Types DEF Accepts, CustodyInv, IInv, Core, NewInv, FilesInv
  <1>2. Whereabouts[e] = "new" /\ Whereabouts'[e] = "memory"
    BY <1>1, WhereaboutsOf DEF Accepts
  <1>3. Whereabouts' = [Whereabouts EXCEPT ![e] = "memory"]
    BY <1>1, <1>2, Moved DEF Accepts
  <1>. QED BY <1>2, <1>3 DEF Promise!Accept, Accepts

\* A file is written: the abstract event is persisted.
LEMMA WritesRefines ==
    ASSUME CustodyInv, NEW e \in Events, Writes(e)
    PROVE  Promise!Persist(e)
  <1>1. fate \in [Events -> Fates] /\ fate[e] \in {"new", "held"} /\ e \notin disk
        /\ disk' = disk \cup {e}
    BY Types DEF Writes, WriteFile, CustodyInv, IInv, Core, FilesInv
  <1>2. Whereabouts[e] \in {"new", "memory"} /\ Whereabouts'[e] = "disk"
    BY <1>1, WhereaboutsOf DEF Writes
  <1>3. Whereabouts' = [Whereabouts EXCEPT ![e] = "disk"]
    BY <1>1, <1>2, Moved DEF Writes
  <1>4. Promise!Stamped(e)
    BY WrittenIsStamped DEF Writes
  <1>. QED BY <1>2, <1>3, <1>4 DEF Promise!Persist

\* A file could not be written: the abstract event is lost.
LEMMA LosesRefines ==
    ASSUME CustodyInv, NEW e \in Events, Loses(e)
    PROVE  Promise!Lose(e)
  <1>1. fate \in [Events -> Fates]
    BY Types DEF CustodyInv, IInv
  <1>2. Whereabouts[e] \in {"new", "memory"} /\ Whereabouts'[e] = "lost"
    BY <1>1, WhereaboutsOf DEF Loses
  <1>3. Whereabouts' = [Whereabouts EXCEPT ![e] = "lost"]
    BY <1>1, <1>2, Moved DEF Loses
  <1>. QED BY <1>2, <1>3 DEF Promise!Lose, Loses

\* A file is removed after an answer: delivered or discarded.
LEMMA EndsRefines ==
    ASSUME CustodyInv, NEW e \in Events, NEW x \in {"delivered", "discarded"}, Ends(e, x)
    PROVE  \/ UNCHANGED Promise!vars
           \/ x = "delivered" /\ Promise!Deliver(e)
           \/ x = "discarded" /\ Promise!Discard(e)
  <1>1. fate \in [Events -> Fates]
    BY Types DEF CustodyInv, IInv
  <1>2. \A f \in Events \ {e} : fate'[f] = fate[f] /\ (f \in disk' <=> f \in disk)
    BY <1>1 DEF Ends, Meets
  <1>3. CASE fate[e] = "held"
    <2>1. Whereabouts[e] \in {"memory", "disk"} /\ Whereabouts'[e] = x
      BY <1>1, <1>3, WhereaboutsOf DEF Ends, Meets
    <2>2. Whereabouts' = [Whereabouts EXCEPT ![e] = x]
      BY <1>2, <2>1, Moved
    <2>. QED BY <2>1, <2>2 DEF Promise!Deliver, Promise!Discard, Promise!Held, Ends
  <1>4. CASE fate[e] # "held"
    <2>1. UNCHANGED Whereabouts
      BY <1>1, <1>2, <1>4, Unmoved DEF Ends, Meets
    <2>. QED BY <2>1 DEF Promise!vars, Ends
  <1>. QED BY <1>3, <1>4

\* deleteExcessFiles removes a file: evicted, unless an operation still has the
\* event.
LEMMA EvictsRefines ==
    ASSUME CustodyInv, NEW e \in Events, EvictsFile(e)
    PROVE  UNCHANGED Promise!vars \/ Promise!Evict(e)
  <1>1. fate \in [Events -> Fates] /\ (e \in disk => fate[e] = "held")
    BY Types DEF CustodyInv, IInv, Core, HeldInv
  <1>2. CASE e \in disk
    <2>1. Whereabouts[e] = "disk" /\ Whereabouts'[e] = "evicted"
      BY <1>1, <1>2, WhereaboutsOf DEF EvictsFile, Meets
    <2>2. Whereabouts' = [Whereabouts EXCEPT ![e] = "evicted"]
      BY <1>1, <1>2, <2>1, Moved DEF EvictsFile, Meets
    <2>3. Promise!Outnumbered(e)
      <3>1. Cardinality(NewerThan(e)) >= MaxPersistedEvents
        BY ExcessIsOutnumbered DEF EvictsFile, CustodyInv, IInv
      <3>2. Promise!Cardinality(NewerThan(e)) = Cardinality(NewerThan(e))
        BY DEF Cardinality, Promise!Cardinality
      <3>. QED BY <3>1, <3>2 DEF NewerThan, Promise!Outnumbered
    <2>. QED BY <2>1, <2>2, <2>3 DEF Promise!Evict, EvictsFile
  <1>3. CASE e \notin disk
    <2>1. UNCHANGED Whereabouts
      BY <1>3, Unmoved DEF EvictsFile
    <2>. QED BY <2>1 DEF Promise!vars, EvictsFile
  <1>. QED BY <1>2, <1>3

\* The process ends: what only operations had is lost, except what was
\* delivered.
LEMMA DieRefines ==
    ASSUME CustodyInv, NEW R \in SUBSET Events, \A r, q \in R : r = q, Die(R)
    PROVE  Promise!Die(R)
  <1>1. /\ fate \in [Events -> Fates]
        /\ \A r \in R : fate[r] = "new" /\ born[r] = 0 /\ r \notin disk
        /\ \A e \in Events : e \in disk => fate[e] = "held"
    BY Types DEF Die, CustodyInv, IInv, Core, NewInv, FilesInv, HeldInv
  <1>2. fate' = [e \in Events |-> IF e \in R THEN "held"
                                  ELSE IF fate[e] = "held" /\ e \notin disk THEN "lost"
                                  ELSE fate[e]]
    BY DEF Die
  <1>3. disk' = disk \cup R
    BY DEF Die, files, WriteFile
  <1>4. \A r \in R : Whereabouts[r] = "new"
    BY <1>1, WhereaboutsOf
  <1>5. ASSUME NEW e \in Events
        PROVE  Whereabouts'[e] = IF Whereabouts[e] = "memory" THEN "lost"
                                 ELSE IF e \in R THEN "disk" ELSE Whereabouts[e]
    BY <1>1, <1>2, <1>3, WhereaboutsOf DEF Fates
  <1>6. Whereabouts' = [e \in Events |-> IF Whereabouts[e] = "memory" THEN "lost"
                                         ELSE IF e \in R THEN "disk" ELSE Whereabouts[e]]
    BY <1>5, WhereaboutsDomain
  <1>7. \/ R = {} /\ UNCHANGED born
        \/ \E r \in R : R = {r} /\ Promise!Stamped(r)
    <2>1. CASE R = {} /\ UNCHANGED files
      BY <2>1 DEF files
    <2>2. ASSUME NEW r \in R, WriteFile(r) PROVE R = {r} /\ Promise!Stamped(r)
      BY <1>1, <2>2, WrittenIsStamped
    <2>. QED BY <2>1, <2>2 DEF Die
  <1>. QED BY <1>4, <1>6, <1>7 DEF Promise!Die

\* Initial states are initial states of the promise.
LEMMA InitRefines == Init => Promise!Init
  <1>. SUFFICES ASSUME Init PROVE Promise!Init
    OBVIOUS
  <1>1. Whereabouts = [e \in Events |-> "new"]
    BY DEF Init, Whereabouts
  <1>. QED BY <1>1 DEF Init, Promise!Init

\* Every step is a step of the promise, or changes nothing of it.
LEMMA StepRefines ==
    ASSUME CustodyInv, [Next]_vars
    PROVE  [Promise!Next]_(Promise!vars)
  <1>1. ASSUME Rests PROVE UNCHANGED Promise!vars
    <2>1. UNCHANGED Whereabouts
      BY <1>1, Unmoved DEF Rests
    <2>. QED BY <1>1, <2>1 DEF Rests, Promise!vars
  <1>2. ASSUME NEW e \in Events, Accepts(e) \/ Writes(e) \/ Loses(e) PROVE Promise!Next
    BY <1>2, AcceptsRefines, WritesRefines, LosesRefines DEF Promise!Next
  <1>3. ASSUME NEW e \in Events, Ends(e, "delivered") \/ Ends(e, "discarded") \/ EvictsFile(e)
        PROVE  UNCHANGED Promise!vars \/ Promise!Next
    BY <1>3, EndsRefines, EvictsRefines DEF Promise!Next
  <1>4. ASSUME Die({}) PROVE Promise!Next
    <2>1. Promise!Die({})
      BY <1>4, DieRefines
    <2>. QED BY <2>1 DEF Promise!Next
  <1>5. ASSUME NEW r \in Events, Die({r}) PROVE Promise!Next
    <2>1. Promise!Die({r})
      BY <1>5, DieRefines
    <2>. QED BY <2>1 DEF Promise!Next
  <1>. QED BY <1>1, <1>2, <1>3, <1>4, <1>5, Kinds

\* The uploader, with its queues, stale listings and ends of the process,
\* keeps the promise of EventCustody about each event.
THEOREM UploaderImplementsCustody == Spec => CustodySpec
  <1>1. CustodyInv /\ [Next]_vars => [Promise!Next]_(Promise!vars)
    BY StepRefines
  <1>. QED BY <1>1, InitRefines, CustodyInvariant, PTL DEF Spec, CustodySpec, Promise!Spec

=============================================================================
