------------------------- MODULE CrashReportProofs -------------------------
(***************************************************************************)
(* Proofs about a crash report and the process it describes: its           *)
(* breadcrumbs, its list of images and the file itself, for any number of  *)
(* threads, breadcrumbs and images, any crash, any callback of the         *)
(* application that is well-behaved, and any room on the disk; and about   *)
(* the algorithms it is made with, for any stack, any table of symbols,    *)
(* any memory and any text.                                                *)
(***************************************************************************)
EXTENDS CrashReport, FiniteSetTheorems, SequenceTheorems, WellFoundedInduction, TLAPS

-----------------------------------------------------------------------------
(* Breadcrumbs *)

Cleared == started \in {"done", "undeleted"}

\* The lock is held while the numbers of the context disagree; a number belongs
\* to one writer; a breadcrumb that is written keeps its file as long as it is
\* one of the last maxBreadcrumbs, because a writer deletes the file that many
\* numbers before its own.
CrumbsInv ==
  /\ CrumbsTypeOK
  /\ first = IF nextFileNumber > maxBreadcrumbs THEN nextFileNumber - maxBreadcrumbs ELSE 0
  /\ next = IF lock = "free" THEN nextFileNumber ELSE nextFileNumber - 1
  /\ \A t \in Writer :
       /\ writer[t].at = "numbering" <=> lock = t
       /\ lock = t => writer[t].n + 1 = nextFileNumber
       /\ writer[t].at # "idle" => Cleared /\ writer[t].n < nextFileNumber /\ maxBreadcrumbs > 0
       /\ writer[t].at = "deleting" => writer[t].n >= maxBreadcrumbs
  /\ \A t, u \in Writer :
       t # u /\ writer[t].at # "idle" /\ writer[u].at # "idle" => writer[t].n # writer[u].n
  /\ ~Cleared => nextFileNumber = 0 /\ added = {}
  /\ Cleared => \A n \in Numbers :
       files[n] = None \/ (files[n] = n /\ n \in added) \/ (files[n] = Old /\ started = "undeleted")
  /\ \A n \in added :
       /\ n < nextFileNumber
       /\ n >= nextFileNumber - maxBreadcrumbs => files[n] = n
       /\ \A t \in Writer : writer[t].n = n => writer[t].at \in {"idle", "deleting"}

\* Breadcrumbs: the initial state.
LEMMA CrumbsStart == CrumbsInit => CrumbsInv
  BY CrumbsAssumption DEF CrumbsInit, CrumbsInv, CrumbsTypeOK, Numbers, Resting, Old, None, Cleared

\* Breadcrumbs: one step per action, each of which moves one number.
LEMMA CrumbsStep ==
    ASSUME CrumbsInv, [CrumbsNext]_crumbVars
    PROVE  CrumbsInv'
  <1>. USE CrumbsAssumption DEF CrumbsInv, CrumbsTypeOK, Numbers, Resting, Old, None, Cleared
  <1>1. CASE RemoveAllBreadcrumbs
    BY <1>1 DEF RemoveAllBreadcrumbs
  <1>2. ASSUME NEW t \in Writer, TakeNumber(t) PROVE CrumbsInv'
    BY <1>2 DEF TakeNumber
  <1>3. ASSUME NEW t \in Writer, PublishNumber(t) PROVE CrumbsInv'
    BY <1>3 DEF PublishNumber
  <1>4. ASSUME NEW t \in Writer, WriteCrumb(t) PROVE CrumbsInv'
    <2>. DEFINE n == writer[t].n
    <2>1. /\ writer[t].at = "writing" /\ n \in Numbers /\ lock # t /\ Cleared
          /\ n < nextFileNumber /\ maxBreadcrumbs > 0 /\ n \notin added
          /\ \A u \in Writer \ {t} : writer[u].at # "idle" => writer[u].n # n
      BY <1>4 DEF WriteCrumb
    <2>2. /\ UNCHANGED <<nextFileNumber, first, next, lock, started>>
          /\ \A u \in Writer \ {t} : writer'[u] = writer[u]
          /\ writer'[t].at = "idle" \/ (writer'[t].at = "deleting" /\ writer'[t].n = n /\ n >= maxBreadcrumbs)
          /\ \/ added' = added \cup {n} /\ files' = [files EXCEPT ![n] = n]
             \/ added' = added /\ files' = files /\ writer'[t].at = "idle"
      BY <1>4, <2>1 DEF WriteCrumb
    <2>3. CrumbsTypeOK'
      <3>1. [at |-> "deleting", n |-> n] \in [at : {"idle", "numbering", "writing", "deleting"}, n : Numbers]
            /\ Resting \in [at : {"idle", "numbering", "writing", "deleting"}, n : Numbers]
        BY <2>1
      <3>2. \E w \in {[at |-> "deleting", n |-> n], Resting} : writer' = [writer EXCEPT ![t] = w]
        BY <1>4, Zenon DEF WriteCrumb
      <3>3. writer' \in [Writer -> [at : {"idle", "numbering", "writing", "deleting"}, n : Numbers]]
        BY <3>1, <3>2
      <3>. QED BY <2>1, <2>2, <3>3
    <2>4. \A u \in Writer :
            /\ writer'[u].at = "numbering" <=> lock' = u
            /\ lock' = u => writer'[u].n + 1 = nextFileNumber'
            /\ writer'[u].at # "idle" => Cleared' /\ writer'[u].n < nextFileNumber' /\ maxBreadcrumbs > 0
            /\ writer'[u].at = "deleting" => writer'[u].n >= maxBreadcrumbs
      BY <2>1, <2>2
    <2>5. \A u, v \in Writer :
            u # v /\ writer'[u].at # "idle" /\ writer'[v].at # "idle" => writer'[u].n # writer'[v].n
      <3>. TAKE u, v \in Writer
      <3>1. CASE u # t /\ v # t
        BY <2>2, <3>1
      <3>2. CASE u = t /\ v # t
        BY <2>1, <2>2, <3>2
      <3>3. CASE u # t /\ v = t
        BY <2>1, <2>2, <3>3
      <3>. QED BY <3>1, <3>2, <3>3
    <2>6. \A m \in Numbers :
            files'[m] = None \/ (files'[m] = m /\ m \in added') \/ (files'[m] = Old /\ started' = "undeleted")
      BY <2>1, <2>2
    <2>7. ASSUME NEW m \in added'
          PROVE  /\ m < nextFileNumber
                 /\ m >= nextFileNumber - maxBreadcrumbs => files'[m] = m
                 /\ \A u \in Writer : writer'[u].n = m => writer'[u].at \in {"idle", "deleting"}
      <3>1. CASE m \in added
        <4>1. m # n /\ m \in Numbers /\ files'[m] = files[m]
          BY <2>1, <2>2, <3>1
        <4>2. ASSUME NEW u \in Writer, writer'[u].n = m PROVE writer'[u].at \in {"idle", "deleting"}
          BY <2>1, <2>2, <3>1, <4>2
        <4>. QED BY <3>1, <4>1, <4>2
      <3>2. CASE m = n /\ m \notin added
        BY <2>1, <2>2, <3>2
      <3>. QED BY <2>2, <3>1, <3>2
    <2>. QED BY <2>1, <2>2, <2>3, <2>4, <2>5, <2>6, <2>7
  <1>5. ASSUME NEW t \in Writer, DeleteOldCrumb(t) PROVE CrumbsInv'
    <2>1. CASE files' = files
      BY <1>5, <2>1 DEF DeleteOldCrumb
    <2>2. CASE files' = [files EXCEPT ![writer[t].n - maxBreadcrumbs] = None]
      BY <1>5, <2>2 DEF DeleteOldCrumb
    <2>. QED BY <1>5, <2>1, <2>2 DEF DeleteOldCrumb
  <1>6. CASE UNCHANGED crumbVars
    BY <1>6 DEF crumbVars
  <1>. QED BY <1>1, <1>2, <1>3, <1>4, <1>5, <1>6 DEF CrumbsNext

\* The inductive invariant says where each number is, which makes the last ones
\* readable.
LEMMA CrumbsFound == CrumbsInv => CrumbsKept
  <1>. SUFFICES ASSUME CrumbsInv PROVE CrumbsKept
    OBVIOUS
  <1>. USE CrumbsAssumption DEF CrumbsInv, CrumbsTypeOK, Numbers, Old, None, Cleared
  <1>. DEFINE recent == {n \in Numbers : n >= nextFileNumber - maxBreadcrumbs}
              found == {i \in DOMAIN CrumbFiles : CrumbFiles[i] \notin {Old, None}}
  <1>1. /\ first \in Int /\ next \in Int /\ next <= MaxNumber + 1 /\ first >= 0
        /\ DOMAIN CrumbFiles = 1 .. next - first
        /\ \A i \in 1 .. next - first : CrumbFiles[i] = files[first + i - 1]
    BY DEF CrumbFiles
  <1>2. ASSUME NEW i \in found
        PROVE  /\ first + i - 1 \in Numbers /\ first + i - 1 < next
               /\ CrumbFiles[i] = first + i - 1 /\ first + i - 1 \in added
    <2>1. i \in 1 .. next - first /\ first + i - 1 \in Numbers /\ first + i - 1 < next
      BY <1>1
    <2>2. Cleared
      BY <2>1
    <2>. QED BY <1>1, <2>1, <2>2
  <1>3. \A i \in found : CrumbFiles[i] \in added \cap recent
    BY <1>1, <1>2
  <1>4. ASSUME NEW n \in added \cap recent
        PROVE  \E i \in found : CrumbFiles[i] = n
    <2>1. n \in Numbers /\ files[n] = n /\ n >= first /\ n < nextFileNumber
      OBVIOUS
    <2>2. n < next
      <3>1. CASE lock = "free"
        BY <2>1, <3>1
      <3>2. CASE lock \in Writer
        BY <2>1, <3>2
      <3>. QED BY <3>1, <3>2
    <2>3. n - first + 1 \in 1 .. next - first /\ first + (n - first + 1) - 1 = n
      BY <1>1, <2>1, <2>2
    <2>. DEFINE i == n - first + 1
    <2>4. i \in DOMAIN CrumbFiles /\ CrumbFiles[i] = files[first + i - 1]
      BY <1>1, <2>3
    <2>. HIDE DEF i
    <2>5. CrumbFiles[i] = n /\ n \notin {Old, None}
      BY <2>1, <2>3, <2>4 DEF i
    <2>. QED BY <2>4, <2>5
  <1>5. \A i, j \in found : i < j => CrumbFiles[i] < CrumbFiles[j]
    BY <1>1, <1>2
  <1>6. \A i \in DOMAIN CrumbFiles : started # "undeleted" => CrumbFiles[i] # Old
    BY <1>1
  <1>. QED BY <1>3, <1>4, <1>5, <1>6 DEF CrumbsKept

\* The invariant of the breadcrumbs holds in every reachable state of the
\* composition.
LEMMA CrumbsInvariant == Spec => []CrumbsInv
  <1>1. Init => CrumbsInv
    BY CrumbsStart DEF Init
  <1>2. CrumbsInv /\ [Next]_vars => CrumbsInv'
    <2>. SUFFICES ASSUME CrumbsInv, [Next]_vars PROVE [CrumbsNext]_crumbVars
      BY CrumbsStep
    <2>. QED BY DEF Next, AppStep, Crash, OpenReport, WriteSection, EndReport, CrashInHandler, Killed,
                    Done, vars, crumbVars
  <1>. QED BY <1>1, <1>2, PTL DEF Spec

\* Whatever the writers are at when the process crashes, the report gets the
\* breadcrumbs that were written and are among the last maxBreadcrumbs, and no
\* others, in their order.
THEOREM CrumbsAlwaysKept == Spec => []CrumbsKept
  BY CrumbsInvariant, CrumbsFound, PTL

-----------------------------------------------------------------------------
(* Images *)

Record == [image : Image \ Unnamed, unloaded : BOOLEAN]
Valid(i) == i \in 1 .. Len(list) /\ ~list[i].unloaded
Alone(image) == \A other \in Image \ {image} : VmAddr[other] # VmAddr[image]
Holds(t, image) == loader[t].at # "idle" /\ loader[t].image = image

(* No image is in the hands of two threads; one that is being added has no *)
(* valid record yet; of one that is being removed no record before the     *)
(* next is valid.                                                          *)
HeldOnce ==
  \A t, u \in Loader : loader[t].at # "idle" /\ Holds(u, loader[t].image) => t = u
RecordsInv ==
  /\ \A i \in Nat : Valid(i) => list[i].image \in mapped
  /\ \A i, j \in Nat : Valid(i) /\ Valid(j) /\ list[i].image = list[j].image => i = j
LoadersInv ==
  \A t \in Loader, i \in Nat :
    /\ Valid(i) /\ loader[t].at = "adding" => list[i].image # loader[t].image
    /\ Valid(i) /\ loader[t].at = "removing" /\ i < loader[t].next => list[i].image # loader[t].image
ListedInv ==
  \A image \in mapped \ (Unnamed \cup unrecorded) :
    (\A t \in Loader : ~Holds(t, image)) /\ Alone(image) => \E i \in Nat : Valid(i) /\ list[i].image = image

ImagesInv == ImagesTypeOK /\ HeldOnce /\ RecordsInv /\ LoadersInv /\ ListedInv

\* Images: the initial state.
LEMMA ImagesStart == ImagesInit => ImagesInv
  BY ImagesAssumption DEF ImagesInit, ImagesInv, ImagesTypeOK, HeldOnce, RecordsInv, LoadersInv, ListedInv,
                          Valid, Holds, Idle

\* What a thread of the loader is doing, as one of the states it can be in.
LEMMA LoaderStates ==
    ASSUME ImagesTypeOK
    PROVE  \A t \in Loader :
             /\ loader[t].at = "idle" <=> loader[t] = Idle
             /\ loader[t].at \in {"idle", "adding", "removing"}
             /\ loader[t].at # "idle" => loader[t].image \in Image /\ loader[t].image \in mapped
             /\ loader[t].at = "removing" =>
                  loader[t].next \in Nat /\ loader[t].next >= 1 /\ loader[t].next <= Len(list) + 1
  BY DEF ImagesTypeOK, Idle

\* The list of images is a sequence of records.
LEMMA RecordTypes ==
    ASSUME ImagesTypeOK
    PROVE  /\ Len(list) \in Nat /\ DOMAIN list = 1 .. Len(list)
           /\ \A i \in 1 .. Len(list) : list[i].image \in Image \ Unnamed /\ list[i].unloaded \in BOOLEAN
  <1>1. list \in Seq(Record)
    BY DEF ImagesTypeOK, Record
  <1>2. /\ Len(list) \in Nat /\ DOMAIN list = 1 .. Len(list)
        /\ \A i \in 1 .. Len(list) : list[i] \in Record
    BY <1>1
  <1>. QED BY <1>2 DEF Record

\* Records that are valid are those of the images that are loaded, each once.
LEMMA ImagesFound == ImagesInv => ImagesExact
  <1>. SUFFICES ASSUME ImagesInv PROVE ImagesExact
    OBVIOUS
  <1>1. ASSUME NEW image, ~Busy(image), NEW t \in Loader PROVE ~Holds(t, image)
    BY <1>1, LoaderStates DEF Busy, Holds, ImagesInv
  <1>2. \A i \in DOMAIN list : i \in Nat /\ (~list[i].unloaded <=> Valid(i))
    BY RecordTypes DEF ImagesInv, Valid
  <1>3. ASSUME NEW image \in mapped \ (Unnamed \cup unrecorded), ~Busy(image), Alone(image)
        PROVE  \E i \in DOMAIN list : ~list[i].unloaded /\ list[i].image = image
    <2>1. PICK i \in Nat : Valid(i) /\ list[i].image = image
      BY <1>1, <1>3 DEF ImagesInv, ListedInv
    <2>. QED BY <2>1, RecordTypes DEF ImagesInv, Valid
  <1>4. \A i \in DOMAIN list : ~list[i].unloaded => list[i].image \in mapped
    BY <1>2 DEF ImagesInv, RecordsInv
  <1>5. \A i, j \in DOMAIN list :
          ~list[i].unloaded /\ ~list[j].unloaded /\ list[i].image = list[j].image => i = j
    BY <1>2 DEF ImagesInv, RecordsInv
  <1>. QED BY <1>3, <1>4, <1>5 DEF ImagesExact, Alone

\* dyld maps an image: nothing is recorded yet.
LEMMA LoadStep ==
    ASSUME ImagesInv, NEW t \in Loader, NEW image \in Image, LoadImage(t, image)
    PROVE  ImagesInv'
  <1>1. /\ image \notin mapped /\ mapped' = mapped \cup {image} /\ UNCHANGED <<list, unrecorded>>
        /\ loader'[t].at = "adding" /\ loader'[t].image = image
        /\ \A u \in Loader \ {t} : loader'[u] = loader[u]
    BY DEF LoadImage, ImagesInv, ImagesTypeOK
  <1>2. ImagesTypeOK'
    BY <1>1 DEF LoadImage, ImagesInv, ImagesTypeOK
  <1>3. HeldOnce'
    BY <1>1, LoaderStates DEF ImagesInv, HeldOnce, Holds
  <1>4. RecordsInv'
    BY <1>1 DEF ImagesInv, RecordsInv, Valid
  <1>5. LoadersInv'
    BY <1>1 DEF ImagesInv, RecordsInv, LoadersInv, Valid
  <1>6. ListedInv'
    BY <1>1, LoaderStates DEF ImagesInv, ListedInv, LoadImage, Idle, Holds, Valid
  <1>. QED BY <1>2, <1>3, <1>4, <1>5, <1>6 DEF ImagesInv

\* bsg_mach_headers_add_image appends the record.
LEMMA AddStep ==
    ASSUME ImagesInv, NEW t \in Loader, AddImage(t)
    PROVE  ImagesInv'
  <1>. DEFINE image == loader[t].image
  <1>1. /\ mapped' = mapped /\ loader[t].at = "adding" /\ image \in Image /\ image \in mapped
        /\ loader'[t].at = "idle" /\ loader'[t] = Idle
        /\ \A u \in Loader \ {t} : loader'[u] = loader[u]
    BY LoaderStates DEF AddImage, ImagesInv, ImagesTypeOK, Idle
  <1>2. /\ Len(list') >= Len(list) /\ Len(list') \in Nat
        /\ \A i \in 1 .. Len(list) : list'[i] = list[i]
        /\ \/ image \in Unnamed \cup unrecorded' /\ list' = list
           \/ /\ image \notin Unnamed /\ Len(list') = Len(list) + 1
              /\ list'[Len(list) + 1].image = image /\ ~list'[Len(list) + 1].unloaded
        /\ unrecorded \subseteq unrecorded' /\ unrecorded' \subseteq unrecorded \cup {image}
    BY <1>1, RecordTypes DEF AddImage, PopulateInfo, ImagesInv, ImagesTypeOK
  <1>3. ImagesTypeOK'
    <2>1. list' \in Seq([image : Image \ Unnamed, unloaded : BOOLEAN])
      <3>1. list \in Seq(Record)
        BY DEF ImagesInv, ImagesTypeOK, Record
      <3>2. image \notin Unnamed => [image |-> image, unloaded |-> FALSE] \in Record
        BY <1>1 DEF Record
      <3>3. list' = list \/ (image \notin Unnamed /\ list' = Append(list, [image |-> image, unloaded |-> FALSE]))
        BY DEF AddImage, PopulateInfo
      <3>4. list' \in Seq(Record)
        BY <3>1, <3>2, <3>3
      <3>. QED BY <3>4 DEF Record
    <2>2. loader' = [loader EXCEPT ![t] = Idle]
      BY DEF AddImage
    <2>3. \A u \in Loader : loader'[u] # Idle => u # t
      BY <1>1
    <2>4. \A u \in Loader : loader'[u].at = "removing" => u # t
      BY <1>1
    <2>5. \A u \in Loader : loader'[u].at = "removing" => loader'[u].next \in 1 .. Len(list') + 1
      BY <1>1, <1>2, <2>4, LoaderStates, RecordTypes DEF ImagesInv
    <2>6. /\ mapped' \subseteq Image /\ unrecorded' \subseteq mapped'
          /\ \A u \in Loader : loader'[u] # Idle => loader'[u].image \in mapped'
      BY <1>1, <1>2, <2>3 DEF ImagesInv, ImagesTypeOK
    <2>7. loader' \in [Loader -> {Idle} \cup [at : {"adding"}, image : Image]
                                   \cup [at : {"removing"}, image : Image, next : Nat]]
      BY <2>2 DEF ImagesInv, ImagesTypeOK
    <2>. QED BY <2>1, <2>5, <2>6, <2>7 DEF ImagesTypeOK
  <1>4. HeldOnce'
    BY <1>1 DEF ImagesInv, HeldOnce, Holds
  <1>5. RecordsInv'
    BY <1>1, <1>2, RecordTypes, SMTT(30) DEF ImagesInv, RecordsInv, LoadersInv, Valid
  <1>6. LoadersInv'
    BY <1>1, <1>2, RecordTypes, LoaderStates DEF ImagesInv, HeldOnce, Holds, LoadersInv, Valid
  <1>7. ListedInv'
    BY <1>1, <1>2, RecordTypes DEF ImagesInv, ListedInv, Holds, Valid
  <1>. QED BY <1>3, <1>4, <1>5, <1>6, <1>7 DEF ImagesInv

\* dyld announces that an image goes away.
LEMMA BeginRemoveStep ==
    ASSUME ImagesInv, NEW t \in Loader, NEW image \in Image, BeginRemoveImage(t, image)
    PROVE  ImagesInv'
  <1>1. /\ image \in mapped /\ UNCHANGED <<mapped, list, unrecorded>> /\ loader[t].at = "idle"
        /\ loader'[t].at = "removing" /\ loader'[t].image = image
        /\ loader'[t].next = IF image \in Unnamed THEN Len(list) + 1 ELSE 1
        /\ \A u \in Loader \ {t} : loader'[u] = loader[u]
        /\ \A u \in Loader : ~Holds(u, image)
    BY LoaderStates DEF BeginRemoveImage, PopulateInfo, Busy, Holds, Idle, ImagesInv, ImagesTypeOK
  <1>2. ImagesTypeOK'
    BY <1>1, RecordTypes DEF BeginRemoveImage, PopulateInfo, ImagesInv, ImagesTypeOK
  <1>3. HeldOnce'
    BY <1>1 DEF ImagesInv, HeldOnce, Holds
  <1>4. RecordsInv'
    BY <1>1 DEF ImagesInv, RecordsInv, Valid
  <1>5. LoadersInv'
    BY <1>1, RecordTypes DEF ImagesInv, LoadersInv, Valid
  <1>6. ListedInv'
    BY <1>1 DEF ImagesInv, ListedInv, Holds, Valid
  <1>. QED BY <1>2, <1>3, <1>4, <1>5, <1>6 DEF ImagesInv

\* bsg_mach_headers_remove_image marks the record.
LEMMA RemoveStep ==
    ASSUME ImagesInv, NEW t \in Loader, RemoveImage(t)
    PROVE  ImagesInv'
  <1>. DEFINE k == loader[t].next
              image == loader[t].image
  <1>1. /\ UNCHANGED <<mapped, unrecorded>> /\ loader[t].at = "removing" /\ image \in Image /\ k \in 1 .. Len(list)
        /\ loader'[t].at = "removing" /\ loader'[t].image = image /\ loader'[t].next = k + 1
        /\ \A u \in Loader \ {t} : loader'[u] = loader[u]
    BY LoaderStates, RecordTypes DEF RemoveImage, ImagesInv, ImagesTypeOK, Idle
  <1>2. /\ list' \in Seq([image : Image \ Unnamed, unloaded : BOOLEAN]) /\ Len(list') = Len(list)
        /\ \A i \in 1 .. Len(list) : list'[i].image = list[i].image
        /\ \A i \in 1 .. Len(list) : i # k => list'[i] = list[i]
        /\ list'[k].unloaded = (list[k].unloaded \/ VmAddr[list[k].image] = VmAddr[image])
    BY <1>1, RecordTypes DEF RemoveImage, ImagesInv, ImagesTypeOK
  <1>3. ImagesTypeOK'
    <2>1. loader[t] \in [at : {"removing"}, image : Image, next : Nat]
      BY <1>1 DEF ImagesInv, ImagesTypeOK, Idle
    <2>2. loader' = [loader EXCEPT ![t] = [at |-> "removing", image |-> image, next |-> k + 1]]
      BY <2>1 DEF RemoveImage, ImagesInv, ImagesTypeOK
    <2>3. loader' \in [Loader -> {Idle} \cup [at : {"adding"}, image : Image]
                                   \cup [at : {"removing"}, image : Image, next : Nat]]
      BY <1>1, <2>2 DEF ImagesInv, ImagesTypeOK
    <2>4. /\ mapped' \subseteq Image /\ unrecorded' \subseteq mapped'
          /\ \A u \in Loader : loader'[u] # Idle => loader'[u].image \in mapped'
      BY <1>1, LoaderStates DEF ImagesInv, ImagesTypeOK
    <2>5. \A u \in Loader : loader'[u].at = "removing" => loader'[u].next \in 1 .. Len(list') + 1
      BY <1>1, <1>2, LoaderStates, RecordTypes DEF ImagesInv
    <2>. QED BY <1>2, <2>3, <2>4, <2>5 DEF ImagesTypeOK
  <1>4. HeldOnce'
    BY <1>1 DEF ImagesInv, HeldOnce, Holds
  <1>5. \A i \in Nat : Valid(i)' => Valid(i) /\ list'[i].image = list[i].image
                      /\ (i = k => list[i].image # image)
    BY <1>1, <1>2, RecordTypes DEF Valid, ImagesInv
  <1>6. RecordsInv'
    BY <1>1, <1>5 DEF ImagesInv, RecordsInv
  <1>7. LoadersInv'
    BY <1>1, <1>5, LoaderStates DEF ImagesInv, LoadersInv
  <1>8. ASSUME NEW other \in mapped \ (Unnamed \cup unrecorded), \A u \in Loader : ~Holds(u, other)', Alone(other)
        PROVE  \E i \in Nat : Valid(i)' /\ list'[i].image = other
    <2>1. other # image /\ \A u \in Loader : ~Holds(u, other)
      BY <1>1, <1>8 DEF Holds
    <2>2. PICK i \in Nat : Valid(i) /\ list[i].image = other
      BY <1>8, <2>1 DEF ImagesInv, ListedInv
    <2>3. i = k => VmAddr[list[k].image] # VmAddr[image]
      BY <1>1, <1>8, <2>1, <2>2 DEF Alone
    <2>. QED BY <1>1, <1>2, <2>2, <2>3 DEF Valid
  <1>9. ListedInv'
    BY <1>1, <1>8 DEF ListedInv, Alone
  <1>. QED BY <1>3, <1>4, <1>6, <1>7, <1>9 DEF ImagesInv

\* dyld unmaps the image.
LEMMA EndRemoveStep ==
    ASSUME ImagesInv, NEW t \in Loader, EndRemoveImage(t)
    PROVE  ImagesInv'
  <1>. DEFINE image == loader[t].image
  <1>1. /\ loader[t].at = "removing" /\ mapped' = mapped \ {image} /\ list' = list /\ unrecorded' = unrecorded \ {image}
        /\ loader'[t].at = "idle" /\ loader'[t] = Idle /\ loader[t].next > Len(list)
        /\ \A u \in Loader \ {t} : loader'[u] = loader[u]
    BY DEF EndRemoveImage, ImagesInv, ImagesTypeOK, Idle
  <1>2. ImagesTypeOK'
    BY <1>1, LoaderStates DEF EndRemoveImage, ImagesInv, ImagesTypeOK, HeldOnce, Holds, Idle
  <1>3. HeldOnce'
    BY <1>1 DEF ImagesInv, HeldOnce, Holds
  <1>4. RecordsInv'
    BY <1>1, LoaderStates, RecordTypes DEF ImagesInv, RecordsInv, LoadersInv, Valid
  <1>5. LoadersInv'
    BY <1>1 DEF ImagesInv, LoadersInv, Valid
  <1>6. ListedInv'
    BY <1>1 DEF ImagesInv, ListedInv, Holds, Valid
  <1>. QED BY <1>2, <1>3, <1>4, <1>5, <1>6 DEF ImagesInv

\* Every step keeps the invariant of the images.
LEMMA ImagesStep ==
    ASSUME ImagesInv, [ImagesNext]_imageVars
    PROVE  ImagesInv'
  <1>1. CASE UNCHANGED imageVars
    BY <1>1 DEF imageVars, ImagesInv, ImagesTypeOK, HeldOnce, RecordsInv, LoadersInv, ListedInv, Valid, Holds
  <1>. QED BY <1>1, LoadStep, AddStep, BeginRemoveStep, RemoveStep, EndRemoveStep DEF ImagesNext

\* The invariant of the images holds in every reachable state of the
\* composition.
LEMMA ImagesInvariant == Spec => []ImagesInv
  <1>1. Init => ImagesInv
    BY ImagesStart DEF Init
  <1>2. ImagesInv /\ [Next]_vars => ImagesInv'
    <2>. SUFFICES ASSUME ImagesInv, [Next]_vars PROVE [ImagesNext]_imageVars
      BY ImagesStep
    <2>. QED BY DEF Next, AppStep, Crash, OpenReport, WriteSection, EndReport, CrashInHandler, Killed,
                    Done, vars, imageVars
  <1>. QED BY <1>1, <1>2, PTL DEF Spec

\* Whatever the loaders are at when the process crashes, the report lists no
\* image that is gone and none twice, and every image that stays and shares its
\* preferred address with no other.
THEOREM ImagesAlwaysExact == Spec => []ImagesExact
  BY ImagesInvariant, ImagesFound, PTL

-----------------------------------------------------------------------------
(* Induction over numbers.                                                 *)
(* The library's induction theorems have an operator as their parameter.   *)
(* These are about a set of numbers instead: a set that has 0 and, with n, *)
(* n + 1 has them all, since the numbers that are missing have no least.   *)

\* Induction over the numbers, for sets: those that are not in A would have a
\* least one.
LEMMA NatSetInduction ==
    ASSUME NEW A, 0 \in A, \A n \in Nat : n \in A => n + 1 \in A
    PROVE  Nat \subseteq A
  <1>. SUFFICES ASSUME NEW n \in Nat, n \notin A PROVE FALSE
    OBVIOUS
  <1>. DEFINE B == {1 .. k : k \in {j \in Nat : j \notin A}}
  <1>1. B \subseteq FiniteSubsetsOf(Nat)
    <2>1. ASSUME NEW k \in Nat PROVE 1 .. k \in FiniteSubsetsOf(Nat)
      <3>1. IsFiniteSet(1 .. k)
        BY FS_Interval
      <3>2. 1 .. k \in SUBSET Nat
        OBVIOUS
      <3>. QED BY <3>1, <3>2, Zenon DEF FiniteSubsetsOf
    <2>. QED BY <2>1
  <1>2. B # {}
    OBVIOUS
  <1>3. PICK b \in B : \A c \in B : ~(<<c, b>> \in StrictSubsetOrdering(Nat))
    BY <1>1, <1>2, FS_StrictSubsetOrderingWellFounded, WFMin
  <1>4. PICK k \in Nat : k \notin A /\ b = 1 .. k
    OBVIOUS
  <1>5. k - 1 \in Nat /\ k - 1 \notin A
    BY <1>4
  <1>6. <<1 .. k - 1, 1 .. k>> \in StrictSubsetOrdering(Nat)
    BY <1>4, <1>5 DEF StrictSubsetOrdering
  <1>. QED BY <1>3, <1>4, <1>5, <1>6

\* Likewise up to a bound.
LEMMA UpToInduction ==
    ASSUME NEW m \in Nat, NEW A, 0 \in A, \A n \in 0 .. m - 1 : n \in A => n + 1 \in A
    PROVE  0 .. m \subseteq A
  <1>. DEFINE B == {n \in Nat : n <= m => n \in A}
  <1>1. 0 \in B /\ \A n \in Nat : n \in B => n + 1 \in B
    OBVIOUS
  <1>2. Nat \subseteq B
    <2>. HIDE DEF B
    <2>. QED BY <1>1, NatSetInduction
  <1>. QED BY <1>2

\* A set of numbers with a bound has a greatest one.
LEMMA GreatestNumber ==
    ASSUME NEW m \in Nat, NEW S, S \subseteq 0 .. m, S # {}
    PROVE  Max(S) \in S /\ \A k \in S : k <= Max(S)
  <1>. DEFINE A == {n \in Nat : \A T : T \subseteq 0 .. n /\ T # {} => \E x \in T : \A y \in T : x >= y}
  <1>1. 0 \in A
    OBVIOUS
  <1>2. ASSUME NEW n \in Nat, n \in A PROVE n + 1 \in A
    <2>1. ASSUME NEW T, T \subseteq 0 .. n + 1, T # {} PROVE \E x \in T : \A y \in T : x >= y
      <3>1. CASE n + 1 \in T
        BY <2>1, <3>1
      <3>2. CASE n + 1 \notin T
        <4>1. T \subseteq 0 .. n
          BY <2>1, <3>2
        <4>. QED BY <1>2, <2>1, <4>1
      <3>. QED BY <3>1, <3>2
    <2>. QED BY <2>1
  <1>3. m \in A
    <2>. HIDE DEF A
    <2>. QED BY <1>1, <1>2, NatSetInduction
  <1>4. \E x \in S : \A y \in S : x >= y
    BY <1>3
  <1>. QED BY <1>4 DEF Max

\* The recursions.  Each is a function that is defined step by step, which is
\* shown to exist by induction over its domain.

\* One call of Run, as Run makes it.
Ran(e, c) == IF e.ok \in BOOLEAN THEN Call(e, c) ELSE e

\* A frame that can be copied, or NULL.
Copied(m, a) == IF a # NULL /\ a \in m.readable THEN a ELSE NULL
Above(m, a) == IF a = NULL THEN NULL ELSE Copied(m, m.prev[a])

\* The symbol after one more has been looked at.
Nearer(t, a, rest, i) ==
  IF t[i] # 0 /\ a >= t[i] /\ (rest = 0 \/ a - t[i] <= a - t[rest]) THEN i ELSE rest

\* The chunks after one more unit: behind the last one, or in a new one.
Longer(q, e) ==
  IF Len(q[Len(q)]) + 6 > WorkBufferSize THEN Append(q, e) ELSE Append(Front(q), q[Len(q)] \o e)

\* One step of a recursion: what comes after v.
Step(of, x, v, i) ==
  CASE of = "run" -> Ran(v, x[i])
    [] of = "write" -> AddJSONData(v, x[i])
    [] of = "end" -> IF v.ok THEN EndContainer(v) ELSE v
    [] of = "flatten" -> v \o x[i]
    [] of = "frames" -> Above(x, v)
    [] of = "symbols" -> Nearer(x.table, x.address, v, i)
    [] of = "escape" -> Longer(v, Escaped(x[i - 1]))

\* A function on l .. m that is b up to p and goes on step by step.
Recursive(g, of, x, b, l, p, m) ==
  /\ g = [i \in l .. m |-> g[i]]
  /\ \A i \in l .. m : g[i] = IF i <= p THEN b ELSE Step(of, x, g[i - 1], i)

\* There is one.
LEMMA Recursion ==
    ASSUME NEW of, NEW x, NEW b, NEW l \in {0, 1}, NEW p \in Nat, l <= p, NEW m \in Nat
    PROVE  \E g : Recursive(g, of, x, b, l, p, m)
  <1>. DEFINE A == {n \in Nat : \E g : Recursive(g, of, x, b, l, p, n)}
  <1>1. 0 \in A
    <2>1. Recursive([i \in l .. 0 |-> b], of, x, b, l, p, 0)
      BY DEF Recursive
    <2>. QED BY <2>1
  <1>2. ASSUME NEW n \in Nat, n \in A
        PROVE  n + 1 \in A
    <2>1. PICK g : Recursive(g, of, x, b, l, p, n)
      BY <1>2
    <2>. DEFINE h == [i \in l .. n + 1 |-> IF i \in l .. n THEN g[i] ELSE IF i <= p THEN b ELSE Step(of, x, g[i - 1], i)]
    <2>2. h = [i \in l .. n + 1 |-> h[i]] /\ \A i \in l .. n : h[i] = g[i]
      OBVIOUS
    <2>3. ASSUME NEW i \in l .. n + 1
          PROVE  h[i] = IF i <= p THEN b ELSE Step(of, x, h[i - 1], i)
      <3>1. i \in l .. n \/ h[i] = IF i <= p THEN b ELSE Step(of, x, g[i - 1], i)
        OBVIOUS
      <3>2. i <= p \/ i - 1 \in l .. n
        OBVIOUS
      <3>. HIDE DEF h
      <3>. QED BY <2>1, <2>2, <3>1, <3>2 DEF Recursive
    <2>. HIDE DEF h
    <2>4. Recursive(h, of, x, b, l, p, n + 1)
      BY <2>2, <2>3, Zenon DEF Recursive
    <2>. QED BY <2>4
  <1>3. m \in A
    <2>. HIDE DEF A
    <2>. QED BY <1>1, <1>2, NatSetInduction
  <1>. QED BY <1>3

\* What Run computes.
LEMMA RunSteps ==
    ASSUME NEW e, NEW p, Len(p) \in Nat
    PROVE  \E f : /\ Run(e, p) = f[Len(p)] /\ f[0] = e
                  /\ \A i \in 1 .. Len(p) : f[i] = Ran(f[i - 1], p[i])
  <1>. DEFINE L == Len(p)
              Works(g) == g = [i \in 0 .. L |-> IF i = 0 THEN e ELSE Ran(g[i - 1], p[i])]
              f == CHOOSE g : Works(g)
  <1>1. Run(e, p) = f[L]
    BY DEF Run, Ran
  <1>2. L \in Nat /\ 0 \in {0, 1} /\ 0 \in Nat /\ 0 <= 0
    OBVIOUS
  <1>3. \A u, i : Step("run", p, u, i) = Ran(u, p[i])
    BY DEF Step
  <1>. HIDE DEF L
  <1>4. PICK g : Recursive(g, "run", p, e, 0, 0, L)
    BY <1>2, Recursion, Zenon
  <1>5. Works(g)
    BY <1>2, <1>3, <1>4 DEF Recursive
  <1>6. Works(f)
    <2>. HIDE DEF Works
    <2>. QED BY <1>5
  <1>. HIDE DEF f
  <1>. QED BY <1>1, <1>2, <1>6 DEF L

\* What Write computes.
LEMMA WriteSteps ==
    ASSUME NEW e, NEW p, Len(p) \in Nat
    PROVE  \E f : /\ Write(e, p) = f[Len(p)] /\ f[0] = e
                  /\ \A i \in 1 .. Len(p) : f[i] = AddJSONData(f[i - 1], p[i])
  <1>. DEFINE L == Len(p)
              Works(g) == g = [i \in 0 .. L |-> IF i = 0 THEN e ELSE AddJSONData(g[i - 1], p[i])]
              f == CHOOSE g : Works(g)
  <1>1. Write(e, p) = f[L]
    BY DEF Write
  <1>2. L \in Nat /\ 0 \in {0, 1} /\ 0 \in Nat /\ 0 <= 0
    OBVIOUS
  <1>3. \A u, i : Step("write", p, u, i) = AddJSONData(u, p[i])
    BY DEF Step
  <1>. HIDE DEF L
  <1>4. PICK g : Recursive(g, "write", p, e, 0, 0, L)
    BY <1>2, Recursion, Zenon
  <1>5. Works(g)
    BY <1>2, <1>3, <1>4 DEF Recursive
  <1>6. Works(f)
    <2>. HIDE DEF Works
    <2>. QED BY <1>5
  <1>. HIDE DEF f
  <1>. QED BY <1>1, <1>2, <1>6 DEF L

\* EndEncode as the sequence of its levels, from the innermost.
LEMMA EndEncodeSteps ==
    ASSUME NEW e, Len(e.open) \in Nat
    PROVE  \E f : /\ EndEncode(e) = f[Len(e.open)] /\ f[0] = [e EXCEPT !.ok = TRUE]
                  /\ \A i \in 1 .. Len(e.open) :
                       f[i] = IF f[i - 1].ok THEN EndContainer(f[i - 1]) ELSE f[i - 1]
  <1>. DEFINE L == Len(e.open)
              b == [e EXCEPT !.ok = TRUE]
              Ended(u) == IF u.ok THEN EndContainer(u) ELSE u
              Works(g) == g = [i \in 0 .. L |-> IF i = 0 THEN b ELSE Ended(g[i - 1])]
              f == CHOOSE g : Works(g)
  <1>1. EndEncode(e) = f[L]
    BY DEF EndEncode
  <1>2. L \in Nat /\ 0 \in {0, 1} /\ 0 \in Nat /\ 0 <= 0
    OBVIOUS
  <1>3. \A u, i : Step("end", e, u, i) = Ended(u)
    BY DEF Step
  <1>. HIDE DEF L, b, Ended
  <1>4. PICK g : Recursive(g, "end", e, b, 0, 0, L)
    BY <1>2, Recursion, Zenon
  <1>5. Works(g)
    <2>1. ASSUME NEW i \in 0 .. L PROVE g[i] = IF i = 0 THEN b ELSE Ended(g[i - 1])
      <3>1. g[i] = IF i <= 0 THEN b ELSE Step("end", e, g[i - 1], i)
        BY <1>4 DEF Recursive
      <3>. QED BY <1>3, <3>1
    <2>. QED BY <1>4, <2>1 DEF Recursive
  <1>6. Works(f)
    <2>. HIDE DEF Works
    <2>. QED BY <1>5
  <1>. HIDE DEF f
  <1>7. f[0] = b /\ \A i \in 1 .. L : f[i] = Ended(f[i - 1])
    BY <1>2, <1>6
  <1>. QED BY <1>1, <1>7, Zenon DEF L, b, Ended

\* The steps of FlattenSeq.
LEMMA FlattenSteps ==
    ASSUME NEW s, Len(s) \in Nat \ {0}
    PROVE  \E f : /\ FlattenSeq(s) = f[Len(s)] /\ f[1] = s[1]
                  /\ \A i \in 2 .. Len(s) : f[i] = f[i - 1] \o s[i]
  <1>. DEFINE L == Len(s)
              Works(g) == g = [i \in 1 .. L |-> IF i = 1 THEN s[i] ELSE g[i - 1] \o s[i]]
              f == CHOOSE g : Works(g)
  <1>1. FlattenSeq(s) = f[L]
    BY DEF FlattenSeq
  <1>2. L \in Nat \ {0} /\ 1 \in {0, 1} /\ 1 \in Nat /\ 1 <= 1
    OBVIOUS
  <1>3. \A u, i : Step("flatten", s, u, i) = u \o s[i]
    BY DEF Step
  <1>. HIDE DEF L
  <1>4. PICK g : Recursive(g, "flatten", s, s[1], 1, 1, L)
    BY <1>2, Recursion, Zenon
  <1>5. Works(g)
    <2>1. ASSUME NEW i \in 1 .. L PROVE g[i] = IF i = 1 THEN s[i] ELSE g[i - 1] \o s[i]
      <3>1. g[i] = IF i <= 1 THEN s[1] ELSE Step("flatten", s, g[i - 1], i)
        BY <1>4 DEF Recursive
      <3>2. i <= 1 <=> i = 1
        OBVIOUS
      <3>. QED BY <1>3, <3>1, <3>2, Zenon
    <2>. QED BY <1>4, <2>1 DEF Recursive
  <1>6. Works(f)
    <2>. HIDE DEF Works
    <2>. QED BY <1>5
  <1>. HIDE DEF f
  <1>7. \A i \in 1 .. L : f[i] = IF i = 1 THEN s[i] ELSE f[i - 1] \o s[i]
    BY <1>6
  <1>8. 1 \in 1 .. L /\ \A i \in 2 .. L : i \in 1 .. L /\ i # 1
    BY <1>2
  <1>. QED BY <1>1, <1>7, <1>8, Zenon DEF L

\* The steps of SelectSeq: test says which elements are selected.
LEMMA SelectSteps ==
    ASSUME NEW S, NEW s \in Seq(S), NEW test
    PROVE  \E f : /\ f = [i \in 0 .. Len(s) |-> IF i = 0 THEN <<>>
                             ELSE IF test[i] THEN Append(f[i - 1], s[i]) ELSE f[i - 1]]
                  /\ \A i \in 0 .. Len(s) : f[i] \in Seq(S)
  <1>. DEFINE Works(n, g) ==
                /\ g = [i \in 0 .. n |-> IF i = 0 THEN <<>>
                           ELSE IF test[i] THEN Append(g[i - 1], s[i]) ELSE g[i - 1]]
                /\ \A i \in 0 .. n : g[i] \in Seq(S)
              A == {n \in Nat : \E g : Works(n, g)}
  <1>1. 0 \in A
    <2>1. Works(0, [i \in 0 .. 0 |-> <<>>])
      OBVIOUS
    <2>. QED BY <2>1
  <1>2. ASSUME NEW n \in 0 .. Len(s) - 1, n \in A
        PROVE  n + 1 \in A
    <2>1. PICK g : Works(n, g)
      BY <1>2
    <2>. DEFINE h == [i \in 0 .. n + 1 |-> IF i # n + 1 THEN g[i]
                        ELSE IF test[n + 1] THEN Append(g[n], s[n + 1]) ELSE g[n]]
    <2>2. \A i \in 0 .. n : g[i] = IF i = 0 THEN <<>>
                                    ELSE IF test[i] THEN Append(g[i - 1], s[i]) ELSE g[i - 1]
      BY <2>1
    <2>3. ASSUME NEW i \in 0 .. n + 1
          PROVE  /\ h[i] = IF i = 0 THEN <<>> ELSE IF test[i] THEN Append(h[i - 1], s[i]) ELSE h[i - 1]
                 /\ h[i] \in Seq(S)
      <3>1. CASE i = n + 1
        BY <2>1, <3>1
      <3>2. CASE i \in 0 .. n
        <4>1. h[i] = g[i] /\ (i # 0 => h[i - 1] = g[i - 1])
          BY <3>2
        <4>. QED BY <2>1, <2>2, <3>2, <4>1, Zenon
      <3>. QED BY <3>1, <3>2
    <2>. HIDE DEF h
    <2>4. h = [i \in 0 .. n + 1 |-> h[i]]
      BY DEF h
    <2>5. n + 1 \in Nat
      OBVIOUS
    <2>6. Works(n + 1, h)
      BY <2>3, <2>4, Zenon
    <2>. HIDE DEF Works
    <2>. QED BY <2>5, <2>6
  <1>3. Len(s) \in A
    <2>1. Len(s) \in Nat
      OBVIOUS
    <2>. HIDE DEF A
    <2>2. 0 .. Len(s) \subseteq A
      BY <1>1, <1>2, <2>1, UpToInduction
    <2>. QED BY <2>1, <2>2
  <1>. QED BY <1>3

-----------------------------------------------------------------------------
(* Documents and encoders.                                                 *)
(* Each operation of the acceptor and of the encoder, by what it returns.  *)

\* The levels of a text.
LevelShape(s) ==
  /\ Len(s) \in Nat /\ (s # <<>> <=> Len(s) > 0) /\ (s # <<>> => Last(s) = s[Len(s)])
  /\ \A i \in 1 .. Len(s) : s[i].object \in BOOLEAN /\ s[i].key \in Texts

\* What t is if one level has been pushed on s.
PushShape(s, t, object, key) ==
  /\ t \in Levels /\ Len(t) = Len(s) + 1 /\ t # <<>>
  /\ \A i \in 1 .. Len(s) : t[i] = s[i]
  /\ t[Len(s) + 1].object = object /\ t[Len(s) + 1].key = key

\* What t is if the last level of s has been popped.
PopShape(s, t) ==
  t \in Levels /\ (s # <<>> => Len(t) = Len(s) - 1 /\ \A i \in 1 .. Len(s) - 1 : t[i] = s[i])

\* Levels are numbered and typed.
LEMMA LevelFields ==
    ASSUME NEW s \in Levels
    PROVE  LevelShape(s)
  <1>. DEFINE Level == [object : BOOLEAN, key : Texts]
  <1>1. s \in Seq(Level) /\ \A x \in Level : x.object \in BOOLEAN /\ x.key \in Texts
    BY DEF Levels
  <1>. HIDE DEF Level
  <1>. QED BY <1>1 DEF Last, LevelShape

\* Pushing a level.
LEMMA LevelPush ==
    ASSUME NEW s \in Levels, NEW object \in BOOLEAN, NEW key \in Texts
    PROVE  PushShape(s, Append(s, [object |-> object, key |-> key]), object, key)
  <1>. DEFINE Level == [object : BOOLEAN, key : Texts]
              x == [object |-> object, key |-> key]
  <1>1. s \in Seq(Level) /\ x \in Level /\ x.object = object /\ x.key = key /\ Levels = Seq(Level)
    BY DEF Levels
  <1>. HIDE DEF Level, x
  <1>2. PushShape(s, Append(s, x), object, key)
    BY <1>1 DEF PushShape
  <1>. QED BY <1>2 DEF x

\* Popping a level.
LEMMA LevelPop ==
    ASSUME NEW s \in Levels
    PROVE  PopShape(s, Front(s))
  <1>. DEFINE Level == [object : BOOLEAN, key : Texts]
  <1>1. s \in Seq(Level) /\ Levels = Seq(Level)
    BY DEF Levels
  <1>. HIDE DEF Level
  <1>2. CASE s = <<>>
    BY <1>1, <1>2 DEF Front, PopShape
  <1>3. CASE s # <<>>
    <2>1. Front(s) = [i \in 1 .. Len(s) - 1 |-> s[i]] /\ Len(s) - 1 \in Nat
      BY <1>1, <1>3 DEF Front
    <2>2. \A i \in 1 .. Len(s) - 1 : s[i] \in Level
      BY <1>1
    <2>. QED BY <1>1, <1>3, <2>1, <2>2 DEF PopShape
  <1>. QED BY <1>2, <1>3

\* The acceptor keeps its type, whatever it reads.
LEMMA NotedType ==
    ASSUME NEW d \in Docs, NEW name \in Texts
    PROVE  /\ Noted(d, name) \in Docs
           /\ Noted(d, name).stack = d.stack /\ Noted(d, name).at = d.at /\ Noted(d, name).key = d.key
  <1>. DEFINE n == IF Len(d.stack) = 0 THEN 0 ELSE Len(d.stack) - 1
              path == [i \in 1 .. Len(d.stack) - 1 |-> d.stack[i + 1].key] \o <<name>>
  <1>1. /\ n \in Nat /\ 1 .. n = 1 .. Len(d.stack) - 1
        /\ \A i \in 1 .. n : d.stack[i + 1].key \in Texts
    BY LevelFields DEF Docs, LevelShape
  <1>2. [i \in 1 .. Len(d.stack) - 1 |-> d.stack[i + 1].key] \in Seq(Texts)
    BY <1>1
  <1>3. path \in Paths
    BY <1>2 DEF Paths
  <1>4. Append(d.members, path) \in Seq(Paths)
    BY <1>3 DEF Docs
  <1>5. Noted(d, name) \in {d, [d EXCEPT !.members = Append(d.members, path)]}
    BY DEF Noted
  <1>. HIDE DEF path
  <1>. QED BY <1>4, <1>5 DEF Docs

\* Where a value begins, an element of an array is noted, and nothing else
\* changes.
LEMMA ElementType ==
    ASSUME NEW d \in Docs
    PROVE  /\ Element(d) \in Docs /\ Element(d).stack = d.stack /\ Element(d).at = d.at
           /\ d.stack # <<>> /\ Last(d.stack).object => Element(d) = d
           /\ d.stack # <<>> /\ ~Last(d.stack).object =>
                Element(d) = Noted([d EXCEPT !.key = "item"], "item") /\ Element(d).key = "item"
  <1>. DEFINE x == [d EXCEPT !.key = "item"]
  <1>1. x \in Docs /\ x.stack = d.stack /\ x.at = d.at /\ x.key = "item"
    BY TextsAssumption DEF Docs
  <1>2. Element(d) = IF d.stack # <<>> /\ ~Last(d.stack).object THEN Noted(x, "item") ELSE d
    BY DEF Element
  <1>3. Noted(x, "item") \in Docs /\ Noted(x, "item").stack = x.stack
        /\ Noted(x, "item").at = x.at /\ Noted(x, "item").key = x.key
    BY <1>1, NotedType, TextsAssumption
  <1>. QED BY <1>1, <1>2, <1>3

\* A value has ended: the document goes on, or is at its end.
ClosedTyped(d) == Closed(d) \in Docs /\ Closed(d).stack = d.stack /\ (d.stack # <<>> => Closed(d).at = "next")

\* That holds of every document.
LEMMA ClosedType == \A d \in Docs : ClosedTyped(d)
  BY DEF Closed, ClosedTyped, Places, Docs

\* A document in which an object or an array has just begun.
OpenedDoc(d, object) ==
  [d EXCEPT !.stack = Append(d.stack, [object |-> object, key |-> d.key]), !.at = "first"]

\* Such a document has one level more and the members it had.
LEMMA OpenedType ==
    ASSUME NEW d \in Docs, NEW object \in BOOLEAN
    PROVE  /\ OpenedDoc(d, object) \in Docs
           /\ PushShape(d.stack, OpenedDoc(d, object).stack, object, d.key)
           /\ OpenedDoc(d, object).at = "first" /\ OpenedDoc(d, object).key = d.key
           /\ OpenedDoc(d, object).members = d.members
  <1>. DEFINE t == Append(d.stack, [object |-> object, key |-> d.key])
  <1>1. d.stack \in Levels /\ d.key \in Texts
    BY DEF Docs
  <1>2. PushShape(d.stack, t, object, d.key)
    BY <1>1, LevelPush
  <1>3. t \in Levels
    BY <1>2 DEF PushShape
  <1>4. OpenedDoc(d, object) = [d EXCEPT !.stack = t, !.at = "first"]
    BY DEF OpenedDoc
  <1>. HIDE DEF t
  <1>5. OpenedDoc(d, object).stack = t
    BY <1>3, <1>4 DEF Docs
  <1>. QED BY <1>2, <1>3, <1>4, <1>5 DEF Docs, Places

\* The first token of a value leaves a document inside a container unended.
LEMMA FeedValueType ==
    ASSUME NEW d \in Docs, NEW tok \in Texts
    PROVE  /\ FeedValue(d, tok) \in Docs
           /\ d.stack # <<>> => FeedValue(d, tok).stack # <<>> /\ FeedValue(d, tok).at # "end"
  <1>. DEFINE v == Element(d)
  <1>1. v \in Docs /\ v.stack = d.stack
    BY ElementType
  <1>2. FeedValue(d, tok) \in {[v EXCEPT !.at = "inText"], [v EXCEPT !.at = "bad"], Closed(v),
                               OpenedDoc(v, TRUE), OpenedDoc(v, FALSE)}
    BY DEF FeedValue, OpenedDoc
  <1>. HIDE DEF v
  <1>3. CASE FeedValue(d, tok) = Closed(v)
    BY <1>1, <1>3, ClosedType DEF ClosedTyped
  <1>4. CASE FeedValue(d, tok) = OpenedDoc(v, TRUE) \/ FeedValue(d, tok) = OpenedDoc(v, FALSE)
    <2>1. \A object \in BOOLEAN : /\ OpenedDoc(v, object) \in Docs /\ OpenedDoc(v, object).at = "first"
                                 /\ OpenedDoc(v, object).stack # <<>>
      BY <1>1, OpenedType DEF PushShape
    <2>2. OpenedDoc(v, TRUE) \in Docs /\ OpenedDoc(v, TRUE).at = "first" /\ OpenedDoc(v, TRUE).stack # <<>>
      BY <2>1, Zenon
    <2>3. OpenedDoc(v, FALSE) \in Docs /\ OpenedDoc(v, FALSE).at = "first" /\ OpenedDoc(v, FALSE).stack # <<>>
      BY <2>1, Zenon
    <2>. QED BY <1>4, <2>2, <2>3
  <1>5. CASE FeedValue(d, tok) = [v EXCEPT !.at = "inText"] \/ FeedValue(d, tok) = [v EXCEPT !.at = "bad"]
    BY <1>1, <1>5 DEF Docs, Places
  <1>. QED BY <1>2, <1>3, <1>4, <1>5

\* The arms of the acceptor, one by one.
CloseOf(d) == IF InObjectText(d) THEN "}" ELSE "]"

\* A document whose innermost container has just been closed.
PoppedDoc(d) == Closed([d EXCEPT !.stack = Front(d.stack)])

\* A token is read as the beginning of a value.
ReadsValue(d, tok) == d.at = "value" \/ (d.at = "first" /\ ~InObjectText(d) /\ tok # CloseOf(d))

\* The acceptor, in the name of a member.
LEMMA FeedKey ==
    ASSUME NEW d, NEW tok, d.at = "inKey"
    PROVE  Feed(d, tok) = IF tok = "quote" THEN [d EXCEPT !.at = "colon"] ELSE [d EXCEPT !.key = tok]
  BY DEF Feed

\* The acceptor, in a text.
LEMMA FeedText ==
    ASSUME NEW d, NEW tok, d.at = "inText"
    PROVE  Feed(d, tok) = IF tok = "quote" THEN Closed(d) ELSE d
  BY DEF Feed

\* The acceptor, closing a container.
LEMMA FeedClose ==
    ASSUME NEW d, NEW tok, d.at \in {"first", "next"}, tok = CloseOf(d)
    PROVE  Feed(d, tok) = PoppedDoc(d)
  BY DEF Feed, CloseOf, PoppedDoc

\* The acceptor, a comma.
LEMMA FeedComma ==
    ASSUME NEW d, d.at = "next"
    PROVE  Feed(d, ",") = [d EXCEPT !.at = IF InObjectText(d) THEN "key" ELSE "value"]
  BY DEF Feed

\* The acceptor, a colon.
LEMMA FeedColon ==
    ASSUME NEW d, d.at = "colon"
    PROVE  Feed(d, ":") = [Noted(d, d.key) EXCEPT !.at = "value"]
  BY DEF Feed

\* The acceptor, the beginning of a value.
LEMMA FeedsValue ==
    ASSUME NEW d, NEW tok, ReadsValue(d, tok)
    PROVE  Feed(d, tok) = FeedValue(d, tok)
  BY DEF Feed, ReadsValue, CloseOf

\* The acceptor, where none of the other arms applies.
LEMMA FeedElse ==
    ASSUME NEW d, NEW tok, d.at \notin {"inKey", "inText"},
           ~(d.at \in {"first", "next"} /\ tok = CloseOf(d)), ~(d.at = "next" /\ tok = ","),
           ~(d.at \in {"first", "key"} /\ InObjectText(d) /\ tok = "quote"), ~(d.at = "colon" /\ tok = ":")
    PROVE  Feed(d, tok) = IF ReadsValue(d, tok) THEN FeedValue(d, tok) ELSE [d EXCEPT !.at = "bad"]
  BY DEF Feed, ReadsValue, CloseOf

\* Every token leaves a document, and only the end of a container ends it.
LEMMA FeedType ==
    ASSUME NEW d \in Docs, NEW tok \in Texts
    PROVE  /\ Feed(d, tok) \in Docs
           /\ d.stack # <<>> /\ tok \notin {"}", "]"} => Feed(d, tok).stack # <<>> /\ Feed(d, tok).at # "end"
  <1>. DEFINE Typed(x) == x \in Docs /\ (d.stack # <<>> /\ tok \notin {"}", "]"} => x.stack # <<>> /\ x.at # "end")
  <1>1. ASSUME NEW a \in Places, a # "end" PROVE Typed([d EXCEPT !.at = a])
    BY <1>1 DEF Docs
  <1>2. CASE d.at = "inKey"
    <2>1. Typed([d EXCEPT !.key = tok])
      BY <1>2 DEF Docs
    <2>2. Typed([d EXCEPT !.at = "colon"])
      BY <1>1 DEF Places
    <2>. QED BY <1>2, <2>1, <2>2, FeedKey
  <1>3. CASE d.at = "inText"
    <2>1. Typed(Closed(d)) /\ Typed(d)
      BY <1>3, ClosedType DEF ClosedTyped
    <2>. QED BY <1>3, <2>1, FeedText
  <1>4. CASE d.at \in {"first", "next"} /\ tok = CloseOf(d)
    <2>1. [d EXCEPT !.stack = Front(d.stack)] \in Docs
      BY LevelPop DEF Docs, PopShape
    <2>2. PoppedDoc(d) \in Docs /\ CloseOf(d) \in {"}", "]"}
      BY <2>1, ClosedType DEF ClosedTyped, PoppedDoc, CloseOf
    <2>3. Feed(d, tok) = PoppedDoc(d)
      BY <1>4, FeedClose
    <2>. QED BY <1>4, <2>2, <2>3
  <1>5. CASE d.at = "next" /\ tok = ","
    <2>. DEFINE a == IF InObjectText(d) THEN "key" ELSE "value"
    <2>1. a \in Places /\ a # "end"
      BY DEF Places
    <2>2. Feed(d, tok) = [d EXCEPT !.at = a]
      BY <1>5, FeedComma
    <2>. HIDE DEF a
    <2>. QED BY <1>1, <2>1, <2>2
  <1>6. CASE d.at \in {"first", "key"} /\ InObjectText(d) /\ tok = "quote"
    <2>1. Typed([d EXCEPT !.at = "inKey"])
      BY <1>1 DEF Places
    <2>2. d.at \in {"first", "key"}
      BY <1>6
    <2>3. InObjectText(d)
      BY <1>6
    <2>4. Feed(d, "quote") = [d EXCEPT !.at = "inKey"]
      BY <2>2, <2>3 DEF Feed
    <2>. QED BY <1>6, <2>1, <2>4
  <1>7. CASE d.at = "colon" /\ tok = ":"
    <2>. DEFINE noted == Noted(d, d.key)
    <2>1. noted \in Docs /\ noted.stack = d.stack
      BY NotedType DEF Docs
    <2>2. Feed(d, tok) = [noted EXCEPT !.at = "value"]
      BY <1>7, FeedColon
    <2>. HIDE DEF noted
    <2>. QED BY <2>1, <2>2 DEF Docs, Places
  <1>8. CASE ~(d.at \in {"inKey", "inText"} \/ (d.at \in {"first", "next"} /\ tok = CloseOf(d))
               \/ (d.at = "next" /\ tok = ",") \/ (d.at = "colon" /\ tok = ":")
               \/ (d.at \in {"first", "key"} /\ InObjectText(d) /\ tok = "quote"))
    <2>1. Feed(d, tok) = IF ReadsValue(d, tok) THEN FeedValue(d, tok) ELSE [d EXCEPT !.at = "bad"]
      BY <1>8, FeedElse
    <2>2. Typed([d EXCEPT !.at = "bad"])
      BY <1>1 DEF Places
    <2>. QED BY <2>1, <2>2, FeedValueType
  <1>. QED BY <1>2, <1>3, <1>4, <1>5, <1>6, <1>7, <1>8

\* A disk that is full stays as it is.

\* What an operation of the encoder f may make of e: on a full disk nothing of
\* the file.
Frozen(e, f) == f \in Encoders /\ (e.room = 0 => f.room = 0 /\ f.doc = e.doc)

\* Two operations after each other.
LEMMA FrozenTwice ==
    ASSUME NEW e, NEW f, NEW g, Frozen(e, f), Frozen(f, g)
    PROVE  Frozen(e, g)
  BY DEF Frozen

\* Assignments to the encoder's own fields leave the file alone.
LEMMA FieldsFrozen ==
    ASSUME NEW e \in Encoders
    PROVE  /\ \A ok \in BOOLEAN : Frozen(e, [e EXCEPT !.ok = ok])
           /\ \A first_ \in BOOLEAN : Frozen(e, [e EXCEPT !.first = first_])
           /\ \A ok, first_ \in BOOLEAN : Frozen(e, [e EXCEPT !.ok = ok, !.first = first_])
           /\ \A open \in Seq(BOOLEAN), first_ \in BOOLEAN : Frozen(e, [e EXCEPT !.open = open, !.first = first_])
  BY DEF Frozen, Encoders

\* addJSONData.
LEMMA AddFrozen ==
    ASSUME NEW e \in Encoders, NEW tok \in Texts
    PROVE  Frozen(e, AddJSONData(e, tok))
  <1>1. Feed(e.doc, tok) \in Docs
    BY FeedType DEF Encoders
  <1>2. CASE ~e.ok \/ e.room = 0
    BY <1>2 DEF AddJSONData, Frozen, Encoders
  <1>3. CASE e.ok /\ e.room # 0
    <2>. DEFINE doc == Feed(e.doc, tok)
                left == IF e.room = Unlimited THEN e.room ELSE e.room - 1
    <2>1. left \in Nat \cup {Unlimited}
      BY <1>3 DEF Encoders
    <2>2. AddJSONData(e, tok) = [e EXCEPT !.doc = doc, !.room = left]
      BY <1>3 DEF AddJSONData
    <2>. HIDE DEF doc, left
    <2>. QED BY <1>1, <1>3, <2>1, <2>2 DEF Frozen, Encoders, doc
  <1>. QED BY <1>2, <1>3

\* Several calls of addJSONData.
LEMMA WriteFrozen ==
    ASSUME NEW e \in Encoders, NEW toks \in Seq(Texts)
    PROVE  Frozen(e, Write(e, toks))
  <1>1. Len(toks) \in Nat
    OBVIOUS
  <1>2. PICK f : /\ Write(e, toks) = f[Len(toks)] /\ f[0] = e
                 /\ \A i \in 1 .. Len(toks) : f[i] = AddJSONData(f[i - 1], toks[i])
    BY <1>1, WriteSteps
  <1>. DEFINE A == {i \in 0 .. Len(toks) : Frozen(e, f[i])}
  <1>3. 0 \in A
    BY <1>1, <1>2 DEF Frozen
  <1>4. ASSUME NEW i \in 0 .. Len(toks) - 1, i \in A PROVE i + 1 \in A
    <2>1. f[i] \in Encoders /\ toks[i + 1] \in Texts
      BY <1>4 DEF Frozen
    <2>2. f[i + 1] = AddJSONData(f[i], toks[i + 1])
      BY <1>2
    <2>3. Frozen(f[i], f[i + 1])
      BY <2>1, <2>2, AddFrozen
    <2>. QED BY <1>4, <2>3, FrozenTwice
  <1>5. Len(toks) \in A
    <2>. HIDE DEF A
    <2>1. 0 .. Len(toks) \subseteq A
      BY <1>1, <1>3, <1>4, UpToInduction
    <2>. QED BY <1>1, <2>1
  <1>. QED BY <1>2, <1>5

\* The tokens are texts.
LEMMA TokenTexts ==
    /\ "quote" \in Texts /\ "scalar" \in Texts /\ "text" \in Texts /\ "raw" \in Texts /\ "junk" \in Texts
    /\ "{" \in Texts /\ "}" \in Texts /\ "[" \in Texts /\ "]" \in Texts /\ "," \in Texts /\ ":" \in Texts
    /\ "" \in Texts /\ "blank" \in Texts /\ "word" \in Texts
    /\ "item" \in Texts /\ "error" \in Texts /\ "json_data" \in Texts
    /\ NoName \notin Texts
  BY TextsAssumption DEF Tokens

\* The sequences of tokens the encoder writes.
LEMMA TokenSeqs ==
    /\ <<"scalar">> \in Seq(Texts) /\ <<"junk">> \in Seq(Texts) /\ <<"raw">> \in Seq(Texts)
    /\ <<"quote", "text">> \in Seq(Texts)
    /\ \A x \in Texts : QuotedText(x) \in Seq(Texts) /\ Append(QuotedText(x), ":") \in Seq(Texts)
  <1>1. "scalar" \in Texts
    BY TokenTexts
  <1>2. "junk" \in Texts
    BY TokenTexts
  <1>3. "raw" \in Texts
    BY TokenTexts
  <1>4. "quote" \in Texts
    BY TokenTexts
  <1>5. "text" \in Texts
    BY TokenTexts
  <1>6. ":" \in Texts
    BY TokenTexts
  <1>7. \A x \in Texts : QuotedText(x) \in Seq(Texts)
    BY <1>4 DEF QuotedText
  <1>8. \A x \in Texts : Append(QuotedText(x), ":") \in Seq(Texts)
    BY <1>6, <1>7
  <1>9. <<"scalar">> \in Seq(Texts)
    BY <1>1
  <1>10. <<"junk">> \in Seq(Texts)
    BY <1>2
  <1>11. <<"raw">> \in Seq(Texts)
    BY <1>3
  <1>12. <<"quote", "text">> \in Seq(Texts)
    BY <1>4, <1>5
  <1>. QED BY <1>7, <1>8, <1>9, <1>10, <1>11, <1>12

\* On a full disk nothing is written: the beginning of an element.
LEMMA BeginElementFrozen ==
    ASSUME NEW e \in Encoders, NEW name \in Names
    PROVE  Frozen(e, BeginElement(e, name))
  <1>. DEFINE fresh == [e EXCEPT !.ok = TRUE]
              noted == [fresh EXCEPT !.first = FALSE]
              separated == IF e.first THEN noted ELSE AddJSONData(fresh, ",")
              named == Write(separated, Append(QuotedText(name), ":"))
              failed == [separated EXCEPT !.ok = FALSE]
  <1>1. Frozen(e, fresh)
    BY DEF Frozen, Encoders
  <1>2. Frozen(fresh, noted) /\ Frozen(fresh, AddJSONData(fresh, ","))
    <2>. HIDE DEF fresh
    <2>1. fresh \in Encoders
      BY <1>1 DEF Frozen
    <2>2. Frozen(fresh, noted)
      BY <2>1 DEF Frozen, Encoders
    <2>. QED BY <2>1, <2>2, AddFrozen, TokenTexts
  <1>3. Frozen(e, separated)
    BY <1>1, <1>2, FrozenTwice
  <1>. HIDE DEF separated
  <1>4. Frozen(separated, failed)
    BY <1>3 DEF Frozen, Encoders
  <1>5. CASE name \in Texts
    <2>1. Append(QuotedText(name), ":") \in Seq(Texts)
      BY <1>5, TokenSeqs
    <2>2. Frozen(separated, named)
      BY <1>3, <2>1, WriteFrozen DEF Frozen
    <2>3. BeginElement(e, name) \in {separated, failed, named}
      BY DEF BeginElement, separated
    <2>. HIDE DEF named, failed
    <2>. QED BY <1>3, <1>4, <2>2, <2>3, FrozenTwice
  <1>6. CASE name = NoName
    <2>1. BeginElement(e, name) \in {separated, failed}
      BY <1>6 DEF BeginElement, separated
    <2>. HIDE DEF failed
    <2>. QED BY <1>3, <1>4, <2>1, FrozenTwice
  <1>. QED BY <1>5, <1>6 DEF Names

\* On a full disk nothing is written: an element.
LEMMA AddElementFrozen ==
    ASSUME NEW e \in Encoders, NEW name \in Names, NEW toks \in Seq(Texts)
    PROVE  Frozen(e, AddElement(e, name, toks))
  <1>1. Frozen(e, BeginElement(e, name))
    BY BeginElementFrozen
  <1>2. Frozen(BeginElement(e, name), Write(BeginElement(e, name), toks))
    BY <1>1, WriteFrozen DEF Frozen
  <1>. QED BY <1>1, <1>2, FrozenTwice DEF AddElement

\* On a full disk nothing is written: a string.
LEMMA AddStringElementFrozen ==
    ASSUME NEW e \in Encoders, NEW name \in Names, NEW value \in Texts \cup {NoName}
    PROVE  Frozen(e, AddStringElement(e, name, value))
  <1>1. (IF value = NoName THEN <<"scalar">> ELSE QuotedText(value)) \in Seq(Texts)
    BY TokenSeqs
  <1>. QED BY <1>1, AddElementFrozen DEF AddStringElement

\* On a full disk nothing is written: the beginning of a container.
LEMMA BeginContainerFrozen ==
    ASSUME NEW e \in Encoders, NEW name \in Names, NEW isObject \in BOOLEAN
    PROVE  Frozen(e, BeginContainer(e, name, isObject))
  <1>. DEFINE b == BeginElement(e, name)
              opened == [b EXCEPT !.open = Append(b.open, isObject), !.first = TRUE]
              tok == IF isObject THEN "{" ELSE "["
  <1>1. Frozen(e, b)
    BY BeginElementFrozen
  <1>2. b \in Encoders
    BY <1>1 DEF Frozen
  <1>3. BeginContainer(e, name, isObject) \in {b, AddJSONData(opened, tok)}
    BY DEF BeginContainer
  <1>. HIDE DEF b
  <1>4. Frozen(b, opened)
    <2>1. Append(b.open, isObject) \in Seq(BOOLEAN)
      BY <1>2 DEF Encoders
    <2>. QED BY <1>2, <2>1 DEF Frozen, Encoders
  <1>5. tok \in Texts /\ opened \in Encoders
    BY <1>4, TokenTexts DEF Frozen
  <1>. HIDE DEF opened, tok
  <1>6. Frozen(opened, AddJSONData(opened, tok))
    BY <1>5, AddFrozen
  <1>7. Frozen(e, AddJSONData(opened, tok))
    BY <1>1, <1>4, <1>6, FrozenTwice
  <1>. QED BY <1>1, <1>3, <1>7

\* On a full disk nothing is written: the end of a container.
LEMMA EndContainerFrozen ==
    ASSUME NEW e \in Encoders
    PROVE  Frozen(e, EndContainer(e))
  <1>. DEFINE fresh == [e EXCEPT !.ok = TRUE]
              closed == [fresh EXCEPT !.open = Front(e.open), !.first = FALSE]
              tok == IF Last(e.open) THEN "}" ELSE "]"
  <1>1. Frozen(e, fresh)
    BY DEF Frozen, Encoders
  <1>2. CASE e.open = <<>>
    BY <1>1, <1>2 DEF EndContainer
  <1>3. CASE e.open # <<>>
    <2>1. Front(e.open) \in Seq(BOOLEAN)
      BY <1>3 DEF Encoders, Front
    <2>2. Frozen(e, closed)
      BY <2>1 DEF Encoders, Frozen
    <2>3. EndContainer(e) = AddJSONData(closed, tok)
      BY <1>3 DEF EndContainer
    <2>4. closed \in Encoders /\ tok \in Texts
      BY <2>2, TokenTexts DEF Frozen
    <2>. HIDE DEF closed, tok
    <2>5. Frozen(closed, AddJSONData(closed, tok))
      BY <2>4, AddFrozen
    <2>. QED BY <2>2, <2>3, <2>5, FrozenTwice
  <1>. QED BY <1>2, <1>3

\* On a full disk nothing is written: prepared JSON, or the error in its
\* place.
LEMMA WriteJSONElementFrozen ==
    ASSUME NEW e \in Encoders, NEW name \in Names, NEW json \in {"raw", "junk", "blank", "word"}
    PROVE  Frozen(e, WriteJSONElement(e, name, json))
  <1>. DEFINE added_ == AddJSONElement(e, name, json)
              begun == BeginContainer(added_, name, TRUE)
              error == AddStringElement(begun, "error", "text")
              data == AddStringElement(error, "json_data", "text")
  <1>1. Frozen(e, added_)
    <2>1. CASE json \in {"blank", "word"}
      <3>1. added_ = [e EXCEPT !.ok = FALSE]
        BY <2>1, TokenTexts DEF AddJSONElement
      <3>. QED BY <3>1 DEF Frozen, Encoders
    <2>2. CASE json \notin {"blank", "word"}
      <3>. DEFINE toks == <<json>>
      <3>1. toks \in Seq(Texts)
        BY <2>2, TokenSeqs
      <3>2. added_ = AddElement(e, name, toks)
        BY <2>2 DEF AddJSONElement
      <3>. QED BY <3>1, <3>2, AddElementFrozen
    <2>. QED BY <2>1, <2>2
  <1>2. WriteJSONElement(e, name, json) \in {added_, EndContainer(data)}
    BY DEF WriteJSONElement
  <1>. HIDE DEF added_
  <1>3. Frozen(added_, begun)
    BY <1>1, BeginContainerFrozen DEF Frozen
  <1>. HIDE DEF begun
  <1>4. "error" \in Names /\ "json_data" \in Names
    BY TokenTexts DEF Names
  <1>5. Frozen(begun, error)
    BY <1>3, <1>4, TokenTexts, AddStringElementFrozen DEF Frozen
  <1>. HIDE DEF error
  <1>6. Frozen(error, data)
    BY <1>4, <1>5, TokenTexts, AddStringElementFrozen DEF Frozen
  <1>. HIDE DEF data
  <1>7. Frozen(data, EndContainer(data))
    BY <1>6, EndContainerFrozen DEF Frozen
  <1>8. Frozen(e, EndContainer(data))
    BY <1>1, <1>3, <1>5, <1>6, <1>7 DEF Frozen
  <1>. QED BY <1>1, <1>2, <1>8

\* On a full disk nothing is written: a file of JSON.
LEMMA WriteJSONFileFrozen ==
    ASSUME NEW e \in Encoders, NEW name \in Names, NEW content \in {"absent", "empty", "raw", "junk"}
    PROVE  Frozen(e, WriteJSONFile(e, name, content))
  <1>1. CASE content \in {"raw", "junk"}
    BY <1>1, TokenSeqs, AddElementFrozen DEF WriteJSONFile
  <1>2. CASE content = "empty"
    BY <1>2, BeginElementFrozen DEF WriteJSONFile
  <1>3. CASE content = "absent"
    BY <1>3 DEF WriteJSONFile, Frozen
  <1>. QED BY <1>1, <1>2, <1>3

\* On a full disk nothing is written: a file of text.
LEMMA WriteTextFileFrozen ==
    ASSUME NEW e \in Encoders, NEW name \in Names, NEW content \in {"absent", "text"}
    PROVE  Frozen(e, WriteTextFile(e, name, content))
  <1>1. CASE content = "text"
    <2>. DEFINE x == AddElement(e, name, <<"quote", content>>)
                fresh == [x EXCEPT !.ok = TRUE]
    <2>1. <<"quote", content>> \in Seq(Texts)
      BY <1>1, TokenSeqs
    <2>2. Frozen(e, x)
      BY <2>1, AddElementFrozen
    <2>3. WriteTextFile(e, name, content) = AddJSONData(fresh, "quote")
      BY <1>1 DEF WriteTextFile
    <2>. HIDE DEF x
    <2>4. Frozen(x, fresh)
      BY <2>2 DEF Frozen, Encoders
    <2>. HIDE DEF fresh
    <2>5. Frozen(fresh, AddJSONData(fresh, "quote"))
      BY <2>4, TokenTexts, AddFrozen DEF Frozen
    <2>. QED BY <2>2, <2>3, <2>4, <2>5, FrozenTwice
  <1>2. CASE content = "absent"
    BY <1>2 DEF WriteTextFile, Frozen
  <1>. QED BY <1>1, <1>2

\* A call keeps the type of an encoder, and cannot do anything on a full disk.
LEMMA CallFrozen ==
    ASSUME NEW e \in Encoders, NEW c \in Calls
    PROVE  Frozen(e, Call(e, c))
  <1>1. CASE c.op = "beginObject"
    BY <1>1, BeginContainerFrozen DEF Call, Calls
  <1>2. CASE c.op = "beginArray"
    BY <1>2, BeginContainerFrozen DEF Call, Calls
  <1>3. CASE c.op = "endContainer"
    BY <1>3, EndContainerFrozen DEF Call, Calls
  <1>4. CASE c.op \in {"addString", "addUUID"}
    <2>1. c.name \in Names /\ c.arg \in Texts \cup {NoName}
      BY <1>4, TokenTexts DEF Calls
    <2>2. Call(e, c) = AddStringElement(e, c.name, c.arg)
      BY <1>4 DEF Call
    <2>. QED BY <2>1, <2>2, AddStringElementFrozen
  <1>5. CASE c.op = "addNumber"
    BY <1>5, TokenSeqs, AddElementFrozen DEF Calls, Call
  <1>6. CASE c.op = "addDouble"
    <2>. DEFINE toks == IF c.arg = "finite" THEN <<"scalar">> ELSE <<"junk">>
    <2>1. c.name \in Names /\ toks \in Seq(Texts)
      BY <1>6, TokenSeqs DEF Calls
    <2>2. Call(e, c) = AddElement(e, c.name, toks)
      BY <1>6 DEF Call, AddFloatingPointElement
    <2>. QED BY <2>1, <2>2, AddElementFrozen
  <1>7. CASE c.op = "addJSON"
    BY <1>7, WriteJSONElementFrozen DEF Calls, Call
  <1>8. CASE c.op = "addJSONFile"
    BY <1>8, WriteJSONFileFrozen DEF Calls, Call
  <1>9. CASE c.op = "addTextFile"
    BY <1>9, WriteTextFileFrozen DEF Calls, Call
  <1>. QED BY <1>1, <1>2, <1>3, <1>4, <1>5, <1>6, <1>7, <1>8, <1>9 DEF Calls

\* So it is for any sequence of calls of the report writer.
LEMMA RunFrozen ==
    ASSUME NEW e \in Encoders, NEW p \in Seq(Calls)
    PROVE  Frozen(e, Run(e, p))
  <1>1. Len(p) \in Nat
    OBVIOUS
  <1>2. PICK f : /\ Run(e, p) = f[Len(p)] /\ f[0] = e
                 /\ \A i \in 1 .. Len(p) : f[i] = Ran(f[i - 1], p[i])
    BY <1>1, RunSteps
  <1>. DEFINE A == {i \in 0 .. Len(p) : Frozen(e, f[i])}
  <1>3. 0 \in A
    BY <1>1, <1>2 DEF Frozen
  <1>4. ASSUME NEW i \in 0 .. Len(p) - 1, i \in A PROVE i + 1 \in A
    <2>1. f[i] \in Encoders /\ p[i + 1] \in Calls
      BY <1>4 DEF Frozen
    <2>2. f[i + 1] = Call(f[i], p[i + 1])
      BY <1>2, <2>1 DEF Ran, Encoders
    <2>3. Frozen(f[i], f[i + 1])
      BY <2>1, <2>2, CallFrozen
    <2>. QED BY <1>4, <2>3, FrozenTwice
  <1>5. Len(p) \in A
    <2>. HIDE DEF A
    <2>1. 0 .. Len(p) \subseteq A
      BY <1>1, <1>3, <1>4, UpToInduction
    <2>. QED BY <1>1, <2>1
  <1>. QED BY <1>2, <1>5

-----------------------------------------------------------------------------
(* Writing tokens.                                                         *)
(* An operation of the encoder writes all its tokens, or the disk is full  *)
(* and the file stays as it is for good.                                   *)

\* An encoder whose file is cut short: whatever is called, it stays as it is.
Halted(e) == e \in Encoders /\ e.room = 0 /\ e.doc.at # "end"

\* The call that found the disk full has failed, and says so.
Dead(e) == Halted(e) /\ ~e.ok

\* A file cut off by a full disk stays as it is, whatever is called.
LEMMA HaltedStays ==
    ASSUME NEW e, NEW f, Halted(e), Frozen(e, f)
    PROVE  Halted(f)
  BY DEF Halted, Frozen

\* Nothing is written after a failed call until the next element begins.
LEMMA DeadStays ==
    ASSUME NEW e, NEW tok, Dead(e)
    PROVE  AddJSONData(e, tok) = e
  BY DEF Dead, AddJSONData

\* One token, on a disk that may be full.
LEMMA TokenStep ==
    ASSUME NEW e \in Encoders, e.ok, e.doc.at # "end", NEW tok \in Texts
    PROVE  LET f == AddJSONData(e, tok)
           IN  \/ Dead(f)
               \/ f \in Encoders /\ f.ok /\ f.open = e.open /\ f.first = e.first /\ f.doc = Feed(e.doc, tok)
  <1>1. CASE e.room = 0
    BY <1>1 DEF AddJSONData, Dead, Halted, Encoders
  <1>2. CASE e.room # 0
    <2>. DEFINE doc == Feed(e.doc, tok)
                left == IF e.room = Unlimited THEN e.room ELSE e.room - 1
    <2>1. AddJSONData(e, tok) \in Encoders
      BY AddFrozen DEF Frozen
    <2>2. AddJSONData(e, tok) = [e EXCEPT !.doc = doc, !.room = left]
      BY <1>2 DEF AddJSONData
    <2>. HIDE DEF doc, left
    <2>3. [e EXCEPT !.doc = doc, !.room = left].ok = e.ok
          /\ [e EXCEPT !.doc = doc, !.room = left].open = e.open
          /\ [e EXCEPT !.doc = doc, !.room = left].first = e.first
          /\ [e EXCEPT !.doc = doc, !.room = left].doc = doc
      BY DEF Encoders
    <2>. QED BY <2>1, <2>2, <2>3 DEF doc
  <1>. QED BY <1>1, <1>2

\* The token leaves the encoder dead, or the acceptor at a.
After(e, f, d) ==
  f \in Encoders /\ f.ok /\ f.open = e.open /\ f.first = e.first /\ f.doc = d

\* One token more, of several that are written only if the one before was.
LEMMA TokenAfter ==
    ASSUME NEW e, NEW d, NEW f, Dead(f) \/ After(e, f, d), d.at # "end", NEW tok \in Texts
    PROVE  Dead(AddJSONData(f, tok)) \/ After(e, AddJSONData(f, tok), Feed(d, tok))
  <1>1. CASE Dead(f)
    BY <1>1, DeadStays
  <1>2. CASE After(e, f, d)
    BY <1>2, TokenStep DEF After
  <1>. QED BY <1>1, <1>2

\* Write, token by token.
LEMMA WriteFew ==
    ASSUME NEW e
    PROVE  /\ \A a : Write(e, <<a>>) = AddJSONData(e, a)
           /\ \A a, b : Write(e, <<a, b>>) = AddJSONData(AddJSONData(e, a), b)
           /\ \A a, b, c : Write(e, <<a, b, c>>) = AddJSONData(AddJSONData(AddJSONData(e, a), b), c)
           /\ \A a, b, c, d : Write(e, <<a, b, c, d>>)
                = AddJSONData(AddJSONData(AddJSONData(AddJSONData(e, a), b), c), d)
  <1>1. ASSUME NEW a PROVE Write(e, <<a>>) = AddJSONData(e, a)
    <2>. DEFINE p == <<a>>
    <2>1. Len(p) = 1 /\ Len(p) \in Nat /\ p[1] = a
      OBVIOUS
    <2>. HIDE DEF p
    <2>. Len(p) \in Nat
      BY <2>1
    <2>2. PICK f : /\ Write(e, p) = f[Len(p)] /\ f[0] = e
                   /\ \A i \in 1 .. Len(p) : f[i] = AddJSONData(f[i - 1], p[i])
      BY WriteSteps
    <2>3. f[1] = AddJSONData(e, a)
      BY <2>1, <2>2
    <2>. QED BY <2>2, <2>3 DEF p
  <1>2. ASSUME NEW a, NEW b PROVE Write(e, <<a, b>>) = AddJSONData(AddJSONData(e, a), b)
    <2>. DEFINE p == <<a, b>>
    <2>1. Len(p) = 2 /\ Len(p) \in Nat /\ p[1] = a /\ p[2] = b
      OBVIOUS
    <2>. HIDE DEF p
    <2>. Len(p) \in Nat
      BY <2>1
    <2>2. PICK f : /\ Write(e, p) = f[Len(p)] /\ f[0] = e
                   /\ \A i \in 1 .. Len(p) : f[i] = AddJSONData(f[i - 1], p[i])
      BY WriteSteps
    <2>3. f[1] = AddJSONData(e, a) /\ f[2] = AddJSONData(f[1], b)
      BY <2>1, <2>2
    <2>. QED BY <2>2, <2>3 DEF p
  <1>3. ASSUME NEW a, NEW b, NEW c
        PROVE  Write(e, <<a, b, c>>) = AddJSONData(AddJSONData(AddJSONData(e, a), b), c)
    <2>. DEFINE p == <<a, b, c>>
    <2>1. Len(p) = 3 /\ Len(p) \in Nat /\ p[1] = a /\ p[2] = b /\ p[3] = c
      OBVIOUS
    <2>. HIDE DEF p
    <2>. Len(p) \in Nat
      BY <2>1
    <2>2. PICK f : /\ Write(e, p) = f[Len(p)] /\ f[0] = e
                   /\ \A i \in 1 .. Len(p) : f[i] = AddJSONData(f[i - 1], p[i])
      BY WriteSteps
    <2>3. f[1] = AddJSONData(e, a) /\ f[2] = AddJSONData(f[1], b) /\ f[3] = AddJSONData(f[2], c)
      BY <2>1, <2>2
    <2>. QED BY <2>2, <2>3 DEF p
  <1>4. ASSUME NEW a, NEW b, NEW c, NEW d
        PROVE  Write(e, <<a, b, c, d>>)
                 = AddJSONData(AddJSONData(AddJSONData(AddJSONData(e, a), b), c), d)
    <2>. DEFINE p == <<a, b, c, d>>
    <2>1. Len(p) = 4 /\ Len(p) \in Nat /\ p[1] = a /\ p[2] = b /\ p[3] = c /\ p[4] = d
      OBVIOUS
    <2>. HIDE DEF p
    <2>. Len(p) \in Nat
      BY <2>1
    <2>2. PICK f : /\ Write(e, p) = f[Len(p)] /\ f[0] = e
                   /\ \A i \in 1 .. Len(p) : f[i] = AddJSONData(f[i - 1], p[i])
      BY WriteSteps
    <2>3. f[1] = AddJSONData(e, a) /\ f[2] = AddJSONData(f[1], b) /\ f[3] = AddJSONData(f[2], c)
          /\ f[4] = AddJSONData(f[3], d)
      BY <2>1, <2>2
    <2>. QED BY <2>2, <2>3 DEF p
  <1>. QED BY <1>1, <1>2, <1>3, <1>4

\* Between two calls the encoder and the text agree on what is open.

\* Between two elements of a container: the levels of the encoder are those of
\* the file.
Ready(e) ==
  /\ e \in Encoders
  /\ Len(e.open) >= 1 /\ Len(e.doc.stack) = Len(e.open)
  /\ \A i \in 1 .. Len(e.open) : e.doc.stack[i].object = e.open[i]
  /\ e.doc.at = IF e.first THEN "first" ELSE "next"

\* The innermost container, of the encoder and of the file.
LEMMA ReadyEnd ==
    ASSUME NEW e, Ready(e)
    PROVE  /\ e \in Encoders /\ e.open # <<>> /\ e.doc.stack # <<>> /\ e.doc \in Docs /\ e.doc.stack \in Levels
           /\ Last(e.open) = e.open[Len(e.open)] /\ Last(e.open) \in BOOLEAN
           /\ Last(e.doc.stack) = e.doc.stack[Len(e.open)] /\ Last(e.doc.stack).object = Last(e.open)
           /\ InObject(e) = Last(e.open) /\ InObjectText(e.doc) = Last(e.open)
  <1>1. e \in Encoders /\ e.open \in Seq(BOOLEAN) /\ e.doc \in Docs /\ e.doc.stack \in Levels
    BY DEF Ready, Encoders, Docs
  <1>2. LevelShape(e.doc.stack)
    BY <1>1, LevelFields
  <1>3. e.open # <<>> /\ e.doc.stack # <<>>
    BY <1>1, <1>2 DEF Ready, LevelShape
  <1>4. Len(e.open) \in 1 .. Len(e.open)
    BY <1>1 DEF Ready
  <1>5. /\ Last(e.open) = e.open[Len(e.open)] /\ Last(e.open) \in BOOLEAN
        /\ Last(e.doc.stack) = e.doc.stack[Len(e.open)] /\ Last(e.doc.stack).object = Last(e.open)
    BY <1>1, <1>3, <1>4 DEF Ready, Last
  <1>. QED BY <1>1, <1>3, <1>5 DEF InObject, InObjectText

\* The path of the innermost container, and the members once there is one
\* more of it.
KeyPath(d) == [i \in 1 .. Len(d.stack) - 1 |-> d.stack[i + 1].key]

\* The members of d after name has been noted.
NotedMembers(d, name) ==
  LET path == KeyPath(d) \o <<name>>
  IN  IF Len(path) <= 2 \/ (Len(path) = 3 /\ name = "item") THEN Append(d.members, path) ELSE d.members

\* Noting a member is all that Noted does.
LEMMA NotedIs ==
    ASSUME NEW d \in Docs, NEW name \in Texts
    PROVE  /\ Noted(d, name) \in Docs
           /\ Noted(d, name).stack = d.stack /\ Noted(d, name).at = d.at /\ Noted(d, name).key = d.key
           /\ Noted(d, name).members = NotedMembers(d, name)
  <1>. DEFINE path == KeyPath(d) \o <<name>>
              added_ == Append(d.members, path)
              known == Len(path) <= 2 \/ (Len(path) = 3 /\ name = "item")
  <1>1. Noted(d, name) = IF known THEN [d EXCEPT !.members = added_] ELSE d
    BY DEF Noted, KeyPath
  <1>2. NotedMembers(d, name) = IF known THEN added_ ELSE d.members
    BY DEF NotedMembers
  <1>. HIDE DEF added_, known
  <1>3. [d EXCEPT !.members = added_].members = added_
    BY DEF Docs
  <1>. QED BY <1>1, <1>2, <1>3, NotedType

\* The name the file has for what the encoder adds.
Key(e, name) == IF InObject(e) THEN name ELSE "item"

\* An element has been begun: its separator and its name are written.
Begun(e, b, name) ==
  /\ b \in Encoders /\ b.ok /\ ~b.first /\ b.open = e.open
  /\ b.doc.stack = e.doc.stack
  /\ IF InObject(e)
     THEN b.doc.at = "value" /\ b.doc.key = name /\ b.doc.members = NotedMembers(e.doc, name)
     ELSE b.doc.at \in {"value", "first"} /\ b.doc.members = e.doc.members

\* A member of an object has a name.
Nameable(e, name) == name \in Names /\ (InObject(e) => name \in Texts)

\* A sequence of four.
LEMMA AppendFour ==
    ASSUME NEW S, NEW a \in S, NEW b \in S, NEW c \in S, NEW d \in S
    PROVE  Append(<<a, b, c>>, d) = <<a, b, c, d>>
  <1>. DEFINE s == <<a, b, c>>
              t == Append(s, d)
  <1>1. s \in Seq(S)
    OBVIOUS
  <1>2. Len(s) = 3 /\ s[1] = a /\ s[2] = b /\ s[3] = c
    OBVIOUS
  <1>. HIDE DEF s
  <1>3. t \in Seq(S)
    BY <1>1
  <1>4. Len(t) = Len(s) + 1 /\ t[Len(s) + 1] = d /\ \A i \in 1 .. Len(s) : t[i] = s[i]
    BY <1>1
  <1>. HIDE DEF t
  <1>5. t[4] = d /\ t[1] = a /\ t[2] = b /\ t[3] = c
    BY <1>2, <1>4
  <1>6. Len(t) = 4
    BY <1>2, <1>4
  <1>7. t = <<t[1], t[2], t[3], t[4]>>
    BY <1>3, <1>6
  <1>. QED BY <1>5, <1>7 DEF t, s

\* The comma, the name and the colon are written, or the disk is full.
LEMMA BeginElementBegins ==
    ASSUME NEW e, Ready(e), NEW name, Nameable(e, name)
    PROVE  Dead(BeginElement(e, name)) \/ Begun(e, BeginElement(e, name), name)
  <1>. DEFINE fresh == [e EXCEPT !.ok = TRUE]
              begun == [fresh EXCEPT !.first = FALSE]
              s == IF e.first THEN begun ELSE AddJSONData(fresh, ",")
              b == BeginElement(e, name)
  <1>1. /\ e \in Encoders /\ e.doc \in Docs /\ e.doc.stack # <<>> /\ e.first \in BOOLEAN
        /\ InObjectText(e.doc) = InObject(e) /\ InObject(e) \in BOOLEAN
    BY ReadyEnd DEF Encoders
  <1>. DEFINE a == IF e.first THEN "first" ELSE IF InObject(e) THEN "key" ELSE "value"
  <1>2. Dead(s) \/ (/\ s \in Encoders /\ s.ok /\ ~s.first /\ s.open = e.open
                    /\ s.doc.stack = e.doc.stack /\ s.doc.members = e.doc.members /\ s.doc.at = a)
    <2>1. fresh \in Encoders /\ fresh.ok /\ fresh.doc = e.doc /\ fresh.open = e.open /\ fresh.first = e.first
      BY <1>1 DEF Encoders
    <2>2. CASE e.first
      <3>. HIDE DEF fresh
      <3>1. begun \in Encoders /\ begun.ok /\ ~begun.first /\ begun.doc = fresh.doc /\ begun.open = fresh.open
        BY <2>1 DEF Encoders
      <3>2. e.doc.at = "first"
        BY <2>2 DEF Ready
      <3>. QED BY <2>1, <2>2, <3>1, <3>2
    <2>3. CASE ~e.first
      <3>. HIDE DEF fresh
      <3>1. e.doc.at = "next"
        BY <2>3 DEF Ready
      <3>2. Feed(e.doc, ",") = [e.doc EXCEPT !.at = IF InObjectText(e.doc) THEN "key" ELSE "value"]
        BY <3>1, FeedComma
      <3>3. /\ Feed(e.doc, ",").stack = e.doc.stack /\ Feed(e.doc, ",").members = e.doc.members
            /\ Feed(e.doc, ",").at = a
        BY <1>1, <2>3, <3>2 DEF Docs
      <3>4. Dead(s) \/ After(fresh, s, Feed(e.doc, ","))
        <4>1. After(fresh, fresh, e.doc) /\ e.doc.at # "end" /\ "," \in Texts
          BY <2>1, <3>1, TokenTexts DEF After
        <4>2. Dead(AddJSONData(fresh, ",")) \/ After(fresh, AddJSONData(fresh, ","), Feed(e.doc, ","))
          BY <4>1, TokenAfter
        <4>. QED BY <2>3, <4>2
      <3>. QED BY <2>1, <2>3, <3>3, <3>4 DEF After
    <2>. QED BY <1>1, <2>2, <2>3
  <1>3. b = IF ~InObject(e) \/ ~s.ok THEN s
            ELSE IF name = NoName THEN [s EXCEPT !.ok = FALSE]
            ELSE Write(s, Append(QuotedText(name), ":"))
    BY DEF BeginElement
  <1>. HIDE DEF s
  <1>4. CASE Dead(s)
    BY <1>3, <1>4 DEF Dead
  <1>5. CASE ~Dead(s) /\ ~InObject(e)
    BY <1>2, <1>3, <1>5 DEF Begun
  <1>6. CASE ~Dead(s) /\ InObject(e)
    <2>. DEFINE d == s.doc
                d1 == [d EXCEPT !.at = "inKey"]
                d2 == [d1 EXCEPT !.key = name]
                d3 == [d2 EXCEPT !.at = "colon"]
                d4 == [Noted(d3, name) EXCEPT !.at = "value"]
    <2>1. /\ s \in Encoders /\ s.ok /\ ~s.first /\ s.open = e.open /\ d \in Docs
          /\ d.stack = e.doc.stack /\ d.members = e.doc.members /\ d.at \in {"first", "key"}
          /\ InObjectText(d) /\ name \in Texts /\ name # "quote"
      BY <1>1, <1>2, <1>6, TokenTexts DEF Encoders, InObjectText, Nameable, Names
    <2>2. d1 \in Docs /\ d1.at = "inKey" /\ d1.stack = d.stack /\ d1.members = d.members
      BY <2>1 DEF Docs, Places
    <2>3. d2 \in Docs /\ d2.at = "inKey" /\ d2.stack = d.stack /\ d2.members = d.members /\ d2.key = name
      BY <2>1, <2>2 DEF Docs
    <2>4. d3 \in Docs /\ d3.at = "colon" /\ d3.stack = d.stack /\ d3.members = d.members /\ d3.key = name
      <3>. HIDE DEF d2
      <3>. QED BY <2>3 DEF Docs, Places
    <2>5. d4 \in Docs /\ d4.at = "value" /\ d4.stack = d.stack /\ d4.key = name
          /\ d4.members = NotedMembers(e.doc, name)
      <3>. DEFINE n == Noted(d3, name)
      <3>. HIDE DEF d3
      <3>1. n \in Docs /\ n.stack = d.stack /\ n.key = name /\ n.members = NotedMembers(d3, name)
        BY <2>1, <2>4, NotedIs
      <3>2. NotedMembers(d3, name) = NotedMembers(e.doc, name)
        BY <2>1, <2>4 DEF NotedMembers, KeyPath
      <3>. HIDE DEF n
      <3>3. [n EXCEPT !.at = "value"] \in Docs /\ [n EXCEPT !.at = "value"].at = "value"
            /\ [n EXCEPT !.at = "value"].stack = n.stack /\ [n EXCEPT !.at = "value"].key = n.key
            /\ [n EXCEPT !.at = "value"].members = n.members
        BY <3>1 DEF Docs, Places
      <3>. QED BY <3>1, <3>2, <3>3 DEF n
    <2>6. Feed(d, "quote") = d1
      BY <2>1 DEF Feed
    <2>. HIDE DEF d1
    <2>7. Feed(d1, name) = d2
      BY <2>1, <2>2, FeedKey
    <2>. HIDE DEF d2
    <2>8. Feed(d2, "quote") = d3
      BY <2>3, FeedKey
    <2>. HIDE DEF d3
    <2>9. Feed(d3, ":") = d4
      BY <2>4, FeedColon
    <2>. HIDE DEF d4
    <2>. DEFINE f1 == AddJSONData(s, "quote")
                f2 == AddJSONData(f1, name)
                f3 == AddJSONData(f2, "quote")
                f4 == AddJSONData(f3, ":")
    <2>10. After(s, s, d)
      BY <2>1 DEF After
    <2>11. Dead(f1) \/ After(s, f1, d1)
      BY <2>1, <2>6, <2>10, TokenAfter, TokenTexts
    <2>. HIDE DEF f1
    <2>12. Dead(f2) \/ After(s, f2, d2)
      BY <2>1, <2>2, <2>7, <2>11, TokenAfter
    <2>. HIDE DEF f2
    <2>13. Dead(f3) \/ After(s, f3, d3)
      BY <2>3, <2>8, <2>12, TokenAfter, TokenTexts
    <2>. HIDE DEF f3
    <2>14. Dead(f4) \/ After(s, f4, d4)
      BY <2>4, <2>9, <2>13, TokenAfter, TokenTexts
    <2>. HIDE DEF f4
    <2>15. b = f4
      <3>1. name # NoName
        BY <2>1, TokenTexts
      <3>2. Append(QuotedText(name), ":") = <<"quote", name, "quote", ":">>
        <4>1. "quote" \in Texts
          BY TokenTexts
        <4>2. ":" \in Texts
          BY TokenTexts
        <4>3. name \in Texts
          BY <2>1
        <4>4. Append(<<"quote", name, "quote">>, ":") = <<"quote", name, "quote", ":">>
          BY <4>1, <4>2, <4>3, AppendFour
        <4>. QED BY <4>4 DEF QuotedText
      <3>3. b = Write(s, <<"quote", name, "quote", ":">>)
        BY <1>3, <1>6, <2>1, <3>1, <3>2
      <3>. QED BY <3>3, WriteFew DEF f1, f2, f3, f4
    <2>. QED BY <1>6, <2>1, <2>5, <2>14, <2>15 DEF After, Begun
  <1>. QED BY <1>1, <1>4, <1>5, <1>6

\* What has been begun is read as a value v.
Valued(e, v, name) ==
  v \in Docs /\ v.stack = e.doc.stack /\ v.key = Key(e, name) /\ v.members = NotedMembers(e.doc, Key(e, name))

\* After them the file takes a value.
LEMMA BegunValued ==
    ASSUME NEW e, Ready(e), NEW name, Nameable(e, name), NEW b, Begun(e, b, name)
    PROVE  /\ Valued(e, Element(b.doc), name) /\ b.doc.at # "end" /\ Key(e, name) \in Texts
           /\ \A tok \in {"scalar", "raw", "quote", "{", "["} : Feed(b.doc, tok) = FeedValue(b.doc, tok)
  <1>1. /\ InObjectText(e.doc) = InObject(e) /\ InObject(e) \in BOOLEAN /\ e.doc.stack # <<>>
        /\ InObject(e) = Last(e.doc.stack).object
    BY ReadyEnd
  <1>2. b.doc \in Docs /\ b.doc.stack = e.doc.stack /\ InObjectText(b.doc) = InObject(e)
    BY <1>1 DEF Begun, Encoders, InObjectText
  <1>3. CASE InObject(e)
    <2>1. Element(b.doc) = b.doc
      BY <1>1, <1>2, <1>3, ElementType
    <2>2. b.doc.at = "value"
      BY <1>3 DEF Begun
    <2>3. \A tok \in {"scalar", "raw", "quote", "{", "["} : Feed(b.doc, tok) = FeedValue(b.doc, tok)
      BY <2>2, FeedsValue DEF ReadsValue
    <2>. QED BY <1>2, <1>3, <2>1, <2>2, <2>3 DEF Begun, Valued, Key, Nameable
  <1>4. CASE ~InObject(e)
    <2>. DEFINE x == [b.doc EXCEPT !.key = "item"]
    <2>1. x \in Docs /\ x.stack = e.doc.stack /\ x.members = e.doc.members
      BY <1>2, <1>4, TokenTexts DEF Docs, Begun
    <2>2. Element(b.doc) = Noted(x, "item") /\ Element(b.doc).key = "item"
      BY <1>1, <1>2, <1>4, ElementType
    <2>. HIDE DEF x
    <2>3. Noted(x, "item") \in Docs /\ Noted(x, "item").stack = x.stack
          /\ Noted(x, "item").members = NotedMembers(x, "item")
      BY <2>1, NotedIs, TokenTexts
    <2>4. NotedMembers(x, "item") = NotedMembers(e.doc, "item")
      BY <2>1 DEF NotedMembers, KeyPath
    <2>5. b.doc.at \in {"value", "first"} /\ CloseOf(b.doc) = "]"
      BY <1>2, <1>4 DEF Begun, CloseOf
    <2>6. \A tok \in {"scalar", "raw", "quote", "{", "["} : ReadsValue(b.doc, tok)
      BY <1>2, <1>4, <2>5 DEF ReadsValue
    <2>7. \A tok \in {"scalar", "raw", "quote", "{", "["} : Feed(b.doc, tok) = FeedValue(b.doc, tok)
      BY <2>6, FeedsValue
    <2>. QED BY <1>4, <2>1, <2>2, <2>3, <2>4, <2>5, <2>7, TokenTexts DEF Valued, Key
  <1>. QED BY <1>1, <1>3, <1>4

\* The same containers are open, and the members are m.
Kept(e, f, m) ==
  Ready(f) /\ f.open = e.open /\ f.doc.stack = e.doc.stack /\ f.doc.members = m

\* A value has been read to its end.
LEMMA ValueKept ==
    ASSUME NEW e, Ready(e), NEW name, NEW b, Begun(e, b, name), NEW v, Valued(e, v, name),
           NEW f, After(b, f, Closed(v))
    PROVE  f.ok /\ Kept(e, f, NotedMembers(e.doc, Key(e, name)))
  <1>1. e.doc.stack # <<>> /\ v.stack # <<>> /\ v \in Docs
    BY ReadyEnd DEF Valued
  <1>2. Closed(v).at = "next" /\ Closed(v).stack = v.stack /\ Closed(v).members = v.members
    BY <1>1 DEF Closed, Docs
  <1>. QED BY <1>2 DEF After, Begun, Ready, Kept, Valued

\* The tokens of one value that is not a container.
ValueTokens == {<<"scalar">>, <<"raw">>} \cup {QuotedText(t) : t \in Texts \ {"quote"}}

\* A value is added whole and noted once, or the disk is full.
LEMMA ElementAdded ==
    ASSUME NEW e, Ready(e), NEW name, Nameable(e, name), NEW toks \in ValueTokens
    PROVE  LET f == AddElement(e, name, toks)
           IN  Dead(f) \/ (f.ok /\ Kept(e, f, NotedMembers(e.doc, Key(e, name))))
  <1>. DEFINE b == BeginElement(e, name)
              v == Element(b.doc)
              f == AddElement(e, name, toks)
  <1>1. f = Write(b, toks)
    BY DEF AddElement
  <1>2. Dead(b) \/ Begun(e, b, name)
    BY BeginElementBegins
  <1>. HIDE DEF b, f
  <1>3. CASE Dead(b)
    <2>1. CASE toks \in {<<"scalar">>, <<"raw">>}
      BY <1>1, <1>3, <2>1, WriteFew, DeadStays DEF f
    <2>2. CASE toks \in {QuotedText(t) : t \in Texts \ {"quote"}}
      <3>1. PICK t \in Texts : toks = <<"quote", t, "quote">>
        BY <2>2 DEF QuotedText
      <3>2. f = AddJSONData(AddJSONData(AddJSONData(b, "quote"), t), "quote")
        BY <1>1, <3>1, WriteFew
      <3>3. f = b
        BY <1>3, <3>2, DeadStays
      <3>. QED BY <1>3, <3>3 DEF f
    <2>. QED BY <2>1, <2>2 DEF ValueTokens
  <1>4. CASE Begun(e, b, name)
    <2>1. /\ Valued(e, v, name) /\ b.doc.at # "end"
          /\ \A tok \in {"scalar", "raw", "quote"} : Feed(b.doc, tok) = FeedValue(b.doc, tok)
      BY <1>4, BegunValued
    <2>2. After(b, b, b.doc)
      BY <1>4 DEF After, Begun
    <2>3. CASE toks \in {<<"scalar">>, <<"raw">>}
      <3>1. PICK tok \in {"scalar", "raw"} : toks = <<tok>>
        BY <2>3
      <3>2. f = AddJSONData(b, tok)
        BY <1>1, <3>1, WriteFew
      <3>3. FeedValue(b.doc, tok) = Closed(v)
        BY <3>1 DEF FeedValue
      <3>4. tok \in Texts
        BY <3>1, TokenTexts
      <3>5. Dead(f) \/ After(b, f, Closed(v))
        BY <2>1, <2>2, <3>1, <3>2, <3>3, <3>4, TokenAfter
      <3>. HIDE DEF v
      <3>. QED BY <1>4, <2>1, <3>5, ValueKept DEF f
    <2>4. CASE toks \in {QuotedText(t) : t \in Texts \ {"quote"}}
      <3>1. PICK t \in Texts : t # "quote" /\ toks = <<"quote", t, "quote">>
        BY <2>4 DEF QuotedText
      <3>. DEFINE d1 == [v EXCEPT !.at = "inText"]
                  f1 == AddJSONData(b, "quote")
                  f2 == AddJSONData(f1, t)
                  f3 == AddJSONData(f2, "quote")
      <3>2. f = f3
        BY <1>1, <3>1, WriteFew
      <3>3. Feed(b.doc, "quote") = d1
        BY <2>1 DEF FeedValue
      <3>. HIDE DEF v
      <3>4. d1 \in Docs /\ d1.at = "inText" /\ Valued(e, d1, name)
        BY <2>1 DEF Valued, Docs, Places
      <3>. HIDE DEF d1
      <3>5. Feed(d1, t) = d1 /\ Feed(d1, "quote") = Closed(d1)
        BY <3>1, <3>4, FeedText
      <3>6. Dead(f1) \/ After(b, f1, d1)
        BY <2>1, <2>2, <3>3, TokenAfter, TokenTexts
      <3>. HIDE DEF f1
      <3>7. Dead(f2) \/ After(b, f2, d1)
        BY <3>1, <3>4, <3>5, <3>6, TokenAfter
      <3>. HIDE DEF f2
      <3>8. Dead(f3) \/ After(b, f3, Closed(d1))
        BY <3>4, <3>5, <3>7, TokenAfter, TokenTexts
      <3>. HIDE DEF f3
      <3>. QED BY <1>4, <3>2, <3>4, <3>8, ValueKept DEF f
    <2>. QED BY <2>3, <2>4 DEF ValueTokens
  <1>. QED BY <1>2, <1>3, <1>4

\* A container has been begun in e.
Opened(e, f, name, isObject) ==
  /\ Ready(f) /\ f.ok /\ f.open = Append(e.open, isObject)
  /\ f.doc.stack = Append(e.doc.stack, [object |-> isObject, key |-> Key(e, name)])
  /\ f.doc.members = NotedMembers(e.doc, Key(e, name))

\* A container begins whole, or the disk is full.
LEMMA ContainerOpened ==
    ASSUME NEW e, Ready(e), NEW name, Nameable(e, name), NEW isObject \in BOOLEAN
    PROVE  LET f == BeginContainer(e, name, isObject) IN Dead(f) \/ Opened(e, f, name, isObject)
  <1>. DEFINE b == BeginElement(e, name)
              v == Element(b.doc)
              o == [b EXCEPT !.open = Append(b.open, isObject), !.first = TRUE]
              tok == IF isObject THEN "{" ELSE "["
              g == AddJSONData(o, tok)
  <1>1. BeginContainer(e, name, isObject) = IF ~b.ok THEN b ELSE g
    BY DEF BeginContainer
  <1>2. Dead(b) \/ Begun(e, b, name)
    BY BeginElementBegins
  <1>3. CASE Dead(b)
    BY <1>1, <1>3 DEF Dead
  <1>4. CASE Begun(e, b, name)
    <2>1. /\ Valued(e, v, name) /\ b.doc.at # "end" /\ Key(e, name) \in Texts
          /\ \A t \in {"{", "["} : Feed(b.doc, t) = FeedValue(b.doc, t)
      <3>. HIDE DEF b
      <3>. QED BY <1>4, BegunValued
    <2>2. FeedValue(b.doc, tok) = OpenedDoc(v, isObject)
      BY DEF FeedValue, OpenedDoc
    <2>. HIDE DEF v, b
    <2>3. /\ b \in Encoders /\ b.ok /\ b.open = e.open /\ b.open \in Seq(BOOLEAN)
      BY <1>4 DEF Begun, Encoders
    <2>4. Append(b.open, isObject) \in Seq(BOOLEAN)
      BY <2>3
    <2>5. o \in Encoders /\ o.ok /\ o.first /\ o.open = Append(b.open, isObject) /\ o.doc = b.doc
      BY <2>3, <2>4 DEF Encoders
    <2>. HIDE DEF o
    <2>6. tok \in Texts /\ tok \in {"{", "["}
      BY TokenTexts
    <2>. HIDE DEF tok
    <2>7. After(o, o, b.doc)
      BY <2>5 DEF After
    <2>8. Feed(b.doc, tok) = OpenedDoc(v, isObject)
      BY <2>1, <2>2, <2>6
    <2>9. Dead(g) \/ After(o, g, OpenedDoc(v, isObject))
      BY <2>1, <2>6, <2>7, <2>8, TokenAfter
    <2>. HIDE DEF g
    <2>10. ASSUME After(o, g, OpenedDoc(v, isObject)) PROVE Opened(e, g, name, isObject)
      <3>. DEFINE d == OpenedDoc(v, isObject)
      <3>1. /\ v \in Docs /\ v.stack = e.doc.stack /\ v.key = Key(e, name)
            /\ v.members = NotedMembers(e.doc, Key(e, name))
        BY <2>1 DEF Valued
      <3>2. d.stack = Append(e.doc.stack, [object |-> isObject, key |-> Key(e, name)])
            /\ d.at = "first" /\ d.members = v.members /\ PushShape(v.stack, d.stack, isObject, v.key)
        <4>1. Append(v.stack, [object |-> isObject, key |-> v.key]) \in Levels
          <5>1. v.stack \in Levels /\ v.key \in Texts
            BY <3>1, <2>1, ReadyEnd
          <5>2. PushShape(v.stack, Append(v.stack, [object |-> isObject, key |-> v.key]), isObject, v.key)
            BY <5>1, LevelPush
          <5>. QED BY <5>2 DEF PushShape
        <4>2. d.stack = Append(v.stack, [object |-> isObject, key |-> v.key])
          BY <3>1, <4>1 DEF OpenedDoc, Docs
        <4>. QED BY <3>1, <4>2, OpenedType
      <3>3. g \in Encoders /\ g.ok /\ g.first /\ g.open = Append(e.open, isObject) /\ g.doc = d
        BY <2>3, <2>5, <2>10 DEF After
      <3>4. e.open \in Seq(BOOLEAN) /\ Len(e.open) >= 1 /\ Len(e.doc.stack) = Len(e.open)
            /\ \A i \in 1 .. Len(e.open) : e.doc.stack[i].object = e.open[i]
        BY <2>3 DEF Ready
      <3>5. Len(g.open) = Len(e.open) + 1 /\ g.open[Len(e.open) + 1] = isObject
            /\ \A i \in 1 .. Len(e.open) : g.open[i] = e.open[i]
        BY <3>3, <3>4
      <3>. HIDE DEF d
      <3>6. Len(g.doc.stack) = Len(g.open)
        BY <3>1, <3>2, <3>3, <3>4, <3>5 DEF PushShape
      <3>7. ASSUME NEW i \in 1 .. Len(g.open) PROVE g.doc.stack[i].object = g.open[i]
        <4>. HIDE DEF g
        <4>1. CASE i \in 1 .. Len(e.open)
          <5>. i \in 1 .. Len(v.stack) /\ g.doc.stack = d.stack
            BY <4>1, <3>1, <3>3, <3>4
          <5>1. g.doc.stack[i] = v.stack[i]
            BY <3>2, SMTT(30) DEF PushShape
          <5>2. v.stack[i] = e.doc.stack[i] /\ e.doc.stack[i].object = e.open[i] /\ e.open[i] = g.open[i]
            BY <4>1, <3>1, <3>4, <3>5
          <5>. QED BY <5>1, <5>2
        <4>2. CASE i = Len(e.open) + 1
          BY <3>1, <3>2, <3>3, <3>4, <3>5, <4>2 DEF PushShape
        <4>. QED BY <3>4, <3>5, <4>1, <4>2
      <3>8. Ready(g)
        BY <3>2, <3>3, <3>4, <3>5, <3>6, <3>7 DEF Ready
      <3>. QED BY <3>1, <3>2, <3>3, <3>8 DEF Opened
    <2>. QED BY <1>1, <2>3, <2>9, <2>10
  <1>. QED BY <1>2, <1>3, <1>4

\* What was there before the last.
LEMMA FrontAppend ==
    ASSUME NEW S, NEW s \in Seq(S), NEW x \in S
    PROVE  Front(Append(s, x)) = s
  <1>. DEFINE t == Append(s, x)
  <1>1. t \in Seq(S) /\ Len(t) = Len(s) + 1 /\ \A i \in 1 .. Len(s) : t[i] = s[i]
    OBVIOUS
  <1>. HIDE DEF t
  <1>2. Len(t) - 1 = Len(s) /\ t # <<>>
    BY <1>1
  <1>3. Front(t) = [i \in 1 .. Len(s) |-> t[i]]
    BY <1>1, <1>2 DEF Front
  <1>4. [i \in 1 .. Len(s) |-> t[i]] = [i \in 1 .. Len(s) |-> s[i]]
    BY <1>1
  <1>5. [i \in 1 .. Len(s) |-> s[i]] = s
    OBVIOUS
  <1>. QED BY <1>3, <1>4, <1>5 DEF t

\* The innermost container has been ended.
Ended(e, f) ==
  /\ f \in Encoders /\ f.ok /\ f.open = Front(e.open) /\ f.doc.stack = Front(e.doc.stack)
  /\ f.doc.members = e.doc.members
  /\ Len(f.open) = Len(e.open) - 1
  /\ IF Len(e.open) = 1 THEN f.doc.at = "end" ELSE Ready(f)

\* A container ends whole, or the disk is full.
LEMMA ContainerEnded ==
    ASSUME NEW e, Ready(e)
    PROVE  Dead(EndContainer(e)) \/ Ended(e, EndContainer(e))
  <1>. DEFINE fresh == [e EXCEPT !.ok = TRUE]
              c == [fresh EXCEPT !.open = Front(e.open), !.first = FALSE]
              tok == IF Last(e.open) THEN "}" ELSE "]"
              g == AddJSONData(c, tok)
              popped == [e.doc EXCEPT !.stack = Front(e.doc.stack)]
  <1>1. /\ e \in Encoders /\ e.open # <<>> /\ e.open \in Seq(BOOLEAN) /\ e.doc \in Docs /\ e.doc.stack # <<>>
        /\ e.doc.stack \in Levels /\ e.doc.at \in {"first", "next"}
        /\ InObjectText(e.doc) = Last(e.open) /\ Last(e.open) \in BOOLEAN
    BY ReadyEnd DEF Ready, Encoders
  <1>2. EndContainer(e) = g
    BY <1>1 DEF EndContainer
  <1>3. /\ Front(e.open) = [i \in 1 .. Len(e.open) - 1 |-> e.open[i]] /\ Len(e.open) - 1 \in Nat
        /\ Len(Front(e.open)) = Len(e.open) - 1
        /\ \A i \in 1 .. Len(e.open) - 1 : Front(e.open)[i] = e.open[i]
    BY <1>1 DEF Front
  <1>4. Front(e.open) \in Seq(BOOLEAN)
    BY <1>1, <1>3
  <1>5. c \in Encoders /\ c.ok /\ ~c.first /\ c.open = Front(e.open) /\ c.doc = e.doc
    <2>1. fresh \in Encoders /\ fresh.ok /\ fresh.doc = e.doc
      BY <1>1 DEF Encoders
    <2>. HIDE DEF fresh
    <2>. QED BY <1>4, <2>1 DEF Encoders
  <1>. HIDE DEF c
  <1>6. tok \in Texts /\ tok = CloseOf(e.doc)
    BY <1>1, TokenTexts DEF CloseOf
  <1>. HIDE DEF tok
  <1>7. Feed(e.doc, tok) = Closed(popped)
    BY <1>1, <1>6, FeedClose DEF PoppedDoc
  <1>8. PopShape(e.doc.stack, Front(e.doc.stack))
    BY <1>1, LevelPop
  <1>9. popped \in Docs /\ popped.stack = Front(e.doc.stack) /\ popped.members = e.doc.members
    BY <1>1, <1>8 DEF Docs, PopShape
  <1>. HIDE DEF popped
  <1>10. /\ Closed(popped).stack = popped.stack /\ Closed(popped).members = popped.members
         /\ Closed(popped).at = IF popped.stack = <<>> THEN "end" ELSE "next"
    BY <1>9 DEF Docs, Closed
  <1>11. After(c, c, e.doc)
    BY <1>5 DEF After
  <1>12. Dead(g) \/ After(c, g, Closed(popped))
    BY <1>1, <1>6, <1>7, <1>11, TokenAfter
  <1>. HIDE DEF g
  <1>13. ASSUME After(c, g, Closed(popped)) PROVE Ended(e, g)
    <2>1. /\ g \in Encoders /\ g.ok /\ ~g.first /\ g.open = Front(e.open) /\ g.doc = Closed(popped)
          /\ g.doc.stack = Front(e.doc.stack) /\ g.doc.members = e.doc.members
      BY <1>5, <1>9, <1>10, <1>13 DEF After
    <2>2. Len(g.open) = Len(e.open) - 1 /\ Len(g.doc.stack) = Len(e.open) - 1
      BY <1>1, <1>3, <1>8, <2>1 DEF PopShape, Ready
    <2>3. popped.stack = <<>> <=> Len(e.open) = 1
      <3>1. LevelShape(popped.stack)
        BY <1>9, LevelFields DEF Docs
      <3>2. Len(popped.stack) = Len(e.open) - 1
        BY <1>9, <2>1, <2>2
      <3>3. Len(popped.stack) \in Nat /\ (popped.stack # <<>> <=> Len(popped.stack) > 0)
        BY <3>1 DEF LevelShape
      <3>4. Len(e.open) \in Nat
        BY <1>1
      <3>. DEFINE n == Len(e.open)
                  k == Len(popped.stack)
      <3>5. k = n - 1 /\ k \in Nat /\ n \in Nat /\ (popped.stack # <<>> <=> k > 0)
        BY <3>2, <3>3, <3>4
      <3>. HIDE DEF n, k
      <3>6. k > 0 <=> n # 1
        BY <3>5
      <3>7. popped.stack # <<>> <=> n # 1
        BY <3>5, <3>6
      <3>. QED BY <3>7 DEF n
    <2>4. CASE Len(e.open) = 1
      BY <1>10, <2>1, <2>2, <2>3, <2>4 DEF Ended
    <2>5. CASE Len(e.open) # 1
      <3>1. g.doc.at = "next" /\ Len(g.open) >= 1
        BY <1>3, <1>10, <2>1, <2>2, <2>3, <2>5
      <3>2. ASSUME NEW i \in 1 .. Len(g.open) PROVE g.doc.stack[i].object = g.open[i]
        BY <1>1, <1>3, <1>8, <2>1, <2>2 DEF PopShape, Ready
      <3>3. Ready(g)
        BY <2>1, <2>2, <3>1, <3>2 DEF Ready
      <3>. QED BY <2>1, <2>2, <2>5, <3>3 DEF Ended
    <2>. QED BY <2>4, <2>5
  <1>. QED BY <1>2, <1>12, <1>13

\* What was opened and written into is ended: it is kept.
LEMMA OpenedEnded ==
    ASSUME NEW e, Ready(e), NEW f, NEW name, Nameable(e, name), NEW isObject \in BOOLEAN, Opened(e, f, name, isObject),
           NEW g, NEW m, Kept(f, g, m)
    PROVE  LET h == EndContainer(g) IN Dead(h) \/ (h.ok /\ Kept(e, h, m))
  <1>. DEFINE h == EndContainer(g)
              Level == [object : BOOLEAN, key : Texts]
              x == [object |-> isObject, key |-> Key(e, name)]
  <1>1. Ready(g) /\ g.open = Append(e.open, isObject) /\ g.doc.stack = Append(e.doc.stack, x) /\ g.doc.members = m
    BY DEF Opened, Kept
  <1>2. /\ e.open \in Seq(BOOLEAN) /\ e.doc.stack \in Seq(Level) /\ Len(e.open) >= 1
        /\ Key(e, name) \in Texts
    BY ReadyEnd, TokenTexts DEF Ready, Encoders, Levels, Key, Nameable
  <1>3. x \in Level
    BY <1>2
  <1>. HIDE DEF x, Level
  <1>4. Front(g.open) = e.open /\ Front(g.doc.stack) = e.doc.stack /\ Len(g.open) = Len(e.open) + 1
    BY <1>1, <1>2, <1>3, FrontAppend
  <1>5. Dead(h) \/ Ended(g, h)
    BY <1>1, ContainerEnded
  <1>. HIDE DEF h
  <1>6. Len(g.open) # 1
    BY <1>2, <1>4
  <1>7. Ended(g, h) => h.ok /\ Kept(e, h, m)
    BY <1>1, <1>4, <1>6 DEF Ended, Kept
  <1>. QED BY <1>5, <1>7 DEF h

-----------------------------------------------------------------------------
(* Counting members *)

\* No call.
LEMMA RunNone == \A e : Run(e, <<>>) = e
  <1>. TAKE e
  <1>. DEFINE p == <<>>
  <1>1. Len(p) = 0
    OBVIOUS
  <1>. HIDE DEF p
  <1>2. Len(p) \in Nat
    BY <1>1
  <1>3. PICK f : Run(e, p) = f[Len(p)] /\ f[0] = e
    BY <1>2, RunSteps
  <1>. QED BY <1>1, <1>3 DEF p

\* One call.
LEMMA RunOne ==
    ASSUME NEW e, e.ok \in BOOLEAN, NEW c
    PROVE  Run(e, <<c>>) = Call(e, c)
  <1>. DEFINE p == <<c>>
  <1>1. Len(p) = 1 /\ p[1] = c
    OBVIOUS
  <1>. HIDE DEF p
  <1>2. Len(p) \in Nat
    BY <1>1
  <1>3. PICK f : Run(e, p) = f[Len(p)] /\ f[0] = e /\ \A i \in 1 .. Len(p) : f[i] = Ran(f[i - 1], p[i])
    BY <1>2, RunSteps
  <1>4. f[1] = Ran(e, c)
    BY <1>1, <1>3
  <1>. QED BY <1>1, <1>3, <1>4 DEF p, Ran

\* The calls of two functions, one after the other.
LEMMA RunConcat ==
    ASSUME NEW e, NEW S, NEW p \in Seq(S), NEW r \in Seq(S)
    PROVE  Run(e, p \o r) = Run(Run(e, p), r)
  <1>. DEFINE m == Len(p)
              n == Len(r)
              t == p \o r
  <1>1. /\ m \in Nat /\ n \in Nat /\ Len(t) = m + n /\ Len(t) \in Nat
        /\ \A i \in 1 .. m : t[i] = p[i]
        /\ \A i \in 1 .. n : t[m + i] = r[i]
    OBVIOUS
  <1>. HIDE DEF t
  <1>. Len(t) \in Nat
    BY <1>1
  <1>4. PICK h : Run(e, t) = h[Len(t)] /\ h[0] = e /\ \A i \in 1 .. Len(t) : h[i] = Ran(h[i - 1], t[i])
    BY RunSteps
  <1>. Len(p) \in Nat
    OBVIOUS
  <1>. Len(r) \in Nat
    OBVIOUS
  <1>2. PICK f : Run(e, p) = f[m] /\ f[0] = e /\ \A i \in 1 .. m : f[i] = Ran(f[i - 1], p[i])
    BY RunSteps
  <1>3. PICK g : Run(f[m], r) = g[n] /\ g[0] = f[m] /\ \A i \in 1 .. n : g[i] = Ran(g[i - 1], r[i])
    BY RunSteps
  <1>. HIDE DEF m, n
  <1>. DEFINE A == {i \in 0 .. m : h[i] = f[i]}
              B == {i \in 0 .. n : h[m + i] = g[i]}
  <1>5. 0 \in A
    BY <1>1, <1>2, <1>4
  <1>6. ASSUME NEW i \in 0 .. m - 1, i \in A PROVE i + 1 \in A
    <2>1. f[i + 1] = Ran(f[i], p[i + 1])
      BY <1>1, <1>2
    <2>2. h[i + 1] = Ran(h[i], t[i + 1])
      BY <1>1, <1>4
    <2>. QED BY <1>1, <1>6, <2>1, <2>2
  <1>7. m \in A
    <2>. HIDE DEF A
    <2>1. 0 .. m \subseteq A
      BY <1>1, <1>5, <1>6, UpToInduction
    <2>. QED BY <1>1, <2>1
  <1>8. 0 \in B
    BY <1>1, <1>3, <1>7
  <1>9. ASSUME NEW i \in 0 .. n - 1, i \in B PROVE i + 1 \in B
    <2>2. i + 1 \in 1 .. n /\ m + (i + 1) \in 1 .. Len(t) /\ (m + (i + 1)) - 1 = m + i /\ i + 1 \in 0 .. n
      BY <1>1
    <2>1. g[i + 1] = Ran(g[i], r[i + 1])
      <3>. (i + 1) - 1 = i
        OBVIOUS
      <3>. QED BY <1>3, <2>2
    <2>3. h[m + (i + 1)] = Ran(h[m + i], t[m + (i + 1)])
      BY <1>4, <2>2
    <2>4. t[m + (i + 1)] = r[i + 1]
      BY <1>1, <2>2
    <2>5. h[m + i] = g[i]
      BY <1>9
    <2>. QED BY <2>1, <2>2, <2>3, <2>4, <2>5
  <1>10. n \in B
    <2>. HIDE DEF B
    <2>1. 0 .. n \subseteq B
      BY <1>1, <1>8, <1>9, UpToInduction
    <2>. QED BY <1>1, <2>1
  <1>. QED BY <1>1, <1>2, <1>3, <1>4, <1>10 DEF t

\* How often a path is among the members, which one more member may change.

\* How much a member of that name, in the container at P, adds to the
\* occurrences of q.
At(P, name, q) == IF P \o <<name>> = q THEN 1 ELSE 0

\* The paths that are noted: the first two levels, and the elements of arrays
\* in the second.
Countable(q) == q \in Seq(Texts) /\ (Len(q) <= 2 \/ (Len(q) = 3 /\ q[3] = "item"))

\* The occurrences of a path in the file.
Occ(e, q) == Occurrences(e.doc, q)

\* The occurrences of a path among members.
Tally(m, q) == Cardinality({i \in DOMAIN m : m[i] = q})

\* One member more.
LEMMA OccurAppend ==
    ASSUME NEW m \in Seq(Paths), NEW x \in Paths, NEW q
    PROVE  /\ Tally(m, q) \in Nat
           /\ Tally(Append(m, x), q) = Tally(m, q) + IF x = q THEN 1 ELSE 0
  <1>. DEFINE t == Append(m, x)
              A == {i \in DOMAIN m : m[i] = q}
              B == {i \in DOMAIN t : t[i] = q}
  <1>1. DOMAIN m = 1 .. Len(m) /\ Len(m) \in Nat
    OBVIOUS
  <1>2. /\ DOMAIN t = 1 .. Len(m) + 1 /\ t[Len(m) + 1] = x
        /\ \A i \in 1 .. Len(m) : t[i] = m[i]
    OBVIOUS
  <1>. HIDE DEF t, Tally
  <1>3. IsFiniteSet(A) /\ Cardinality(A) \in Nat
    <2>1. IsFiniteSet(1 .. Len(m))
      BY <1>1, FS_Interval
    <2>2. A \subseteq 1 .. Len(m)
      BY <1>1
    <2>. QED BY <2>1, <2>2, FS_Subset, FS_CardinalityType
  <1>4. CASE x = q
    <2>1. B = A \cup {Len(m) + 1} /\ Len(m) + 1 \notin A
      BY <1>1, <1>2, <1>4
    <2>2. Cardinality(A \cup {Len(m) + 1}) = Cardinality(A) + 1
      <3>. HIDE DEF A, B
      <3>. QED BY <1>3, <2>1, FS_AddElement
    <2>. QED BY <1>3, <1>4, <2>1, <2>2 DEF t, Tally
  <1>5. CASE x # q
    <2>1. B = A
      BY <1>1, <1>2, <1>5
    <2>. HIDE DEF A, B
    <2>2. Cardinality(B) = Cardinality(A) + IF x = q THEN 1 ELSE 0
      BY <1>3, <1>5, <2>1
    <2>. QED BY <1>3, <2>2 DEF A, B, t, Tally
  <1>. QED BY <1>4, <1>5

\* The names of the containers that are open, but for the outermost.
LEMMA KeyPathType ==
    ASSUME NEW d \in Docs, d.stack # <<>>
    PROVE  KeyPath(d) \in Seq(Texts) /\ Len(KeyPath(d)) = Len(d.stack) - 1
  <1>1. d.stack \in Levels
    BY DEF Docs
  <1>2. LevelShape(d.stack)
    BY <1>1, LevelFields
  <1>3. Len(d.stack) - 1 \in Nat /\ \A i \in 1 .. Len(d.stack) - 1 : d.stack[i + 1].key \in Texts
    BY <1>2 DEF LevelShape
  <1>. DEFINE n == Len(d.stack) - 1
  <1>4. n \in Nat /\ \A i \in 1 .. n : d.stack[i + 1].key \in Texts
    BY <1>3
  <1>5. KeyPath(d) = [i \in 1 .. n |-> d.stack[i + 1].key]
    BY DEF KeyPath
  <1>. HIDE DEF n
  <1>6. KeyPath(d) \in Seq(Texts) /\ Len(KeyPath(d)) = n
    BY <1>4, <1>5
  <1>. QED BY <1>6 DEF n

\* A member that is noted is counted under its own path only.
LEMMA OccurNoted ==
    ASSUME NEW d \in Docs, d.stack # <<>>, NEW name \in Texts, NEW q, Countable(q),
           NEW c, c.members = NotedMembers(d, name)
    PROVE  Occurrences(d, q) \in Nat /\ Occurrences(c, q) = Occurrences(d, q) + At(KeyPath(d), name, q)
  <1>. DEFINE P == KeyPath(d)
              path == P \o <<name>>
              known == Len(path) <= 2 \/ (Len(path) = 3 /\ name = "item")
  <1>1. P \in Seq(Texts)
    BY KeyPathType
  <1>. HIDE DEF P
  <1>2. path \in Seq(Texts) /\ Len(path) = Len(P) + 1 /\ path[Len(P) + 1] = name /\ Len(P) \in Nat
    BY <1>1
  <1>3. path = q => known
    BY <1>2 DEF Countable
  <1>4. c.members = IF known THEN Append(d.members, path) ELSE d.members
    BY DEF NotedMembers, P
  <1>. HIDE DEF path, known
  <1>5. d.members \in Seq(Paths) /\ path \in Paths
    BY <1>2 DEF Docs, Paths
  <1>6. At(P, name, q) = IF path = q THEN 1 ELSE 0
    BY DEF At, path
  <1>. DEFINE ms == d.members
              N == Tally(ms, q)
  <1>10. Occurrences(d, q) = N
    BY DEF Occurrences, Tally
  <1>. HIDE DEF ms
  <1>11. /\ N \in Nat
         /\ Tally(Append(ms, path), q) = N + IF path = q THEN 1 ELSE 0
    BY <1>5, OccurAppend DEF ms
  <1>7. Occurrences(d, q) \in Nat
    BY <1>10, <1>11
  <1>8. CASE known
    <2>1. Occurrences(c, q) = Occurrences(d, q) + IF path = q THEN 1 ELSE 0
      <3>1. c.members = Append(ms, path)
        BY <1>4, <1>8 DEF ms
      <3>. QED BY <1>10, <1>11, <3>1 DEF Occurrences, Tally
    <2>. QED BY <1>6, <1>7, <2>1 DEF P
  <1>9. CASE ~known
    BY <1>3, <1>4, <1>6, <1>7, <1>9 DEF Occurrences, P
  <1>. QED BY <1>8, <1>9

\* Nothing that is added below P is a q.
Quiet(P, q) == ~(Len(P) < Len(q) /\ \A i \in 1 .. Len(P) : q[i] = P[i])

\* Below a container that is no part of q, nothing counts for q.
LEMMA QuietBelow ==
    ASSUME NEW P \in Seq(Texts), NEW q \in Seq(Texts), Quiet(P, q), NEW name \in Texts
    PROVE  At(P, name, q) = 0 /\ P \o <<name>> \in Seq(Texts) /\ Quiet(P \o <<name>>, q)
  <1>. DEFINE path == P \o <<name>>
  <1>1. path \in Seq(Texts) /\ Len(path) = Len(P) + 1 /\ \A i \in 1 .. Len(P) : path[i] = P[i]
    OBVIOUS
  <1>2. Len(P) \in Nat /\ Len(q) \in Nat
    OBVIOUS
  <1>. HIDE DEF path
  <1>3. path # q
    BY <1>1, <1>2 DEF Quiet
  <1>4. Quiet(path, q)
    BY <1>1, <1>2 DEF Quiet
  <1>. QED BY <1>1, <1>3, <1>4 DEF path, At

\* f is between the same two elements' places as e, and q occurs n times more.
Same(e, f, q, n) == Ready(f) /\ f.open = e.open /\ f.doc.stack = e.doc.stack /\ Occ(f, q) = Occ(e, q) + n

\* A value that was added whole counts once, at its path.
LEMMA KeptSame ==
    ASSUME NEW e, Ready(e), NEW name, Nameable(e, name), NEW q, Countable(q),
           NEW f, Kept(e, f, NotedMembers(e.doc, Key(e, name)))
    PROVE  Occ(e, q) \in Nat /\ Same(e, f, q, At(KeyPath(e.doc), Key(e, name), q))
  <1>1. e.doc \in Docs /\ e.doc.stack # <<>>
    BY ReadyEnd
  <1>2. Key(e, name) \in Texts
    BY TokenTexts DEF Key, Nameable
  <1>3. f.doc.members = NotedMembers(e.doc, Key(e, name))
    BY DEF Kept
  <1>4. Occ(e, q) \in Nat /\ Occ(f, q) = Occ(e, q) + At(KeyPath(e.doc), Key(e, name), q)
    BY <1>1, <1>2, <1>3, OccurNoted DEF Occ
  <1>. QED BY <1>4 DEF Kept, Same

\* The path of a container that has begun.
LEMMA PathPush ==
    ASSUME NEW e, Ready(e), NEW name, Nameable(e, name), NEW isObject \in BOOLEAN,
           NEW f, Opened(e, f, name, isObject)
    PROVE  KeyPath(f.doc) = KeyPath(e.doc) \o <<Key(e, name)>> /\ InObject(f) = isObject
  <1>. DEFINE s == e.doc.stack
              t == f.doc.stack
              k == Key(e, name)
              x == [object |-> isObject, key |-> k]
  <1>1. s \in Levels /\ s # <<>> /\ k \in Texts
    BY ReadyEnd, TokenTexts DEF Key, Nameable
  <1>2. t = Append(s, x)
    BY DEF Opened
  <1>3. LevelShape(s) /\ PushShape(s, t, isObject, k)
    BY <1>1, <1>2, LevelPush, LevelFields
  <1>4. InObject(f) = isObject
    <2>1. Ready(f)
      BY DEF Opened
    <2>2. InObject(f) = Last(f.open) /\ Last(f.doc.stack).object = Last(f.open)
          /\ Last(f.doc.stack) = f.doc.stack[Len(f.open)]
      BY <2>1, ReadyEnd
    <2>3. Len(f.open) = Len(t)
      BY <2>1 DEF Ready
    <2>. QED BY <1>3, <2>2, <2>3 DEF PushShape
  <1>. HIDE DEF k
  <1>. DEFINE n == Len(s) - 1
  <1>5. n \in Nat /\ Len(t) - 1 = n + 1 /\ t[n + 2].key = k /\ \A i \in 1 .. n : t[i + 1].key = s[i + 1].key
    BY <1>1, <1>3 DEF LevelShape, PushShape
  <1>6. KeyPath(e.doc) = [i \in 1 .. n |-> s[i + 1].key] /\ KeyPath(f.doc) = [i \in 1 .. n + 1 |-> t[i + 1].key]
    BY <1>5 DEF KeyPath
  <1>7. \A i \in 1 .. n : s[i + 1].key \in Texts
    BY <1>3 DEF LevelShape
  <1>. HIDE DEF n, s, t
  <1>8. [i \in 1 .. n + 1 |-> t[i + 1].key] = [i \in 1 .. n |-> s[i + 1].key] \o <<k>>
    <2>. DEFINE a == [i \in 1 .. n |-> s[i + 1].key]
                b == [i \in 1 .. n + 1 |-> t[i + 1].key]
                c == a \o <<k>>
    <2>1. a \in Seq(Texts) /\ Len(a) = n /\ \A i \in 1 .. n : a[i] = s[i + 1].key
      BY <1>5, <1>7
    <2>2. \A i \in 1 .. n : b[i] = s[i + 1].key
      BY <1>5
    <2>3. b[n + 1] = k /\ b = [i \in 1 .. n + 1 |-> b[i]]
      BY <1>5
    <2>. HIDE DEF a, b
    <2>4. c \in Seq(Texts) /\ Len(c) = n + 1 /\ c[n + 1] = k /\ \A i \in 1 .. n : c[i] = a[i]
      BY <1>1, <2>1
    <2>. HIDE DEF c
    <2>5. c = [i \in 1 .. n + 1 |-> c[i]]
      BY <2>4
    <2>6. \A i \in 1 .. n + 1 : b[i] = c[i]
      <3>. TAKE i \in 1 .. n + 1
      <3>1. i \in 1 .. n \/ i = n + 1
        BY <1>5
      <3>2. CASE i \in 1 .. n
        BY <3>2, <2>1, <2>2, <2>4
      <3>3. CASE i = n + 1
        BY <3>3, <2>3, <2>4
      <3>. QED BY <3>1, <3>2, <3>3
    <2>7. b = c
      BY <2>3, <2>5, <2>6
    <2>. QED BY <2>7 DEF a, b, c
  <1>. QED BY <1>4, <1>6, <1>8 DEF k

\* A container that has begun counts once, at its path.
LEMMA OpenedSame ==
    ASSUME NEW e, Ready(e), NEW name, Nameable(e, name), NEW isObject \in BOOLEAN, NEW q, Countable(q),
           NEW f, Opened(e, f, name, isObject)
    PROVE  Occ(e, q) \in Nat /\ Occ(f, q) \in Nat /\ Occ(f, q) = Occ(e, q) + At(KeyPath(e.doc), Key(e, name), q)
  <1>1. e.doc \in Docs /\ e.doc.stack # <<>>
    BY ReadyEnd
  <1>2. Key(e, name) \in Texts
    BY TokenTexts DEF Key, Nameable
  <1>3. f.doc.members = NotedMembers(e.doc, Key(e, name))
    BY DEF Opened
  <1>4. Occ(e, q) \in Nat /\ Occ(f, q) = Occ(e, q) + At(KeyPath(e.doc), Key(e, name), q)
    BY <1>1, <1>2, <1>3, OccurNoted DEF Occ
  <1>5. At(KeyPath(e.doc), Key(e, name), q) \in Nat
    BY DEF At
  <1>. QED BY <1>4, <1>5

\* What was opened and written into is ended.
LEMMA SameEnded ==
    ASSUME NEW e, Ready(e), NEW name, Nameable(e, name), NEW isObject \in BOOLEAN, NEW q, Countable(q),
           NEW f, Opened(e, f, name, isObject), NEW n \in Int, NEW g, Same(f, g, q, n)
    PROVE  LET h == EndContainer(g)
           IN  Halted(h) \/ Same(e, h, q, At(KeyPath(e.doc), Key(e, name), q) + n)
  <1>. DEFINE h == EndContainer(g)
              m == g.doc.members
  <1>1. Kept(f, g, m)
    BY DEF Same, Kept
  <1>2. Dead(h) \/ (h.ok /\ Kept(e, h, m))
    BY <1>1, OpenedEnded
  <1>3. Occ(e, q) \in Nat /\ Occ(f, q) = Occ(e, q) + At(KeyPath(e.doc), Key(e, name), q)
    BY OpenedSame
  <1>4. At(KeyPath(e.doc), Key(e, name), q) \in Int
    BY DEF At
  <1>. HIDE DEF h
  <1>5. ASSUME Kept(e, h, m) PROVE Same(e, h, q, At(KeyPath(e.doc), Key(e, name), q) + n)
    BY <1>3, <1>4, <1>5 DEF Kept, Occ, Occurrences, Same
  <1>. QED BY <1>2, <1>5 DEF h, Dead

\* A call that adds one value, and adds JSON.
LeafCall(c) ==
  \/ c.op = "addNumber"
  \/ c.op \in {"addString", "addUUID"} /\ c.arg \in {"text", NoName}
  \/ c.op = "addDouble" /\ c.arg = "finite"
  \/ c.op = "addJSON" /\ c.arg \in {"raw", "blank", "word"}
  \/ c.op = "addJSONFile" /\ c.arg \in {"absent", "raw"}
  \/ c.op = "addTextFile" /\ c.arg \in {"absent", "text"}

\* There is nothing to add.
Nothing(c) == c.op \in {"addJSONFile", "addTextFile"} /\ c.arg = "absent"

\* Occurrences are a number.
LEMMA OccurType ==
    ASSUME NEW e, Ready(e), NEW q
    PROVE  Occ(e, q) \in Nat
  <1>1. e.doc.members \in Seq(Paths)
    BY ReadyEnd DEF Docs
  <1>2. <<>> \in Paths
    BY DEF Paths
  <1>3. Tally(e.doc.members, q) \in Nat
    BY <1>1, <1>2, OccurAppend
  <1>. QED BY <1>3 DEF Occ, Occurrences, Tally

\* Two additions that do not count.
LEMMA SameAgain ==
    ASSUME NEW e, NEW f, NEW g, NEW q, Occ(e, q) \in Nat, Same(e, f, q, 0), Same(f, g, q, 0)
    PROVE  Same(e, g, q, 0)
  <1>1. Occ(f, q) = Occ(e, q) /\ Occ(g, q) = Occ(f, q)
    BY DEF Same
  <1>2. Occ(g, q) = Occ(e, q) + 0
    BY <1>1
  <1>. QED BY <1>2 DEF Same

\* A value counts once, at its path, or the disk is full.
LEMMA ElementSame ==
    ASSUME NEW e, Ready(e), NEW name, Nameable(e, name), NEW q, Countable(q), NEW toks \in ValueTokens
    PROVE  LET f == AddElement(e, name, toks)
           IN  Dead(f) \/ (f.ok /\ Same(e, f, q, At(KeyPath(e.doc), Key(e, name), q)))
  <1>. DEFINE f == AddElement(e, name, toks)
  <1>1. Dead(f) \/ (f.ok /\ Kept(e, f, NotedMembers(e.doc, Key(e, name))))
    BY ElementAdded
  <1>. HIDE DEF f
  <1>2. Kept(e, f, NotedMembers(e.doc, Key(e, name))) => Same(e, f, q, At(KeyPath(e.doc), Key(e, name), q))
    BY KeptSame
  <1>. QED BY <1>1, <1>2 DEF f

\* So does a string, and a NULL one.
LEMMA StringSame ==
    ASSUME NEW e, Ready(e), NEW name, Nameable(e, name), NEW q, Countable(q), NEW value \in {"text", NoName}
    PROVE  LET f == AddStringElement(e, name, value)
           IN  Dead(f) \/ (f.ok /\ Same(e, f, q, At(KeyPath(e.doc), Key(e, name), q)))
  <1>1. "text" \in Texts \ {"quote"}
    BY TokenTexts
  <1>. DEFINE toks == IF value = NoName THEN <<"scalar">> ELSE QuotedText(value)
  <1>2. toks \in ValueTokens
    BY <1>1 DEF ValueTokens
  <1>3. AddStringElement(e, name, value) = AddElement(e, name, toks)
    BY DEF AddStringElement
  <1>. HIDE DEF toks
  <1>. QED BY <1>2, <1>3, ElementSame

\* A text that is not JSON is wrapped in an object with two members.
LEMMA WrappedSame ==
    ASSUME NEW e, Ready(e), NEW name, Nameable(e, name), NEW q, Countable(q), NEW json \in {"blank", "word"},
           Quiet(KeyPath(e.doc) \o <<Key(e, name)>>, q)
    PROVE  LET f == WriteJSONElement(e, name, json)
           IN  Halted(f) \/ Same(e, f, q, At(KeyPath(e.doc), Key(e, name), q))
  <1>. DEFINE P == KeyPath(e.doc)
              K == Key(e, name)
              x == [e EXCEPT !.ok = FALSE]
              b == BeginContainer(x, name, TRUE)
              c == AddStringElement(b, "error", "text")
              d == AddStringElement(c, "json_data", "text")
              f == EndContainer(d)
  <1>1. e \in Encoders
    BY DEF Ready
  <1>2. x \in Encoders /\ ~x.ok /\ x.open = e.open /\ x.first = e.first /\ x.doc = e.doc
    BY <1>1 DEF Encoders
  <1>3. WriteJSONElement(e, name, json) = f
    <2>1. AddJSONElement(e, name, json) = x
      BY TokenTexts DEF AddJSONElement
    <2>. HIDE DEF x
    <2>2. ~AddJSONElement(e, name, json).ok
      BY <1>2, <2>1
    <2>. QED BY <2>1, <2>2 DEF WriteJSONElement
  <1>. HIDE DEF x
  <1>4. Ready(x) /\ Nameable(x, name) /\ KeyPath(x.doc) = P /\ Key(x, name) = K /\ Occ(x, q) = Occ(e, q)
    BY <1>2 DEF Ready, Nameable, InObject, Key, Occ
  <1>. HIDE DEF P, K
  <1>5. P \in Seq(Texts) /\ K \in Texts /\ q \in Seq(Texts)
    BY ReadyEnd, KeyPathType, TokenTexts DEF P, K, Key, Nameable, Countable
  <1>6. Quiet(P \o <<K>>, q)
    BY DEF P, K
  <1>7. "error" \in Texts /\ "json_data" \in Texts /\ "error" # "quote" /\ "json_data" # "quote"
    BY TokenTexts
  <1>8. P \o <<K>> \in Seq(Texts)
    BY <1>5
  <1>9. At(P \o <<K>>, "error", q) = 0 /\ At(P \o <<K>>, "json_data", q) = 0
    BY <1>5, <1>6, <1>7, <1>8, QuietBelow
  <1>10. Dead(b) \/ Opened(x, b, name, TRUE)
    BY <1>4, ContainerOpened
  <1>. HIDE DEF b
  <1>11. CASE Dead(b)
    <2>1. b \in Encoders
      BY <1>11 DEF Dead, Halted
    <2>2. Frozen(b, c)
      BY <2>1, <1>7, TokenTexts, AddStringElementFrozen DEF Names
    <2>. HIDE DEF c
    <2>3. Halted(c) /\ c \in Encoders
      BY <1>11, <2>2, HaltedStays DEF Dead, Halted
    <2>4. Frozen(c, d)
      BY <2>3, <1>7, TokenTexts, AddStringElementFrozen DEF Names
    <2>. HIDE DEF d
    <2>5. Halted(d) /\ d \in Encoders
      BY <2>3, <2>4, HaltedStays DEF Halted
    <2>6. Halted(f)
      BY <2>5, EndContainerFrozen, HaltedStays
    <2>. QED BY <1>3, <2>6
  <1>12. CASE Opened(x, b, name, TRUE)
    <2>1. KeyPath(b.doc) = P \o <<K>> /\ InObject(b) = TRUE
      BY <1>4, <1>12, PathPush
    <2>2. Ready(b) /\ Occ(b, q) \in Nat
      BY <1>4, <1>12, OpenedSame DEF Opened
    <2>3. Nameable(b, "error") /\ Nameable(b, "json_data") /\ Key(b, "error") = "error"
      BY <1>7, <2>1 DEF Nameable, Names, Key
    <2>4. Dead(c) \/ Same(b, c, q, 0)
      BY <1>9, <2>1, <2>2, <2>3, StringSame
    <2>. HIDE DEF c
    <2>5. CASE Dead(c)
      <3>1. c \in Encoders
        BY <2>5 DEF Dead, Halted
      <3>2. Frozen(c, d)
        BY <3>1, <1>7, TokenTexts, AddStringElementFrozen DEF Names
      <3>. HIDE DEF d
      <3>3. Halted(d) /\ d \in Encoders
        BY <2>5, <3>2, HaltedStays DEF Dead, Halted
      <3>4. Halted(f)
        BY <3>3, EndContainerFrozen, HaltedStays
      <3>. QED BY <1>3, <3>4
    <2>6. CASE Same(b, c, q, 0)
      <3>1. Ready(c) /\ KeyPath(c.doc) = P \o <<K>> /\ InObject(c) = TRUE
        BY <2>1, <2>6 DEF Same, KeyPath, InObject
      <3>2. Nameable(c, "json_data") /\ Key(c, "json_data") = "json_data"
        BY <1>7, <3>1 DEF Nameable, Names, Key
      <3>3. Dead(d) \/ Same(c, d, q, 0)
        BY <1>9, <3>1, <3>2, StringSame
      <3>. HIDE DEF d
      <3>4. CASE Dead(d)
        <4>1. Halted(f)
          BY <3>4, EndContainerFrozen, HaltedStays DEF Dead, Halted
        <4>. QED BY <1>3, <4>1
      <3>5. CASE Same(c, d, q, 0)
        <4>1. Same(b, d, q, 0)
          BY <2>2, <2>6, <3>5, SameAgain
        <4>2. Halted(f) \/ Same(x, f, q, At(P, K, q) + 0)
          <5>1. 0 \in Int /\ TRUE \in BOOLEAN
            OBVIOUS
          <5>2. Halted(EndContainer(d)) \/ Same(x, EndContainer(d), q, At(KeyPath(x.doc), Key(x, name), q) + 0)
            BY <1>4, <1>12, <4>1, <5>1, SameEnded, Zenon
          <5>. QED BY <1>4, <5>2
        <4>3. At(P, K, q) + 0 = At(P, K, q)
          BY DEF At
        <4>. HIDE DEF f
        <4>4. Same(x, f, q, At(P, K, q)) => Same(e, f, q, At(P, K, q))
          BY <1>2, <1>4 DEF Same
        <4>. QED BY <1>3, <4>2, <4>3, <4>4 DEF P, K
      <3>. QED BY <3>3, <3>4, <3>5
    <2>. QED BY <2>4, <2>5, <2>6
  <1>. QED BY <1>10, <1>11, <1>12

\* Every call that adds no container of its own counts once, or not at all if
\* there is no file to copy.
LEMMA LeafAdds ==
    ASSUME NEW e, Ready(e), NEW c, LeafCall(c), Nameable(e, c.name), NEW q, Countable(q),
           Quiet(KeyPath(e.doc) \o <<Key(e, c.name)>>, q)
    PROVE  LET f == Call(e, c)
           IN  \/ Halted(f)
               \/ Same(e, f, q, IF Nothing(c) THEN 0 ELSE At(KeyPath(e.doc), Key(e, c.name), q))
  <1>. DEFINE f == Call(e, c)
              name == c.name
              n == At(KeyPath(e.doc), Key(e, c.name), q)
              Added(x) == Halted(x) \/ Same(e, x, q, n)
  <1>1. ASSUME NEW toks \in ValueTokens PROVE Added(AddElement(e, name, toks))
    BY ElementSame DEF Dead
  <1>2. <<"scalar">> \in ValueTokens /\ <<"raw">> \in ValueTokens /\ QuotedText("text") \in ValueTokens
    <2>1. "text" \in Texts \ {"quote"}
      BY TokenTexts
    <2>. QED BY <2>1 DEF ValueTokens
  <1>3. CASE c.op = "addNumber"
    BY <1>1, <1>2, <1>3 DEF Call, Nothing
  <1>4. CASE c.op \in {"addString", "addUUID"} /\ c.arg \in {"text", NoName}
    BY <1>1, <1>2, <1>4 DEF Call, Nothing, AddStringElement
  <1>5. CASE c.op = "addDouble" /\ c.arg = "finite"
    BY <1>1, <1>2, <1>5 DEF Call, AddFloatingPointElement, Nothing
  <1>6. CASE c.op = "addJSON" /\ c.arg \in {"raw", "blank", "word"}
    <2>1. f = WriteJSONElement(e, name, c.arg) /\ ~Nothing(c)
      BY <1>6 DEF Call, Nothing
    <2>2. CASE c.arg \in {"blank", "word"}
      <3>. Nameable(e, name)
        OBVIOUS
      <3>. QED BY <2>1, <2>2, WrappedSame
    <2>3. CASE c.arg = "raw"
      <3>. DEFINE added_ == AddJSONElement(e, name, c.arg)
                  toks == <<"raw">>
      <3>1. added_ = AddElement(e, name, toks)
        BY <2>3, TokenTexts DEF AddJSONElement
      <3>2. Dead(added_) \/ (added_.ok /\ Same(e, added_, q, n))
        <4>. Nameable(e, name)
          OBVIOUS
        <4>. QED BY <1>2, <3>1, ElementSame
      <3>3. f = IF added_.ok THEN added_ ELSE
                  EndContainer(AddStringElement(AddStringElement(BeginContainer(added_, name, TRUE), "error", "text"),
                                                "json_data", "text"))
        BY <2>1 DEF WriteJSONElement
      <3>4. CASE added_.ok
        BY <2>1, <3>2, <3>3, <3>4 DEF Dead
      <3>5. CASE Dead(added_)
        <4>. DEFINE a == added_
                    b == BeginContainer(a, name, TRUE)
                    s == AddStringElement(b, "error", "text")
                    d == AddStringElement(s, "json_data", "text")
        <4>. HIDE DEF added_
        <4>1. Halted(a) /\ a \in Encoders /\ name \in Names /\ f = EndContainer(d)
          BY <3>3, <3>5 DEF Dead, Halted, Nameable
        <4>2. "error" \in Names /\ "json_data" \in Names /\ "text" \in Texts
          BY TokenTexts DEF Names
        <4>3. Halted(b)
          BY <4>1, BeginContainerFrozen, HaltedStays
        <4>. HIDE DEF b
        <4>4. b \in Encoders
          BY <4>3 DEF Halted
        <4>5. Halted(s)
          BY <4>2, <4>3, <4>4, AddStringElementFrozen, HaltedStays
        <4>. HIDE DEF s
        <4>6. s \in Encoders
          BY <4>5 DEF Halted
        <4>7. Halted(d)
          BY <4>2, <4>5, <4>6, AddStringElementFrozen, HaltedStays
        <4>. HIDE DEF d
        <4>8. d \in Encoders
          BY <4>7 DEF Halted
        <4>. QED BY <4>1, <4>7, <4>8, EndContainerFrozen, HaltedStays
      <3>. QED BY <3>2, <3>4, <3>5
    <2>. QED BY <1>6, <2>2, <2>3
  <1>7. CASE c.op = "addJSONFile" /\ c.arg \in {"absent", "raw"}
    <2>1. f = WriteJSONFile(e, name, c.arg)
      BY <1>7 DEF Call
    <2>2. CASE c.arg = "absent"
      BY <1>7, <2>1, <2>2, OccurType DEF WriteJSONFile, Nothing, Same
    <2>3. CASE c.arg = "raw"
      BY <1>1, <1>2, <2>1, <2>3 DEF WriteJSONFile, Nothing
    <2>. QED BY <1>7, <2>2, <2>3
  <1>8. CASE c.op = "addTextFile" /\ c.arg \in {"absent", "text"}
    <2>1. f = WriteTextFile(e, name, c.arg)
      BY <1>8 DEF Call
    <2>2. CASE c.arg = "absent"
      BY <1>8, <2>1, <2>2, OccurType DEF WriteTextFile, Nothing, Same
    <2>3. CASE c.arg = "text"
      <3>. DEFINE b == BeginElement(e, name)
                  x == AddElement(e, name, <<"quote", "text">>)
                  y == [x EXCEPT !.ok = TRUE]
                  g == AddElement(e, name, QuotedText("text"))
      <3>1. f = AddJSONData(y, "quote") /\ ~Nothing(c)
        BY <2>1, <2>3 DEF WriteTextFile, Nothing
      <3>2. g = AddJSONData(x, "quote")
        BY WriteFew DEF AddElement, QuotedText
      <3>3. Dead(g) \/ (g.ok /\ Same(e, g, q, n))
        <4>. Nameable(e, name)
          OBVIOUS
        <4>. QED BY <1>2, ElementSame
      <3>4. x \in Encoders
        BY TokenSeqs, AddElementFrozen DEF Ready, Nameable, Frozen
      <3>. HIDE DEF x, g, n
      <3>5. CASE x.ok
        <4>1. y = x
          BY <3>4, <3>5 DEF Encoders
        <4>. HIDE DEF y
        <4>. QED BY <3>1, <3>2, <3>3, <4>1 DEF Dead, n
      <3>6. CASE ~x.ok
        <4>1. g = x
          BY <3>2, <3>6 DEF AddJSONData
        <4>2. Halted(x)
          BY <3>3, <3>6, <4>1 DEF Dead
        <4>3. y \in Encoders /\ Halted(y)
          BY <3>4, <4>2 DEF Encoders, Halted
        <4>4. Halted(AddJSONData(y, "quote"))
          <5>. HIDE DEF y
          <5>1. Frozen(y, AddJSONData(y, "quote"))
            BY <4>3, TokenTexts, AddFrozen
          <5>. QED BY <4>3, <5>1, HaltedStays
        <4>. QED BY <3>1, <4>4
      <3>. QED BY <3>5, <3>6
    <2>. QED BY <1>8, <2>2, <2>3
  <1>. QED BY <1>3, <1>4, <1>5, <1>6, <1>7, <1>8 DEF LeafCall

-----------------------------------------------------------------------------
(* What a function writes.                                                 *)
(* Does(p, obj, P, q, n): the calls p, made inside the container at P (an  *)
(* object if obj), leave it as open as it was and add n occurrences of q.  *)
(* Silent(p, obj): they add none, wherever the container is, because all   *)
(* they add is inside it.  Both are preserved by sequence, by containers   *)
(* and by concatenation of any number of programs, which is how the        *)
(* functions of the report are made.                                       *)

\* The encoder is between two elements of the container at P, an object or an
\* array.
Inside(e, obj, P) == Ready(e) /\ InObject(e) = obj /\ KeyPath(e.doc) = P

\* The calls p, made inside the container at P (an object if obj), leave it as
\* open as it was and add n occurrences of q, or find the disk full.
Does(p, obj, P, q, n) ==
  /\ p \in Seq(Calls)
  /\ \A e : Inside(e, obj, P) => Halted(Run(e, p)) \/ Same(e, Run(e, p), q, n)

\* It is there after as before.
LEMMA SameInside ==
    ASSUME NEW e, NEW f, NEW q, NEW n, NEW obj, NEW P, Inside(e, obj, P), Same(e, f, q, n)
    PROVE  Inside(f, obj, P)
  BY DEF Inside, Same, InObject, KeyPath

\* A file cut off by a full disk stays so.
LEMMA HaltedRun ==
    ASSUME NEW e, Halted(e), NEW p \in Seq(Calls)
    PROVE  Halted(Run(e, p))
  <1>1. e \in Encoders
    BY DEF Halted
  <1>. QED BY <1>1, RunFrozen, HaltedStays

\* The calls of three functions.
LEMMA ThreeRuns ==
    ASSUME NEW e, NEW u \in Seq(Calls), NEW p \in Seq(Calls), NEW v \in Seq(Calls)
    PROVE  Run(e, u \o p \o v) = Run(Run(Run(e, u), p), v)
  <1>. DEFINE w == u \o p
  <1>1. Run(e, w) = Run(Run(e, u), p)
    BY RunConcat
  <1>2. w \in Seq(Calls)
    OBVIOUS
  <1>. HIDE DEF w
  <1>3. Run(e, w \o v) = Run(Run(e, w), v)
    BY <1>2, RunConcat
  <1>. QED BY <1>1, <1>3 DEF w

\* No call.
LEMMA DoesNone ==
    ASSUME NEW obj, NEW P, NEW q
    PROVE  Does(<<>>, obj, P, q, 0)
  <1>1. ASSUME NEW e, Inside(e, obj, P) PROVE Same(e, e, q, 0)
    BY <1>1, OccurType DEF Inside, Same
  <1>2. <<>> \in Seq(Calls)
    OBVIOUS
  <1>. QED BY <1>1, <1>2, RunNone DEF Does

\* The calls of two functions.
LEMMA DoesTwo ==
    ASSUME NEW obj, NEW P, NEW q, NEW p, NEW r, NEW m \in Nat, NEW n \in Nat,
           Does(p, obj, P, q, m), Does(r, obj, P, q, n)
    PROVE  Does(p \o r, obj, P, q, m + n)
  <1>1. p \in Seq(Calls) /\ r \in Seq(Calls)
    BY DEF Does
  <1>2. p \o r \in Seq(Calls)
    BY <1>1
  <1>3. ASSUME NEW e, Inside(e, obj, P)
        PROVE  Halted(Run(e, p \o r)) \/ Same(e, Run(e, p \o r), q, m + n)
    <2>. DEFINE f == Run(e, p)
                g == Run(f, r)
    <2>1. Run(e, p \o r) = g
      BY <1>1, RunConcat
    <2>2. Halted(f) \/ Same(e, f, q, m)
      BY <1>3 DEF Does
    <2>3. CASE Halted(f)
      BY <1>1, <2>1, <2>3, HaltedRun
    <2>4. CASE Same(e, f, q, m)
      <3>1. Inside(f, obj, P)
        BY <1>3, <2>4, SameInside
      <3>2. Halted(g) \/ Same(f, g, q, n)
        <4>. HIDE DEF f
        <4>. QED BY <3>1 DEF Does
      <3>3. Ready(e)
        BY <1>3 DEF Inside
      <3>4. Occ(e, q) \in Nat
        BY <3>3, OccurType
      <3>. HIDE DEF f, g
      <3>5. Same(f, g, q, n) => Same(e, g, q, m + n)
        BY <2>4, <3>4 DEF Same
      <3>. QED BY <2>1, <3>2, <3>5
    <2>. QED BY <2>2, <2>3, <2>4
  <1>. QED BY <1>2, <1>3 DEF Does

\* The name of a member, or of an element.
KeyIn(obj, name) == IF obj THEN name ELSE "item"

\* The names a member, or an element, may have.
NameIn(obj, name) == name \in Names /\ (obj => name \in Texts)

\* Names inside a container of either sort.
LEMMA InsideNames ==
    ASSUME NEW e, NEW obj, NEW P, Inside(e, obj, P)
    PROVE  /\ Ready(e) /\ KeyPath(e.doc) = P
           /\ \A name : Nameable(e, name) <=> NameIn(obj, name)
           /\ \A name : Key(e, name) = KeyIn(obj, name)
  <1>1. InObject(e) \in BOOLEAN /\ InObject(e) = obj
    BY ReadyEnd DEF Inside
  <1>. QED BY <1>1 DEF Inside, Nameable, NameIn, Key, KeyIn

\* One call that adds no container.
LEMMA DoesLeaf ==
    ASSUME NEW obj, NEW P, NEW q, Countable(q), NEW c \in Calls, LeafCall(c), NameIn(obj, c.name),
           Quiet(P \o <<KeyIn(obj, c.name)>>, q)
    PROVE  Does(<<c>>, obj, P, q, IF Nothing(c) THEN 0 ELSE At(P, KeyIn(obj, c.name), q))
  <1>1. <<c>> \in Seq(Calls)
    OBVIOUS
  <1>2. ASSUME NEW e, Inside(e, obj, P)
        PROVE  \/ Halted(Run(e, <<c>>))
               \/ Same(e, Run(e, <<c>>), q, IF Nothing(c) THEN 0 ELSE At(P, KeyIn(obj, c.name), q))
    <2>1. Ready(e) /\ KeyPath(e.doc) = P /\ Nameable(e, c.name) /\ Key(e, c.name) = KeyIn(obj, c.name)
      BY <1>2, InsideNames
    <2>2. e.ok \in BOOLEAN
      BY <2>1 DEF Ready, Encoders
    <2>3. Run(e, <<c>>) = Call(e, c)
      BY <2>2, RunOne
    <2>4. \/ Halted(Call(e, c))
          \/ Same(e, Call(e, c), q, IF Nothing(c) THEN 0 ELSE At(KeyPath(e.doc), Key(e, c.name), q))
      BY <2>1, LeafAdds
    <2>. QED BY <2>1, <2>3, <2>4
  <1>. QED BY <1>1, <1>2 DEF Does

\* A container with what is in it.
Begins(c, isObject) == c.op = IF isObject THEN "beginObject" ELSE "beginArray"

\* A container with what a function writes inside.
LEMMA DoesContainer ==
    ASSUME NEW obj, NEW P, NEW q, Countable(q), NEW isObject \in BOOLEAN,
           NEW c \in Calls, Begins(c, isObject), NameIn(obj, c.name),
           NEW p, NEW n \in Nat, Does(p, isObject, P \o <<KeyIn(obj, c.name)>>, q, n)
    PROVE  Does(<<c>> \o p \o <<EndC>>, obj, P, q, At(P, KeyIn(obj, c.name), q) + n)
  <1>. DEFINE K == KeyIn(obj, c.name)
              r == <<c>> \o p \o <<EndC>>
              m == At(P, K, q)
  <1>1. p \in Seq(Calls) /\ <<c>> \in Seq(Calls)
    BY DEF Does
  <1>2. EndC \in Calls
    BY TokenTexts DEF EndC, Calls, Names
  <1>3. <<EndC>> \in Seq(Calls)
    BY <1>2
  <1>4. <<c>> \o p \in Seq(Calls)
    BY <1>1
  <1>5. r \in Seq(Calls)
    BY <1>3, <1>4
  <1>. HIDE DEF K
  <1>6. ASSUME NEW e, Inside(e, obj, P)
        PROVE  Halted(Run(e, r)) \/ Same(e, Run(e, r), q, m + n)
    <2>1. Ready(e) /\ KeyPath(e.doc) = P /\ Nameable(e, c.name) /\ Key(e, c.name) = K
      BY <1>6, InsideNames DEF K
    <2>. DEFINE f == Call(e, c)
                g == Run(f, p)
                h == Call(g, EndC)
    <2>2. e.ok \in BOOLEAN /\ e \in Encoders
      BY <2>1 DEF Ready, Encoders
    <2>3. f \in Encoders
      BY <2>2, CallFrozen DEF Frozen
    <2>4. g \in Encoders
      <3>. HIDE DEF f
      <3>. QED BY <1>1, <2>3, RunFrozen DEF Frozen
    <2>5. g.ok \in BOOLEAN
      BY <2>4 DEF Encoders
    <2>6. Run(e, r) = h
      <3>1. Run(e, <<c>>) = f
        BY <2>2, RunOne
      <3>2. Run(e, r) = Run(Run(Run(e, <<c>>), p), <<EndC>>)
        <4>. DEFINE u == <<c>>
                    v == <<EndC>>
        <4>1. u \in Seq(Calls) /\ v \in Seq(Calls)
          BY <1>1, <1>3
        <4>. HIDE DEF u, v
        <4>2. Run(e, u \o p \o v) = Run(Run(Run(e, u), p), v)
          BY <1>1, <4>1, ThreeRuns
        <4>. QED BY <4>2 DEF u, v
      <3>4. Run(g, <<EndC>>) = h
        <4>. HIDE DEF g
        <4>. QED BY <2>5, RunOne
      <3>. QED BY <3>1, <3>2, <3>4
    <2>7. f = BeginContainer(e, c.name, isObject)
      BY DEF Begins, Call
    <2>8. h = EndContainer(g)
      BY DEF Call, EndC
    <2>9. Dead(f) \/ Opened(e, f, c.name, isObject)
      <3>. HIDE DEF f
      <3>1. \A object \in BOOLEAN : Dead(BeginContainer(e, c.name, object)) \/ Opened(e, BeginContainer(e, c.name, object), c.name, object)
        BY <2>1, ContainerOpened
      <3>. QED BY <2>7, <3>1
    <2>. HIDE DEF f
    <2>10. CASE Dead(f)
      <3>1. Halted(g)
        BY <1>1, <2>10, HaltedRun DEF Dead
      <3>2. Halted(h)
        <4>. HIDE DEF g
        <4>. QED BY <2>8, <2>4, <3>1, EndContainerFrozen, HaltedStays
      <3>. QED BY <2>6, <3>2
    <2>11. CASE Opened(e, f, c.name, isObject)
      <3>1. KeyPath(f.doc) = P \o <<K>> /\ InObject(f) = isObject
        BY <2>1, <2>11, PathPush
      <3>2. Inside(f, isObject, P \o <<K>>)
        BY <2>11, <3>1 DEF Inside, Opened
      <3>3. Halted(g) \/ Same(f, g, q, n)
        BY <3>2 DEF Does, K
      <3>. HIDE DEF g
      <3>4. CASE Halted(g)
        BY <2>4, <2>6, <2>8, <3>4, EndContainerFrozen, HaltedStays
      <3>5. CASE Same(f, g, q, n)
        BY <2>1, <2>11, <3>5, SameEnded, <2>6, <2>8
      <3>. QED BY <3>3, <3>4, <3>5
    <2>. QED BY <2>9, <2>10, <2>11
  <1>. QED BY <1>5, <1>6 DEF Does, K

\* Call by call: w[i] is what the first i calls have added.
LEMMA DoesStepwise ==
    ASSUME NEW obj, NEW P, NEW q, NEW p \in Seq(Calls), NEW w, w[0] = 0, \A i \in 0 .. Len(p) : w[i] \in Nat,
           \A i \in 1 .. Len(p) : \A e : Inside(e, obj, P) =>
             Halted(Call(e, p[i])) \/ Same(e, Call(e, p[i]), q, w[i] - w[i - 1])
    PROVE  Does(p, obj, P, q, w[Len(p)])
  <1>1. Len(p) \in Nat /\ \A i \in 1 .. Len(p) : p[i] \in Calls
    OBVIOUS
  <1>2. ASSUME NEW e, Inside(e, obj, P) PROVE Halted(Run(e, p)) \/ Same(e, Run(e, p), q, w[Len(p)])
    <2>. Len(p) \in Nat
      BY <1>1
    <2>1. PICK f : /\ Run(e, p) = f[Len(p)] /\ f[0] = e
                   /\ \A i \in 1 .. Len(p) : f[i] = Ran(f[i - 1], p[i])
      BY RunSteps
    <2>2. Ready(e) /\ Occ(e, q) \in Nat
      BY <1>2, OccurType DEF Inside
    <2>. DEFINE Good(x, n) == Halted(x) \/ Same(e, x, q, n)
                A == {i \in 0 .. Len(p) : Good(f[i], w[i])}
    <2>3. 0 \in A
      BY <1>1, <2>1, <2>2 DEF Same
    <2>4. ASSUME NEW i \in 0 .. Len(p) - 1, i \in A PROVE i + 1 \in A
      <3>. DEFINE j == i + 1
                  x == f[i]
                  c == p[j]
                  y == Call(x, c)
      <3>1. /\ j \in 1 .. Len(p) /\ j - 1 = i /\ c \in Calls /\ w[i] \in Nat /\ w[j] \in Nat
            /\ j \in 0 .. Len(p) /\ i \in 0 .. Len(p)
        BY <1>1
      <3>2. f[j] = Ran(x, c)
        BY <2>1, <3>1
      <3>. HIDE DEF j
      <3>3. Good(x, w[i])
        BY <2>4
      <3>4. x \in Encoders /\ x.ok \in BOOLEAN
        BY <3>3 DEF Halted, Same, Ready, Encoders
      <3>5. f[j] = y
        BY <3>2, <3>4 DEF Ran
      <3>. HIDE DEF x, c
      <3>6. CASE Halted(x)
        <4>1. Halted(y)
          BY <3>1, <3>4, <3>6, CallFrozen, HaltedStays
        <4>. QED BY <3>1, <3>5, <4>1 DEF j
      <3>7. CASE Same(e, x, q, w[i])
        <4>1. Inside(x, obj, P)
          BY <1>2, <3>7, SameInside
        <4>2. Halted(y) \/ Same(x, y, q, w[j] - w[i])
          BY <3>1, <4>1 DEF c
        <4>. HIDE DEF y
        <4>3. Same(x, y, q, w[j] - w[i]) => Same(e, y, q, w[j])
          BY <2>2, <3>1, <3>7 DEF Same
        <4>. QED BY <3>1, <3>5, <4>2, <4>3 DEF j
      <3>. QED BY <3>3, <3>6, <3>7
    <2>5. Len(p) \in A
      <3>. HIDE DEF A
      <3>1. 0 .. Len(p) \subseteq A
        BY <1>1, <2>3, <2>4, UpToInduction
      <3>. QED BY <1>1, <3>1
    <2>. QED BY <2>1, <2>5
  <1>. QED BY <1>2 DEF Does

\* Members none of which is q or above it.
LEMMA LeavesDo ==
    ASSUME NEW obj, NEW P, NEW q, Countable(q), NEW p \in Seq(Calls),
           \A i \in 1 .. Len(p) : /\ LeafCall(p[i]) /\ NameIn(obj, p[i].name)
                                  /\ At(P, KeyIn(obj, p[i].name), q) = 0
                                  /\ Quiet(P \o <<KeyIn(obj, p[i].name)>>, q)
    PROVE  Does(p, obj, P, q, 0)
  <1>. DEFINE w == [i \in 0 .. Len(p) |-> 0]
  <1>1. Len(p) \in Nat
    OBVIOUS
  <1>2. w[0] = 0 /\ w[Len(p)] = 0 /\ \A i \in 0 .. Len(p) : w[i] \in Nat
    BY <1>1
  <1>3. ASSUME NEW i \in 1 .. Len(p), NEW e, Inside(e, obj, P)
        PROVE  Halted(Call(e, p[i])) \/ Same(e, Call(e, p[i]), q, w[i] - w[i - 1])
    <2>1. w[i] - w[i - 1] = 0
      BY <1>1
    <2>. HIDE DEF w
    <2>. DEFINE c == p[i]
    <2>2. /\ LeafCall(c) /\ NameIn(obj, c.name) /\ At(P, KeyIn(obj, c.name), q) = 0
          /\ Quiet(P \o <<KeyIn(obj, c.name)>>, q)
      OBVIOUS
    <2>. HIDE DEF c
    <2>3. Ready(e) /\ KeyPath(e.doc) = P /\ Nameable(e, c.name) /\ Key(e, c.name) = KeyIn(obj, c.name)
      BY <1>3, <2>2, InsideNames
    <2>4. \/ Halted(Call(e, c))
          \/ Same(e, Call(e, c), q, IF Nothing(c) THEN 0 ELSE At(KeyPath(e.doc), Key(e, c.name), q))
      BY <2>2, <2>3, LeafAdds
    <2>. QED BY <2>1, <2>2, <2>3, <2>4 DEF c
  <1>. HIDE DEF w
  <1>4. Does(p, obj, P, q, w[Len(p)])
    BY <1>2, <1>3, DoesStepwise
  <1>. QED BY <1>2, <1>4

\* They add no occurrence of a path, wherever the container is, as all they
\* add is inside it.
Silent(p, obj) ==
  /\ p \in Seq(Calls)
  /\ \A P, q : P \in Seq(Texts) /\ Countable(q) /\ Quiet(P, q) => Does(p, obj, P, q, 0)

\* No call.
LEMMA SilentNone == ASSUME NEW obj PROVE Silent(<<>>, obj)
  <1>1. <<>> \in Seq(Calls)
    OBVIOUS
  <1>. QED BY <1>1, DoesNone DEF Silent

\* Two functions.
LEMMA SilentTwo ==
    ASSUME NEW obj, NEW p, NEW r, Silent(p, obj), Silent(r, obj)
    PROVE  Silent(p \o r, obj)
  <1>1. p \in Seq(Calls) /\ r \in Seq(Calls)
    BY DEF Silent
  <1>2. p \o r \in Seq(Calls)
    BY <1>1
  <1>3. ASSUME NEW P \in Seq(Texts), NEW q, Countable(q), Quiet(P, q)
        PROVE  Does(p \o r, obj, P, q, 0)
    <2>1. Does(p, obj, P, q, 0) /\ Does(r, obj, P, q, 0)
      BY <1>3 DEF Silent
    <2>2. 0 \in Nat /\ 0 + 0 = 0
      OBVIOUS
    <2>. DEFINE z == 0
    <2>. HIDE DEF z
    <2>3. z \in Nat /\ z + z = z /\ Does(p, obj, P, q, z) /\ Does(r, obj, P, q, z)
      BY <2>1 DEF z
    <2>4. Does(p \o r, obj, P, q, z + z)
      BY <2>3, DoesTwo
    <2>. QED BY <2>3, <2>4 DEF z
  <1>. QED BY <1>2, <1>3 DEF Silent

\* Members and elements that are no containers.
LEMMA SilentLeaves ==
    ASSUME NEW obj \in BOOLEAN, NEW p \in Seq(Calls),
           \A i \in 1 .. Len(p) : LeafCall(p[i]) /\ NameIn(obj, p[i].name)
    PROVE  Silent(p, obj)
  <1>1. ASSUME NEW P \in Seq(Texts), NEW q, Countable(q), Quiet(P, q) PROVE Does(p, obj, P, q, 0)
    <2>1. q \in Seq(Texts)
      BY <1>1 DEF Countable
    <2>2. \A i \in 1 .. Len(p) : KeyIn(obj, p[i].name) \in Texts
      BY TokenTexts DEF NameIn, KeyIn
    <2>3. \A i \in 1 .. Len(p) : /\ At(P, KeyIn(obj, p[i].name), q) = 0
                                 /\ Quiet(P \o <<KeyIn(obj, p[i].name)>>, q)
      BY <1>1, <2>1, <2>2, QuietBelow
    <2>. QED BY <1>1, <2>3, LeavesDo
  <1>. QED BY <1>1 DEF Silent

\* In a container that is none of q's, a silent program counts for nothing.
LEMMA ContainerDoes ==
    ASSUME NEW obj \in BOOLEAN, NEW P \in Seq(Texts), NEW q, Countable(q), NEW isObject \in BOOLEAN,
           NEW c \in Calls, Begins(c, isObject), NameIn(obj, c.name),
           NEW p, Silent(p, isObject), Quiet(P \o <<KeyIn(obj, c.name)>>, q)
    PROVE  Does(<<c>> \o p \o <<EndC>>, obj, P, q, At(P, KeyIn(obj, c.name), q))
  <1>. DEFINE K == KeyIn(obj, c.name)
              m == At(P, K, q)
  <1>1. K \in Texts
    BY TokenTexts DEF NameIn, KeyIn
  <1>2. P \o <<K>> \in Seq(Texts)
    BY <1>1
  <1>3. Does(p, isObject, P \o <<K>>, q, 0)
    BY <1>2 DEF Silent
  <1>. DEFINE z == 0
  <1>4. z \in Nat /\ m + z = m
    BY DEF At
  <1>. HIDE DEF z
  <1>5. Does(p, isObject, P \o <<K>>, q, z)
    BY <1>3 DEF z
  <1>6. Does(<<c>> \o p \o <<EndC>>, obj, P, q, m + z)
    BY <1>4, <1>5, DoesContainer, Zenon
  <1>. QED BY <1>4, <1>6

\* A container with what a function writes inside.
LEMMA SilentContainer ==
    ASSUME NEW obj \in BOOLEAN, NEW isObject \in BOOLEAN, NEW c \in Calls, Begins(c, isObject), NameIn(obj, c.name),
           NEW p, Silent(p, isObject)
    PROVE  Silent(<<c>> \o p \o <<EndC>>, obj)
  <1>. DEFINE r == <<c>> \o p \o <<EndC>>
  <1>1. p \in Seq(Calls) /\ <<c>> \in Seq(Calls)
    BY DEF Silent
  <1>2. EndC \in Calls
    BY TokenTexts DEF EndC, Calls, Names
  <1>3. <<c>> \o p \in Seq(Calls) /\ <<EndC>> \in Seq(Calls)
    BY <1>1, <1>2
  <1>4. r \in Seq(Calls)
    BY <1>3
  <1>5. ASSUME NEW P \in Seq(Texts), NEW q, Countable(q), Quiet(P, q) PROVE Does(r, obj, P, q, 0)
    <2>1. q \in Seq(Texts) /\ KeyIn(obj, c.name) \in Texts
      BY <1>5, TokenTexts DEF NameIn, KeyIn, Countable
    <2>2. At(P, KeyIn(obj, c.name), q) = 0 /\ Quiet(P \o <<KeyIn(obj, c.name)>>, q)
      BY <1>5, <2>1, QuietBelow
    <2>3. Does(r, obj, P, q, At(P, KeyIn(obj, c.name), q))
      BY <1>5, <2>2, ContainerDoes, Zenon
    <2>. QED BY <2>2, <2>3
  <1>. QED BY <1>4, <1>5 DEF Silent

\* Program by program: w[i] is what the first i programs have added.
LEMMA DoesFlatten ==
    ASSUME NEW obj, NEW P, NEW q, NEW s, Len(s) \in Nat, Len(s) = 0 => s = <<>>,
           NEW w, w[0] = 0, \A i \in 0 .. Len(s) : w[i] \in Nat,
           NEW n \in Nat, \A i \in 1 .. Len(s) : w[i] = w[i - 1] + n /\ Does(s[i], obj, P, q, n)
    PROVE  Does(FlattenSeq(s), obj, P, q, w[Len(s)])
  <1>1. CASE Len(s) = 0
    <2>1. FlattenSeq(s) = <<>>
      BY <1>1 DEF FlattenSeq
    <2>. QED BY <1>1, <2>1, DoesNone
  <1>2. CASE Len(s) # 0
    <2>. Len(s) \in Nat \ {0}
      BY <1>2
    <2>1. PICK f : /\ FlattenSeq(s) = f[Len(s)] /\ f[1] = s[1]
                   /\ \A i \in 2 .. Len(s) : f[i] = f[i - 1] \o s[i]
      BY FlattenSteps
    <2>. DEFINE A == {i \in 0 .. Len(s) : i = 0 \/ Does(f[i], obj, P, q, w[i])}
    <2>2. 0 \in A
      OBVIOUS
    <2>3. ASSUME NEW i \in 0 .. Len(s) - 1, i \in A PROVE i + 1 \in A
      <3>. DEFINE j == i + 1
      <3>1. /\ j \in 1 .. Len(s) /\ j \in 0 .. Len(s) /\ j - 1 = i /\ i \in 0 .. Len(s)
            /\ w[i] \in Nat /\ w[j] \in Nat
        OBVIOUS
      <3>2. w[j] = w[i] + n /\ Does(s[j], obj, P, q, n)
        BY <3>1
      <3>3. CASE i = 0
        BY <2>1, <3>1, <3>2, <3>3
      <3>4. CASE i # 0
        <4>1. j \in 2 .. Len(s)
          BY <3>4
        <4>2. f[j] = f[i] \o s[j]
          BY <2>1, <3>1, <4>1
        <4>3. Does(f[i], obj, P, q, w[i])
          BY <2>3, <3>4
        <4>. HIDE DEF j
        <4>4. Does(f[i] \o s[j], obj, P, q, w[i] + n)
          BY <3>1, <3>2, <4>3, DoesTwo
        <4>5. Does(f[j], obj, P, q, w[j])
          BY <3>2, <4>2, <4>4
        <4>. QED BY <3>1, <4>5 DEF j
      <3>. QED BY <3>3, <3>4
    <2>4. Len(s) \in A
      <3>. HIDE DEF A
      <3>1. 0 .. Len(s) \subseteq A
        BY <2>2, <2>3, UpToInduction
      <3>. QED BY <3>1
    <2>. QED BY <2>1, <2>4
  <1>. QED BY <1>1, <1>2

\* Any number of functions.
LEMMA SilentFlatten ==
    ASSUME NEW obj, NEW s, Len(s) \in Nat, Len(s) = 0 => s = <<>>, \A i \in 1 .. Len(s) : Silent(s[i], obj)
    PROVE  Silent(FlattenSeq(s), obj)
  <1>. DEFINE w == [i \in 0 .. Len(s) |-> 0]
              z == 0
  <1>1. z \in Nat /\ w[0] = 0 /\ w[Len(s)] = 0 /\ \A i \in 0 .. Len(s) : w[i] \in Nat
    OBVIOUS
  <1>2. \A i \in 1 .. Len(s) : w[i] = w[i - 1] + z
    OBVIOUS
  <1>3. ASSUME NEW P \in Seq(Texts), NEW q, Countable(q), Quiet(P, q) PROVE Does(FlattenSeq(s), obj, P, q, 0)
    <2>1. \A i \in 1 .. Len(s) : Does(s[i], obj, P, q, z)
      BY <1>3 DEF Silent
    <2>. HIDE DEF w, z
    <2>2. \A i \in 1 .. Len(s) : w[i] = w[i - 1] + z /\ Does(s[i], obj, P, q, z)
      BY <1>2, <2>1
    <2>3. Does(FlattenSeq(s), obj, P, q, w[Len(s)])
      <3>1. z \in Nat
        BY <1>1
      <3>2. w[0] = 0
        BY <1>1
      <3>3. \A i \in 0 .. Len(s) : w[i] \in Nat
        BY <1>1
      <3>. QED BY <2>2, <3>1, <3>2, <3>3, DoesFlatten
    <2>. QED BY <1>1, <2>3
  <1>4. FlattenSeq(s) \in Seq(Calls)
    <2>. DEFINE q == <<>>
    <2>1. q \in Seq(Texts) /\ Countable(q) /\ Quiet(q, q)
      BY DEF Countable, Quiet
    <2>2. Does(FlattenSeq(s), obj, q, q, 0)
      BY <1>3, <2>1
    <2>. QED BY <2>2 DEF Does
  <1>. QED BY <1>3, <1>4 DEF Silent

-----------------------------------------------------------------------------
(* The functions of the report *)

\* The calls that add a member of a known name.
FieldCalls == {c \in Calls : LeafCall(c) /\ c.name \in Fields}

\* The known names are names.
LEMMA FieldNames == \A x \in Fields : x \in Texts /\ x \in Names /\ NameIn(TRUE, x) /\ KeyIn(TRUE, x) = x
  <1>1. "quote" \notin Fields
    BY DEF Fields
  <1>. QED BY <1>1, ReportAssumption DEF Names, NameIn, KeyIn

\* The names of the sections are among them.
LEMMA SectionFields ==
    {"report", "binary_images", "user_atcrash", "breadcrumbs"} \subseteq Fields
  BY DEF Fields

\* Each call of the report's functions is one of them.
LEMMA FieldCallTypes ==
    ASSUME NEW x \in Fields
    PROVE  /\ Num(x) \in FieldCalls /\ Str(x, "text") \in FieldCalls /\ Str(x, NoName) \in FieldCalls
           /\ Dbl(x, "finite") \in FieldCalls /\ Uuid(x, "text") \in FieldCalls
           /\ \A json \in {"raw", "blank", "word"} : Json(x, json) \in FieldCalls
           /\ \A content \in {"absent", "raw"} : File(x, content) \in FieldCalls
           /\ Obj(x) \in Calls /\ Arr(x) \in Calls /\ Begins(Obj(x), TRUE) /\ Begins(Arr(x), FALSE)
           /\ NameIn(TRUE, Obj(x).name) /\ NameIn(TRUE, Arr(x).name)
           /\ KeyIn(TRUE, Obj(x).name) = x /\ KeyIn(TRUE, Arr(x).name) = x
  <1>1. x \in Names /\ NameIn(TRUE, x) /\ KeyIn(TRUE, x) = x
    BY FieldNames
  <1>2. Num(x) \in FieldCalls
    BY <1>1 DEF Num, FieldCalls, Calls, LeafCall
  <1>3. Str(x, "text") \in FieldCalls /\ Str(x, NoName) \in FieldCalls
    BY <1>1 DEF Str, FieldCalls, Calls, LeafCall
  <1>4. Dbl(x, "finite") \in FieldCalls
    BY <1>1 DEF Dbl, FieldCalls, Calls, LeafCall
  <1>5. Uuid(x, "text") \in FieldCalls
    BY <1>1 DEF Uuid, FieldCalls, Calls, LeafCall
  <1>6. \A json \in {"raw", "blank", "word"} : Json(x, json) \in FieldCalls
    BY <1>1 DEF Json, FieldCalls, Calls, LeafCall
  <1>7. \A content \in {"absent", "raw"} : File(x, content) \in FieldCalls
    BY <1>1 DEF File, FieldCalls, Calls, LeafCall
  <1>8. Obj(x) \in Calls /\ Arr(x) \in Calls
    BY <1>1 DEF Obj, Arr, Calls
  <1>9. Begins(Obj(x), TRUE) /\ Begins(Arr(x), FALSE) /\ Obj(x).name = x /\ Arr(x).name = x
    BY DEF Obj, Arr, Begins
  <1>. QED BY <1>1, <1>2, <1>3, <1>4, <1>5, <1>6, <1>7, <1>8, <1>9

\* And those that add an element.
LEMMA NamelessCalls ==
    /\ Obj(NoName) \in Calls /\ Begins(Obj(NoName), TRUE) /\ NameIn(FALSE, Obj(NoName).name)
    /\ KeyIn(FALSE, Obj(NoName).name) = "item" /\ EndC \in Calls
    /\ \A content \in {"absent", "raw"} :
         File(NoName, content) \in Calls /\ LeafCall(File(NoName, content))
         /\ NameIn(FALSE, File(NoName, content).name) /\ KeyIn(FALSE, File(NoName, content).name) = "item"
         /\ (Nothing(File(NoName, content)) <=> content = "absent")
  <1>1. NoName \in Names
    BY DEF Names
  <1>2. Obj(NoName) \in Calls /\ EndC \in Calls
    BY <1>1 DEF Obj, EndC, Calls
  <1>3. Begins(Obj(NoName), TRUE) /\ NameIn(FALSE, Obj(NoName).name) /\ KeyIn(FALSE, Obj(NoName).name) = "item"
    BY <1>1 DEF Obj, Begins, NameIn, KeyIn
  <1>4. ASSUME NEW content \in {"absent", "raw"}
        PROVE  File(NoName, content) \in Calls /\ LeafCall(File(NoName, content))
               /\ NameIn(FALSE, File(NoName, content).name) /\ KeyIn(FALSE, File(NoName, content).name) = "item"
               /\ (Nothing(File(NoName, content)) <=> content = "absent")
    BY <1>1 DEF File, Calls, LeafCall, NameIn, KeyIn, Nothing
  <1>. QED BY <1>2, <1>3, <1>4

\* Members of known names.
LEMMA SilentFields ==
    ASSUME NEW p \in Seq(FieldCalls)
    PROVE  Silent(p, TRUE) /\ p \in Seq(Calls)
  <1>0. FieldCalls \subseteq Calls /\ \A c \in FieldCalls : LeafCall(c) /\ NameIn(TRUE, c.name)
    BY FieldNames DEF FieldCalls
  <1>1. p \in Seq(Calls)
    BY <1>0
  <1>2. \A i \in 1 .. Len(p) : LeafCall(p[i]) /\ NameIn(TRUE, p[i].name)
    <2>1. \A i \in 1 .. Len(p) : p[i] \in FieldCalls
      OBVIOUS
    <2>. QED BY <1>0, <2>1, Zenon
  <1>3. TRUE \in BOOLEAN
    OBVIOUS
  <1>. QED BY <1>1, <1>2, <1>3, SilentLeaves, Zenon

\* An object around what a function writes, with a name or as an element.
LEMMA SilentPair ==
    ASSUME NEW p, Silent(p, TRUE)
    PROVE  /\ \A x \in Fields : Silent(Pair(x, p), TRUE)
           /\ Silent(Pair(NoName, p), FALSE)
  <1>1. TRUE \in BOOLEAN /\ FALSE \in BOOLEAN
    OBVIOUS
  <1>2. ASSUME NEW x \in Fields PROVE Silent(Pair(x, p), TRUE)
    BY <1>1, FieldCallTypes, SilentContainer, Zenon DEF Pair
  <1>3. Silent(Pair(NoName, p), FALSE)
    BY <1>1, NamelessCalls, SilentContainer, Zenon DEF Pair
  <1>. QED BY <1>2, <1>3

\* It counts once, at its own path.
LEMMA PairDoes ==
    ASSUME NEW p, Silent(p, TRUE), NEW x \in Fields, NEW P \in Seq(Texts), NEW q, Countable(q),
           Quiet(P \o <<x>>, q)
    PROVE  Does(Pair(x, p), TRUE, P, q, At(P, x, q))
  <1>1. TRUE \in BOOLEAN
    OBVIOUS
  <1>2. /\ Obj(x) \in Calls /\ Begins(Obj(x), TRUE) /\ NameIn(TRUE, Obj(x).name) /\ KeyIn(TRUE, Obj(x).name) = x
    BY FieldCallTypes
  <1>3. Quiet(P \o <<KeyIn(TRUE, Obj(x).name)>>, q)
    BY <1>2
  <1>4. Does(<<Obj(x)>> \o p \o <<EndC>>, TRUE, P, q, At(P, KeyIn(TRUE, Obj(x).name), q))
    BY <1>1, <1>2, <1>3, ContainerDoes, Zenon
  <1>. QED BY <1>2, <1>4 DEF Pair

\* Memory, stacks and registers.

\* writeMemoryContents.
LEMMA MemorySilent ==
    ASSUME NEW x \in Fields, NEW mem
    PROVE  Silent(MemoryContents(x, mem), TRUE)
  <1>. DEFINE p == <<Num("address"), Str("type", "text"), Str("value", "text")>>
  <1>1. "address" \in Fields /\ "type" \in Fields /\ "value" \in Fields
    BY DEF Fields
  <1>2. Num("address") \in FieldCalls /\ Str("type", "text") \in FieldCalls /\ Str("value", "text") \in FieldCalls
    BY <1>1, FieldCallTypes
  <1>3. p \in Seq(FieldCalls)
    BY <1>2
  <1>. HIDE DEF p
  <1>4. Silent(Pair(x, p), TRUE)
    BY <1>3, SilentFields, SilentPair
  <1>5. Silent(<<>>, TRUE)
    BY SilentNone
  <1>. QED BY <1>4, <1>5 DEF MemoryContents, p

\* bsg_kscrw_i_writeBacktraceEntry.
LEMMA BacktraceEntrySilent == \A address : Silent(BacktraceEntry(address), FALSE)
  <1>. TAKE address
  <1>. DEFINE s == <<Str("object_name", "text"), Num("object_addr"), Str("symbol_name", "text"), Num("symbol_addr")>>
              a == <<Num("instruction_addr")>>
              p == IF NearestSymbol(Symbols, address) = 0 THEN <<>> ELSE s
  <1>1. {"object_name", "object_addr", "symbol_name", "symbol_addr", "instruction_addr"} \subseteq Fields
    BY DEF Fields
  <1>2. /\ Str("object_name", "text") \in FieldCalls /\ Num("object_addr") \in FieldCalls
        /\ Str("symbol_name", "text") \in FieldCalls /\ Num("symbol_addr") \in FieldCalls
        /\ Num("instruction_addr") \in FieldCalls
    BY <1>1, FieldCallTypes
  <1>3. s \in Seq(FieldCalls) /\ a \in Seq(FieldCalls)
    BY <1>2
  <1>. HIDE DEF s, a
  <1>4. Silent(p, TRUE) /\ Silent(a, TRUE)
    BY <1>3, SilentFields, SilentNone
  <1>. HIDE DEF p
  <1>5. Silent(p \o a, TRUE)
    BY <1>4, SilentTwo, Zenon
  <1>6. Silent(Pair(NoName, p \o a), FALSE)
    BY <1>5, SilentPair, Zenon
  <1>. QED BY <1>6 DEF BacktraceEntry, p, s, a

\* Something like a sequence.
Listing(s) == Len(s) \in Nat /\ DOMAIN s = 1 .. Len(s) /\ s = [i \in 1 .. Len(s) |-> s[i]]

\* bsg_kscrw_i_writeBacktrace, for a backtrace of any length.
LEMMA BacktraceSilent ==
    ASSUME NEW x \in Fields, NEW b, Listing(b.entries)
    PROVE  Silent(Backtrace(x, b), TRUE)
  <1>. DEFINE n == Len(b.entries)
              s == [i \in DOMAIN b.entries |-> BacktraceEntry(b.entries[i])]
              p == FlattenSeq(s)
              c == <<Arr("contents")>>
              d == <<EndC, Num("skipped")>>
              e == <<Num("skipped")>>
  <1>1. n \in Nat /\ s = [i \in 1 .. n |-> BacktraceEntry(b.entries[i])]
    BY DEF Listing
  <1>2. Len(s) = n /\ (Len(s) = 0 => s = <<>>) /\ \A i \in 1 .. Len(s) : s[i] = BacktraceEntry(b.entries[i])
    <2>. HIDE DEF n
    <2>. DEFINE t == [i \in 1 .. n |-> BacktraceEntry(b.entries[i])]
    <2>1. s = t
      BY <1>1
    <2>. HIDE DEF s
    <2>2. Len(t) = n
      BY <1>1
    <2>3. n = 0 => t = <<>>
      BY <1>1
    <2>. QED BY <2>1, <2>2, <2>3
  <1>. HIDE DEF s
  <1>3. \A i \in 1 .. Len(s) : Silent(s[i], FALSE)
    BY <1>2, BacktraceEntrySilent
  <1>4. Silent(p, FALSE)
    <2>. Len(s) \in Nat
      BY <1>1, <1>2
    <2>. QED BY <1>2, <1>3, SilentFlatten, Zenon
  <1>5. p \in Seq(Calls)
    BY <1>4 DEF Silent
  <1>. HIDE DEF p
  <1>6. "contents" \in Fields /\ "skipped" \in Fields
    BY DEF Fields
  <1>7. Num("skipped") \in FieldCalls /\ Arr("contents") \in Calls /\ Begins(Arr("contents"), FALSE)
        /\ NameIn(TRUE, Arr("contents").name) /\ EndC \in Calls
    BY <1>6, FieldCallTypes, NamelessCalls
  <1>8. e \in Seq(FieldCalls)
    BY <1>7
  <1>. HIDE DEF e
  <1>9. Silent(e, TRUE)
    BY <1>8, SilentFields
  <1>10. TRUE \in BOOLEAN /\ FALSE \in BOOLEAN
    OBVIOUS
  <1>11. Silent(c \o p \o <<EndC>>, TRUE)
    BY <1>4, <1>7, <1>10, SilentContainer, Zenon
  <1>12. Silent((c \o p \o <<EndC>>) \o e, TRUE)
    BY <1>9, <1>11, SilentTwo, Zenon
  <1>13. (c \o p \o <<EndC>>) \o e = c \o p \o d
    <2>1. Num("skipped") \in Calls
      BY <1>7 DEF FieldCalls
    <2>. DEFINE u == <<EndC>>
                w == c \o p
    <2>2. c \in Seq(Calls) /\ u \in Seq(Calls) /\ e \in Seq(Calls)
      BY <1>7, <2>1 DEF e
    <2>3. w \in Seq(Calls)
      BY <1>5, <2>2
    <2>4. d = u \o e
      BY <1>7, <2>1 DEF e
    <2>. HIDE DEF u, w, d, c
    <2>5. (w \o u) \o e = w \o (u \o e)
      BY <2>2, <2>3
    <2>. QED BY <2>4, <2>5 DEF u, w
  <1>. HIDE DEF d
  <1>14. Silent(c \o p \o d, TRUE)
    BY <1>12, <1>13
  <1>15. Silent(Pair(x, c \o p \o d), TRUE)
    BY <1>14, SilentPair, Zenon
  <1>. QED BY <1>15 DEF Backtrace, p, s, d

\* Sequences are listings.
LEMMA SeqListing == ASSUME NEW S, NEW s \in Seq(S) PROVE Listing(s)
  BY DEF Listing

\* A stack leads to a sequence of addresses, whatever the memory holds.
LEMMA BacktraceListing == ASSUME NEW m PROVE Listing(GetBacktrace(m).entries)
  <1>. DEFINE n == BacktraceLength(m)
              skipped == IF n >= StackOverflowThreshold THEN n - MaxBacktraceDepth ELSE 0
              entries == BacktraceThreadState(m, skipped, MaxBacktraceDepth)
  <1>1. GetBacktrace(m).entries = entries
    BY DEF GetBacktrace
  <1>2. MaxBacktraceDepth \in Nat \ {0}
    BY ToolsAssumption
  <1>. HIDE DEF skipped
  <1>. DEFINE registers == (IF skipped = 0 THEN <<m.ip>> ELSE <<>>)
                             \o (IF skipped <= 1 /\ m.lr # NULL THEN <<m.lr>> ELSE <<>>)
              first_ == Max({1, skipped})
              room == MaxBacktraceDepth - Len(registers)
              counted == {k \in 0 .. room :
                            \A j \in 0 .. k - 1 : /\ m.ret[Frames(m)[first_ + j]] # NULL
                                                  /\ Frames(m)[first_ + j + 1] # NULL}
              read == [j \in 1 .. Max(counted) |-> m.ret[Frames(m)[first_ + j - 1]]]
              U == {m.ip, m.lr} \cup {m.ret[Frames(m)[first_ + j - 1]] : j \in Nat}
  <1>3. entries = IF room <= 0 THEN SubSeq(registers, 1, MaxBacktraceDepth)
                  ELSE IF Frames(m)[first_] = NULL THEN <<>> ELSE registers \o read
    BY DEF BacktraceThreadState
  <1>4. registers \in Seq(U)
    <2>. DEFINE a == IF skipped = 0 THEN <<m.ip>> ELSE <<>>
                b == IF skipped <= 1 /\ m.lr # NULL THEN <<m.lr>> ELSE <<>>
    <2>1. m.ip \in U /\ m.lr \in U
      OBVIOUS
    <2>. HIDE DEF U
    <2>2. a \in Seq(U) /\ b \in Seq(U)
      BY <2>1
    <2>. HIDE DEF a, b
    <2>. QED BY <2>2 DEF a, b
  <1>. HIDE DEF registers
  <1>5. CASE room <= 0
    <2>1. Len(registers) \in Nat /\ MaxBacktraceDepth <= Len(registers)
      BY <1>2, <1>4, <1>5
    <2>. HIDE DEF U
    <2>2. SubSeq(registers, 1, MaxBacktraceDepth) \in Seq(U)
      BY <1>2, <1>4, <2>1
    <2>. QED BY <1>1, <1>3, <1>5, <2>2, SeqListing
  <1>6. CASE ~(room <= 0)
    <2>1. room \in Nat
      BY <1>2, <1>4, <1>6
    <2>. HIDE DEF room
    <2>2. counted \subseteq 0 .. room /\ 0 \in counted
      BY <2>1
    <2>3. Max(counted) \in Nat
      <3>. HIDE DEF counted
      <3>. counted # {}
        BY <2>2
      <3>. counted \subseteq 0 .. room
        BY <2>2
      <3>. room \in Nat
        BY <2>1
      <3>1. Max(counted) \in counted
        BY GreatestNumber
      <3>2. Max(counted) \in 0 .. room
        BY <3>1
      <3>3. \A k \in 0 .. room : k \in Nat
        OBVIOUS
      <3>. QED BY <3>2, <3>3, Zenon
    <2>4. read \in Seq(U)
      <3>. HIDE DEF counted, first_
      <3>. DEFINE k == Max(counted)
      <3>1. k \in Nat
        BY <2>3
      <3>. HIDE DEF k
      <3>2. \A j \in 1 .. k : m.ret[Frames(m)[first_ + j - 1]] \in U
        BY <3>1
      <3>3. read = [j \in 1 .. k |-> m.ret[Frames(m)[first_ + j - 1]]]
        BY DEF k
      <3>. HIDE DEF read, U
      <3>. QED BY <3>1, <3>2, <3>3
    <2>. HIDE DEF read, U
    <2>5. registers \o read \in Seq(U) /\ <<>> \in Seq(U)
      BY <1>4, <2>4
    <2>6. entries \in Seq(U)
      BY <1>3, <1>6, <2>5
    <2>. QED BY <1>1, <2>6, SeqListing
  <1>. QED BY <1>5, <1>6

\* One member.
LEMMA OneSilent ==
    ASSUME NEW c \in FieldCalls
    PROVE  Silent(<<c>>, TRUE)
  <1>. DEFINE p == <<c>>
  <1>1. p \in Seq(FieldCalls)
    OBVIOUS
  <1>. HIDE DEF p
  <1>2. Silent(p, TRUE)
    BY <1>1, SilentFields
  <1>. QED BY <1>2 DEF p

\* bsg_kscrw_i_writeRegisters.
LEMMA RegistersSilent == ASSUME NEW x \in Fields PROVE Silent(Registers(x), TRUE)
  <1>1. {"basic", "exception", "r0", "r1"} \subseteq Fields
    BY DEF Fields
  <1>2. Num("r0") \in FieldCalls /\ Num("r1") \in FieldCalls /\ Num("exception") \in FieldCalls
    BY <1>1, FieldCallTypes
  <1>. DEFINE p == <<Num("r0"), Num("r1")>>
              r == <<Num("exception")>>
  <1>3. p \in Seq(FieldCalls)
    BY <1>2
  <1>. HIDE DEF p
  <1>4. Silent(p, TRUE) /\ Silent(r, TRUE)
    BY <1>2, <1>3, OneSilent, SilentFields
  <1>. HIDE DEF r
  <1>5. Silent(Pair("basic", p), TRUE) /\ Silent(Pair("exception", r), TRUE)
    BY <1>1, <1>4, SilentPair
  <1>6. Silent(BasicRegisters("basic"), TRUE) /\ Silent(ExceptionRegisters("exception"), TRUE)
    BY <1>5 DEF BasicRegisters, ExceptionRegisters, p, r
  <1>7. Silent(BasicRegisters("basic") \o ExceptionRegisters("exception"), TRUE)
    BY <1>6, SilentTwo, Zenon
  <1>. QED BY <1>7, SilentPair, Zenon DEF Registers

\* The stack, the notable addresses and the message of the image.
LEMMA StackSilent ==
    ASSUME NEW x \in Fields, NEW m, NEW c
    PROVE  Silent(StackOverflow(x, m), TRUE) /\ Silent(NotableAddresses(x, c), TRUE) /\ Silent(CrashInfo(x, c), TRUE)
  <1>1. "overflow" \in Fields /\ "r0" \in Fields
    BY DEF Fields
  <1>2. Num("overflow") \in FieldCalls /\ Str(x, "text") \in FieldCalls
    BY <1>1, FieldCallTypes
  <1>3. Silent(<<Num("overflow")>>, TRUE) /\ Silent(<<Str(x, "text")>>, TRUE) /\ Silent(<<>>, TRUE)
    BY <1>2, OneSilent, SilentNone
  <1>4. Silent(Pair(x, <<Num("overflow")>>), TRUE)
    BY <1>3, SilentPair, Zenon
  <1>5. Silent(MemoryContents("r0", c.memory), TRUE)
    BY <1>1, MemorySilent
  <1>6. Silent(Pair(x, MemoryContents("r0", c.memory)), TRUE)
    BY <1>5, SilentPair, Zenon
  <1>7. StackOverflow(x, m) \in {<<>>, Pair(x, <<Num("overflow")>>)}
    BY DEF StackOverflow
  <1>8. CrashInfo(x, c) \in {<<>>, <<Str(x, "text")>>}
    BY DEF CrashInfo
  <1>9. Silent(StackOverflow(x, m), TRUE)
    BY <1>3, <1>4, <1>7, Zenon
  <1>10. Silent(CrashInfo(x, c), TRUE)
    BY <1>3, <1>8, Zenon
  <1>. QED BY <1>6, <1>9, <1>10, Zenon DEF NotableAddresses

\* Threads.

\* What the assumption says of a crash.
CrashOK(c) ==
  /\ c.type \in {"mach", "signal", "cpp", "nsexception"}
  /\ c.stack \in Seq(Nat) /\ c.name \in {"text", NoName}

\* A backtrace, wherever it comes from.
LEMMA BacktraceOfListing ==
    ASSUME NEW c, CrashOK(c), NEW crashed
    PROVE  BacktraceOf(c, crashed) = Absent \/ Listing(BacktraceOf(c, crashed).entries)
  <1>. DEFINE r == [entries |-> c.stack, skipped |-> 0]
              g == GetBacktrace(MachineContext(c, crashed))
  <1>1. BacktraceOf(c, crashed) \in {r, Absent, g}
    BY DEF BacktraceOf
  <1>2. r.entries = c.stack
    OBVIOUS
  <1>3. Listing(r.entries)
    BY SeqListing, <1>2 DEF CrashOK
  <1>. HIDE DEF r
  <1>4. Listing(g.entries)
    BY BacktraceListing
  <1>. HIDE DEF g
  <1>. QED BY <1>1, <1>3, <1>4

\* What is inside the object of a thread.
ThreadBody(c, crashed, notable) ==
  LET m == MachineContext(c, crashed)
      b == BacktraceOf(c, crashed)
      ofMachine == m # Absent /\ crashed
  IN  (IF b = Absent THEN <<>> ELSE Backtrace("backtrace", b))
        \o (IF ofMachine THEN Registers("registers") ELSE <<>>)
        \o <<Num("index"), Num("crashed"), Num("current_thread")>>
        \o (IF ofMachine THEN StackOverflow("stack", m) ELSE <<>>)
        \o (IF ofMachine /\ notable THEN NotableAddresses("notable_addresses", c) ELSE <<>>)
        \o (IF ~crashed \/ b = Absent THEN <<>>
            ELSE IF b.entries = <<>> THEN <<>> ELSE CrashInfo("crash_info_message", c))

\* That is how a thread is written.
LEMMA ThreadIs ==
    ASSUME NEW name, NEW c, NEW crashed, NEW notable
    PROVE  Thread(name, c, crashed, notable) = Pair(name, ThreadBody(c, crashed, notable))
  BY DEF Thread, ThreadBody

\* bsg_kscrw_i_writeThread, for any crash.
LEMMA ThreadBodySilent ==
    ASSUME NEW c, CrashOK(c), NEW crashed, NEW notable
    PROVE  Silent(ThreadBody(c, crashed, notable), TRUE)
  <1>. DEFINE m == MachineContext(c, crashed)
              b == BacktraceOf(c, crashed)
              ofMachine == m # Absent /\ crashed
              p1 == IF b = Absent THEN <<>> ELSE Backtrace("backtrace", b)
              p2 == IF ofMachine THEN Registers("registers") ELSE <<>>
              p3 == <<Num("index"), Num("crashed"), Num("current_thread")>>
              p4 == IF ofMachine THEN StackOverflow("stack", m) ELSE <<>>
              p5 == IF ofMachine /\ notable THEN NotableAddresses("notable_addresses", c) ELSE <<>>
              p6 == IF ~crashed \/ b = Absent THEN <<>>
                    ELSE IF b.entries = <<>> THEN <<>> ELSE CrashInfo("crash_info_message", c)
  <1>1. {"backtrace", "registers", "index", "crashed", "current_thread", "stack", "notable_addresses",
         "crash_info_message"} \subseteq Fields
    BY DEF Fields
  <1>2. Num("index") \in FieldCalls /\ Num("crashed") \in FieldCalls /\ Num("current_thread") \in FieldCalls
    BY <1>1, FieldCallTypes
  <1>3. p3 \in Seq(FieldCalls)
    BY <1>2
  <1>. HIDE DEF p3
  <1>4. Silent(p3, TRUE) /\ Silent(<<>>, TRUE)
    BY <1>3, SilentFields, SilentNone
  <1>5. Silent(p1, TRUE)
    <2>1. b = Absent \/ Listing(b.entries)
      BY BacktraceOfListing
    <2>. HIDE DEF b
    <2>2. b # Absent => Silent(Backtrace("backtrace", b), TRUE)
      BY <1>1, <2>1, BacktraceSilent
    <2>. QED BY <1>4, <2>2
  <1>6. Silent(p2, TRUE)
    BY <1>1, <1>4, RegistersSilent
  <1>7. Silent(p4, TRUE)
    BY <1>1, <1>4, StackSilent
  <1>8. Silent(p5, TRUE)
    BY <1>1, <1>4, StackSilent
  <1>9. Silent(p6, TRUE)
    BY <1>1, <1>4, StackSilent
  <1>10. ThreadBody(c, crashed, notable) = p1 \o p2 \o p3 \o p4 \o p5 \o p6
    BY DEF ThreadBody, p3
  <1>. HIDE DEF p1, p2, p4, p5, p6
  <1>11. Silent(p1 \o p2, TRUE)
    BY <1>5, <1>6, SilentTwo, Zenon
  <1>12. Silent(p1 \o p2 \o p3, TRUE)
    BY <1>4, <1>11, SilentTwo, Zenon
  <1>13. Silent(p1 \o p2 \o p3 \o p4, TRUE)
    BY <1>7, <1>12, SilentTwo, Zenon
  <1>14. Silent(p1 \o p2 \o p3 \o p4 \o p5, TRUE)
    BY <1>8, <1>13, SilentTwo, Zenon
  <1>15. Silent(p1 \o p2 \o p3 \o p4 \o p5 \o p6, TRUE)
    BY <1>9, <1>14, SilentTwo, Zenon
  <1>. QED BY <1>10, <1>15

\* The walk along the list of images gives a sequence of records.
LEMMA ListedSteps ==
    ASSUME list \in Seq([image : Image \ Unnamed, unloaded : BOOLEAN])
    PROVE  Listed \in Seq([image : Image \ Unnamed, unloaded : BOOLEAN])
  <1>. DEFINE header == [image : Image \ Unnamed, unloaded : BOOLEAN]
              test == [i \in 1 .. Len(list) |-> ~list[i].unloaded]
              Works(f) == f = [i \in 0 .. Len(list) |-> IF i = 0 THEN <<>>
                                 ELSE IF ~list[i].unloaded THEN Append(f[i - 1], list[i]) ELSE f[i - 1]]
              g == CHOOSE f : Works(f)
  <1>1. Listed = g[Len(list)]
    BY DEF Listed
  <1>2. list \in Seq(header)
    OBVIOUS
  <1>. HIDE DEF header
  <1>. HIDE DEF test
  <1>3. PICK h : /\ h = [i \in 0 .. Len(list) |-> IF i = 0 THEN <<>>
                           ELSE IF test[i] THEN Append(h[i - 1], list[i]) ELSE h[i - 1]]
                 /\ \A i \in 0 .. Len(list) : h[i] \in Seq(header)
    BY <1>2, SelectSteps
  <1>4. Works(h)
    <2>1. ASSUME NEW i \in 0 .. Len(list), i # 0 PROVE i \in 1 .. Len(list)
      BY <1>2, <2>1
    <2>2. \A i \in 1 .. Len(list) : test[i] <=> ~list[i].unloaded
      BY DEF test
    <2>3. \A i \in 0 .. Len(list) : i # 0 => (test[i] <=> ~list[i].unloaded)
      BY <2>1, <2>2
    <2>4. \A i \in 0 .. Len(list) :
            (IF i = 0 THEN <<>> ELSE IF test[i] THEN Append(h[i - 1], list[i]) ELSE h[i - 1])
              = (IF i = 0 THEN <<>> ELSE IF ~list[i].unloaded THEN Append(h[i - 1], list[i]) ELSE h[i - 1])
      BY <2>3
    <2>. QED BY <1>3, <2>4
  <1>5. Works(g)
    BY <1>4
  <1>. HIDE DEF g
  <1>. DEFINE A == {i \in 0 .. Len(list) : g[i] = h[i]}
  <1>6. Len(list) \in Nat
    BY <1>2
  <1>7. 0 \in A
    BY <1>4, <1>5, <1>6
  <1>8. ASSUME NEW i \in 0 .. Len(list) - 1, i \in A PROVE i + 1 \in A
    <2>1. i + 1 \in 0 .. Len(list) /\ i + 1 # 0 /\ (i + 1) - 1 = i
      BY <1>6
    <2>2. /\ g[i + 1] = IF ~list[i + 1].unloaded THEN Append(g[i], list[i + 1]) ELSE g[i]
          /\ h[i + 1] = IF ~list[i + 1].unloaded THEN Append(h[i], list[i + 1]) ELSE h[i]
      <3>1. g[i + 1] = IF ~list[i + 1].unloaded THEN Append(g[i], list[i + 1]) ELSE g[i]
        BY <1>5, <2>1
      <3>2. h[i + 1] = IF ~list[i + 1].unloaded THEN Append(h[i], list[i + 1]) ELSE h[i]
        BY <1>4, <2>1
      <3>. QED BY <3>1, <3>2
    <2>3. g[i] = h[i]
      BY <1>8
    <2>4. g[i + 1] = h[i + 1]
      <3>1. CASE list[i + 1].unloaded
        BY <2>2, <2>3, <3>1
      <3>2. CASE ~list[i + 1].unloaded
        BY <2>2, <2>3, <3>2
      <3>. QED BY <3>1, <3>2
    <2>. QED BY <2>1, <2>4
  <1>9. Len(list) \in A
    <2>. HIDE DEF A
    <2>1. 0 .. Len(list) \subseteq A
      BY <1>6, <1>7, <1>8, UpToInduction
    <2>. QED BY <1>6, <2>1
  <1>. QED BY <1>1, <1>3, <1>6, <1>9 DEF header

\* What the report reads of the breadcrumbs' files, step by step.
LEMMA CrumbSteps ==
    ASSUME NEW S, CrumbFiles \in Seq(S)
    PROVE  \E f : /\ CrumbsInReport = f[Len(CrumbFiles)] /\ f[0] = <<>>
                  /\ \A i \in 0 .. Len(CrumbFiles) : f[i] \in Seq(S)
                  /\ \A i \in 1 .. Len(CrumbFiles) :
                       f[i] = IF CrumbFiles[i] # None THEN Append(f[i - 1], CrumbFiles[i]) ELSE f[i - 1]
  <1>. DEFINE s == CrumbFiles
              test == [i \in 1 .. Len(s) |-> s[i] # None]
              Works(f) == f = [i \in 0 .. Len(s) |-> IF i = 0 THEN <<>>
                                 ELSE IF s[i] # None THEN Append(f[i - 1], s[i]) ELSE f[i - 1]]
              g == CHOOSE f : Works(f)
  <1>1. CrumbsInReport = g[Len(s)]
    BY DEF CrumbsInReport
  <1>2. s \in Seq(S)
    OBVIOUS
  <1>. HIDE DEF s
  <1>. HIDE DEF test
  <1>3. PICK h : /\ h = [i \in 0 .. Len(s) |-> IF i = 0 THEN <<>>
                           ELSE IF test[i] THEN Append(h[i - 1], s[i]) ELSE h[i - 1]]
                 /\ \A i \in 0 .. Len(s) : h[i] \in Seq(S)
    BY <1>2, SelectSteps
  <1>4. Works(h)
    <2>1. ASSUME NEW i \in 0 .. Len(s), i # 0 PROVE i \in 1 .. Len(s)
      BY <1>2, <2>1
    <2>2. \A i \in 1 .. Len(s) : test[i] <=> s[i] # None
      BY DEF test
    <2>3. \A i \in 0 .. Len(s) : i # 0 => (test[i] <=> s[i] # None)
      BY <2>1, <2>2
    <2>4. \A i \in 0 .. Len(s) :
            (IF i = 0 THEN <<>> ELSE IF test[i] THEN Append(h[i - 1], s[i]) ELSE h[i - 1])
              = (IF i = 0 THEN <<>> ELSE IF s[i] # None THEN Append(h[i - 1], s[i]) ELSE h[i - 1])
      BY <2>3
    <2>. QED BY <1>3, <2>4
  <1>5. Works(g)
    BY <1>4
  <1>. HIDE DEF g
  <1>. DEFINE A == {i \in 0 .. Len(s) : g[i] = h[i]}
  <1>6. Len(s) \in Nat
    BY <1>2
  <1>7. 0 \in A
    BY <1>4, <1>5, <1>6
  <1>10. ASSUME NEW i \in 1 .. Len(s)
         PROVE  /\ g[i] = IF s[i] # None THEN Append(g[i - 1], s[i]) ELSE g[i - 1]
                /\ h[i] = IF s[i] # None THEN Append(h[i - 1], s[i]) ELSE h[i - 1]
    <2>1. i \in 0 .. Len(s) /\ i # 0
      BY <1>6
    <2>2. \A j \in 0 .. Len(s) : g[j] = IF j = 0 THEN <<>>
                                   ELSE IF s[j] # None THEN Append(g[j - 1], s[j]) ELSE g[j - 1]
      BY <1>5
    <2>3. \A j \in 0 .. Len(s) : h[j] = IF j = 0 THEN <<>>
                                   ELSE IF s[j] # None THEN Append(h[j - 1], s[j]) ELSE h[j - 1]
      BY <1>4
    <2>. HIDE DEF Works
    <2>. QED BY <2>1, <2>2, <2>3, Zenon
  <1>8. ASSUME NEW i \in 0 .. Len(s) - 1, i \in A PROVE i + 1 \in A
    BY <1>6, <1>8, <1>10
  <1>9. \A i \in 0 .. Len(s) : g[i] = h[i]
    <2>. HIDE DEF A
    <2>1. 0 .. Len(s) \subseteq A
      BY <1>6, <1>7, <1>8, UpToInduction
    <2>. QED BY <2>1 DEF A
  <1>11. g[0] = <<>>
    BY <1>5, <1>6
  <1>. QED BY <1>1, <1>3, <1>9, <1>10, <1>11 DEF s

\* The other sections.
SceneOK(s) ==
  /\ {s.config, s.metaData, s.state} \subseteq {"absent", "raw"}
  /\ {s.system, s.user} \subseteq {"raw", "blank", "word", NoName}
  /\ s.processName \in {"text", NoName} /\ s.callback \in Seq(Calls)

\* bsg_kscrw_i_writeReportInfo.
LEMMA InfoDoes ==
    ASSUME NEW s, SceneOK(s), NEW q, Countable(q), Quiet(<<"report">>, q)
    PROVE  Does(ReportInfo("report", s), TRUE, <<>>, q, At(<<>>, "report", q))
  <1>. DEFINE p == <<Str("version", "text"), Str("id", "text"), Str("process_name", s.processName), Num("timestamp")>>
              r == IF s.clock THEN <<Num("timestamp_millis")>> ELSE <<>>
              t == <<Str("type", "text")>>
  <1>1. {"version", "id", "process_name", "timestamp", "timestamp_millis", "type", "report"} \subseteq Fields
    BY DEF Fields
  <1>2. /\ Str("version", "text") \in FieldCalls /\ Str("id", "text") \in FieldCalls
        /\ Num("timestamp") \in FieldCalls /\ Num("timestamp_millis") \in FieldCalls /\ Str("type", "text") \in FieldCalls
    BY <1>1, FieldCallTypes
  <1>3. Str("process_name", s.processName) \in FieldCalls
    BY <1>1, FieldCallTypes DEF SceneOK
  <1>4. p \in Seq(FieldCalls)
    BY <1>2, <1>3
  <1>. HIDE DEF p
  <1>5. Silent(p, TRUE) /\ Silent(t, TRUE) /\ Silent(<<Num("timestamp_millis")>>, TRUE) /\ Silent(<<>>, TRUE)
    BY <1>2, <1>4, SilentFields, OneSilent, SilentNone
  <1>6. Silent(r, TRUE)
    BY <1>5
  <1>. HIDE DEF r, t
  <1>7. Silent(p \o r, TRUE)
    BY <1>5, <1>6, SilentTwo, Zenon
  <1>8. Silent(p \o r \o t, TRUE)
    BY <1>5, <1>7, SilentTwo, Zenon
  <1>9. <<>> \in Seq(Texts) /\ <<>> \o <<"report">> = <<"report">>
    OBVIOUS
  <1>10. Does(Pair("report", p \o r \o t), TRUE, <<>>, q, At(<<>>, "report", q))
    BY <1>1, <1>8, <1>9, PairDoes
  <1>. QED BY <1>10 DEF ReportInfo, p, r, t

\* bsg_kscrw_i_writeError is one object, for any crash.
LEMMA ErrorSilent ==
    ASSUME NEW x, NEW c, CrashOK(c)
    PROVE  \E p : Silent(p, TRUE) /\ ErrorSection(x, c) = Pair(x, p)
  <1>. DEFINE error == ErrorOf(c)
              Named(field, value) == IF value = "none" THEN <<>> ELSE <<Str(field, "text")>>
              mach == <<Num("exception")>> \o Named("exception_name", error.exception)
                        \o <<Str("code", "text")>> \o Named("code_name", error.code) \o <<Str("subcode", "text")>>
              signal == <<Num("signal")>> \o Named("name", error.signal) \o <<Num("code")>>
                          \o Named("code_name", error.code)
              kindOf == <<Str("type", "text")>>
              named == <<Str("name", c.name)>>
              object == named \o AddressReferencedByString("referenced_object", c)
              specific ==
                CASE c.type = "mach" -> Pair("mach", mach) \o kindOf
                  [] c.type = "cpp" -> kindOf \o Pair("cpp_exception", named)
                  [] c.type = "nsexception" -> kindOf \o Pair("nsexception", object)
                  [] c.type = "signal" -> Pair("signal", signal) \o kindOf
              reason == IF c.reason = NoName THEN <<>> ELSE <<Str("reason", "text")>>
              p == <<Num("address")>> \o reason \o specific
  <1>1. ErrorSection(x, c) = Pair(x, p)
    BY DEF ErrorSection
  <1>2. {"exception", "exception_name", "code", "code_name", "subcode", "signal", "name", "type", "address", "reason",
         "mach", "cpp_exception", "nsexception", "referenced_object"} \subseteq Fields
    BY DEF Fields
  <1>3. \A f \in Fields : Silent(<<Num(f)>>, TRUE) /\ Silent(<<Str(f, "text")>>, TRUE)
    BY FieldCallTypes, OneSilent
  <1>4. \A f \in Fields : \A v : Silent(Named(f, v), TRUE)
    BY <1>3, SilentNone
  <1>5. Silent(named, TRUE)
    BY <1>2, FieldCallTypes, OneSilent DEF CrashOK
  <1>6. Silent(kindOf, TRUE) /\ Silent(reason, TRUE) /\ Silent(<<Num("address")>>, TRUE)
    BY <1>2, <1>3, SilentNone
  <1>. HIDE DEF Named, error
  <1>7. Silent(mach, TRUE)
    <2>. DEFINE a == <<Num("exception")>>
                b == Named("exception_name", error.exception)
                d == <<Str("code", "text")>>
                e == Named("code_name", error.code)
                f == <<Str("subcode", "text")>>
    <2>1. Silent(a, TRUE) /\ Silent(b, TRUE) /\ Silent(d, TRUE) /\ Silent(e, TRUE) /\ Silent(f, TRUE)
      BY <1>2, <1>3, <1>4
    <2>. HIDE DEF a, b, d, e, f
    <2>2. Silent(a \o b, TRUE)
      BY <2>1, SilentTwo, Zenon
    <2>3. Silent(a \o b \o d, TRUE)
      BY <2>1, <2>2, SilentTwo, Zenon
    <2>4. Silent(a \o b \o d \o e, TRUE)
      BY <2>1, <2>3, SilentTwo, Zenon
    <2>5. Silent(a \o b \o d \o e \o f, TRUE)
      BY <2>1, <2>4, SilentTwo, Zenon
    <2>. QED BY <2>5 DEF a, b, d, e, f
  <1>8. Silent(signal, TRUE)
    <2>. DEFINE a == <<Num("signal")>>
                b == Named("name", error.signal)
                d == <<Num("code")>>
                e == Named("code_name", error.code)
    <2>1. Silent(a, TRUE) /\ Silent(b, TRUE) /\ Silent(d, TRUE) /\ Silent(e, TRUE)
      BY <1>2, <1>3, <1>4
    <2>. HIDE DEF a, b, d, e
    <2>2. Silent(a \o b, TRUE)
      BY <2>1, SilentTwo, Zenon
    <2>3. Silent(a \o b \o d, TRUE)
      BY <2>1, <2>2, SilentTwo, Zenon
    <2>4. Silent(a \o b \o d \o e, TRUE)
      BY <2>1, <2>3, SilentTwo, Zenon
    <2>. QED BY <2>4 DEF a, b, d, e
  <1>9. Silent(object, TRUE)
    <2>. DEFINE r == AddressReferencedByString("referenced_object", c)
    <2>1. Silent(MemoryContents("referenced_object", c.memory), TRUE) /\ Silent(<<>>, TRUE)
      BY <1>2, MemorySilent, SilentNone
    <2>2. Silent(r, TRUE)
      BY <2>1 DEF AddressReferencedByString
    <2>. HIDE DEF r, named
    <2>3. Silent(named \o r, TRUE)
      BY <1>5, <2>2, SilentTwo, Zenon
    <2>. QED BY <2>3 DEF r
  <1>. HIDE DEF mach, signal, object, named, kindOf, reason
  <1>10. Silent(specific, TRUE)
    <2>1. /\ Silent(Pair("mach", mach), TRUE) /\ Silent(Pair("signal", signal), TRUE)
          /\ Silent(Pair("cpp_exception", named), TRUE) /\ Silent(Pair("nsexception", object), TRUE)
      BY <1>2, <1>5, <1>7, <1>8, <1>9, SilentPair
    <2>2. Silent(Pair("mach", mach) \o kindOf, TRUE)
      BY <1>6, <2>1, SilentTwo, Zenon
    <2>3. Silent(Pair("signal", signal) \o kindOf, TRUE)
      BY <1>6, <2>1, SilentTwo, Zenon
    <2>4. Silent(kindOf \o Pair("cpp_exception", named), TRUE)
      BY <1>6, <2>1, SilentTwo, Zenon
    <2>5. Silent(kindOf \o Pair("nsexception", object), TRUE)
      BY <1>6, <2>1, SilentTwo, Zenon
    <2>6. c.type \in {"mach", "signal", "cpp", "nsexception"}
      BY DEF CrashOK
    <2>7. specific \in {Pair("mach", mach) \o kindOf, Pair("signal", signal) \o kindOf,
                        kindOf \o Pair("cpp_exception", named), kindOf \o Pair("nsexception", object)}
      BY <2>6
    <2>. HIDE DEF specific
    <2>. QED BY <2>2, <2>3, <2>4, <2>5, <2>7, Zenon
  <1>. HIDE DEF specific
  <1>. DEFINE address == <<Num("address")>>
  <1>11. Silent(address, TRUE)
    BY <1>6
  <1>. HIDE DEF address
  <1>12. Silent(address \o reason, TRUE)
    BY <1>6, <1>11, SilentTwo, Zenon
  <1>13. Silent(address \o reason \o specific, TRUE)
    BY <1>10, <1>12, SilentTwo, Zenon
  <1>14. Silent(p, TRUE)
    BY <1>13 DEF address
  <1>. QED BY <1>1, <1>14

\* Paths of two names.
LEMMA Joined ==
    ASSUME NEW S, NEW x \in S, NEW y \in S
    PROVE  /\ <<x>> \in Seq(S) /\ <<x, y>> \in Seq(S)
           /\ <<>> \o <<x>> = <<x>> /\ <<x>> \o <<y>> = <<x, y>>
  <1>1. <<x>> \in Seq(S) /\ <<x, y>> \in Seq(S)
    OBVIOUS
  <1>2. <<>> \o <<x>> = <<x>>
    OBVIOUS
  <1>3. <<x>> \o <<y>> = <<x, y>>
    <2>. DEFINE u == <<x>>
                v == <<y>>
                t == <<x, y>>
                w == u \o v
    <2>1. u \in Seq(S) /\ v \in Seq(S)
      OBVIOUS
    <2>2. Len(u) = 1 /\ Len(v) = 1 /\ u[1] = x /\ v[1] = y
      OBVIOUS
    <2>3. t = [i \in 1 .. 2 |-> t[i]] /\ t[1] = x /\ t[2] = y
      OBVIOUS
    <2>. HIDE DEF u, v, t
    <2>4. w \in Seq(S) /\ Len(w) = Len(u) + Len(v)
      BY <2>1
    <2>5. (\A i \in 1 .. Len(u) : w[i] = u[i]) /\ (\A i \in 1 .. Len(v) : w[Len(u) + i] = v[i])
      BY <2>1
    <2>. HIDE DEF w
    <2>6. Len(w) = 2 /\ w[1] = x /\ w[2] = y
      BY <2>2, <2>4, <2>5
    <2>7. w = [i \in 1 .. 2 |-> w[i]]
      <3>1. w \in Seq(S)
        BY <2>4
      <3>2. w = [i \in 1 .. Len(w) |-> w[i]]
        BY <3>1
      <3>. QED BY <2>6, <3>2
    <2>8. \A i \in 1 .. 2 : w[i] = t[i]
      BY <2>3, <2>6
    <2>9. w = t
      BY <2>3, <2>7, <2>8
    <2>. QED BY <2>9 DEF u, v, t, w
  <1>. QED BY <1>1, <1>2, <1>3

\* A member whose value adds nothing that is counted.
LEMMA FieldDoes ==
    ASSUME NEW c \in FieldCalls, NEW q, Countable(q), Quiet(<<c.name>>, q), q # <<c.name>>
    PROVE  Does(<<c>>, TRUE, <<>>, q, 0)
  <1>1. c \in Calls /\ LeafCall(c) /\ NameIn(TRUE, c.name) /\ KeyIn(TRUE, c.name) = c.name /\ c.name \in Texts
    BY FieldNames DEF FieldCalls
  <1>2. <<>> \o <<c.name>> = <<c.name>>
    BY <1>1
  <1>3. At(<<>>, c.name, q) = 0
    BY <1>2 DEF At
  <1>4. Does(<<c>>, TRUE, <<>>, q, IF Nothing(c) THEN 0 ELSE At(<<>>, c.name, q))
    BY <1>1, <1>2, DoesLeaf
  <1>5. (IF Nothing(c) THEN 0 ELSE At(<<>>, c.name, q)) = 0
    BY <1>3
  <1>. QED BY <1>4, <1>5

\* What was prepared while the process was well, or was not.
LEMMA PreparedDoes ==
    ASSUME NEW x \in Fields, NEW json \in {"raw", "blank", "word", NoName}, NEW q, Countable(q),
           Quiet(<<x>>, q), q # <<x>>
    PROVE  Does(Prepared(x, json), TRUE, <<>>, q, 0)
  <1>1. json # NoName => Json(x, json) \in FieldCalls /\ Json(x, json).name = x
    BY FieldCallTypes DEF Json
  <1>2. json # NoName => Does(<<Json(x, json)>>, TRUE, <<>>, q, 0)
    BY <1>1, FieldDoes
  <1>3. Does(<<>>, TRUE, <<>>, q, 0)
    BY DoesNone
  <1>. QED BY <1>2, <1>3 DEF Prepared

\* What system_atcrash has.
LEMMA AtCrashDoes ==
    ASSUME NEW q, Countable(q), Quiet(<<"system_atcrash", "memory">>, q),
           Quiet(<<"system_atcrash", "application_stats">>, q)
    PROVE  Does(Pair("system_atcrash", MemoryInfo("memory") \o AppStats("application_stats")), TRUE, <<>>, q,
                At(<<>>, "system_atcrash", q)
                  + (At(<<"system_atcrash">>, "memory", q) + At(<<"system_atcrash">>, "application_stats", q)))
  <1>. DEFINE P == <<"system_atcrash">>
              a == <<Num("usable"), Num("free")>>
              b == <<Num("application_in_foreground"), Num("launches_since_last_crash"),
                     Num("sessions_since_last_crash"), Dbl("active_time_since_last_crash", "finite"),
                     Dbl("background_time_since_last_crash", "finite"), Num("sessions_since_launch"),
                     Dbl("active_time_since_launch", "finite"), Dbl("background_time_since_launch", "finite")>>
              m == At(P, "memory", q)
              n == At(P, "application_stats", q)
              c == Obj("system_atcrash")
  <1>1. {"system_atcrash", "memory", "application_stats", "usable", "free", "application_in_foreground",
         "launches_since_last_crash", "sessions_since_last_crash", "active_time_since_last_crash",
         "background_time_since_last_crash", "sessions_since_launch", "active_time_since_launch",
         "background_time_since_launch"} \subseteq Fields
    BY DEF Fields
  <1>2. a \in Seq(FieldCalls)
    <2>1. Num("usable") \in FieldCalls /\ Num("free") \in FieldCalls
      BY <1>1, FieldCallTypes
    <2>. QED BY <2>1
  <1>3. b \in Seq(FieldCalls)
    <2>1. /\ Num("application_in_foreground") \in FieldCalls /\ Num("launches_since_last_crash") \in FieldCalls
          /\ Num("sessions_since_last_crash") \in FieldCalls /\ Num("sessions_since_launch") \in FieldCalls
      BY <1>1, FieldCallTypes
    <2>2. /\ Dbl("active_time_since_last_crash", "finite") \in FieldCalls
          /\ Dbl("background_time_since_last_crash", "finite") \in FieldCalls
          /\ Dbl("active_time_since_launch", "finite") \in FieldCalls
          /\ Dbl("background_time_since_launch", "finite") \in FieldCalls
      BY <1>1, FieldCallTypes
    <2>. QED BY <2>1, <2>2
  <1>. HIDE DEF a, b
  <1>4. Silent(a, TRUE) /\ Silent(b, TRUE)
    BY <1>2, <1>3, SilentFields
  <1>5. P \in Seq(Texts) /\ P \o <<"memory">> = <<"system_atcrash", "memory">>
        /\ P \o <<"application_stats">> = <<"system_atcrash", "application_stats">>
        /\ <<>> \o P = P
    <2>1. "system_atcrash" \in Texts /\ "memory" \in Texts /\ "application_stats" \in Texts
      BY <1>1, FieldNames
    <2>. QED BY <2>1, Joined
  <1>6. MemoryInfo("memory") = Pair("memory", a) /\ AppStats("application_stats") = Pair("application_stats", b)
    BY DEF MemoryInfo, AppStats, a, b
  <1>. DEFINE u == Pair("memory", a)
              v == Pair("application_stats", b)
  <1>7. Does(u, TRUE, P, q, m)
    <2>1. Quiet(P \o <<"memory">>, q) /\ "memory" \in Fields
      BY <1>1, <1>5
    <2>. HIDE DEF P
    <2>. QED BY <1>4, <1>5, <2>1, PairDoes, Zenon
  <1>8. Does(v, TRUE, P, q, n)
    <2>1. Quiet(P \o <<"application_stats">>, q) /\ "application_stats" \in Fields
      BY <1>1, <1>5
    <2>. HIDE DEF P
    <2>. QED BY <1>4, <1>5, <2>1, PairDoes, Zenon
  <1>9. m \in Nat /\ n \in Nat
    BY DEF At
  <1>. HIDE DEF m, n, u, v
  <1>10. Does(u \o v, TRUE, P, q, m + n) /\ m + n \in Nat
    <2>. HIDE DEF P
    <2>1. Does(u \o v, TRUE, P, q, m + n)
      BY <1>7, <1>8, <1>9, DoesTwo, Zenon
    <2>2. m + n \in Nat
      BY <1>9
    <2>. QED BY <2>1, <2>2, Zenon
  <1>11. c \in Calls /\ Begins(c, TRUE) /\ NameIn(TRUE, c.name) /\ KeyIn(TRUE, c.name) = "system_atcrash"
    BY <1>1, FieldCallTypes
  <1>12. TRUE \in BOOLEAN
    OBVIOUS
  <1>. HIDE DEF c
  <1>. DEFINE k == KeyIn(TRUE, c.name)
  <1>13. <<>> \o <<k>> = P
    BY <1>5, <1>11
  <1>14. Does(<<c>> \o (u \o v) \o <<EndC>>, TRUE, <<>>, q, At(<<>>, k, q) + (m + n))
    BY <1>10, <1>11, <1>12, <1>13, DoesContainer
  <1>15. Does(<<c>> \o (u \o v) \o <<EndC>>, TRUE, <<>>, q, At(<<>>, "system_atcrash", q) + (m + n))
    BY <1>11, <1>14
  <1>. QED BY <1>6, <1>15 DEF Pair, c, u, v, m, n

\* Members(x, n, q): n elements of an array that is called x.
Elements(P, n, q) == IF P \o <<"item">> = q THEN n ELSE 0

\* bsg_kscrw_i_writeBinaryImage.
LEMMA ImageDoes ==
    ASSUME NEW P \in Seq(Texts), NEW q, Countable(q), Quiet(P \o <<"item">>, q), NEW image
    PROVE  Does(BinaryImage(image), FALSE, P, q, At(P, "item", q))
  <1>. DEFINE p == <<Num("image_addr"), Num("image_vmaddr"), Num("image_size"), Str("name", "text"),
                     Uuid("uuid", "text"), Num("cpu_type"), Num("cpu_subtype")>>
              c == Obj(NoName)
  <1>1. {"image_addr", "image_vmaddr", "image_size", "name", "uuid", "cpu_type", "cpu_subtype"} \subseteq Fields
    BY DEF Fields
  <1>2. p \in Seq(FieldCalls)
    <2>1. /\ Num("image_addr") \in FieldCalls /\ Num("image_vmaddr") \in FieldCalls /\ Num("image_size") \in FieldCalls
          /\ Num("cpu_type") \in FieldCalls /\ Num("cpu_subtype") \in FieldCalls
      BY <1>1, FieldCallTypes
    <2>2. Str("name", "text") \in FieldCalls /\ Uuid("uuid", "text") \in FieldCalls
      BY <1>1, FieldCallTypes
    <2>. QED BY <2>1, <2>2
  <1>. HIDE DEF p
  <1>3. Silent(p, TRUE)
    BY <1>2, SilentFields
  <1>4. c \in Calls /\ Begins(c, TRUE) /\ NameIn(FALSE, c.name) /\ KeyIn(FALSE, c.name) = "item"
    BY NamelessCalls
  <1>. HIDE DEF c
  <1>5. TRUE \in BOOLEAN /\ FALSE \in BOOLEAN /\ Quiet(P \o <<KeyIn(FALSE, c.name)>>, q)
    BY <1>4
  <1>6. Does(<<c>> \o p \o <<EndC>>, FALSE, P, q, At(P, KeyIn(FALSE, c.name), q))
    BY <1>3, <1>4, <1>5, ContainerDoes, Zenon
  <1>7. Does(<<c>> \o p \o <<EndC>>, FALSE, P, q, At(P, "item", q))
    BY <1>4, <1>6
  <1>. QED BY <1>7 DEF BinaryImage, Pair, p, c

\* bsg_kscrw_i_writeBinaryImages: as many elements as the list has images.
LEMMA ImagesDo ==
    ASSUME NEW S, Listed \in Seq(S), NEW q, Countable(q), Quiet(<<"binary_images", "item">>, q)
    PROVE  Does(BinaryImages("binary_images"), TRUE, <<>>, q,
                At(<<>>, "binary_images", q) + Elements(<<"binary_images">>, Len(Listed), q))
  <1>. DEFINE P == <<"binary_images">>
              s == [i \in DOMAIN Listed |-> BinaryImage(Listed[i])]
              n == At(P, "item", q)
              m == Len(Listed)
              w == [i \in 0 .. m |-> IF n = 1 THEN i ELSE 0]
              a == Arr("binary_images")
              total == Elements(P, m, q)
  <1>1. "binary_images" \in Fields /\ "binary_images" \in Texts /\ "item" \in Texts
    BY TokenTexts, SectionFields, FieldNames
  <1>2. P \in Seq(Texts) /\ P \o <<"item">> = <<"binary_images", "item">> /\ <<>> \o P = P
    BY <1>1, Joined
  <1>3. Quiet(P \o <<"item">>, q)
    BY <1>2
  <1>4. n \in {0, 1} /\ (n = 1 <=> P \o <<"item">> = q)
    BY DEF At
  <1>. HIDE DEF P
  <1>5. m \in Nat /\ Len(s) = m /\ (Len(s) = 0 => s = <<>>) /\ \A i \in 1 .. m : s[i] = BinaryImage(Listed[i])
    <2>1. Listed \in Seq(S)
      OBVIOUS
    <2>2. m \in Nat /\ DOMAIN Listed = 1 .. m
      BY <2>1
    <2>. HIDE DEF m
    <2>3. s = [i \in 1 .. m |-> BinaryImage(Listed[i])]
      BY <2>2
    <2>4. Len(s) = m
      BY <2>2, <2>3
    <2>5. Len(s) = 0 => s = <<>>
      BY <2>2, <2>3, <2>4
    <2>6. \A i \in 1 .. m : s[i] = BinaryImage(Listed[i])
      BY <2>3
    <2>. QED BY <2>2, <2>4, <2>5, <2>6
  <1>. HIDE DEF s
  <1>6. \A i \in 1 .. m : Does(s[i], FALSE, P, q, n)
    <2>. HIDE DEF n, m
    <2>. TAKE i \in 1 .. m
    <2>1. Does(BinaryImage(Listed[i]), FALSE, P, q, At(P, "item", q))
      BY <1>2, <1>3, ImageDoes
    <2>. QED BY <1>5, <2>1 DEF n
  <1>. HIDE DEF n, m
  <1>7. w[0] = 0 /\ (\A i \in 0 .. m : w[i] \in Nat) /\ (\A i \in 1 .. m : w[i] = w[i - 1] + n)
        /\ w[m] = IF n = 1 THEN m ELSE 0
    BY <1>4, <1>5
  <1>. HIDE DEF w
  <1>8. Does(FlattenSeq(s), FALSE, P, q, w[m])
    <2>1. \A i \in 1 .. Len(s) : w[i] = w[i - 1] + n /\ Does(s[i], FALSE, P, q, n)
      BY <1>5, <1>6, <1>7
    <2>2. Len(s) \in Nat /\ (Len(s) = 0 => s = <<>>) /\ w[0] = 0 /\ (\A i \in 0 .. Len(s) : w[i] \in Nat) /\ n \in Nat
      BY <1>4, <1>5, <1>7
    <2>3. Does(FlattenSeq(s), FALSE, P, q, w[Len(s)])
      BY <2>1, <2>2, DoesFlatten, Zenon
    <2>. QED BY <1>5, <2>3
  <1>9. w[m] = total /\ total \in Nat
    BY <1>4, <1>5, <1>7 DEF Elements
  <1>. HIDE DEF total
  <1>10. Does(FlattenSeq(s), FALSE, P, q, total)
    BY <1>8, <1>9
  <1>11. a \in Calls /\ Begins(a, FALSE) /\ NameIn(TRUE, a.name) /\ KeyIn(TRUE, a.name) = "binary_images"
         /\ TRUE \in BOOLEAN /\ FALSE \in BOOLEAN
    BY <1>1, FieldCallTypes
  <1>. HIDE DEF a
  <1>. DEFINE k == KeyIn(TRUE, a.name)
  <1>12. <<>> \o <<k>> = P
    BY <1>2, <1>11 DEF P
  <1>13. Does(<<a>> \o FlattenSeq(s) \o <<EndC>>, TRUE, <<>>, q, At(<<>>, k, q) + total)
    BY <1>9, <1>10, <1>11, <1>12, DoesContainer
  <1>14. Does(<<a>> \o FlattenSeq(s) \o <<EndC>>, TRUE, <<>>, q, At(<<>>, "binary_images", q) + total)
    BY <1>11, <1>13
  <1>. QED BY <1>14 DEF BinaryImages, a, s, total, m, P

\* What the client adds before its breadcrumbs.
LEMMA HandlerDoes ==
    ASSUME NEW s, SceneOK(s), NEW q, Countable(q),
           \A x \in {"id", "startedAt", "handledCount", "unhandledCount", "config", "metaData", "state"} :
             q # <<"user_atcrash", x>> /\ Quiet(<<"user_atcrash", x>>, q)
    PROVE  Does(Session(s) \o DataFiles(s), TRUE, <<"user_atcrash">>, q, 0)
  <1>. DEFINE X == {"id", "startedAt", "handledCount", "unhandledCount", "config", "metaData", "state"}
              P == <<"user_atcrash">>
              C == {c \in FieldCalls : c.name \in X}
              u == <<Str("id", "text"), Str("startedAt", "text"), Num("handledCount"), Num("unhandledCount")>>
              v == <<File("config", s.config), File("metaData", s.metaData), File("state", s.state)>>
  <1>1. X \subseteq Fields /\ "user_atcrash" \in Fields
    BY DEF Fields
  <1>2. /\ Str("id", "text") \in C /\ Str("startedAt", "text") \in C
        /\ Num("handledCount") \in C /\ Num("unhandledCount") \in C
    BY <1>1, FieldCallTypes DEF Str, Num
  <1>3. File("config", s.config) \in C /\ File("metaData", s.metaData) \in C /\ File("state", s.state) \in C
    BY <1>1, FieldCallTypes DEF SceneOK, File
  <1>4. C \subseteq Calls /\ \A c \in C : LeafCall(c) /\ NameIn(TRUE, c.name) /\ KeyIn(TRUE, c.name) = c.name
                                        /\ c.name \in X
    BY FieldNames DEF FieldCalls
  <1>5. \A x \in X : At(P, x, q) = 0 /\ Quiet(P \o <<x>>, q)
    <2>. TAKE x \in X
    <2>1. x \in Texts /\ "user_atcrash" \in Texts
      BY <1>1, FieldNames
    <2>2. P \o <<x>> = <<"user_atcrash", x>>
      BY <2>1, Joined
    <2>. QED BY <2>2 DEF At
  <1>. HIDE DEF C, X, P
  <1>6. u \in Seq(C) /\ v \in Seq(C) /\ <<>> \in Seq(C)
    BY <1>2, <1>3
  <1>. HIDE DEF u, v
  <1>7. u \o v \in Seq(C) /\ <<>> \o v \in Seq(C)
    BY <1>6
  <1>. DEFINE p == Session(s) \o DataFiles(s)
  <1>8. p \in Seq(C)
    BY <1>7 DEF Session, DataFiles, u, v
  <1>. HIDE DEF p
  <1>9. p \in Seq(Calls)
    BY <1>4, <1>8
  <1>10. \A i \in 1 .. Len(p) : p[i] \in C
    BY <1>8
  <1>11. \A i \in 1 .. Len(p) : LeafCall(p[i]) /\ NameIn(TRUE, p[i].name)
           /\ At(P, KeyIn(TRUE, p[i].name), q) = 0 /\ Quiet(P \o <<KeyIn(TRUE, p[i].name)>>, q)
    <2>. TAKE i \in 1 .. Len(p)
    <2>. DEFINE c == p[i]
    <2>1. c \in C
      BY <1>10
    <2>. HIDE DEF c
    <2>2. LeafCall(c) /\ NameIn(TRUE, c.name) /\ At(P, KeyIn(TRUE, c.name), q) = 0
          /\ Quiet(P \o <<KeyIn(TRUE, c.name)>>, q)
      BY <1>4, <1>5, <2>1
    <2>. QED BY <2>2 DEF c
  <1>12. Does(p, TRUE, P, q, 0)
    BY <1>9, <1>11, LeavesDo
  <1>. QED BY <1>12 DEF p, P

\* Paths of three names.
LEMMA JoinedTwo ==
    ASSUME NEW S, NEW x \in S, NEW y \in S, NEW z \in S
    PROVE  <<x, y>> \o <<z>> = <<x, y, z>>
  <1>. DEFINE u == <<x, y>>
              v == <<z>>
              t == <<x, y, z>>
              w == u \o v
  <1>1. u \in Seq(S) /\ v \in Seq(S)
    OBVIOUS
  <1>2. Len(u) = 2 /\ Len(v) = 1 /\ u[1] = x /\ u[2] = y /\ v[1] = z
    OBVIOUS
  <1>3. t = [i \in 1 .. 3 |-> t[i]] /\ t[1] = x /\ t[2] = y /\ t[3] = z
    OBVIOUS
  <1>. HIDE DEF u, v, t
  <1>4. w \in Seq(S) /\ Len(w) = Len(u) + Len(v)
    BY <1>1
  <1>5. (\A i \in 1 .. Len(u) : w[i] = u[i]) /\ (\A i \in 1 .. Len(v) : w[Len(u) + i] = v[i])
    BY <1>1
  <1>. HIDE DEF w
  <1>6. Len(w) = 3 /\ w[1] = x /\ w[2] = y /\ w[3] = z
    BY <1>2, <1>4, <1>5
  <1>7. w = [i \in 1 .. 3 |-> w[i]]
    <2>1. w \in Seq(S)
      BY <1>4
    <2>2. w = [i \in 1 .. Len(w) |-> w[i]]
      BY <2>1
    <2>. QED BY <1>6, <2>2
  <1>8. \A i \in 1 .. 3 : w[i] = t[i]
    BY <1>3, <1>6
  <1>9. w = t
    BY <1>3, <1>7, <1>8
  <1>. QED BY <1>9 DEF u, v, t, w

\* An element for each file of a breadcrumb that is there.
LEMMA CrumbFilesDo ==
    ASSUME NEW S, CrumbFiles \in Seq(S), NEW P \in Seq(Texts), NEW q, Countable(q), Quiet(P \o <<"item">>, q),
           NEW p, p = [i \in DOMAIN CrumbFiles |-> File(NoName, IF CrumbFiles[i] = None THEN "absent" ELSE "raw")]
    PROVE  /\ Len(CrumbsInReport) \in Nat
           /\ Does(p, FALSE, P, q, Elements(P, Len(CrumbsInReport), q))
  <1>. DEFINE m == Len(CrumbFiles)
              content(i) == IF CrumbFiles[i] = None THEN "absent" ELSE "raw"
              hit == IF P \o <<"item">> = q THEN 1 ELSE 0
  <1>1. m \in Nat /\ DOMAIN CrumbFiles = 1 .. m
    <2>1. CrumbFiles \in Seq(S)
      OBVIOUS
    <2>. QED BY <2>1
  <1>2. PICK f : /\ CrumbsInReport = f[m] /\ f[0] = <<>>
                 /\ \A i \in 0 .. m : f[i] \in Seq(S)
                 /\ \A i \in 1 .. m :
                      f[i] = IF CrumbFiles[i] # None THEN Append(f[i - 1], CrumbFiles[i]) ELSE f[i - 1]
    BY CrumbSteps
  <1>3. \A i \in 1 .. m : CrumbFiles[i] \in S
    <2>1. CrumbFiles \in Seq(S)
      OBVIOUS
    <2>. QED BY <2>1
  <1>. HIDE DEF m
  <1>. DEFINE w == [i \in 0 .. m |-> IF hit = 1 THEN Len(f[i]) ELSE 0]
  <1>4. \A i \in 0 .. m : Len(f[i]) \in Nat
    BY <1>2
  <1>5. \A i \in 1 .. m : Len(f[i]) = Len(f[i - 1]) + IF CrumbFiles[i] # None THEN 1 ELSE 0
    <2>. TAKE i \in 1 .. m
    <2>1. i \in 0 .. m /\ i - 1 \in 0 .. m
      BY <1>1
    <2>2. f[i - 1] \in Seq(S) /\ Len(f[i - 1]) \in Nat
      BY <1>2, <1>4, <2>1
    <2>3. f[i] = IF CrumbFiles[i] # None THEN Append(f[i - 1], CrumbFiles[i]) ELSE f[i - 1]
      BY <1>2
    <2>4. Len(Append(f[i - 1], CrumbFiles[i])) = Len(f[i - 1]) + 1
      BY <2>2, <1>3
    <2>5. CASE CrumbFiles[i] # None
      BY <2>3, <2>4, <2>5
    <2>6. CASE CrumbFiles[i] = None
      <3>1. Len(f[i]) = Len(f[i - 1])
        BY <2>3, <2>6
      <3>. QED BY <2>2, <2>6, <3>1
    <2>. QED BY <2>5, <2>6
  <1>6. w[0] = 0 /\ \A i \in 0 .. m : w[i] \in Nat
    <2>1. Len(f[0]) = 0 /\ 0 \in 0 .. m
      BY <1>1, <1>2
    <2>. QED BY <1>4, <2>1
  <1>7. \A i \in 1 .. m : w[i] - w[i - 1] = IF CrumbFiles[i] = None THEN 0 ELSE hit
    <2>. TAKE i \in 1 .. m
    <2>1. i \in 0 .. m /\ i - 1 \in 0 .. m
      BY <1>1
    <2>2. w[i] = (IF hit = 1 THEN Len(f[i]) ELSE 0) /\ w[i - 1] = (IF hit = 1 THEN Len(f[i - 1]) ELSE 0)
      BY <2>1
    <2>. DEFINE x == Len(f[i])
                y == Len(f[i - 1])
    <2>3. x \in Nat /\ y \in Nat /\ x = y + IF CrumbFiles[i] # None THEN 1 ELSE 0
      BY <1>4, <1>5, <2>1
    <2>4. hit \in {0, 1} /\ w[i] = (IF hit = 1 THEN x ELSE 0) /\ w[i - 1] = (IF hit = 1 THEN y ELSE 0)
      BY <2>2
    <2>. HIDE DEF x, y, w, hit
    <2>5. CASE CrumbFiles[i] = None
      BY <2>3, <2>4, <2>5
    <2>6. CASE CrumbFiles[i] # None
      BY <2>3, <2>4, <2>6
    <2>. QED BY <2>5, <2>6
  <1>8. p = [i \in 1 .. m |-> File(NoName, content(i))]
    BY <1>1
  <1>9. \A i \in 1 .. m : content(i) \in {"absent", "raw"} /\ (content(i) = "absent" <=> CrumbFiles[i] = None)
    OBVIOUS
  <1>. HIDE DEF content, w
  <1>10. \A i \in 1 .. m : p[i] = File(NoName, content(i)) /\ p[i] \in Calls
    BY <1>8, <1>9, NamelessCalls
  <1>11. p \in Seq(Calls) /\ Len(p) = m
    <2>1. p \in [1 .. m -> Calls]
      BY <1>8, <1>10
    <2>. QED BY <1>1, <2>1
  <1>. HIDE DEF hit
  <1>12. ASSUME NEW i \in 1 .. m, NEW e, Inside(e, FALSE, P)
         PROVE  Halted(Call(e, p[i])) \/ Same(e, Call(e, p[i]), q, w[i] - w[i - 1])
    <2>. DEFINE c == File(NoName, content(i))
                name == c.name
    <2>1. /\ LeafCall(c) /\ NameIn(FALSE, name) /\ KeyIn(FALSE, name) = "item"
          /\ (Nothing(c) <=> CrumbFiles[i] = None)
      BY <1>9, NamelessCalls
    <2>2. p[i] = c
      BY <1>10
    <2>. HIDE DEF c
    <2>3. Ready(e) /\ KeyPath(e.doc) = P /\ Nameable(e, name) /\ Key(e, name) = "item"
      BY <1>12, <2>1, InsideNames
    <2>4. Quiet(KeyPath(e.doc) \o <<Key(e, name)>>, q)
      BY <2>3
    <2>5. \/ Halted(Call(e, c))
          \/ Same(e, Call(e, c), q, IF Nothing(c) THEN 0 ELSE At(KeyPath(e.doc), Key(e, name), q))
      BY <2>1, <2>3, <2>4, LeafAdds, Zenon
    <2>6. (IF Nothing(c) THEN 0 ELSE At(KeyPath(e.doc), Key(e, name), q)) = w[i] - w[i - 1]
      BY <1>7, <2>1, <2>3 DEF At, hit
    <2>. QED BY <2>2, <2>5, <2>6
  <1>13. Does(p, FALSE, P, q, w[m])
    BY <1>6, <1>11, <1>12, DoesStepwise
  <1>14. w[m] = Elements(P, Len(CrumbsInReport), q)
    BY <1>1, <1>2 DEF w, Elements, hit
  <1>15. Len(CrumbsInReport) \in Nat
    BY <1>1, <1>2, <1>4
  <1>. QED BY <1>13, <1>14, <1>15

\* BugsnagBreadcrumbsWriteCrashReport: as many elements as breadcrumbs are
\* read.
LEMMA CrumbsDo ==
    ASSUME NEW S, CrumbFiles \in Seq(S), NEW q, Countable(q), Quiet(<<"user_atcrash", "breadcrumbs", "item">>, q)
    PROVE  Does(CrumbSection, TRUE, <<"user_atcrash">>, q,
                At(<<"user_atcrash">>, "breadcrumbs", q)
                  + Elements(<<"user_atcrash", "breadcrumbs">>, Len(CrumbsInReport), q))
  <1>. DEFINE Q == <<"user_atcrash">>
              P == <<"user_atcrash", "breadcrumbs">>
              p == [i \in DOMAIN CrumbFiles |-> File(NoName, IF CrumbFiles[i] = None THEN "absent" ELSE "raw")]
              a == Arr("breadcrumbs")
              n == Len(CrumbsInReport)
              total == Elements(P, n, q)
  <1>1. "user_atcrash" \in Fields /\ "breadcrumbs" \in Fields /\ "item" \in Texts
    BY TokenTexts, SectionFields
  <1>2. Q \in Seq(Texts) /\ P \in Seq(Texts) /\ Q \o <<"breadcrumbs">> = P
    <2>1. "user_atcrash" \in Texts /\ "breadcrumbs" \in Texts
      BY <1>1, FieldNames
    <2>. QED BY <2>1, Joined
  <1>3. P \o <<"item">> = <<"user_atcrash", "breadcrumbs", "item">>
    <2>1. "user_atcrash" \in Texts /\ "breadcrumbs" \in Texts
      BY <1>1, FieldNames
    <2>. QED BY <1>1, <2>1, JoinedTwo
  <1>4. Quiet(P \o <<"item">>, q)
    BY <1>3
  <1>. HIDE DEF Q, P, p
  <1>5. n \in Nat /\ Does(p, FALSE, P, q, total)
    BY <1>2, <1>4, CrumbFilesDo DEF p
  <1>6. total \in Nat
    BY <1>5 DEF Elements
  <1>. HIDE DEF total, n
  <1>7. a \in Calls /\ Begins(a, FALSE) /\ NameIn(TRUE, a.name) /\ KeyIn(TRUE, a.name) = "breadcrumbs"
         /\ TRUE \in BOOLEAN /\ FALSE \in BOOLEAN
    BY <1>1, FieldCallTypes
  <1>. HIDE DEF a
  <1>. DEFINE k == KeyIn(TRUE, a.name)
  <1>8. Does(p, FALSE, Q \o <<k>>, q, total)
    BY <1>2, <1>5, <1>7
  <1>9. Does(<<a>> \o p \o <<EndC>>, TRUE, Q, q, At(Q, k, q) + total)
    BY <1>6, <1>7, <1>8, DoesContainer, Zenon
  <1>10. Does(<<a>> \o p \o <<EndC>>, TRUE, Q, q, At(Q, "breadcrumbs", q) + total)
    BY <1>7, <1>9
  <1>. QED BY <1>10 DEF CrumbSection, a, p, Q, P, total, n

-----------------------------------------------------------------------------
(* The sections.                                                           *)
(* Stage(e, P, q, n): so far all went well, inside the object at P, with n *)
(* occurrences of q; or the disk is full.                                  *)

\* The encoder is in the object at P, only objects are open around it, and q
\* occurs n times; or the disk is full.
Stage(e, P, q, n) ==
  \/ Halted(e)
  \/ Inside(e, TRUE, P) /\ Occ(e, q) = n /\ \A i \in 1 .. Len(e.open) : e.open[i]

\* A function is called.
LEMMA StageRun ==
    ASSUME NEW e, NEW P, NEW q, NEW m \in Nat, NEW n \in Nat, Stage(e, P, q, m), NEW p, Does(p, TRUE, P, q, n)
    PROVE  Stage(Run(e, p), P, q, m + n)
  <1>. DEFINE f == Run(e, p)
  <1>1. p \in Seq(Calls)
    BY DEF Does
  <1>2. CASE Halted(e)
    BY <1>1, <1>2, HaltedRun DEF Stage
  <1>3. CASE ~Halted(e)
    <2>1. Inside(e, TRUE, P) /\ Occ(e, q) = m /\ \A i \in 1 .. Len(e.open) : e.open[i]
      BY <1>3 DEF Stage
    <2>2. Halted(f) \/ Same(e, f, q, n)
      BY <2>1 DEF Does
    <2>. HIDE DEF f
    <2>3. Same(e, f, q, n) => Inside(f, TRUE, P) /\ Occ(f, q) = m + n /\ f.open = e.open
      BY <2>1, SameInside DEF Same
    <2>. QED BY <2>1, <2>2, <2>3 DEF Stage, f
  <1>. QED BY <1>2, <1>3

\* An object begins, to be ended by a later section.
LEMMA StageObj ==
    ASSUME NEW e, NEW P, NEW q, Countable(q), NEW m \in Nat, Stage(e, P, q, m), NEW x \in Fields
    PROVE  Stage(Run(e, <<Obj(x)>>), P \o <<x>>, q, m + At(P, x, q))
  <1>. DEFINE c == Obj(x)
              p == <<c>>
              f == Run(e, p)
  <1>1. c \in Calls /\ NameIn(TRUE, x) /\ KeyIn(TRUE, x) = x /\ TRUE \in BOOLEAN
    BY FieldNames, FieldCallTypes
  <1>2. p \in Seq(Calls)
    BY <1>1
  <1>3. CASE Halted(e)
    <2>. HIDE DEF p
    <2>1. Halted(f)
      BY <1>2, <1>3, HaltedRun
    <2>. QED BY <2>1 DEF Stage, p, c, f
  <1>4. CASE ~Halted(e)
    <2>1. Inside(e, TRUE, P) /\ Occ(e, q) = m /\ \A i \in 1 .. Len(e.open) : e.open[i]
      BY <1>4 DEF Stage
    <2>2. Ready(e) /\ KeyPath(e.doc) = P /\ Nameable(e, x) /\ Key(e, x) = x
      BY <1>1, <2>1, InsideNames
    <2>3. e \in Encoders /\ e.open \in Seq(BOOLEAN) /\ e.ok \in BOOLEAN
      BY <2>2 DEF Ready, Encoders
    <2>4. f = BeginContainer(e, x, TRUE)
      <3>1. f = Call(e, c)
        BY <2>3, RunOne
      <3>. QED BY <3>1 DEF Call, Obj
    <2>. HIDE DEF f, c
    <2>5. Dead(f) \/ Opened(e, f, x, TRUE)
      BY <1>1, <2>2, <2>4, ContainerOpened
    <2>6. ASSUME Opened(e, f, x, TRUE) PROVE Stage(f, P \o <<x>>, q, m + At(P, x, q))
      <3>1. KeyPath(f.doc) = P \o <<x>> /\ InObject(f) = TRUE
        BY <1>1, <2>2, <2>6, PathPush
      <3>2. Occ(f, q) = m + At(P, x, q)
        <4>1. Countable(q)
          OBVIOUS
        <4>2. Ready(e) /\ Nameable(e, x) /\ Opened(e, f, x, TRUE) /\ TRUE \in BOOLEAN
          BY <1>1, <2>2, <2>6
        <4>3. Occ(f, q) = Occ(e, q) + At(KeyPath(e.doc), Key(e, x), q)
          BY <4>1, <4>2, OpenedSame, ZenonT(40)
        <4>. QED BY <2>1, <2>2, <4>3
      <3>3. Ready(f) /\ f.open = Append(e.open, TRUE)
        BY <2>6 DEF Opened
      <3>4. \A i \in 1 .. Len(f.open) : f.open[i]
        BY <2>1, <2>3, <3>3
      <3>. QED BY <3>1, <3>2, <3>3, <3>4 DEF Stage, Inside
    <2>. QED BY <2>5, <2>6 DEF Stage, Dead, f, p, c
  <1>. QED BY <1>3, <1>4

\* It is ended.
LEMMA StageEnd ==
    ASSUME NEW e, NEW P \in Seq(Texts), NEW x \in Texts, NEW q, NEW m, Stage(e, P \o <<x>>, q, m)
    PROVE  Stage(Run(e, <<EndC>>), P, q, m)
  <1>. DEFINE p == <<EndC>>
              f == Run(e, p)
  <1>1. EndC \in Calls
    BY TokenTexts DEF EndC, Calls, Names
  <1>2. p \in Seq(Calls)
    BY <1>1
  <1>3. CASE Halted(e)
    <2>. HIDE DEF p
    <2>1. Halted(f)
      BY <1>2, <1>3, HaltedRun
    <2>. QED BY <2>1 DEF Stage, p, f
  <1>4. CASE ~Halted(e)
    <2>1. Inside(e, TRUE, P \o <<x>>) /\ Occ(e, q) = m /\ \A i \in 1 .. Len(e.open) : e.open[i]
      BY <1>4 DEF Stage
    <2>2. Ready(e) /\ KeyPath(e.doc) = P \o <<x>>
      BY <2>1 DEF Inside
    <2>3. e \in Encoders /\ e.open \in Seq(BOOLEAN) /\ e.ok \in BOOLEAN /\ e.doc \in Docs /\ e.doc.stack # <<>>
          /\ e.doc.stack \in Levels
      BY <2>2, ReadyEnd DEF Ready, Encoders
    <2>4. f = EndContainer(e)
      <3>1. f = Call(e, EndC)
        BY <2>3, RunOne
      <3>. QED BY <3>1 DEF Call, EndC
    <2>. HIDE DEF f
    <2>5. Dead(f) \/ Ended(e, f)
      BY <2>2, <2>4, ContainerEnded
    <2>. DEFINE n == Len(P)
                s == e.doc.stack
                t == f.doc.stack
    <2>6. n \in Nat /\ Len(P \o <<x>>) = n + 1 /\ \A i \in 1 .. n : (P \o <<x>>)[i] = P[i]
      OBVIOUS
    <2>7. Len(s) = n + 2 /\ Len(e.open) = n + 2
      BY <2>2, <2>3, <2>6, KeyPathType, LevelFields DEF Ready, LevelShape
    <2>8. \A i \in 1 .. n : s[i + 1].key = P[i]
      <3>1. KeyPath(e.doc) = [i \in 1 .. n + 1 |-> s[i + 1].key]
        BY <2>6, <2>7 DEF KeyPath
      <3>. TAKE i \in 1 .. n
      <3>2. i \in 1 .. n + 1
        BY <2>6
      <3>. HIDE DEF s
      <3>3. KeyPath(e.doc)[i] = s[i + 1].key
        BY <3>1, <3>2
      <3>. QED BY <2>2, <2>6, <3>3
    <2>9. ASSUME Ended(e, f) PROVE Stage(f, P, q, m)
      <3>1. Ready(f) /\ Len(f.open) = n + 1 /\ f.open = Front(e.open) /\ t = Front(s)
            /\ f.doc.members = e.doc.members
        BY <2>6, <2>7, <2>9 DEF Ended
      <3>2. PopShape(s, Front(s))
        BY <2>3, LevelPop
      <3>3. Len(t) = n + 1 /\ \A i \in 1 .. n + 1 : t[i] = s[i]
        BY <2>3, <2>6, <2>7, <3>1, <3>2 DEF PopShape
      <3>4. KeyPath(f.doc) = [i \in 1 .. n |-> t[i + 1].key]
        BY <2>6, <3>3 DEF KeyPath
      <3>5. \A i \in 1 .. n : t[i + 1].key = P[i]
        <4>. TAKE i \in 1 .. n
        <4>1. i + 1 \in 1 .. n + 1
          BY <2>6
        <4>2. t[i + 1] = s[i + 1]
          BY <3>3, <4>1
        <4>. QED BY <2>8, <4>2
      <3>. HIDE DEF t, s
      <3>6. KeyPath(f.doc) = P
        <4>1. P = [i \in 1 .. n |-> P[i]]
          OBVIOUS
        <4>. QED BY <3>4, <3>5, <4>1
      <3>7. \A i \in 1 .. n + 1 : f.open[i] = e.open[i]
        BY <2>3, <2>6, <2>7, <3>1 DEF Front
      <3>8. \A i \in 1 .. Len(f.open) : f.open[i]
        BY <2>1, <2>6, <2>7, <3>1, <3>7
      <3>9. InObject(f) = TRUE
        <4>1. InObject(f) = Last(f.open) /\ Last(f.open) = f.open[Len(f.open)] /\ Last(f.open) \in BOOLEAN
          BY <3>1, ReadyEnd
        <4>. QED BY <2>6, <3>1, <3>8, <4>1
      <3>10. Occ(f, q) = m
        BY <2>1, <3>1 DEF Occ, Occurrences
      <3>. QED BY <3>1, <3>6, <3>8, <3>9, <3>10 DEF Stage, Inside
    <2>. QED BY <2>5, <2>9 DEF Stage, Dead, f, p
  <1>. QED BY <1>3, <1>4

\* The outermost object, which has no name.
LEMMA StageRoot ==
    ASSUME NEW room \in Nat \cup {Unlimited}, NEW q
    PROVE  /\ BeginEncode(room) \in Encoders /\ BeginEncode(room).doc.at # "end"
           /\ Stage(Run(BeginEncode(room), <<Obj("report")>>), <<>>, q, 0)
  <1>. DEFINE e == BeginEncode(room)
              b == [e EXCEPT !.first = FALSE]
              s == <<[object |-> TRUE, key |-> ""]>>
              o == <<TRUE>>
              d == [EmptyDoc EXCEPT !.stack = s, !.at = "first"]
              c == [b EXCEPT !.open = o, !.first = TRUE]
              g == AddJSONData(c, "{")
              f == Run(e, <<Obj("report")>>)
  <1>1. EmptyDoc \in Docs
    <2>1. <<>> \in Levels
      BY DEF Levels
    <2>2. <<>> \in Seq(Paths)
      OBVIOUS
    <2>. QED BY <2>1, <2>2, TokenTexts DEF EmptyDoc, Docs, Places
  <1>2. e \in Encoders /\ e.ok /\ e.first /\ e.open = <<>> /\ e.doc = EmptyDoc /\ e.doc.at = "value"
    <2>1. <<>> \in Seq(BOOLEAN)
      OBVIOUS
    <2>2. EmptyDoc.at = "value"
      BY DEF EmptyDoc
    <2>. HIDE DEF EmptyDoc
    <2>. DEFINE none == <<>>
    <2>3. none \in Seq(BOOLEAN) /\ none = <<>>
      BY <2>1
    <2>4. e = [open |-> none, first |-> TRUE, doc |-> EmptyDoc, room |-> room, ok |-> TRUE]
      BY DEF BeginEncode
    <2>. HIDE DEF e, none
    <2>. QED BY <1>1, <2>2, <2>3, <2>4 DEF Encoders
  <1>3. f = g
    <2>1. f = Call(e, Obj("report"))
      BY <1>2, RunOne DEF Encoders
    <2>2. Call(e, Obj("report")) = BeginContainer(e, "report", TRUE)
      BY DEF Call, Obj
    <2>3. BeginElement(e, "report") = b
      BY <1>2 DEF BeginElement, InObject, BeginEncode
    <2>4. b.ok /\ b.open = <<>>
      BY <1>2 DEF Encoders
    <2>5. c = [b EXCEPT !.open = Append(b.open, TRUE), !.first = TRUE]
      <3>1. Append(<<>>, TRUE) = o
        OBVIOUS
      <3>. QED BY <2>4, <3>1
    <2>. HIDE DEF e, b, c
    <2>. QED BY <2>1, <2>2, <2>3, <2>4, <2>5 DEF BeginContainer
  <1>. HIDE DEF f
  <1>4. o \in Seq(BOOLEAN) /\ Len(o) = 1 /\ o[1] = TRUE
    OBVIOUS
  <1>5. Feed(EmptyDoc, "{") = d
    <2>1. EmptyDoc.at = "value" /\ EmptyDoc.stack = <<>> /\ EmptyDoc.key = ""
      BY DEF EmptyDoc
    <2>2. Feed(EmptyDoc, "{") = FeedValue(EmptyDoc, "{")
      BY <2>1, FeedsValue DEF ReadsValue
    <2>3. Element(EmptyDoc) = EmptyDoc
      BY <2>1 DEF Element
    <2>. HIDE DEF EmptyDoc
    <2>4. FeedValue(EmptyDoc, "{")
            = [EmptyDoc EXCEPT !.stack = Append(@, [object |-> TRUE, key |-> EmptyDoc.key]), !.at = "first"]
      BY <2>3 DEF FeedValue
    <2>5. Append(<<>>, [object |-> TRUE, key |-> ""]) = s
      OBVIOUS
    <2>. HIDE DEF s
    <2>. QED BY <2>1, <2>2, <2>4, <2>5
  <1>6. s \in Levels /\ Len(s) = 1 /\ s[1].object = TRUE
    <2>. DEFINE Level == [object : BOOLEAN, key : Texts]
                x == [object |-> TRUE, key |-> ""]
    <2>1. x \in Level /\ x.object = TRUE
      BY TokenTexts
    <2>. HIDE DEF Level, x
    <2>2. <<x>> \in Seq(Level) /\ Len(<<x>>) = 1 /\ <<x>>[1] = x
      BY <2>1
    <2>. QED BY <2>1, <2>2 DEF Levels, Level, x
  <1>. HIDE DEF o, s
  <1>7. d \in Docs /\ d.stack = s /\ d.at = "first" /\ d.members = <<>>
    BY <1>1, <1>6 DEF Docs, Places, EmptyDoc
  <1>8. c \in Encoders /\ c.ok /\ c.open = o /\ c.first /\ c.doc = EmptyDoc /\ c.doc.at # "end"
    BY <1>2, <1>4 DEF Encoders
  <1>. HIDE DEF c, d, e
  <1>9. Dead(g) \/ (g \in Encoders /\ g.ok /\ g.open = o /\ g.first /\ g.doc = d)
    BY <1>5, <1>8, TokenStep, TokenTexts
  <1>. HIDE DEF g
  <1>10. ASSUME g \in Encoders, g.open = o, g.first, g.doc = d PROVE Stage(g, <<>>, q, 0)
    <2>0. g.doc.stack = s /\ g.doc.at = "first" /\ Len(g.open) = 1 /\ g.open[1] = TRUE
      BY <1>4, <1>7, <1>10
    <2>1. Ready(g)
      <3>0. \A i \in 1 .. 1 : i = 1
        OBVIOUS
      <3>1. \A i \in 1 .. 1 : s[i].object = g.open[i]
        <4>1. s[1].object = g.open[1]
          BY <1>6, <2>0
        <4>. QED BY <3>0, <4>1
      <3>. QED BY <1>6, <1>10, <2>0, <3>1 DEF Ready
    <2>2. KeyPath(g.doc) = <<>>
      <3>1. Len(s) - 1 = 0
        BY <1>6
      <3>. DEFINE z == Len(s) - 1
      <3>2. KeyPath(g.doc) = [i \in 1 .. z |-> s[i + 1].key]
        BY <2>0 DEF KeyPath
      <3>3. z = 0
        BY <3>1
      <3>. HIDE DEF z
      <3>4. 1 .. z = {}
        BY <3>3
      <3>. QED BY <3>2, <3>4
    <2>3. \A i \in 1 .. Len(g.open) : g.open[i]
      BY <1>4, <1>10
    <2>4. InObject(g) = TRUE
      BY <2>1, ReadyEnd, <1>4, <1>10
    <2>5. Occ(g, q) = 0
      <3>1. {i \in DOMAIN g.doc.members : g.doc.members[i] = q} = {}
        BY <1>7, <1>10
      <3>. QED BY <3>1, FS_EmptySet DEF Occ, Occurrences
    <2>. QED BY <2>1, <2>2, <2>3, <2>4, <2>5 DEF Stage, Inside
  <1>. QED BY <1>2, <1>3, <1>9, <1>10 DEF Stage, Dead, e, f

-----------------------------------------------------------------------------
(* The end of a report, and the callback of the application *)

\* bsg_ksjsonendEncode writes nothing on a full disk.
LEMMA EndEncodeFrozen ==
    ASSUME NEW e \in Encoders
    PROVE  Frozen(e, EndEncode(e))
  <1>. DEFINE n == Len(e.open)
  <1>1. n \in Nat
    BY DEF Encoders
  <1>2. PICK f : /\ EndEncode(e) = f[n] /\ f[0] = [e EXCEPT !.ok = TRUE]
                 /\ \A i \in 1 .. n : f[i] = IF f[i - 1].ok THEN EndContainer(f[i - 1]) ELSE f[i - 1]
    BY <1>1, EndEncodeSteps
  <1>. HIDE DEF n
  <1>. DEFINE A == {i \in 0 .. n : Frozen(e, f[i])}
  <1>3. 0 \in A
    <2>1. Frozen(e, [e EXCEPT !.ok = TRUE])
      BY FieldsFrozen
    <2>. QED BY <1>1, <1>2, <2>1
  <1>4. ASSUME NEW i \in 0 .. n - 1, i \in A PROVE i + 1 \in A
    <2>1. Frozen(e, f[i]) /\ f[i] \in Encoders
      BY <1>4 DEF Frozen
    <2>2. f[i + 1] = IF f[i].ok THEN EndContainer(f[i]) ELSE f[i]
      BY <1>1, <1>2
    <2>3. Frozen(f[i], EndContainer(f[i]))
      BY <2>1, EndContainerFrozen
    <2>4. Frozen(e, f[i + 1])
      BY <2>1, <2>2, <2>3, FrozenTwice
    <2>. QED BY <1>1, <2>4
  <1>. HIDE DEF A
  <1>5. n \in A
    BY <1>1, <1>3, <1>4, UpToInduction
  <1>. QED BY <1>2, <1>5 DEF A

\* A report that is being written, wherever it is, with n occurrences of q; or
\* the disk is full.
Loose(e, q, n) == Halted(e) \/ (Ready(e) /\ Occ(e, q) = n)

\* The file is whole and q occurs n times in it, or the disk was full before
\* the file ended.
Whole(e, q, n) == Halted(e) \/ (e \in Encoders /\ e.doc.at = "end" /\ Occ(e, q) = n)

\* A section forgets where it was.
LEMMA StageLoose == \A e, P, q, n : Stage(e, P, q, n) => Loose(e, q, n)
  BY DEF Stage, Loose, Inside

\* However many containers are open.
LEMMA EndEncodeWhole ==
    ASSUME NEW e, NEW q, NEW n, Ready(e), Occ(e, q) = n
    PROVE  Whole(EndEncode(e), q, n)
  <1>. DEFINE m == Len(e.open)
  <1>1. m \in Nat /\ m >= 1 /\ e \in Encoders
    BY DEF Ready, Encoders
  <1>2. PICK f : /\ EndEncode(e) = f[m] /\ f[0] = [e EXCEPT !.ok = TRUE]
                 /\ \A i \in 1 .. m : f[i] = IF f[i - 1].ok THEN EndContainer(f[i - 1]) ELSE f[i - 1]
    BY <1>1, EndEncodeSteps
  <1>3. Len(e.open) = m
    OBVIOUS
  <1>. HIDE DEF m
  <1>. DEFINE Good(x, i) ==
                \/ Dead(x)
                \/ /\ x \in Encoders /\ x.ok /\ Occ(x, q) = n /\ Len(x.open) = m - i
                   /\ IF i = m THEN x.doc.at = "end" ELSE Ready(x)
              A == {i \in 0 .. m : Good(f[i], i)}
  <1>4. 0 \in A
    <2>. DEFINE x == [e EXCEPT !.ok = TRUE]
    <2>1. x \in Encoders /\ x.ok /\ x.open = e.open /\ x.first = e.first /\ x.doc = e.doc
      BY <1>1 DEF Encoders
    <2>. HIDE DEF x
    <2>2. Ready(x) /\ Occ(x, q) = n
      BY <2>1 DEF Ready, Occ
    <2>3. Len(x.open) = m - 0 /\ 0 # m /\ 0 \in 0 .. m
      BY <1>1, <1>3, <2>1
    <2>4. Good(x, 0)
      BY <2>1, <2>2, <2>3
    <2>5. f[0] = x
      BY <1>2 DEF x
    <2>. HIDE DEF Good
    <2>. QED BY <2>3, <2>4, <2>5
  <1>5. ASSUME NEW i \in 0 .. m - 1, i \in A PROVE i + 1 \in A
    <2>1. f[i + 1] = IF f[i].ok THEN EndContainer(f[i]) ELSE f[i]
      BY <1>1, <1>2
    <2>2. i + 1 \in 0 .. m /\ i # m /\ m - i \in Nat /\ (m - i = 1 <=> i + 1 = m) /\ (m - i) - 1 = m - (i + 1)
      BY <1>1
    <2>. DEFINE x == f[i]
                y == EndContainer(x)
    <2>3. Good(x, i)
      BY <1>5
    <2>4. f[i + 1] = IF x.ok THEN y ELSE x
      BY <2>1
    <2>. HIDE DEF x
    <2>5. CASE Dead(x)
      <3>1. f[i + 1] = x
        BY <2>4, <2>5 DEF Dead
      <3>. QED BY <2>2, <2>5, <3>1
    <2>6. CASE ~Dead(x)
      <3>1. Ready(x) /\ x.ok /\ Occ(x, q) = n /\ Len(x.open) = m - i
        BY <2>2, <2>3, <2>6
      <3>2. Dead(y) \/ Ended(x, y)
        BY <3>1, ContainerEnded
      <3>3. f[i + 1] = y
        BY <2>4, <3>1
      <3>. HIDE DEF y
      <3>4. ASSUME Ended(x, y) PROVE Good(y, i + 1)
        BY <2>2, <3>1, <3>4 DEF Ended, Occ, Occurrences
      <3>. HIDE DEF Good
      <3>5. Good(y, i + 1)
        BY <3>2, <3>4 DEF Good
      <3>. QED BY <2>2, <3>3, <3>5
    <2>. QED BY <2>5, <2>6
  <1>6. m \in A
    <2>. HIDE DEF A
    <2>1. 0 .. m \subseteq A
      BY <1>1, <1>4, <1>5, UpToInduction
    <2>. QED BY <1>1, <2>1
  <1>7. Good(f[m], m)
    BY <1>6
  <1>. QED BY <1>2, <1>7 DEF Whole, Dead

\* endContainer and bsg_ksjsonendEncode: the report is closed whole, whatever
\* was left open.
LEMMA LooseEnd ==
    ASSUME NEW e, NEW q, NEW n, Loose(e, q, n)
    PROVE  Whole(EndEncode(Run(e, <<EndC>>)), q, n)
  <1>. DEFINE p == <<EndC>>
              f == Run(e, p)
  <1>1. e \in Encoders /\ e.ok \in BOOLEAN
    BY DEF Loose, Halted, Ready, Encoders
  <1>2. f = EndContainer(e)
    <2>1. f = Call(e, EndC)
      BY <1>1, RunOne
    <2>. QED BY <2>1 DEF Call, EndC
  <1>. HIDE DEF f
  <1>3. ASSUME Halted(f) PROVE Whole(EndEncode(f), q, n)
    <2>1. Frozen(f, EndEncode(f))
      BY <1>3, EndEncodeFrozen DEF Halted
    <2>. QED BY <1>3, <2>1, HaltedStays DEF Whole
  <1>4. CASE Halted(e)
    <2>1. Halted(f)
      BY <1>1, <1>2, <1>4, EndContainerFrozen, HaltedStays
    <2>. QED BY <1>3, <2>1 DEF f
  <1>5. CASE ~Halted(e)
    <2>1. Ready(e) /\ Occ(e, q) = n
      BY <1>5 DEF Loose
    <2>2. Dead(f) \/ Ended(e, f)
      BY <1>2, <2>1, ContainerEnded
    <2>3. ASSUME Ended(e, f) PROVE Whole(EndEncode(f), q, n)
      <3>1. f \in Encoders /\ f.doc.members = e.doc.members /\ Len(f.open) = Len(e.open) - 1
            /\ IF Len(e.open) = 1 THEN f.doc.at = "end" ELSE Ready(f)
        BY <2>3 DEF Ended
      <3>2. Occ(f, q) = n
        BY <2>1, <3>1 DEF Occ, Occurrences
      <3>3. CASE Len(e.open) # 1
        BY <3>1, <3>2, <3>3, EndEncodeWhole
      <3>4. CASE Len(e.open) = 1
        <4>1. Len(f.open) = 0 /\ f.doc.at = "end"
          BY <3>1, <3>4
        <4>. DEFINE k == Len(f.open)
        <4>2. k \in Nat
          BY <4>1
        <4>3. PICK h : EndEncode(f) = h[k] /\ h[0] = [f EXCEPT !.ok = TRUE]
          BY <4>2, EndEncodeSteps
        <4>4. EndEncode(f) = [f EXCEPT !.ok = TRUE]
          BY <4>1, <4>3
        <4>. DEFINE x == [f EXCEPT !.ok = TRUE]
        <4>5. x \in Encoders /\ x.doc = f.doc
          BY <3>1 DEF Encoders
        <4>. HIDE DEF x
        <4>6. Whole(x, q, n)
          BY <3>2, <4>1, <4>5 DEF Whole, Occ
        <4>. QED BY <4>4, <4>6 DEF x
      <3>. QED BY <3>3, <3>4
    <2>. QED BY <1>3, <2>2, <2>3 DEF Dead, f
  <1>. QED BY <1>4, <1>5

\* Where the callback can be, and what it cannot add to.
Wild(P) ==
  P \in Seq(Texts) /\ Len(P) >= 1 /\ P[1] = "user_atcrash" /\ (Len(P) >= 2 => P[2] # "breadcrumbs")

\* Paths a well-behaved callback cannot add to.
Untouched(q) ==
  Countable(q) /\ Len(q) >= 1 /\ (q[1] = "user_atcrash" /\ Len(q) >= 2 => q[2] = "breadcrumbs")

\* Whatever it adds is inside user_atcrash, and not as the breadcrumbs.
LEMMA WildBelow ==
    ASSUME NEW P, Wild(P), NEW name \in Texts, name # "breadcrumbs", NEW q, Untouched(q)
    PROVE  Wild(P \o <<name>>) /\ At(P, name, q) = 0 /\ Quiet(P \o <<name>>, q)
  <1>. DEFINE R == P \o <<name>>
              n == Len(P)
  <1>1. P \in Seq(Texts) /\ n >= 1 /\ P[1] = "user_atcrash" /\ (n >= 2 => P[2] # "breadcrumbs")
    BY DEF Wild
  <1>2. q \in Seq(Texts) /\ Len(q) >= 1 /\ (q[1] = "user_atcrash" /\ Len(q) >= 2 => q[2] = "breadcrumbs")
    BY DEF Untouched, Countable
  <1>3. n \in Nat
    BY <1>1
  <1>4. R \in Seq(Texts) /\ Len(R) = n + 1
    BY <1>1
  <1>5. R[n + 1] = name /\ \A i \in 1 .. n : R[i] = P[i]
    BY <1>1
  <1>. HIDE DEF R, n
  <1>6. R[1] = "user_atcrash" /\ Len(R) >= 2
    BY <1>1, <1>3, <1>4, <1>5
  <1>7. R[2] # "breadcrumbs"
    <2>1. CASE n = 1
      <3>1. R[2] = name
        BY <1>5, <2>1
      <3>. QED BY <3>1
    <2>2. CASE n >= 2
      <3>1. R[2] = P[2]
        BY <1>3, <1>5, <2>2
      <3>. QED BY <1>1, <2>2, <3>1
    <2>. QED BY <1>1, <1>3, <2>1, <2>2
  <1>8. R # q
    BY <1>2, <1>6, <1>7
  <1>9. Quiet(R, q)
    <2>. SUFFICES ASSUME Len(R) < Len(q), \A i \in 1 .. Len(R) : q[i] = R[i] PROVE FALSE
      BY DEF Quiet
    <2>1. Len(R) \in Nat /\ Len(q) \in Nat
      BY <1>2, <1>4
    <2>2. q[1] = R[1] /\ q[2] = R[2] /\ Len(q) >= 2
      BY <1>6, <2>1
    <2>. QED BY <1>2, <1>6, <1>7, <2>2
  <1>. QED BY <1>4, <1>6, <1>7, <1>8, <1>9 DEF Wild, At, R

\* In the callback: so many containers are open.
Adrift(e, q, n, k) ==
  Halted(e) \/ (Ready(e) /\ Wild(KeyPath(e.doc)) /\ Occ(e, q) = n /\ Len(e.open) = k)

\* It ends a container it has begun.
LEMMA AdriftEnd ==
    ASSUME NEW e, NEW q, NEW n, NEW k \in Nat, k >= 3, Ready(e), Wild(KeyPath(e.doc)), Occ(e, q) = n, Len(e.open) = k
    PROVE  Adrift(EndContainer(e), q, n, k - 1)
  <1>. DEFINE f == EndContainer(e)
              s == e.doc.stack
              t == f.doc.stack
              P == KeyPath(e.doc)
              R == KeyPath(f.doc)
  <1>1. Dead(f) \/ Ended(e, f)
    BY ContainerEnded
  <1>2. ASSUME Ended(e, f) PROVE Adrift(f, q, n, k - 1)
    <2>1. e.doc \in Docs /\ s \in Levels /\ s # <<>> /\ Len(s) = k
      BY ReadyEnd DEF Ready
    <2>2. Len(e.open) # 1
      OBVIOUS
    <2>. HIDE DEF f
    <2>3. Ready(f) /\ f.doc.members = e.doc.members /\ Len(f.open) = k - 1 /\ t = Front(s)
      BY <1>2, <2>2 DEF Ended
    <2>4. PopShape(s, Front(s))
      BY <2>1, LevelPop
    <2>5. Len(t) = k - 1 /\ \A i \in 1 .. k - 1 : t[i] = s[i]
      BY <2>1, <2>3, <2>4 DEF PopShape
    <2>6. f.doc \in Docs /\ t # <<>>
      BY <2>3, ReadyEnd
    <2>7. R \in Seq(Texts) /\ Len(R) = k - 2
      BY <2>5, <2>6, KeyPathType
    <2>8. Len(P) = k - 1 /\ P = [i \in 1 .. k - 1 |-> s[i + 1].key]
      BY <2>1, KeyPathType DEF KeyPath
    <2>9. R = [i \in 1 .. k - 2 |-> t[i + 1].key]
      BY <2>5 DEF KeyPath
    <2>. HIDE DEF s, t, P, R
    <2>10. \A i \in 1 .. k - 2 : R[i] = P[i]
      <3>. TAKE i \in 1 .. k - 2
      <3>1. i \in 1 .. k - 1 /\ i + 1 \in 1 .. k - 1
        OBVIOUS
      <3>2. R[i] = t[i + 1].key /\ P[i] = s[i + 1].key
        BY <2>8, <2>9, <3>1
      <3>. QED BY <2>5, <3>1, <3>2
    <2>11. Wild(P)
      BY DEF P
    <2>12. Wild(R)
      <3>1. R[1] = P[1] /\ (Len(R) >= 2 => R[2] = P[2])
        BY <2>7, <2>10
      <3>. QED BY <2>7, <2>8, <2>11, <3>1 DEF Wild
    <2>13. Occ(f, q) = n
      BY <2>3 DEF Occ, Occurrences
    <2>. QED BY <2>3, <2>12, <2>13 DEF Adrift, R
  <1>. QED BY <1>1, <1>2 DEF Adrift, Dead

\* What a call adds to the containers that are open.
Depth(op) == IF op \in {"beginObject", "beginArray"} THEN 1 ELSE IF op = "endContainer" THEN -1 ELSE 0

\* One call of the callback.
LEMMA CallbackStep ==
    ASSUME NEW e, NEW q, Untouched(q), NEW n \in Nat, NEW k \in Nat, Adrift(e, q, n, k), NEW c \in Calls,
           c.op # "endContainer" => c.name \notin {NoName, "breadcrumbs"},
           c.arg \notin {"nan", "junk", "empty"}, c.op = "endContainer" => k >= 3
    PROVE  Adrift(Call(e, c), q, n, k + Depth(c.op))
  <1>. DEFINE f == Call(e, c)
              P == KeyPath(e.doc)
              K == Key(e, c.name)
  <1>1. CASE Halted(e)
    <2>1. Halted(f)
      BY <1>1, CallFrozen, HaltedStays DEF Halted
    <2>. QED BY <2>1 DEF Adrift
  <1>2. CASE ~Halted(e) /\ c.op = "endContainer"
    BY <1>2, AdriftEnd DEF Call, Adrift, Depth
  <1>3. ASSUME ~Halted(e), c.op # "endContainer"
        PROVE  /\ Ready(e) /\ Wild(P) /\ Occ(e, q) = n /\ Len(e.open) = k
               /\ Nameable(e, c.name) /\ Countable(q)
               /\ Wild(P \o <<K>>) /\ At(P, K, q) = 0 /\ Quiet(P \o <<K>>, q)
    <2>1. Ready(e) /\ Wild(P) /\ Occ(e, q) = n /\ Len(e.open) = k
      BY <1>3 DEF Adrift
    <2>2. c.name \in Names
      BY DEF Calls
    <2>3. c.name \in Texts /\ c.name # "breadcrumbs"
      BY <1>3, <2>2 DEF Names
    <2>4. Nameable(e, c.name)
      BY <2>2, <2>3 DEF Nameable
    <2>5. K \in Texts /\ K # "breadcrumbs"
      BY <2>3, TokenTexts DEF Key
    <2>. HIDE DEF K, P
    <2>6. Wild(P \o <<K>>) /\ At(P, K, q) = 0 /\ Quiet(P \o <<K>>, q)
      BY <2>1, <2>5, WildBelow
    <2>. QED BY <2>1, <2>4, <2>6 DEF Untouched
  <1>4. CASE ~Halted(e) /\ c.op \in {"beginObject", "beginArray"}
    <2>. DEFINE isObject == c.op = "beginObject"
    <2>0. isObject \in BOOLEAN /\ Begins(c, isObject)
      BY <1>4 DEF Begins
    <2>. HIDE DEF isObject
    <2>1. c.op # "endContainer" /\ Depth(c.op) = 1
      BY <1>4 DEF Depth
    <2>2. /\ Ready(e) /\ Occ(e, q) = n /\ Len(e.open) = k
          /\ Nameable(e, c.name) /\ Countable(q) /\ Wild(P \o <<K>>) /\ At(P, K, q) = 0
      BY <1>3, <1>4, <2>1
    <2>3. f = BeginContainer(e, c.name, isObject)
      BY <1>4 DEF Call, isObject
    <2>. HIDE DEF f
    <2>4. Dead(f) \/ Opened(e, f, c.name, isObject)
      BY <2>0, <2>2, <2>3, ContainerOpened
    <2>5. ASSUME Opened(e, f, c.name, isObject) PROVE Adrift(f, q, n, k + 1)
      <3>1. KeyPath(f.doc) = P \o <<K>>
        BY <2>0, <2>2, <2>5, PathPush
      <3>2. Occ(f, q) = Occ(e, q) + At(P, K, q)
        BY <2>0, <2>2, <2>5, OpenedSame
      <3>3. Occ(f, q) = n
        BY <2>2, <3>2
      <3>4. Ready(f) /\ f.open = Append(e.open, isObject)
        BY <2>5 DEF Opened
      <3>5. e.open \in Seq(BOOLEAN)
        BY <2>2 DEF Ready, Encoders
      <3>6. Len(f.open) = k + 1
        BY <2>0, <2>2, <3>4, <3>5
      <3>. QED BY <2>2, <3>1, <3>3, <3>4, <3>6 DEF Adrift
    <2>6. Adrift(f, q, n, k + 1)
      BY <2>4, <2>5 DEF Adrift, Dead
    <2>. QED BY <2>1, <2>6 DEF f
  <1>5. CASE ~Halted(e) /\ c.op \notin {"endContainer", "beginObject", "beginArray"}
    <2>1. LeafCall(c) /\ Depth(c.op) = 0
      BY <1>5 DEF Calls, LeafCall, Depth
    <2>2. /\ Ready(e) /\ Wild(P) /\ Occ(e, q) = n /\ Len(e.open) = k
          /\ Nameable(e, c.name) /\ Countable(q) /\ Quiet(P \o <<K>>, q) /\ At(P, K, q) = 0
      BY <1>3, <1>5
    <2>3. Halted(f) \/ Same(e, f, q, IF Nothing(c) THEN 0 ELSE At(P, K, q))
      BY <2>1, <2>2, LeafAdds
    <2>. HIDE DEF f
    <2>4. (IF Nothing(c) THEN 0 ELSE At(P, K, q)) = 0
      BY <2>2
    <2>5. Halted(f) \/ Same(e, f, q, 0)
      BY <2>3, <2>4
    <2>6. ASSUME Same(e, f, q, 0) PROVE Adrift(f, q, n, k)
      BY <2>2, <2>6 DEF Same, KeyPath, Adrift
    <2>7. Adrift(f, q, n, k)
      BY <2>5, <2>6 DEF Adrift
    <2>8. k + Depth(c.op) = k
      BY <2>1
    <2>. QED BY <2>7, <2>8 DEF f
  <1>. QED BY <1>1, <1>2, <1>4, <1>5

\* Counting the calls of a callback, one by one.
LEMMA TimesStep ==
    ASSUME NEW p, NEW n \in Nat, NEW ops
    PROVE  /\ Times(p, 0, ops) = 0 /\ Times(p, n, ops) \in Nat
           /\ Times(p, n + 1, ops) = Times(p, n, ops) + IF p[n + 1].op \in ops THEN 1 ELSE 0
  <1>. DEFINE A == {i \in 1 .. n : p[i].op \in ops}
              B == {i \in 1 .. n + 1 : p[i].op \in ops}
              Z == {i \in 1 .. 0 : p[i].op \in ops}
  <1>1. Z = {}
    OBVIOUS
  <1>2. IsFiniteSet(1 .. n)
    BY FS_Interval
  <1>3. IsFiniteSet(A) /\ Cardinality(A) \in Nat
    BY <1>2, FS_Subset, FS_CardinalityType
  <1>4. n + 1 \notin A
    OBVIOUS
  <1>5. B = IF p[n + 1].op \in ops THEN A \cup {n + 1} ELSE A
    OBVIOUS
  <1>. HIDE DEF A, B, Z
  <1>6. Cardinality(A \cup {n + 1}) = Cardinality(A) + 1
    BY <1>3, <1>4, FS_AddElement
  <1>7. Times(p, 0, ops) = Cardinality(Z) /\ Times(p, n, ops) = Cardinality(A)
        /\ Times(p, n + 1, ops) = Cardinality(B)
    BY DEF Times, A, B, Z
  <1>. DEFINE x == Cardinality(A)
  <1>8. Times(p, n + 1, ops) = x + IF p[n + 1].op \in ops THEN 1 ELSE 0
    BY <1>3, <1>5, <1>6, <1>7
  <1>. QED BY <1>1, <1>3, <1>7, <1>8, FS_EmptySet

\* The calls that end a container.
Ends == {"endContainer"}

\* The calls that begin one.
Begs == {"beginObject", "beginArray"}

\* A well-behaved callback.
LEMMA PoliteIs ==
    ASSUME NEW p, Polite(p)
    PROVE  \A i \in DOMAIN p :
             /\ p[i].op # "endContainer" => p[i].name \notin {NoName, "breadcrumbs"}
             /\ p[i].arg \notin {"nan", "junk", "empty"}
             /\ Times(p, i, Ends) <= Times(p, i, Begs)
  BY DEF Polite, Ends, Begs

\* After it, as many containers are open as it left open.
LEMMA CallbackRuns ==
    ASSUME NEW e, NEW q, Untouched(q), NEW n \in Nat, Adrift(e, q, n, 2), NEW p \in Seq(Calls), Polite(p)
    PROVE  \E k \in Nat : k >= 2 /\ Adrift(Run(e, p), q, n, k)
  <1>1. Len(p) \in Nat /\ DOMAIN p = 1 .. Len(p) /\ \A i \in 1 .. Len(p) : p[i] \in Calls
    OBVIOUS
  <1>. DEFINE m == Len(p)
              Open(i) == (2 + Times(p, i, Begs)) - Times(p, i, Ends)
  <1>2. PICK f : Run(e, p) = f[m] /\ f[0] = e /\ \A i \in 1 .. m : f[i] = Ran(f[i - 1], p[i])
    <2>. Len(p) \in Nat
      BY <1>1
    <2>. QED BY RunSteps
  <1>3. m \in Nat
    BY <1>1
  <1>4. \A i \in 1 .. m : /\ p[i] \in Calls /\ p[i].op # "endContainer" => p[i].name \notin {NoName, "breadcrumbs"}
                          /\ p[i].arg \notin {"nan", "junk", "empty"}
                          /\ Times(p, i, Ends) <= Times(p, i, Begs)
    BY <1>1, PoliteIs
  <1>5. \A i \in 1 .. m : p[i] \in Calls
    BY <1>1
  <1>. HIDE DEF m
  <1>6. \A i \in 0 .. m : Open(i) \in Nat /\ Open(i) >= 2
    <2>. TAKE i \in 0 .. m
    <2>1. i \in Nat /\ (i = 0 \/ i \in 1 .. m)
      BY <1>3
    <2>2. Times(p, i, Ends) \in Nat /\ Times(p, i, Begs) \in Nat
      BY <2>1, TimesStep
    <2>3. Times(p, 0, Ends) = 0 /\ Times(p, 0, Begs) = 0
      BY <2>1, TimesStep
    <2>4. Times(p, i, Ends) <= Times(p, i, Begs)
      BY <1>4, <2>1, <2>3
    <2>. QED BY <2>2, <2>4
  <1>7. Open(0) = 2
    BY TimesStep
  <1>8. \A i \in 0 .. m - 1 : Open(i + 1) = Open(i) + Depth(p[i + 1].op)
    <2>. TAKE i \in 0 .. m - 1
    <2>. DEFINE b == Times(p, i, Begs)
                c == Times(p, i, Ends)
                op == p[i + 1].op
    <2>1. i \in Nat
      BY <1>3
    <2>2. b \in Nat /\ Times(p, i + 1, Begs) = b + IF op \in Begs THEN 1 ELSE 0
      BY <2>1, TimesStep
    <2>3. c \in Nat /\ Times(p, i + 1, Ends) = c + IF op \in Ends THEN 1 ELSE 0
      BY <2>1, TimesStep
    <2>. HIDE DEF b, c, op
    <2>4. Open(i) = (2 + b) - c
      BY DEF b, c
    <2>5. Open(i + 1) = (2 + (b + IF op \in Begs THEN 1 ELSE 0)) - (c + IF op \in Ends THEN 1 ELSE 0)
      BY <2>2, <2>3
    <2>. HIDE DEF Open
    <2>6. Open(i + 1) = Open(i) + Depth(op)
      BY <2>2, <2>3, <2>4, <2>5 DEF Depth, Begs, Ends
    <2>. QED BY <2>6 DEF op
  <1>. HIDE DEF Open
  <1>. DEFINE A == {i \in 0 .. m : Adrift(f[i], q, n, Open(i))}
  <1>9. 0 \in A
    BY <1>2, <1>3, <1>7
  <1>10. ASSUME NEW i \in 0 .. m - 1, i \in A PROVE i + 1 \in A
    <2>. DEFINE j == i + 1
                x == f[i]
                c == p[j]
                k == Open(i)
    <2>1. j \in 1 .. m /\ j - 1 = i /\ j \in 0 .. m /\ i \in 0 .. m
      BY <1>3
    <2>2. f[j] = Ran(x, c)
      BY <1>2, <2>1
    <2>3. Open(j) = k + Depth(c.op)
      BY <1>8
    <2>. HIDE DEF j
    <2>4. /\ c \in Calls /\ (c.op # "endContainer" => c.name \notin {NoName, "breadcrumbs"})
          /\ c.arg \notin {"nan", "junk", "empty"}
      BY <1>4, <1>5, <2>1
    <2>5. Adrift(x, q, n, k) /\ k \in Nat /\ Open(j) >= 2
      BY <1>6, <1>10, <2>1
    <2>. HIDE DEF x, c, k
    <2>6. c.op = "endContainer" => k >= 3
      BY <2>3, <2>5 DEF Depth
    <2>7. Adrift(Call(x, c), q, n, k + Depth(c.op))
      BY <2>4, <2>5, <2>6, CallbackStep
    <2>8. x.ok \in BOOLEAN
      BY <2>5 DEF Adrift, Halted, Ready, Encoders
    <2>9. f[j] = Call(x, c)
      BY <2>2, <2>8 DEF Ran
    <2>10. j \in A
      BY <2>1, <2>3, <2>7, <2>9
    <2>. QED BY <2>10 DEF j
  <1>. HIDE DEF A
  <1>11. 0 .. m \subseteq A
    BY <1>3, <1>9, <1>10, UpToInduction
  <1>12. m \in A /\ m \in 0 .. m
    BY <1>3, <1>11
  <1>. QED BY <1>2, <1>6, <1>12 DEF A

\* The end of user_atcrash may end a container of the callback instead:
\* nothing is lost.
LEMMA CallbackLoose ==
    ASSUME NEW e, NEW q, Untouched(q), NEW n \in Nat, Stage(e, <<"user_atcrash">>, q, n),
           NEW p \in Seq(Calls), Polite(p)
    PROVE  Loose(Run(e, p \o <<EndC>>), q, n)
  <1>. DEFINE r == <<EndC>>
              f == Run(e, p)
              g == EndContainer(f)
  <1>1. EndC \in Calls
    BY TokenTexts DEF EndC, Calls, Names
  <1>2. r \in Seq(Calls)
    BY <1>1
  <1>3. Run(e, p \o r) = Run(f, r)
    <2>. HIDE DEF r
    <2>. QED BY <1>2, RunConcat
  <1>4. Adrift(e, q, n, 2)
    <2>1. CASE Halted(e)
      BY <2>1 DEF Adrift
    <2>2. CASE ~Halted(e)
      <3>. DEFINE P == <<"user_atcrash">>
      <3>1. Ready(e) /\ KeyPath(e.doc) = P /\ Occ(e, q) = n
        BY <2>2 DEF Stage, Inside
      <3>2. "user_atcrash" \in Texts
        BY FieldNames DEF Fields
      <3>3. P \in Seq(Texts) /\ Len(P) = 1 /\ P[1] = "user_atcrash"
        BY <3>2
      <3>. HIDE DEF P
      <3>4. Wild(P)
        BY <3>3 DEF Wild
      <3>5. Len(e.open) = 2
        <4>1. e.doc \in Docs /\ e.doc.stack # <<>> /\ Len(e.doc.stack) = Len(e.open) /\ Len(e.open) \in Nat
          BY <3>1, ReadyEnd DEF Ready, Encoders
        <4>2. Len(KeyPath(e.doc)) = Len(e.doc.stack) - 1
          BY <4>1, KeyPathType
        <4>3. Len(P) = Len(e.open) - 1
          BY <3>1, <4>1, <4>2
        <4>4. Len(P) = 1 /\ Len(e.open) \in Nat
          BY <3>3, <4>1
        <4>. DEFINE y == Len(P)
                    z == Len(e.open)
        <4>5. y = z - 1 /\ y = 1 /\ z \in Nat
          BY <4>3, <4>4
        <4>. HIDE DEF y, z
        <4>6. z = 2
          BY <4>5
        <4>. QED BY <4>6 DEF z
      <3>. QED BY <3>1, <3>4, <3>5 DEF Adrift
    <2>. QED BY <2>1, <2>2
  <1>5. PICK k \in Nat : k >= 2 /\ Adrift(f, q, n, k)
    BY <1>4, CallbackRuns
  <1>. HIDE DEF f
  <1>6. f \in Encoders /\ f.ok \in BOOLEAN
    BY <1>5 DEF Adrift, Halted, Ready, Encoders
  <1>7. Run(f, r) = g
    <2>1. Run(f, r) = Call(f, EndC)
      BY <1>6, RunOne
    <2>. QED BY <2>1 DEF Call, EndC
  <1>8. Loose(g, q, n)
    <2>1. CASE Halted(f)
      <3>1. Halted(g)
        BY <1>6, <2>1, EndContainerFrozen, HaltedStays
      <3>. QED BY <3>1 DEF Loose
    <2>2. CASE ~Halted(f)
      <3>1. Ready(f) /\ Occ(f, q) = n /\ Len(f.open) = k
        BY <1>5, <2>2 DEF Adrift
      <3>2. Dead(g) \/ Ended(f, g)
        BY <3>1, ContainerEnded
      <3>. HIDE DEF g
      <3>3. Len(f.open) # 1
        BY <1>5, <3>1
      <3>4. Ended(f, g) => Ready(g) /\ Occ(g, q) = n
        BY <3>1, <3>3 DEF Ended, Occ, Occurrences
      <3>. QED BY <3>2, <3>4 DEF Loose, Dead
    <2>. QED BY <2>1, <2>2
  <1>. QED BY <1>3, <1>7, <1>8 DEF r

-----------------------------------------------------------------------------
(* The sections, one after the other *)

\* A path of one name: what it is below, and what it equals.
LEMMA PathsOne ==
    ASSUME NEW x \in Texts
    PROVE  /\ <<x>> \in Seq(Texts) /\ Len(<<x>>) = 1
           /\ \A u, v, w \in Texts :
                /\ Quiet(<<u>>, <<x>>) /\ Quiet(<<u, v>>, <<x>>) /\ Quiet(<<u, v, w>>, <<x>>)
                /\ <<x>> # <<u, v>> /\ (<<x>> = <<u>> <=> x = u)
  <1>1. <<x>> \in Seq(Texts) /\ Len(<<x>>) = 1
    OBVIOUS
  <1>2. \A u, v, w \in Texts : Len(<<u>>) = 1 /\ Len(<<u, v>>) = 2 /\ Len(<<u, v, w>>) = 3
    OBVIOUS
  <1>3. \A u, v, w \in Texts : /\ Quiet(<<u>>, <<x>>) /\ Quiet(<<u, v>>, <<x>>) /\ Quiet(<<u, v, w>>, <<x>>)
                               /\ <<x>> # <<u, v>>
    BY <1>1, <1>2 DEF Quiet
  <1>4. \A u \in Texts : <<x>> = <<u>> <=> x = u
    OBVIOUS
  <1>. QED BY <1>1, <1>3, <1>4

\* A path of two names, likewise.
LEMMA PathsTwo ==
    ASSUME NEW x \in Texts, NEW y \in Texts
    PROVE  /\ <<x, y>> \in Seq(Texts) /\ Len(<<x, y>>) = 2 /\ <<x, y>>[1] = x /\ <<x, y>>[2] = y
           /\ \A u, v, w \in Texts :
                /\ (Quiet(<<u>>, <<x, y>>) <=> x # u) /\ Quiet(<<u, v>>, <<x, y>>) /\ Quiet(<<u, v, w>>, <<x, y>>)
                /\ <<x, y>> # <<u>> /\ (<<x, y>> = <<u, v>> <=> x = u /\ y = v)
  <1>1. <<x, y>> \in Seq(Texts) /\ Len(<<x, y>>) = 2 /\ <<x, y>>[1] = x /\ <<x, y>>[2] = y
    OBVIOUS
  <1>2. \A u, v, w \in Texts : Len(<<u>>) = 1 /\ Len(<<u, v>>) = 2 /\ Len(<<u, v, w>>) = 3
    OBVIOUS
  <1>3. \A u, v, w \in Texts : /\ Quiet(<<u, v>>, <<x, y>>) /\ Quiet(<<u, v, w>>, <<x, y>>) /\ <<x, y>> # <<u>>
    BY <1>1, <1>2 DEF Quiet
  <1>4. ASSUME NEW u \in Texts PROVE Quiet(<<u>>, <<x, y>>) <=> x # u
    BY <1>1 DEF Quiet
  <1>5. \A u, v \in Texts : <<x, y>> = <<u, v>> <=> x = u /\ y = v
    OBVIOUS
  <1>. QED BY <1>1, <1>3, <1>4, <1>5

\* A path of three names, likewise.
LEMMA PathsThree ==
    ASSUME NEW x \in Texts, NEW y \in Texts, NEW z \in Texts
    PROVE  /\ <<x, y, z>> \in Seq(Texts) /\ Len(<<x, y, z>>) = 3
           /\ <<x, y, z>>[1] = x /\ <<x, y, z>>[2] = y /\ <<x, y, z>>[3] = z
           /\ \A u, v, w \in Texts :
                /\ (Quiet(<<u>>, <<x, y, z>>) <=> x # u)
                /\ (Quiet(<<u, v>>, <<x, y, z>>) <=> x # u \/ y # v)
                /\ Quiet(<<u, v, w>>, <<x, y, z>>)
                /\ <<x, y, z>> # <<u>> /\ <<x, y, z>> # <<u, v>>
  <1>1. /\ <<x, y, z>> \in Seq(Texts) /\ Len(<<x, y, z>>) = 3
        /\ <<x, y, z>>[1] = x /\ <<x, y, z>>[2] = y /\ <<x, y, z>>[3] = z
    OBVIOUS
  <1>2. \A u, v, w \in Texts : Len(<<u>>) = 1 /\ Len(<<u, v>>) = 2 /\ Len(<<u, v, w>>) = 3
    OBVIOUS
  <1>3. \A u, v, w \in Texts : /\ Quiet(<<u, v, w>>, <<x, y, z>>) /\ <<x, y, z>> # <<u>> /\ <<x, y, z>> # <<u, v>>
    BY <1>1, <1>2 DEF Quiet
  <1>4. ASSUME NEW u \in Texts PROVE Quiet(<<u>>, <<x, y, z>>) <=> x # u
    BY <1>1 DEF Quiet
  <1>5. ASSUME NEW u \in Texts, NEW v \in Texts PROVE Quiet(<<u, v>>, <<x, y, z>>) <=> x # u \/ y # v
    BY <1>1 DEF Quiet
  <1>. QED BY <1>1, <1>3, <1>4, <1>5

\* The members that are counted.
Tops == {"report", "process", "system_atcrash", "binary_images", "crash", "user_atcrash"}

\* Of those, what is in them.
Subs ==
  { <<"system_atcrash", "memory">>, <<"system_atcrash", "application_stats">>, <<"binary_images", "item">>,
    <<"crash", "error">>, <<"crash", "crashed_thread">>, <<"user_atcrash", "breadcrumbs">> }

\* The breadcrumbs.
Item == <<"user_atcrash", "breadcrumbs", "item">>

\* All the paths a report is asked for.
Known == {<<x>> : x \in Tops} \cup Subs \cup {Item}

\* What makes a path easy to count: only the named sections add to it.
Clear(q) ==
  /\ Countable(q) /\ Untouched(q)
  /\ \A x \in {"report", "process", "system", "user"} : Quiet(<<x>>, q)
  /\ \A x \in {"system", "user"} : q # <<x>>
  /\ \A x \in {"memory", "application_stats"} : Quiet(<<"system_atcrash", x>>, q)
  /\ Quiet(<<"binary_images", "item">>, q)
  /\ \A x \in {"threads", "error", "crashed_thread"} : Quiet(<<"crash", x>>, q)
  /\ q # <<"crash", "threads">>
  /\ \A x \in {"id", "startedAt", "handledCount", "unhandledCount", "config", "metaData", "state"} :
       q # <<"user_atcrash", x>> /\ Quiet(<<"user_atcrash", x>>, q)
  /\ Quiet(<<"user_atcrash", "breadcrumbs", "item">>, q)

\* The names in those paths.
Words == Tops \cup {"system", "user", "memory", "application_stats", "item", "threads", "error", "crashed_thread",
  "id", "startedAt", "handledCount", "unhandledCount", "config", "metaData", "state", "breadcrumbs"}

\* They are names.
LEMMA WordTexts == Words \subseteq Texts
  <1>1. Words \subseteq Fields \cup {"item"}
    BY DEF Words, Tops, Fields
  <1>. QED BY <1>1, FieldNames, TokenTexts

\* Nothing of what a report adds without counting it is below one of them.
LEMMA KnownClear == \A q \in Known : Clear(q)
  <1>. Words \subseteq Texts
    BY WordTexts
  <1>1. ASSUME NEW x \in Tops PROVE Clear(<<x>>)
    <2>1. x \in Texts /\ x \notin {"system", "user"}
      BY DEF Words, Tops
    <2>. HIDE DEF Words
    <2>2. Countable(<<x>>) /\ Untouched(<<x>>)
      BY <2>1, PathsOne DEF Countable, Untouched
    <2>. QED BY <2>1, <2>2, PathsOne DEF Words, Tops, Clear
  <1>2. ASSUME NEW x \in Texts, NEW y \in Texts,
               x \notin {"report", "process", "system", "user"},
               x = "crash" => y # "threads",
               x = "user_atcrash" => y = "breadcrumbs"
        PROVE  Clear(<<x, y>>)
    <2>1. Countable(<<x, y>>) /\ Untouched(<<x, y>>)
      BY <1>2, PathsTwo DEF Countable, Untouched
    <2>2. \A u, v, w \in Texts :
            /\ (Quiet(<<u>>, <<x, y>>) <=> x # u) /\ Quiet(<<u, v>>, <<x, y>>) /\ Quiet(<<u, v, w>>, <<x, y>>)
            /\ <<x, y>> # <<u>> /\ (<<x, y>> = <<u, v>> <=> x = u /\ y = v)
      BY PathsTwo
    <2>. DEFINE q == <<x, y>>
    <2>. HIDE DEF q
    <2>3. \A u \in {"report", "process", "system", "user"} : u \in Texts /\ Quiet(<<u>>, q) /\ q # <<u>>
      BY <1>2, <2>2 DEF Words, Tops, q
    <2>4. \A u, v \in Texts : Quiet(<<u, v>>, q)
      BY <2>2 DEF q
    <2>5. Quiet(<<"user_atcrash", "breadcrumbs", "item">>, q)
      BY <2>2 DEF Words, Tops, q
    <2>6. q # <<"crash", "threads">>
      BY <1>2, <2>2 DEF Words, Tops, q
    <2>7. \A v \in {"id", "startedAt", "handledCount", "unhandledCount", "config", "metaData", "state"} :
            v \in Texts /\ q # <<"user_atcrash", v>>
      BY <1>2, <2>2 DEF Words, Tops, q
    <2>8. Countable(q) /\ Untouched(q)
      BY <2>1 DEF q
    <2>9. Clear(q)
      BY <2>3, <2>4, <2>5, <2>6, <2>7, <2>8 DEF Words, Tops, Clear
    <2>. QED BY <2>9 DEF q
  <1>3. Clear(Item)
    <2>1. "user_atcrash" \in Texts /\ "breadcrumbs" \in Texts /\ "item" \in Texts
      BY DEF Words, Tops
    <2>2. Countable(Item) /\ Untouched(Item)
      BY <2>1, PathsThree DEF Item, Countable, Untouched
    <2>3. \A u, v, w \in Texts :
            /\ (Quiet(<<u>>, Item) <=> "user_atcrash" # u)
            /\ (Quiet(<<u, v>>, Item) <=> "user_atcrash" # u \/ "breadcrumbs" # v)
            /\ Quiet(<<u, v, w>>, Item) /\ Item # <<u>> /\ Item # <<u, v>>
      <3>. DEFINE x == "user_atcrash"
                  y == "breadcrumbs"
                  z == "item"
      <3>1. x \in Texts /\ y \in Texts /\ z \in Texts
        BY <2>1
      <3>. HIDE DEF x, y, z
      <3>2. \A u, v, w \in Texts :
              /\ (Quiet(<<u>>, <<x, y, z>>) <=> x # u)
              /\ (Quiet(<<u, v>>, <<x, y, z>>) <=> x # u \/ y # v)
              /\ Quiet(<<u, v, w>>, <<x, y, z>>) /\ <<x, y, z>> # <<u>> /\ <<x, y, z>> # <<u, v>>
        BY <3>1, PathsThree, ZenonT(40)
      <3>. QED BY <3>2, ZenonT(40) DEF x, y, z, Item
    <2>. DEFINE q == Item
    <2>. HIDE DEF q
    <2>4. \A u, v, w \in Texts :
            /\ ("user_atcrash" # u => Quiet(<<u>>, q))
            /\ ("user_atcrash" # u \/ "breadcrumbs" # v => Quiet(<<u, v>>, q))
            /\ Quiet(<<u, v, w>>, q) /\ q # <<u>> /\ q # <<u, v>>
      BY <2>3 DEF q
    <2>5. (\A u \in {"report", "process", "system", "user"} : Quiet(<<u>>, q)) /\ \A u \in {"system", "user"} : q # <<u>>
      BY <2>4 DEF Words, Tops
    <2>6. /\ \A v \in {"memory", "application_stats"} : Quiet(<<"system_atcrash", v>>, q)
          /\ Quiet(<<"binary_images", "item">>, q)
          /\ \A v \in {"threads", "error", "crashed_thread"} : Quiet(<<"crash", v>>, q)
          /\ q # <<"crash", "threads">>
      BY <2>4 DEF Words, Tops
    <2>7. \A v \in {"id", "startedAt", "handledCount", "unhandledCount", "config", "metaData", "state"} :
            q # <<"user_atcrash", v>> /\ Quiet(<<"user_atcrash", v>>, q)
      BY <2>4 DEF Words, Tops
    <2>8. Quiet(<<"user_atcrash", "breadcrumbs", "item">>, q)
      BY <2>1, <2>4
    <2>9. Countable(q) /\ Untouched(q)
      BY <2>2 DEF q
    <2>10. Clear(q)
      BY <2>5, <2>6, <2>7, <2>8, <2>9 DEF Clear
    <2>. QED BY <2>10 DEF q
  <1>4. \A q \in Subs : Clear(q)
    BY <1>2 DEF Words, Tops, Subs
  <1>. QED BY <1>1, <1>3, <1>4 DEF Known

\* One more part of a section.
LEMMA StageThen ==
    ASSUME NEW e, NEW t \in Seq(Calls), NEW P, NEW q, NEW m \in Nat, Stage(Run(e, t), P, q, m),
           NEW p, NEW n \in Nat, Does(p, TRUE, P, q, n)
    PROVE  t \o p \in Seq(Calls) /\ Stage(Run(e, t \o p), P, q, m + n)
  <1>1. p \in Seq(Calls)
    BY DEF Does
  <1>2. t \o p \in Seq(Calls)
    BY <1>1
  <1>3. Run(e, t \o p) = Run(Run(e, t), p)
    BY <1>1, RunConcat
  <1>4. Stage(Run(Run(e, t), p), P, q, m + n)
    BY StageRun
  <1>. QED BY <1>2, <1>3, <1>4

\* What each section adds.
Opening(q) ==
  (At(<<>>, "report", q) + At(<<>>, "process", q))
    + (At(<<>>, "system_atcrash", q)
         + (At(<<"system_atcrash">>, "memory", q) + At(<<"system_atcrash">>, "application_stats", q)))

\* The images: the array, and an element for each of them.
Imaging(q, n) == At(<<>>, "binary_images", q) + Elements(<<"binary_images">>, n, q)

\* The object of the crash.
Crashing(q) == At(<<>>, "crash", q)

\* The error in it.
Erring(q) == At(<<"crash">>, "error", q)

\* The object the client's handler writes.
Handling(q) == At(<<>>, "user_atcrash", q)

\* The breadcrumbs in it: the array, and an element for each that is read.
Crumbling(q, n) ==
  At(<<"user_atcrash">>, "breadcrumbs", q)
    + Elements(<<"user_atcrash", "breadcrumbs">>, n, q)

\* The crashed thread of a minimal report.
Threading(q) == At(<<"crash">>, "crashed_thread", q)

\* A standard report, once it is opened.
LEMMA OpenedStage ==
    ASSUME SceneOK(scene), NEW room \in Nat \cup {Unlimited}, NEW q, Clear(q)
    PROVE  Stage(Run(BeginEncode(room), StandardReport("opened")), <<>>, q, Opening(q))
  <1>. DEFINE e == BeginEncode(room)
              p1 == <<Obj("report")>>
              p2 == ReportInfo("report", scene)
              p3 == ProcessState("process")
              p4 == Prepared("system", scene.system)
              p5 == Pair("system_atcrash", MemoryInfo("memory") \o AppStats("application_stats"))
              p6 == Prepared("user", scene.user)
              n2 == At(<<>>, "report", q)
              n3 == At(<<>>, "process", q)
              n5 == At(<<>>, "system_atcrash", q)
                      + (At(<<"system_atcrash">>, "memory", q) + At(<<"system_atcrash">>, "application_stats", q))
  <1>1. Countable(q)
    BY DEF Clear
  <1>2. p1 \in Seq(Calls) /\ Stage(Run(e, p1), <<>>, q, 0)
    <2>1. "report" \in Fields
      BY SectionFields
    <2>2. Obj("report") \in Calls
      BY <2>1, FieldCallTypes, Zenon
    <2>. QED BY <2>2, StageRoot
  <1>3. Does(p2, TRUE, <<>>, q, n2)
    BY <1>1, InfoDoes DEF Clear
  <1>4. Does(p3, TRUE, <<>>, q, n3)
    <2>1. "process" \in Fields /\ "process" \in Texts
      BY FieldNames DEF Fields
    <2>2. <<>> \in Seq(Texts) /\ <<>> \o <<"process">> = <<"process">>
      BY <2>1, Joined
    <2>3. Quiet(<<>> \o <<"process">>, q)
      BY <2>2 DEF Clear
    <2>4. Silent(<<>>, TRUE)
      BY SilentNone
    <2>5. Does(Pair("process", <<>>), TRUE, <<>>, q, n3)
      BY <1>1, <2>1, <2>2, <2>3, <2>4, PairDoes
    <2>. QED BY <2>5 DEF ProcessState
  <1>5. Does(p4, TRUE, <<>>, q, 0) /\ Does(p6, TRUE, <<>>, q, 0)
    <2>1. "system" \in Fields /\ "user" \in Fields
      BY DEF Fields
    <2>2. {scene.system, scene.user} \subseteq {"raw", "blank", "word", NoName}
      BY DEF SceneOK
    <2>3. Quiet(<<"system">>, q) /\ q # <<"system">> /\ Quiet(<<"user">>, q) /\ q # <<"user">>
      BY DEF Clear
    <2>. QED BY <1>1, <2>1, <2>2, <2>3, PreparedDoes
  <1>6. Does(p5, TRUE, <<>>, q, n5)
    BY <1>1, AtCrashDoes DEF Clear
  <1>7. n2 \in Nat /\ n3 \in Nat /\ n5 \in Nat /\ n2 + n3 \in Nat /\ (n2 + n3) + n5 \in Nat /\ 0 \in Nat
    BY DEF At
  <1>8. Opening(q) = (n2 + n3) + n5
    BY DEF Opening
  <1>9. StandardReport("opened") = p1 \o p2 \o p3 \o p4 \o p5 \o p6
    BY DEF StandardReport
  <1>. HIDE DEF e, p1, p2, p3, p4, p5, p6, n2, n3, n5
  <1>10. p1 \o p2 \in Seq(Calls) /\ Stage(Run(e, p1 \o p2), <<>>, q, 0 + n2)
    BY <1>2, <1>3, <1>7, StageThen, Zenon
  <1>11. Stage(Run(e, p1 \o p2), <<>>, q, n2)
    BY <1>7, <1>10
  <1>12. p1 \o p2 \o p3 \in Seq(Calls) /\ Stage(Run(e, p1 \o p2 \o p3), <<>>, q, n2 + n3)
    BY <1>4, <1>7, <1>10, <1>11, StageThen, Zenon
  <1>13. /\ p1 \o p2 \o p3 \o p4 \in Seq(Calls)
         /\ Stage(Run(e, p1 \o p2 \o p3 \o p4), <<>>, q, (n2 + n3) + 0)
    BY <1>5, <1>7, <1>12, StageThen, Zenon
  <1>14. Stage(Run(e, p1 \o p2 \o p3 \o p4), <<>>, q, n2 + n3)
    BY <1>7, <1>13
  <1>15. /\ p1 \o p2 \o p3 \o p4 \o p5 \in Seq(Calls)
         /\ Stage(Run(e, p1 \o p2 \o p3 \o p4 \o p5), <<>>, q, (n2 + n3) + n5)
    BY <1>6, <1>7, <1>13, <1>14, StageThen, Zenon
  <1>16. Stage(Run(e, p1 \o p2 \o p3 \o p4 \o p5 \o p6), <<>>, q, ((n2 + n3) + n5) + 0)
    BY <1>5, <1>7, <1>15, StageThen, Zenon
  <1>17. ((n2 + n3) + n5) + 0 = Opening(q)
    BY <1>7, <1>8
  <1>. QED BY <1>9, <1>16, <1>17 DEF e

\* The minimal report of a crash in the handler, likewise.
LEMMA MinimalOpened ==
    ASSUME SceneOK(scene), NEW room \in Nat \cup {Unlimited}, NEW q, Clear(q)
    PROVE  Stage(Run(BeginEncode(room), MinimalReport("opened")), <<>>, q, At(<<>>, "report", q))
  <1>. DEFINE e == BeginEncode(room)
              p1 == <<Obj("report")>>
              p2 == ReportInfo("report", scene)
              n == At(<<>>, "report", q)
  <1>1. Countable(q)
    BY DEF Clear
  <1>2. p1 \in Seq(Calls) /\ Stage(Run(e, p1), <<>>, q, 0)
    <2>1. "report" \in Fields
      BY SectionFields
    <2>2. Obj("report") \in Calls
      BY <2>1, FieldCallTypes, Zenon
    <2>. QED BY <2>2, StageRoot
  <1>3. Does(p2, TRUE, <<>>, q, n)
    BY <1>1, InfoDoes DEF Clear
  <1>4. n \in Nat /\ 0 \in Nat
    BY DEF At
  <1>5. MinimalReport("opened") = p1 \o p2
    BY DEF MinimalReport
  <1>. HIDE DEF e, p1, p2, n
  <1>6. Stage(Run(e, p1 \o p2), <<>>, q, 0 + n)
    BY <1>2, <1>3, <1>4, StageThen, Zenon
  <1>7. 0 + n = n
    BY <1>4
  <1>. QED BY <1>5, <1>6, <1>7 DEF e, n

\* Numbers of members are numbers, and to begin an object is a call.
LEMMA Numbered ==
    ASSUME NEW P, NEW R, NEW x, NEW n \in Nat, NEW q
    PROVE  At(P, x, q) + Elements(R, n, q) \in Nat
  <1>1. At(P, x, q) \in Nat /\ Elements(R, n, q) \in Nat
    BY DEF At, Elements
  <1>. QED BY <1>1

\* The beginning of a named object is a call.
LEMMA ObjCall ==
    ASSUME NEW x \in Fields
    PROVE  <<Obj(x)>> \in Seq(Calls)
  <1>1. Obj(x) \in Calls
    BY FieldCallTypes
  <1>. QED BY <1>1

\* The images, one member for each that is listed.
LEMMA ImagesStage ==
    ASSUME NEW S, Listed \in Seq(S), NEW q, Clear(q), NEW e, NEW m \in Nat, Stage(e, <<>>, q, m)
    PROVE  Stage(Run(e, StandardReport("images")), <<>>, q, m + Imaging(q, Len(Listed)))
  <1>1. Len(Listed) \in Nat
    OBVIOUS
  <1>2. Imaging(q, Len(Listed)) \in Nat
    BY <1>1, Numbered, Zenon DEF Imaging
  <1>3. Does(BinaryImages("binary_images"), TRUE, <<>>, q, Imaging(q, Len(Listed)))
    BY ImagesDo DEF Clear, Imaging
  <1>4. StandardReport("images") = BinaryImages("binary_images")
    BY DEF StandardReport
  <1>. QED BY <1>2, <1>3, <1>4, StageRun

\* The threads of the process: an array, if they can be listed.
LEMMA AllThreadsDo ==
    ASSUME NEW c, CrashOK(c), NEW q, Clear(q)
    PROVE  Does(AllThreads("threads", c), TRUE, <<"crash">>, q, 0)
  <1>. DEFINE t == Thread(NoName, c, TRUE, c.introspect)
              u == IF c.tracing THEN Thread(NoName, c, FALSE, c.introspect) ELSE <<>>
              a == Arr("threads")
              P == <<"crash">>
  <1>1. Silent(t, FALSE) /\ Silent(Thread(NoName, c, FALSE, c.introspect), FALSE) /\ Silent(<<>>, FALSE)
    BY ThreadIs, ThreadBodySilent, SilentPair, SilentNone
  <1>2. Silent(u, FALSE)
    BY <1>1
  <1>3. AllThreads("threads", c) \in {<<>>, <<a>> \o t \o u \o <<EndC>>}
    BY DEF AllThreads
  <1>4. "threads" \in Fields /\ "threads" \in Texts /\ "crash" \in Texts
    BY FieldNames DEF Fields
  <1>5. a \in Calls /\ Begins(a, FALSE) /\ NameIn(TRUE, a.name) /\ KeyIn(TRUE, a.name) = "threads"
    BY <1>4, FieldCallTypes
  <1>6. P \in Seq(Texts) /\ P \o <<"threads">> = <<"crash", "threads">>
    BY <1>4, Joined
  <1>. HIDE DEF t, u, a
  <1>7. Silent(t \o u, FALSE)
    BY <1>1, <1>2, SilentTwo, Zenon
  <1>8. <<a>> \o (t \o u) \o <<EndC>> = <<a>> \o t \o u \o <<EndC>>
    <2>. DEFINE b == <<a>>
    <2>1. t \in Seq(Calls) /\ u \in Seq(Calls)
      BY <1>1, <1>2, Zenon DEF Silent
    <2>2. b \in Seq(Calls)
      BY <1>5
    <2>. HIDE DEF b
    <2>3. b \o (t \o u) = b \o t \o u
      BY <2>1, <2>2
    <2>. QED BY <2>3 DEF b
  <1>9. Quiet(P \o <<KeyIn(TRUE, a.name)>>, q) /\ At(P, KeyIn(TRUE, a.name), q) = 0
    BY <1>5, <1>6 DEF Clear, At
  <1>10. Does(<<a>> \o (t \o u) \o <<EndC>>, TRUE, P, q, At(P, KeyIn(TRUE, a.name), q))
    <2>1. Countable(q) /\ TRUE \in BOOLEAN /\ FALSE \in BOOLEAN
      BY DEF Clear
    <2>2. P \in Seq(Texts)
      BY <1>6
    <2>. HIDE DEF P
    <2>. QED BY <1>5, <1>7, <1>9, <2>1, <2>2, ContainerDoes, Zenon
  <1>11. Does(<<a>> \o t \o u \o <<EndC>>, TRUE, P, q, 0)
    BY <1>8, <1>9, <1>10
  <1>12. Does(<<>>, TRUE, P, q, 0)
    BY DoesNone
  <1>. QED BY <1>3, <1>11, <1>12, Zenon

\* The object of the crash, and all threads in it.
LEMMA ThreadsStage ==
    ASSUME CrashOK(crash), NEW q, Clear(q), NEW e, NEW m \in Nat, Stage(e, <<>>, q, m)
    PROVE  Stage(Run(e, StandardReport("threads")), <<"crash">>, q, m + Crashing(q))
  <1>. DEFINE a == <<Obj("crash")>>
              t == AllThreads("threads", crash)
              n == Crashing(q)
  <1>1. "crash" \in Fields /\ "crash" \in Texts
    BY FieldNames DEF Fields
  <1>2. a \in Seq(Calls)
    BY <1>1, ObjCall
  <1>3. Stage(Run(e, a), <<>> \o <<"crash">>, q, m + n)
    BY <1>1, StageObj DEF Clear, Crashing
  <1>4. <<>> \o <<"crash">> = <<"crash">>
    BY <1>1, Joined
  <1>5. Does(t, TRUE, <<"crash">>, q, 0)
    BY AllThreadsDo
  <1>6. n \in Nat /\ m + n \in Nat /\ 0 \in Nat /\ (m + n) + 0 = m + n
    BY DEF Crashing, At
  <1>7. StandardReport("threads") = a \o t
    BY DEF StandardReport
  <1>. HIDE DEF a, t, n
  <1>8. Stage(Run(e, a), <<"crash">>, q, m + n)
    BY <1>3, <1>4
  <1>9. Stage(Run(e, a \o t), <<"crash">>, q, (m + n) + 0)
    BY <1>2, <1>5, <1>6, <1>8, StageThen, Zenon
  <1>. QED BY <1>6, <1>7, <1>9 DEF n

\* In a minimal report there is one thread.
LEMMA CrashedThreadStage ==
    ASSUME CrashOK(crash), NEW q, Clear(q), NEW e, NEW m \in Nat, Stage(e, <<>>, q, m)
    PROVE  Stage(Run(e, MinimalReport("threads")), <<"crash">>, q, m + (Crashing(q) + Threading(q)))
  <1>. DEFINE a == <<Obj("crash")>>
              t == Thread("crashed_thread", crash, TRUE, FALSE)
              n == Crashing(q)
              k == Threading(q)
  <1>1. "crash" \in Fields /\ "crash" \in Texts /\ "crashed_thread" \in Fields /\ "crashed_thread" \in Texts
    BY FieldNames DEF Fields
  <1>2. a \in Seq(Calls)
    BY <1>1, ObjCall
  <1>3. Stage(Run(e, a), <<>> \o <<"crash">>, q, m + n)
    BY <1>1, StageObj DEF Clear, Crashing
  <1>4. /\ <<>> \o <<"crash">> = <<"crash">> /\ <<"crash">> \in Seq(Texts)
        /\ <<"crash">> \o <<"crashed_thread">> = <<"crash", "crashed_thread">>
    BY <1>1, Joined
  <1>5. Does(t, TRUE, <<"crash">>, q, k)
    <2>1. t = Pair("crashed_thread", ThreadBody(crash, TRUE, FALSE)) /\ Silent(ThreadBody(crash, TRUE, FALSE), TRUE)
      BY ThreadIs, ThreadBodySilent
    <2>2. Quiet(<<"crash">> \o <<"crashed_thread">>, q)
      BY <1>4 DEF Clear
    <2>3. Countable(q)
      BY DEF Clear
    <2>. DEFINE P == <<"crash">>
    <2>4. P \in Seq(Texts) /\ Quiet(P \o <<"crashed_thread">>, q)
      BY <1>4, <2>2
    <2>. HIDE DEF P, t
    <2>5. Does(t, TRUE, P, q, At(P, "crashed_thread", q))
      BY <1>1, <2>1, <2>3, <2>4, PairDoes
    <2>. QED BY <2>5 DEF P, Threading
  <1>6. n \in Nat /\ k \in Nat /\ m + n \in Nat /\ (m + n) + k = m + (n + k)
    BY DEF Crashing, Threading, At
  <1>7. MinimalReport("threads") = a \o t
    BY DEF MinimalReport
  <1>. HIDE DEF a, t, n, k
  <1>8. Stage(Run(e, a), <<"crash">>, q, m + n)
    BY <1>3, <1>4
  <1>9. Stage(Run(e, a \o t), <<"crash">>, q, (m + n) + k)
    BY <1>2, <1>5, <1>6, <1>8, StageThen, Zenon
  <1>. QED BY <1>6, <1>7, <1>9 DEF n, k

\* The error, which ends the object of the crash.
LEMMA ErrorStage ==
    ASSUME CrashOK(crash), NEW q, Clear(q), NEW e, NEW m \in Nat, Stage(e, <<"crash">>, q, m)
    PROVE  Stage(Run(e, ErrorSection("error", crash) \o <<EndC>>), <<>>, q, m + Erring(q))
  <1>. DEFINE P == <<"crash">>
              t == ErrorSection("error", crash)
              z == <<EndC>>
              n == Erring(q)
  <1>1. "error" \in Fields /\ "error" \in Texts /\ "crash" \in Texts
    BY FieldNames DEF Fields
  <1>2. P \in Seq(Texts) /\ P \o <<"error">> = <<"crash", "error">> /\ <<>> \o <<"crash">> = P /\ <<>> \in Seq(Texts)
    BY <1>1, Joined
  <1>3. PICK p : Silent(p, TRUE) /\ t = Pair("error", p)
    BY ErrorSilent
  <1>4. Does(t, TRUE, P, q, n)
    <2>1. Quiet(P \o <<"error">>, q) /\ Countable(q)
      BY <1>2 DEF Clear
    <2>2. n = At(P, "error", q)
      BY DEF Erring
    <2>. HIDE DEF t, P, n
    <2>3. Does(t, TRUE, P, q, At(P, "error", q))
      BY <1>1, <1>2, <1>3, <2>1, PairDoes
    <2>. QED BY <2>2, <2>3
  <1>5. n \in Nat
    BY DEF Erring, At
  <1>6. t \in Seq(Calls) /\ z \in Seq(Calls)
    BY <1>4, NamelessCalls DEF Does
  <1>. HIDE DEF t, z, n
  <1>7. Stage(Run(e, t), P, q, m + n)
    BY <1>4, <1>5, StageRun
  <1>8. Stage(Run(Run(e, t), z), <<>>, q, m + n)
    BY <1>1, <1>2, <1>7, StageEnd DEF z
  <1>9. Run(e, t \o z) = Run(Run(e, t), z)
    BY <1>6, RunConcat
  <1>. QED BY <1>8, <1>9 DEF t, z, n

\* What the client adds.
LEMMA HandlerStage ==
    ASSUME SceneOK(scene), NEW q, Clear(q), NEW e, NEW m \in Nat, Stage(e, <<>>, q, m)
    PROVE  Stage(Run(e, StandardReport("handler")), <<"user_atcrash">>, q, m + Handling(q))
  <1>. DEFINE a == <<Obj("user_atcrash")>>
              t == Session(scene)
              u == DataFiles(scene)
              n == Handling(q)
              P == <<"user_atcrash">>
  <1>1. "user_atcrash" \in Fields /\ "user_atcrash" \in Texts
    BY FieldNames DEF Fields
  <1>2. a \in Seq(Calls)
    BY <1>1, ObjCall
  <1>3. Stage(Run(e, a), <<>> \o <<"user_atcrash">>, q, m + n)
    BY <1>1, StageObj DEF Clear, Handling
  <1>4. <<>> \o <<"user_atcrash">> = P
    BY <1>1, Joined
  <1>5. Does(t \o u, TRUE, P, q, 0)
    BY HandlerDoes DEF Clear
  <1>6. n \in Nat /\ m + n \in Nat /\ 0 \in Nat /\ (m + n) + 0 = m + n
    BY DEF Handling, At
  <1>7. t \in Seq(Calls) /\ u \in Seq(Calls)
    <2>1. {"id", "startedAt", "handledCount", "unhandledCount", "config", "metaData", "state"} \subseteq Fields
      BY DEF Fields
    <2>2. FieldCalls \subseteq Calls
      BY DEF FieldCalls
    <2>3. /\ Str("id", "text") \in FieldCalls /\ Str("startedAt", "text") \in FieldCalls
          /\ Num("handledCount") \in FieldCalls /\ Num("unhandledCount") \in FieldCalls
      BY <2>1, FieldCallTypes
    <2>4. File("config", scene.config) \in FieldCalls /\ File("metaData", scene.metaData) \in FieldCalls
          /\ File("state", scene.state) \in FieldCalls
      BY <2>1, FieldCallTypes DEF SceneOK
    <2>. QED BY <2>2, <2>3, <2>4 DEF Session, DataFiles
  <1>8. StandardReport("handler") = a \o t \o u
    BY DEF StandardReport
  <1>. HIDE DEF a, t, u, n, P
  <1>9. a \o t \o u = a \o (t \o u)
    BY <1>2, <1>7
  <1>10. Stage(Run(e, a), P, q, m + n)
    BY <1>3, <1>4
  <1>11. Stage(Run(e, a \o (t \o u)), P, q, (m + n) + 0)
    BY <1>2, <1>5, <1>6, <1>10, StageThen, Zenon
  <1>. QED BY <1>6, <1>8, <1>9, <1>11 DEF n, P

\* The breadcrumbs, one member for each file that is found.
LEMMA CrumbsStage ==
    ASSUME NEW S, CrumbFiles \in Seq(S), NEW q, Clear(q), NEW e, NEW m \in Nat, Stage(e, <<"user_atcrash">>, q, m)
    PROVE  Stage(Run(e, StandardReport("crumbs")), <<"user_atcrash">>, q, m + Crumbling(q, Len(CrumbsInReport)))
  <1>1. Does(CrumbSection, TRUE, <<"user_atcrash">>, q, Crumbling(q, Len(CrumbsInReport)))
    BY CrumbsDo DEF Clear, Crumbling
  <1>2. Crumbling(q, Len(CrumbsInReport)) \in Nat
    <2>1. Len(CrumbsInReport) \in Nat
      <3>. DEFINE p == [i \in DOMAIN CrumbFiles |-> File(NoName, IF CrumbFiles[i] = None THEN "absent" ELSE "raw")]
      <3>1. <<"binary_images", "item">> \in Seq(Texts) /\ <<"binary_images">> \in Seq(Texts)
            /\ <<"binary_images">> \o <<"item">> = <<"binary_images", "item">>
        BY WordTexts, Joined DEF Words, Tops
      <3>2. Countable(q) /\ Quiet(<<"binary_images">> \o <<"item">>, q)
        BY <3>1 DEF Clear
      <3>. QED BY <3>1, <3>2, CrumbFilesDo
    <2>. QED BY <2>1, Numbered, Zenon DEF Crumbling
  <1>3. StandardReport("crumbs") = CrumbSection
    BY DEF StandardReport
  <1>. QED BY <1>1, <1>2, <1>3, StageRun

-----------------------------------------------------------------------------
(* How often each path occurs *)

\* How many members q there are when a section begins, and where.
StandardCount(section, q, images, crumbs) ==
  CASE section = "images" -> Opening(q)
    [] section = "threads" -> Opening(q) + Imaging(q, images)
    [] section = "error" -> Opening(q) + Imaging(q, images) + Crashing(q)
    [] section = "handler" -> Opening(q) + Imaging(q, images) + Crashing(q) + Erring(q)
    [] section = "crumbs" -> Opening(q) + Imaging(q, images) + Crashing(q) + Erring(q) + Handling(q)
    [] OTHER -> Opening(q) + Imaging(q, images) + Crashing(q) + Erring(q) + Handling(q) + Crumbling(q, crumbs)

\* Where a standard report is before each section; after the callback,
\* anywhere.
StandardAt(section, e, q, images, crumbs, polite) ==
  LET n == StandardCount(section, q, images, crumbs)
  IN  /\ section \in {"images", "threads", "handler"} => Stage(e, <<>>, q, n)
      /\ section = "error" => Stage(e, <<"crash">>, q, n)
      /\ section \in {"crumbs", "callback"} => Stage(e, <<"user_atcrash">>, q, n)
      /\ section = "end" /\ polite => Loose(e, q, n)
      /\ section = "closed" /\ polite => Whole(e, q, n)

\* Of a minimal report, likewise.
MinimalCount(section, q) ==
  CASE section = "threads" -> At(<<>>, "report", q)
    [] section = "error" -> At(<<>>, "report", q) + (Crashing(q) + Threading(q))
    [] OTHER -> At(<<>>, "report", q) + (Crashing(q) + Threading(q)) + Erring(q)

\* Where a minimal report is before each section.
MinimalAt(section, e, q) ==
  LET n == MinimalCount(section, q)
  IN  /\ section = "threads" => Stage(e, <<>>, q, n)
      /\ section = "error" => Stage(e, <<"crash">>, q, n)
      /\ section = "end" => Loose(e, q, n)
      /\ section = "closed" => Whole(e, q, n)

\* The counts are numbers.
LEMMA CountTypes ==
    ASSUME NEW q, NEW images \in Nat, NEW crumbs \in Nat
    PROVE  /\ \A section : StandardCount(section, q, images, crumbs) \in Nat
           /\ \A section : MinimalCount(section, q) \in Nat
           /\ Opening(q) \in Nat /\ Imaging(q, images) \in Nat /\ Crashing(q) \in Nat /\ Erring(q) \in Nat
           /\ Handling(q) \in Nat /\ Crumbling(q, crumbs) \in Nat /\ Threading(q) \in Nat
           /\ At(<<>>, "report", q) \in Nat
  <1>1. \A P, x : At(P, x, q) \in Nat
    BY DEF At
  <1>2. Opening(q) \in Nat
    BY <1>1 DEF Opening
  <1>3. Imaging(q, images) \in Nat /\ Crumbling(q, crumbs) \in Nat
    BY Numbered, Zenon DEF Imaging, Crumbling
  <1>4. Crashing(q) \in Nat /\ Erring(q) \in Nat /\ Handling(q) \in Nat /\ Threading(q) \in Nat
    BY <1>1 DEF Crashing, Erring, Handling, Threading
  <1>5. \A section : StandardCount(section, q, images, crumbs) \in Nat
    BY <1>2, <1>3, <1>4 DEF StandardCount
  <1>6. \A section : MinimalCount(section, q) \in Nat
    BY <1>1, <1>4 DEF MinimalCount
  <1>. QED BY <1>1, <1>2, <1>3, <1>4, <1>5, <1>6

\* The numbers of images and breadcrumbs of a report.
LEMMA NumberTypes ==
    ASSUME NEW S, Listed \in Seq(S), NEW T, CrumbFiles \in Seq(T)
    PROVE  Len(Listed) \in Nat /\ Len(CrumbsInReport) \in Nat
  <1>1. Len(Listed) \in Nat
    OBVIOUS
  <1>2. Len(CrumbsInReport) \in Nat
    <2>. DEFINE p == [i \in DOMAIN CrumbFiles |-> File(NoName, IF CrumbFiles[i] = None THEN "absent" ELSE "raw")]
                P == <<"binary_images">>
                q == <<"binary_images", "item">>
    <2>1. q \in Seq(Texts) /\ P \in Seq(Texts) /\ P \o <<"item">> = q
      BY WordTexts, Joined DEF Words, Tops
    <2>2. q \in Known
      BY DEF Known, Subs
    <2>3. Countable(q) /\ Quiet(P \o <<"item">>, q)
      BY <2>1, <2>2, KnownClear DEF Clear
    <2>. QED BY <2>1, <2>3, CrumbFilesDo
  <1>. QED BY <1>1, <1>2

\* A section of a standard report.
LEMMA StandardAdvance ==
    ASSUME CrashOK(crash), SceneOK(scene), NEW S, Listed \in Seq(S), NEW T, CrumbFiles \in Seq(T),
           NEW q, Clear(q), NEW e,
           NEW section \in {"images", "threads", "error", "handler", "crumbs", "callback"},
           StandardAt(section, e, q, Len(Listed), Len(CrumbsInReport), Polite(scene.callback))
    PROVE  StandardAt(StandardSteps[section], Run(e, StandardReport(section)), q,
                      Len(Listed), Len(CrumbsInReport), Polite(scene.callback))
  <1>. DEFINE images == Len(Listed)
              crumbs == Len(CrumbsInReport)
              polite == Polite(scene.callback)
              n == StandardCount(section, q, images, crumbs)
              f == Run(e, StandardReport(section))
  <1>1. images \in Nat /\ crumbs \in Nat
    BY NumberTypes
  <1>2. /\ n \in Nat /\ Opening(q) \in Nat /\ Imaging(q, images) \in Nat /\ Crashing(q) \in Nat
        /\ Erring(q) \in Nat /\ Handling(q) \in Nat /\ Crumbling(q, crumbs) \in Nat
    BY <1>1, CountTypes
  <1>3. StandardAt(section, e, q, images, crumbs, polite)
    OBVIOUS
  <1>4. CASE section = "images"
    <2>1. Stage(e, <<>>, q, n)
      BY <1>3, <1>4 DEF StandardAt
    <2>2. Stage(f, <<>>, q, n + Imaging(q, images))
      BY <1>2, <1>4, <2>1, ImagesStage
    <2>3. n + Imaging(q, images) = StandardCount("threads", q, images, crumbs)
      BY <1>4 DEF StandardCount
    <2>4. StandardSteps[section] = "threads"
      BY <1>4 DEF StandardSteps
    <2>. HIDE DEF images, crumbs, polite, f
    <2>5. StandardAt("threads", f, q, images, crumbs, polite)
      BY <2>2, <2>3 DEF StandardAt
    <2>6. StandardAt(StandardSteps[section], f, q, images, crumbs, polite)
      BY <2>4, <2>5
    <2>. QED BY <2>6 DEF images, crumbs, polite, f
  <1>5. CASE section = "threads"
    <2>1. Stage(e, <<>>, q, n)
      BY <1>3, <1>5 DEF StandardAt
    <2>2. Stage(f, <<"crash">>, q, n + Crashing(q))
      BY <1>2, <1>5, <2>1, ThreadsStage
    <2>3. n + Crashing(q) = StandardCount("error", q, images, crumbs)
      BY <1>5 DEF StandardCount
    <2>4. StandardSteps[section] = "error"
      BY <1>5 DEF StandardSteps
    <2>. HIDE DEF images, crumbs, polite, f
    <2>5. StandardAt("error", f, q, images, crumbs, polite)
      BY <2>2, <2>3 DEF StandardAt
    <2>6. StandardAt(StandardSteps[section], f, q, images, crumbs, polite)
      BY <2>4, <2>5
    <2>. QED BY <2>6 DEF images, crumbs, polite, f
  <1>6. CASE section = "error"
    <2>1. Stage(e, <<"crash">>, q, n)
      BY <1>3, <1>6 DEF StandardAt
    <2>2. Stage(f, <<>>, q, n + Erring(q))
      <3>1. f = Run(e, ErrorSection("error", crash) \o <<EndC>>)
        BY <1>6 DEF StandardReport
      <3>. HIDE DEF f, n
      <3>. QED BY <1>2, <2>1, <3>1, ErrorStage
    <2>3. n + Erring(q) = StandardCount("handler", q, images, crumbs)
      BY <1>6 DEF StandardCount
    <2>4. StandardSteps[section] = "handler"
      BY <1>6 DEF StandardSteps
    <2>. HIDE DEF images, crumbs, polite, f
    <2>5. StandardAt("handler", f, q, images, crumbs, polite)
      BY <2>2, <2>3 DEF StandardAt
    <2>6. StandardAt(StandardSteps[section], f, q, images, crumbs, polite)
      BY <2>4, <2>5
    <2>. QED BY <2>6 DEF images, crumbs, polite, f
  <1>7. CASE section = "handler"
    <2>1. Stage(e, <<>>, q, n)
      BY <1>3, <1>7 DEF StandardAt
    <2>2. Stage(f, <<"user_atcrash">>, q, n + Handling(q))
      BY <1>2, <1>7, <2>1, HandlerStage
    <2>3. n + Handling(q) = StandardCount("crumbs", q, images, crumbs)
      BY <1>7 DEF StandardCount
    <2>4. StandardSteps[section] = "crumbs"
      BY <1>7 DEF StandardSteps
    <2>. HIDE DEF images, crumbs, polite, f
    <2>5. StandardAt("crumbs", f, q, images, crumbs, polite)
      BY <2>2, <2>3 DEF StandardAt
    <2>6. StandardAt(StandardSteps[section], f, q, images, crumbs, polite)
      BY <2>4, <2>5
    <2>. QED BY <2>6 DEF images, crumbs, polite, f
  <1>8. CASE section = "crumbs"
    <2>1. Stage(e, <<"user_atcrash">>, q, n)
      BY <1>3, <1>8 DEF StandardAt
    <2>2. Stage(f, <<"user_atcrash">>, q, n + Crumbling(q, crumbs))
      BY <1>2, <1>8, <2>1, CrumbsStage
    <2>3. n + Crumbling(q, crumbs) = StandardCount("callback", q, images, crumbs)
      BY <1>8 DEF StandardCount
    <2>4. StandardSteps[section] = "callback"
      BY <1>8 DEF StandardSteps
    <2>. HIDE DEF images, crumbs, polite, f
    <2>5. StandardAt("callback", f, q, images, crumbs, polite)
      BY <2>2, <2>3 DEF StandardAt
    <2>6. StandardAt(StandardSteps[section], f, q, images, crumbs, polite)
      BY <2>4, <2>5
    <2>. QED BY <2>6 DEF images, crumbs, polite, f
  <1>9. CASE section = "callback"
    <2>1. Stage(e, <<"user_atcrash">>, q, n)
      BY <1>3, <1>9 DEF StandardAt
    <2>2. polite => Loose(f, q, n)
      <3>1. f = Run(e, scene.callback \o <<EndC>>) /\ scene.callback \in Seq(Calls) /\ Untouched(q)
        BY <1>9 DEF StandardReport, SceneOK, Clear
      <3>. HIDE DEF f, n
      <3>. QED BY <1>2, <2>1, <3>1, CallbackLoose
    <2>3. n = StandardCount("end", q, images, crumbs)
      BY <1>9 DEF StandardCount
    <2>4. StandardSteps[section] = "end"
      BY <1>9 DEF StandardSteps
    <2>. HIDE DEF images, crumbs, polite, f
    <2>5. StandardAt("end", f, q, images, crumbs, polite)
      BY <2>2, <2>3 DEF StandardAt
    <2>6. StandardAt(StandardSteps[section], f, q, images, crumbs, polite)
      BY <2>4, <2>5
    <2>. QED BY <2>6 DEF images, crumbs, polite, f
  <1>. QED BY <1>4, <1>5, <1>6, <1>7, <1>8, <1>9

\* A section of a minimal report.
LEMMA MinimalAdvance ==
    ASSUME CrashOK(crash), NEW q, Clear(q), NEW e, NEW section \in {"threads", "error"}, MinimalAt(section, e, q)
    PROVE  MinimalAt(MinimalSteps[section], Run(e, MinimalReport(section)), q)
  <1>. DEFINE n == MinimalCount(section, q)
              f == Run(e, MinimalReport(section))
  <1>1. n \in Nat /\ Crashing(q) + Threading(q) \in Nat /\ Erring(q) \in Nat
    <2>1. 0 \in Nat
      OBVIOUS
    <2>2. n \in Nat /\ Crashing(q) \in Nat /\ Threading(q) \in Nat /\ Erring(q) \in Nat
      BY <2>1, CountTypes
    <2>. QED BY <2>2
  <1>2. CASE section = "threads"
    <2>1. Stage(e, <<>>, q, n)
      BY <1>2 DEF MinimalAt
    <2>2. Stage(f, <<"crash">>, q, n + (Crashing(q) + Threading(q)))
      BY <1>1, <1>2, <2>1, CrashedThreadStage
    <2>3. n + (Crashing(q) + Threading(q)) = MinimalCount("error", q)
      BY <1>2 DEF MinimalCount
    <2>4. MinimalSteps[section] = "error"
      BY <1>2 DEF MinimalSteps
    <2>. HIDE DEF f
    <2>5. MinimalAt("error", f, q)
      BY <2>2, <2>3 DEF MinimalAt
    <2>. QED BY <2>4, <2>5 DEF f
  <1>3. CASE section = "error"
    <2>1. Stage(e, <<"crash">>, q, n)
      BY <1>3 DEF MinimalAt
    <2>2. Stage(f, <<>>, q, n + Erring(q))
      <3>1. f = Run(e, ErrorSection("error", crash) \o <<EndC>>)
        BY <1>3 DEF MinimalReport
      <3>. HIDE DEF f, n
      <3>. QED BY <1>1, <2>1, <3>1, ErrorStage
    <2>3. n + Erring(q) = MinimalCount("end", q)
      BY <1>3 DEF MinimalCount
    <2>4. MinimalSteps[section] = "end"
      BY <1>3 DEF MinimalSteps
    <2>. HIDE DEF f
    <2>5. MinimalAt("end", f, q)
      BY <2>2, <2>3, StageLoose DEF MinimalAt
    <2>. QED BY <2>4, <2>5 DEF f
  <1>. QED BY <1>2, <1>3

\* The names in the paths a report is asked for.
Short == {"report", "process", "system_atcrash", "binary_images", "crash", "user_atcrash", "memory",
  "application_stats", "item", "error", "breadcrumbs", "crashed_thread"}

\* Where a name is appended to a short path, as an equation between names.
LEMMA AtPaths ==
    ASSUME NEW q, NEW x \in Short, NEW y \in Short
    PROVE  /\ At(<<>>, x, q) = IF q = <<x>> THEN 1 ELSE 0
           /\ At(<<y>>, x, q) = IF q = <<y, x>> THEN 1 ELSE 0
           /\ \A n : Elements(<<y>>, n, q) = IF q = <<y, "item">> THEN n ELSE 0
           /\ \A n : Elements(<<y, x>>, n, q) = IF q = <<y, x, "item">> THEN n ELSE 0
  <1>1. x \in Texts /\ y \in Texts /\ "item" \in Texts
    BY WordTexts DEF Words, Tops, Short
  <1>2. <<>> \o <<x>> = <<x>> /\ <<y>> \o <<x>> = <<y, x>> /\ <<y>> \o <<"item">> = <<y, "item">>
    BY <1>1, Joined
  <1>3. <<y, x>> \o <<"item">> = <<y, x, "item">>
    BY <1>1, JoinedTwo
  <1>4. At(<<>>, x, q) = (IF q = <<x>> THEN 1 ELSE 0) /\ At(<<y>>, x, q) = IF q = <<y, x>> THEN 1 ELSE 0
    <2>. DEFINE u == <<>> \o <<x>>
                v == <<y>> \o <<x>>
                s == <<x>>
                t == <<y, x>>
    <2>1. u = s /\ v = t
      BY <1>2
    <2>2. At(<<>>, x, q) = (IF u = q THEN 1 ELSE 0) /\ At(<<y>>, x, q) = IF v = q THEN 1 ELSE 0
      BY DEF At
    <2>. HIDE DEF u, v, s, t
    <2>3. At(<<>>, x, q) = (IF q = s THEN 1 ELSE 0) /\ At(<<y>>, x, q) = IF q = t THEN 1 ELSE 0
      BY <2>1, <2>2
    <2>. QED BY <2>3 DEF s, t
  <1>5. ASSUME NEW n
        PROVE  /\ Elements(<<y>>, n, q) = IF q = <<y, "item">> THEN n ELSE 0
               /\ Elements(<<y, x>>, n, q) = IF q = <<y, x, "item">> THEN n ELSE 0
    <2>. DEFINE u == <<y>> \o <<"item">>
                v == <<y, x>> \o <<"item">>
                s == <<y, "item">>
                t == <<y, x, "item">>
    <2>1. u = s /\ v = t
      BY <1>2, <1>3
    <2>2. Elements(<<y>>, n, q) = (IF u = q THEN n ELSE 0) /\ Elements(<<y, x>>, n, q) = IF v = q THEN n ELSE 0
      BY DEF Elements
    <2>. HIDE DEF u, v, s, t
    <2>3. Elements(<<y>>, n, q) = (IF q = s THEN n ELSE 0) /\ Elements(<<y, x>>, n, q) = IF q = t THEN n ELSE 0
      BY <2>1, <2>2
    <2>. QED BY <2>3 DEF s, t
  <1>. QED BY <1>4, <1>5

\* What the sections add, as equations between paths.
LEMMA OpeningCount ==
    ASSUME NEW q
    PROVE  Opening(q) = ((IF q = <<"report">> THEN 1 ELSE 0) + (IF q = <<"process">> THEN 1 ELSE 0))
                             + ((IF q = <<"system_atcrash">> THEN 1 ELSE 0)
                                  + ((IF q = <<"system_atcrash", "memory">> THEN 1 ELSE 0)
                                       + (IF q = <<"system_atcrash", "application_stats">> THEN 1 ELSE 0)))
  <1>1. \A x \in Short : At(<<>>, x, q) = IF q = <<x>> THEN 1 ELSE 0
    BY AtPaths
  <1>2. \A x, y \in Short : At(<<y>>, x, q) = IF q = <<y, x>> THEN 1 ELSE 0
    BY AtPaths
  <1>3. At(<<>>, "report", q) = IF q = <<"report">> THEN 1 ELSE 0
    BY <1>1 DEF Short
  <1>4. At(<<>>, "process", q) = IF q = <<"process">> THEN 1 ELSE 0
    BY <1>1 DEF Short
  <1>5. At(<<>>, "system_atcrash", q) = IF q = <<"system_atcrash">> THEN 1 ELSE 0
    BY <1>1 DEF Short
  <1>6. At(<<"system_atcrash">>, "memory", q) = IF q = <<"system_atcrash", "memory">> THEN 1 ELSE 0
    BY <1>2 DEF Short
  <1>7. At(<<"system_atcrash">>, "application_stats", q) = IF q = <<"system_atcrash", "application_stats">> THEN 1 ELSE 0
    BY <1>2 DEF Short
  <1>. QED BY <1>3, <1>4, <1>5, <1>6, <1>7, Zenon DEF Opening

\* The other sections, likewise.
LEMMA SectionCounts ==
    ASSUME NEW q, NEW n \in Nat
    PROVE  /\ Imaging(q, n) = (IF q = <<"binary_images">> THEN 1 ELSE 0)
                                + (IF q = <<"binary_images", "item">> THEN n ELSE 0)
           /\ Crashing(q) = IF q = <<"crash">> THEN 1 ELSE 0
           /\ Erring(q) = IF q = <<"crash", "error">> THEN 1 ELSE 0
           /\ Handling(q) = IF q = <<"user_atcrash">> THEN 1 ELSE 0
           /\ Crumbling(q, n) = (IF q = <<"user_atcrash", "breadcrumbs">> THEN 1 ELSE 0)
                                  + (IF q = <<"user_atcrash", "breadcrumbs", "item">> THEN n ELSE 0)
           /\ Threading(q) = IF q = <<"crash", "crashed_thread">> THEN 1 ELSE 0
           /\ At(<<>>, "report", q) = IF q = <<"report">> THEN 1 ELSE 0
  <1>1. \A x \in Short : At(<<>>, x, q) = IF q = <<x>> THEN 1 ELSE 0
    BY AtPaths
  <1>2. \A x, y \in Short : At(<<y>>, x, q) = IF q = <<y, x>> THEN 1 ELSE 0
    BY AtPaths
  <1>a. \A y \in Short : Elements(<<y>>, n, q) = IF q = <<y, "item">> THEN n ELSE 0
    BY AtPaths
  <1>b. \A x, y \in Short : Elements(<<y, x>>, n, q) = IF q = <<y, x, "item">> THEN n ELSE 0
    BY AtPaths
  <1>3. At(<<>>, "report", q) = IF q = <<"report">> THEN 1 ELSE 0
    BY <1>1 DEF Short
  <1>8. At(<<>>, "binary_images", q) = IF q = <<"binary_images">> THEN 1 ELSE 0
    BY <1>1 DEF Short
  <1>9. Elements(<<"binary_images">>, n, q) = IF q = <<"binary_images", "item">> THEN n ELSE 0
    BY <1>a DEF Short
  <1>10. Crashing(q) = IF q = <<"crash">> THEN 1 ELSE 0
    BY <1>1 DEF Short, Crashing
  <1>11. Erring(q) = IF q = <<"crash", "error">> THEN 1 ELSE 0
    BY <1>2 DEF Short, Erring
  <1>12. Handling(q) = IF q = <<"user_atcrash">> THEN 1 ELSE 0
    BY <1>1 DEF Short, Handling
  <1>13. At(<<"user_atcrash">>, "breadcrumbs", q) = IF q = <<"user_atcrash", "breadcrumbs">> THEN 1 ELSE 0
    BY <1>2 DEF Short
  <1>14. Elements(<<"user_atcrash", "breadcrumbs">>, n, q)
           = IF q = <<"user_atcrash", "breadcrumbs", "item">> THEN n ELSE 0
    BY <1>b DEF Short
  <1>15. Threading(q) = IF q = <<"crash", "crashed_thread">> THEN 1 ELSE 0
    BY <1>2 DEF Short, Threading
  <1>17. Imaging(q, n) = (IF q = <<"binary_images">> THEN 1 ELSE 0)
                                + (IF q = <<"binary_images", "item">> THEN n ELSE 0)
    BY <1>8, <1>9, Zenon DEF Imaging
  <1>18. Crumbling(q, n) = (IF q = <<"user_atcrash", "breadcrumbs">> THEN 1 ELSE 0)
                                  + (IF q = <<"user_atcrash", "breadcrumbs", "item">> THEN n ELSE 0)
    BY <1>13, <1>14, Zenon DEF Crumbling
  <1>. QED BY <1>3, <1>10, <1>11, <1>12, <1>15, <1>17, <1>18, Zenon

\* The count of a member of the report's object, at the end.
LEMMA CountOne ==
    ASSUME NEW z \in Short, NEW images \in Nat, NEW crumbs \in Nat
    PROVE  /\ StandardCount("closed", <<z>>, images, crumbs) = IF z \in Tops THEN 1 ELSE 0
           /\ MinimalCount("closed", <<z>>) = IF z \in {"report", "crash"} THEN 1 ELSE 0
  <1>. DEFINE q == <<z>>
  <1>1. \A x \in Short : x \in Texts
    BY WordTexts DEF Words, Tops, Short
  <1>2. \A x \in Short : q = <<x>> <=> z = x
    BY <1>1, PathsOne
  <1>3. \A x, y, w \in Short : q # <<x, y>> /\ q # <<x, y, w>>
    BY <1>1, PathsOne, PathsThree
  <1>. HIDE DEF q
  <1>4. /\ Opening(q) = IF z \in {"report", "process", "system_atcrash"} THEN 1 ELSE 0
        /\ Imaging(q, images) = IF z = "binary_images" THEN 1 ELSE 0
        /\ Crashing(q) = IF z = "crash" THEN 1 ELSE 0
        /\ Erring(q) = 0
        /\ Handling(q) = IF z = "user_atcrash" THEN 1 ELSE 0
        /\ Crumbling(q, crumbs) = 0
        /\ Threading(q) = 0
        /\ At(<<>>, "report", q) = IF z = "report" THEN 1 ELSE 0
    <2>1. {"report", "process", "system_atcrash", "binary_images", "crash", "user_atcrash", "memory",
           "application_stats", "item", "error", "breadcrumbs", "crashed_thread"} \subseteq Short
      BY DEF Short
    <2>2. /\ (q = <<"report">> <=> z = "report") /\ (q = <<"process">> <=> z = "process")
          /\ (q = <<"system_atcrash">> <=> z = "system_atcrash") /\ (q = <<"binary_images">> <=> z = "binary_images")
          /\ (q = <<"crash">> <=> z = "crash") /\ (q = <<"user_atcrash">> <=> z = "user_atcrash")
      BY <1>2, <2>1
    <2>3. /\ q # <<"system_atcrash", "memory">> /\ q # <<"system_atcrash", "application_stats">>
          /\ q # <<"binary_images", "item">> /\ q # <<"crash", "error">> /\ q # <<"user_atcrash", "breadcrumbs">>
          /\ q # <<"user_atcrash", "breadcrumbs", "item">> /\ q # <<"crash", "crashed_thread">>
      BY <1>3, <2>1
    <2>4. Opening(q) = IF z \in {"report", "process", "system_atcrash"} THEN 1 ELSE 0
      <3>. DEFINE a1 == IF q = <<"report">> THEN 1 ELSE 0
                  a2 == IF q = <<"process">> THEN 1 ELSE 0
                  a3 == IF q = <<"system_atcrash">> THEN 1 ELSE 0
                  a4 == IF q = <<"system_atcrash", "memory">> THEN 1 ELSE 0
                  a5 == IF q = <<"system_atcrash", "application_stats">> THEN 1 ELSE 0
      <3>1. Opening(q) = (a1 + a2) + (a3 + (a4 + a5))
        BY OpeningCount
      <3>2. /\ a1 = (IF z = "report" THEN 1 ELSE 0) /\ a2 = (IF z = "process" THEN 1 ELSE 0)
            /\ a3 = (IF z = "system_atcrash" THEN 1 ELSE 0) /\ a4 = 0 /\ a5 = 0
        BY <2>2, <2>3
      <3>. HIDE DEF a1, a2, a3, a4, a5
      <3>. QED BY <3>1, <3>2
    <2>5. Imaging(q, images) = IF z = "binary_images" THEN 1 ELSE 0
      BY <2>2, <2>3, SectionCounts
    <2>6. Crumbling(q, crumbs) = 0
      BY <2>2, <2>3, SectionCounts
    <2>7. /\ Crashing(q) = IF z = "crash" THEN 1 ELSE 0
          /\ Erring(q) = 0
          /\ Handling(q) = IF z = "user_atcrash" THEN 1 ELSE 0
          /\ Threading(q) = 0
          /\ At(<<>>, "report", q) = IF z = "report" THEN 1 ELSE 0
      BY <2>2, <2>3, SectionCounts
    <2>. QED BY <2>4, <2>5, <2>6, <2>7
  <1>5. /\ StandardCount("closed", q, images, crumbs)
             = Opening(q) + Imaging(q, images) + Crashing(q) + Erring(q) + Handling(q) + Crumbling(q, crumbs)
        /\ MinimalCount("closed", q) = At(<<>>, "report", q) + (Crashing(q) + Threading(q)) + Erring(q)
    BY DEF StandardCount, MinimalCount
  <1>6. StandardCount("closed", q, images, crumbs) = IF z \in Tops THEN 1 ELSE 0
    BY <1>4, <1>5 DEF Tops
  <1>7. MinimalCount("closed", q) = IF z \in {"report", "crash"} THEN 1 ELSE 0
    BY <1>4, <1>5
  <1>. QED BY <1>6, <1>7 DEF q

\* The count of what is one level further down.
LEMMA CountTwo ==
    ASSUME NEW y \in Short, NEW z \in Short, NEW images \in Nat, NEW crumbs \in Nat
    PROVE  /\ StandardCount("closed", <<y, z>>, images, crumbs)
                = IF \/ y = "system_atcrash" /\ z \in {"memory", "application_stats"}
                     \/ y = "crash" /\ z = "error"
                     \/ y = "user_atcrash" /\ z = "breadcrumbs"
                  THEN 1
                  ELSE IF y = "binary_images" /\ z = "item" THEN images ELSE 0
           /\ MinimalCount("closed", <<y, z>>) = IF y = "crash" /\ z \in {"error", "crashed_thread"} THEN 1 ELSE 0
  <1>. DEFINE q == <<y, z>>
  <1>1. \A x \in Short : x \in Texts
    BY WordTexts DEF Words, Tops, Short
  <1>2. \A u, v \in Short : q = <<u, v>> <=> y = u /\ z = v
    BY <1>1, PathsTwo
  <1>3. \A u, v, w \in Short : q # <<u>> /\ q # <<u, v, w>>
    BY <1>1, PathsTwo, PathsThree
  <1>. HIDE DEF q
  <1>4. /\ Opening(q) = IF y = "system_atcrash" /\ z \in {"memory", "application_stats"} THEN 1 ELSE 0
        /\ Imaging(q, images) = IF y = "binary_images" /\ z = "item" THEN images ELSE 0
        /\ Crashing(q) = 0
        /\ Erring(q) = IF y = "crash" /\ z = "error" THEN 1 ELSE 0
        /\ Handling(q) = 0
        /\ Crumbling(q, crumbs) = IF y = "user_atcrash" /\ z = "breadcrumbs" THEN 1 ELSE 0
        /\ Threading(q) = IF y = "crash" /\ z = "crashed_thread" THEN 1 ELSE 0
        /\ At(<<>>, "report", q) = 0
    <2>1. {"report", "process", "system_atcrash", "binary_images", "crash", "user_atcrash", "memory",
           "application_stats", "item", "error", "breadcrumbs", "crashed_thread"} \subseteq Short
      BY DEF Short
    <2>2. /\ q # <<"report">> /\ q # <<"process">> /\ q # <<"system_atcrash">> /\ q # <<"binary_images">>
          /\ q # <<"crash">> /\ q # <<"user_atcrash">> /\ q # <<"user_atcrash", "breadcrumbs", "item">>
      BY <1>3, <2>1
    <2>3. /\ (q = <<"system_atcrash", "memory">> <=> y = "system_atcrash" /\ z = "memory")
          /\ (q = <<"system_atcrash", "application_stats">> <=> y = "system_atcrash" /\ z = "application_stats")
          /\ (q = <<"binary_images", "item">> <=> y = "binary_images" /\ z = "item")
          /\ (q = <<"crash", "error">> <=> y = "crash" /\ z = "error")
          /\ (q = <<"user_atcrash", "breadcrumbs">> <=> y = "user_atcrash" /\ z = "breadcrumbs")
          /\ (q = <<"crash", "crashed_thread">> <=> y = "crash" /\ z = "crashed_thread")
      BY <1>2, <2>1
    <2>4. Opening(q) = IF y = "system_atcrash" /\ z \in {"memory", "application_stats"} THEN 1 ELSE 0
      <3>. DEFINE a1 == IF q = <<"report">> THEN 1 ELSE 0
                  a2 == IF q = <<"process">> THEN 1 ELSE 0
                  a3 == IF q = <<"system_atcrash">> THEN 1 ELSE 0
                  a4 == IF q = <<"system_atcrash", "memory">> THEN 1 ELSE 0
                  a5 == IF q = <<"system_atcrash", "application_stats">> THEN 1 ELSE 0
      <3>1. Opening(q) = (a1 + a2) + (a3 + (a4 + a5))
        BY OpeningCount
      <3>2. /\ a1 = 0 /\ a2 = 0 /\ a3 = 0
            /\ a4 = (IF y = "system_atcrash" /\ z = "memory" THEN 1 ELSE 0)
            /\ a5 = (IF y = "system_atcrash" /\ z = "application_stats" THEN 1 ELSE 0)
        BY <2>2, <2>3
      <3>. HIDE DEF a1, a2, a3, a4, a5
      <3>. QED BY <3>1, <3>2
    <2>5. Imaging(q, images) = IF y = "binary_images" /\ z = "item" THEN images ELSE 0
      BY <2>2, <2>3, SectionCounts
    <2>6. Crumbling(q, crumbs) = IF y = "user_atcrash" /\ z = "breadcrumbs" THEN 1 ELSE 0
      BY <2>2, <2>3, SectionCounts
    <2>7. /\ Crashing(q) = 0
          /\ Erring(q) = IF y = "crash" /\ z = "error" THEN 1 ELSE 0
          /\ Handling(q) = 0
          /\ Threading(q) = IF y = "crash" /\ z = "crashed_thread" THEN 1 ELSE 0
          /\ At(<<>>, "report", q) = 0
      BY <2>2, <2>3, SectionCounts
    <2>. QED BY <2>4, <2>5, <2>6, <2>7
  <1>5. /\ StandardCount("closed", q, images, crumbs)
             = Opening(q) + Imaging(q, images) + Crashing(q) + Erring(q) + Handling(q) + Crumbling(q, crumbs)
        /\ MinimalCount("closed", q) = At(<<>>, "report", q) + (Crashing(q) + Threading(q)) + Erring(q)
    BY DEF StandardCount, MinimalCount
  <1>6. StandardCount("closed", q, images, crumbs)
                = IF \/ y = "system_atcrash" /\ z \in {"memory", "application_stats"}
                     \/ y = "crash" /\ z = "error"
                     \/ y = "user_atcrash" /\ z = "breadcrumbs"
                  THEN 1
                  ELSE IF y = "binary_images" /\ z = "item" THEN images ELSE 0
    BY <1>4, <1>5
  <1>7. MinimalCount("closed", q) = IF y = "crash" /\ z \in {"error", "crashed_thread"} THEN 1 ELSE 0
    BY <1>4, <1>5
  <1>. QED BY <1>6, <1>7 DEF q

\* The breadcrumbs themselves.
LEMMA CountItem ==
    ASSUME NEW images \in Nat, NEW crumbs \in Nat
    PROVE  StandardCount("closed", Item, images, crumbs) = crumbs
  <1>. DEFINE q == Item
  <1>1. \A x \in Short : x \in Texts
    BY WordTexts DEF Words, Tops, Short
  <1>2. {"report", "process", "system_atcrash", "binary_images", "crash", "user_atcrash", "memory",
         "application_stats", "item", "error", "breadcrumbs", "crashed_thread"} \subseteq Short
    BY DEF Short
  <1>3. Len(Item) = 3
    BY DEF Item
  <1>4. \A u, v \in Short : q # <<u>> /\ q # <<u, v>>
    BY <1>1, <1>3
  <1>5. q = <<"user_atcrash", "breadcrumbs", "item">>
    BY DEF Item
  <1>. HIDE DEF q
  <1>6. /\ q # <<"report">> /\ q # <<"process">> /\ q # <<"system_atcrash">> /\ q # <<"binary_images">>
        /\ q # <<"crash">> /\ q # <<"user_atcrash">>
        /\ q # <<"system_atcrash", "memory">> /\ q # <<"system_atcrash", "application_stats">>
        /\ q # <<"binary_images", "item">> /\ q # <<"crash", "error">> /\ q # <<"user_atcrash", "breadcrumbs">>
    BY <1>2, <1>4
  <1>7. Opening(q) = 0
    <2>. DEFINE a1 == IF q = <<"report">> THEN 1 ELSE 0
                a2 == IF q = <<"process">> THEN 1 ELSE 0
                a3 == IF q = <<"system_atcrash">> THEN 1 ELSE 0
                a4 == IF q = <<"system_atcrash", "memory">> THEN 1 ELSE 0
                a5 == IF q = <<"system_atcrash", "application_stats">> THEN 1 ELSE 0
    <2>1. Opening(q) = (a1 + a2) + (a3 + (a4 + a5))
      BY OpeningCount
    <2>2. a1 = 0 /\ a2 = 0 /\ a3 = 0 /\ a4 = 0 /\ a5 = 0
      BY <1>6
    <2>. HIDE DEF a1, a2, a3, a4, a5
    <2>. QED BY <2>1, <2>2
  <1>8. Imaging(q, images) = 0
    BY <1>6, SectionCounts
  <1>9. Crumbling(q, crumbs) = crumbs
    <2>1. Crumbling(q, crumbs) = (IF q = <<"user_atcrash", "breadcrumbs">> THEN 1 ELSE 0)
                                  + (IF q = <<"user_atcrash", "breadcrumbs", "item">> THEN crumbs ELSE 0)
      BY SectionCounts
    <2>2. Crumbling(q, crumbs) = 0 + crumbs
      BY <1>5, <1>6, <2>1
    <2>. QED BY <2>2
  <1>10. Crashing(q) = 0 /\ Erring(q) = 0 /\ Handling(q) = 0
    BY <1>6, SectionCounts
  <1>11. StandardCount("closed", q, images, crumbs)
             = Opening(q) + Imaging(q, images) + Crashing(q) + Erring(q) + Handling(q) + Crumbling(q, crumbs)
    BY DEF StandardCount
  <1>12. StandardCount("closed", q, images, crumbs) = crumbs
    BY <1>7, <1>8, <1>9, <1>10, <1>11
  <1>. QED BY <1>12 DEF q

\* At the end of a report the counts are those of the contents.
LEMMA Completed ==
    ASSUME Len(Listed) \in Nat, Len(CrumbsInReport) \in Nat
    PROVE  /\ \A c \in StandardContents :
                c[1] \in Known /\ StandardCount("closed", c[1], Len(Listed), Len(CrumbsInReport)) = c[2]
           /\ \A c \in MinimalContents : c[1] \in Known /\ MinimalCount("closed", c[1]) = c[2]
  <1>. DEFINE images == Len(Listed)
              crumbs == Len(CrumbsInReport)
              Std(q) == StandardCount("closed", q, images, crumbs)
  <1>1. images \in Nat /\ crumbs \in Nat
    OBVIOUS
  <1>2. \A c \in StandardContents :
          c \in { <<<<"report">>, 1>>, <<<<"process">>, 1>>, <<<<"system_atcrash">>, 1>>,
                  <<<<"system_atcrash", "memory">>, 1>>, <<<<"system_atcrash", "application_stats">>, 1>>,
                  <<<<"binary_images">>, 1>>, <<<<"binary_images", "item">>, images>>,
                  <<<<"crash">>, 1>>, <<<<"crash", "error">>, 1>>,
                  <<<<"user_atcrash">>, 1>>, <<<<"user_atcrash", "breadcrumbs">>, 1>>, <<Item, crumbs>> }
    BY DEF StandardContents, Item
  <1>. HIDE DEF images, crumbs
  <1>3. /\ Std(<<"report">>) = 1 /\ Std(<<"process">>) = 1 /\ Std(<<"system_atcrash">>) = 1
        /\ Std(<<"binary_images">>) = 1 /\ Std(<<"crash">>) = 1 /\ Std(<<"user_atcrash">>) = 1
    <2>1. \A z \in Tops : z \in Short
      BY DEF Tops, Short
    <2>2. \A z \in Tops : Std(<<z>>) = 1
      BY <1>1, <2>1, CountOne
    <2>. HIDE DEF Std
    <2>. QED BY <2>2 DEF Tops
  <1>4. /\ Std(<<"system_atcrash", "memory">>) = 1 /\ Std(<<"system_atcrash", "application_stats">>) = 1
        /\ Std(<<"crash", "error">>) = 1 /\ Std(<<"user_atcrash", "breadcrumbs">>) = 1
        /\ Std(<<"binary_images", "item">>) = images
    <2>1. \A y, z \in Short :
            Std(<<y, z>>) = IF \/ y = "system_atcrash" /\ z \in {"memory", "application_stats"}
                               \/ y = "crash" /\ z = "error"
                               \/ y = "user_atcrash" /\ z = "breadcrumbs"
                            THEN 1
                            ELSE IF y = "binary_images" /\ z = "item" THEN images ELSE 0
      BY <1>1, CountTwo
    <2>. HIDE DEF Std
    <2>. QED BY <2>1 DEF Short
  <1>7. Std(Item) = crumbs
    BY <1>1, CountItem
  <1>. HIDE DEF Std
  <1>8. \A c \in StandardContents : Std(c[1]) = c[2]
    BY <1>2, <1>3, <1>4, <1>7
  <1>9. \A c \in StandardContents : c[1] \in Known
    BY <1>2 DEF Known, Subs, Tops
  <1>10. /\ MinimalCount("closed", <<"report">>) = 1 /\ MinimalCount("closed", <<"crash">>) = 1
         /\ MinimalCount("closed", <<"crash", "error">>) = 1 /\ MinimalCount("closed", <<"crash", "crashed_thread">>) = 1
    <2>1. \A z \in Short : MinimalCount("closed", <<z>>) = IF z \in {"report", "crash"} THEN 1 ELSE 0
      BY <1>1, CountOne
    <2>2. \A y, z \in Short :
            MinimalCount("closed", <<y, z>>) = IF y = "crash" /\ z \in {"error", "crashed_thread"} THEN 1 ELSE 0
      BY <1>1, CountTwo
    <2>. QED BY <2>1, <2>2 DEF Short
  <1>11. \A c \in MinimalContents : MinimalCount("closed", c[1]) = c[2]
    BY <1>10 DEF MinimalContents
  <1>12. \A c \in MinimalContents : c[1] \in Known
    BY DEF MinimalContents, Known, Subs, Tops
  <1>. QED BY <1>8, <1>9, <1>11, <1>12 DEF Std, images, crumbs

-----------------------------------------------------------------------------
(* The report *)

\* Which files there are, and that the encoder behind each is one.
ReportTypes ==
  /\ kind \in {"standard", "minimal"}
  /\ phase \in DOMAIN StandardSteps \cup {"running", "end", "closed", "dead"}
  /\ phase = "running" => kind = "standard" /\ DOMAIN enc = {}
  /\ phase # "running" => /\ CrashOK(crash) /\ SceneOK(scene)
                          /\ DOMAIN enc = IF kind = "standard" THEN {"standard"} ELSE {"standard", "minimal"}
  /\ kind = "minimal" => phase \in {"opened", "threads", "error", "end", "closed", "dead"}
  /\ \A k \in DOMAIN enc : enc[k] \in Encoders

\* What has been written when a section begins: of the report being written,
\* every section so far, once, with all its elements, in the container where
\* the next one belongs. A report that was just opened is empty; one that is
\* ended is whole, or the disk was full.
ReportStages ==
  /\ phase = "opened" => \E room \in Nat \cup {Unlimited} : enc[kind] = BeginEncode(room)
  /\ kind = "standard" =>
       \A q \in Known :
         StandardAt(phase, enc["standard"], q, Len(Listed), Len(CrumbsInReport), Polite(scene.callback))
  /\ kind = "minimal" => \A q \in Known : MinimalAt(phase, enc["minimal"], q)

\* What parses is no report of those that were left: the standard report of a
\* process that crashed again in its handler, and one that has not been closed
\* yet, are open.
ReportEnds ==
  /\ kind = "minimal" => enc["standard"].doc.at # "end"
  /\ phase \notin {"running", "closed"} /\ (kind = "standard" => Polite(scene.callback)) => enc[kind].doc.at # "end"

\* The invariant of the report. ParsesWhole says nothing of a file that does
\* not parse yet, so it is not inductive: what counts is where the encoder is
\* and how often each path occurs at every section.
ReportInv == ReportTypes /\ ReportStages /\ ReportEnds

\* What can happen to the process is what the lemmas about the sections ask for.
LEMMA SituationTypes ==
    ASSUME NEW s \in Situations \cup Recrashes
    PROVE  CrashOK(s.crash) /\ SceneOK(s.scene) /\ s.room \in Nat \cup {Unlimited}
  BY ReportAssumption DEF SituationsOK, CrashOK, SceneOK

\* The lists of the process are sequences.
LEMMA ListTypes ==
    ASSUME ImagesInv, CrumbsInv
    PROVE  /\ Listed \in Seq(Record)
           /\ CrumbFiles \in Seq(Numbers \cup {Old, None})
  <1>1. Listed \in Seq(Record)
    BY ListedSteps DEF ImagesInv, ImagesTypeOK, Record
  <1>2. CrumbFiles \in Seq(Numbers \cup {Old, None})
    <2>1. /\ first \in Numbers /\ next \in 0 .. MaxNumber + 1 /\ first <= next
          /\ files \in [Numbers -> Numbers \cup {Old, None}]
      BY DEF CrumbsInv, CrumbsTypeOK
    <2>2. next - first \in Nat /\ \A i \in 1 .. next - first : first + i - 1 \in Numbers
      BY <2>1, CrumbsAssumption DEF Numbers
    <2>3. \A i \in 1 .. next - first : files[first + i - 1] \in Numbers \cup {Old, None}
      BY <2>1, <2>2
    <2>. HIDE DEF Numbers, Old, None
    <2>. QED BY <2>2, <2>3 DEF CrumbFiles
  <1>. QED BY <1>1, <1>2

\* As long as a report is being written its text is not at its end.
LEMMA Unended ==
    ASSUME NEW e, NEW q, NEW n
    PROVE  /\ \A P : Stage(e, P, q, n) => e \in Encoders /\ e.doc.at # "end"
           /\ Loose(e, q, n) => e \in Encoders /\ e.doc.at # "end"
  <1>1. Halted(e) => e \in Encoders /\ e.doc.at # "end"
    BY DEF Halted
  <1>2. Ready(e) => e \in Encoders /\ e.doc.at # "end"
    BY DEF Ready
  <1>. QED BY <1>1, <1>2 DEF Stage, Loose, Inside

\* Nothing is written before the crash.
LEMMA ReportStart == Init => ReportInv
  BY DEF Init, ReportInv, ReportTypes, ReportStages, ReportEnds, StandardAt, StandardSteps

\* A report is opened: its file is new.
LEMMA OpenStep ==
    ASSUME ReportInv, NEW s \in Situations \cup Recrashes, NEW k \in {"standard", "minimal"},
           OpenReport(k, s),
           k = "standard" => phase = "running",
           k = "minimal" => kind = "standard" /\ phase \in DOMAIN StandardSteps
    PROVE  ReportInv'
  <1>. DEFINE e == BeginEncode(s.room)
  <1>1. CrashOK(s.crash) /\ SceneOK(s.scene) /\ s.room \in Nat \cup {Unlimited}
    BY SituationTypes
  <1>2. e \in Encoders /\ e.doc.at # "end"
    BY <1>1, StageRoot
  <1>. HIDE DEF e
  <1>3. k \notin DOMAIN enc /\ DOMAIN enc = IF k = "standard" THEN {} ELSE {"standard"}
    BY DEF ReportInv, ReportTypes, StandardSteps
  <1>4. /\ phase' = "opened" /\ kind' = k /\ crash' = s.crash /\ scene' = s.scene
        /\ DOMAIN enc' = DOMAIN enc \cup {k} /\ enc'[k] = e /\ \A f \in DOMAIN enc : enc'[f] = enc[f]
    BY <1>3 DEF OpenReport, Written, e
  <1>5. ReportTypes'
    BY <1>1, <1>2, <1>3, <1>4 DEF ReportInv, ReportTypes, StandardSteps
  <1>6. ReportStages'
    BY <1>1, <1>4 DEF ReportStages, StandardAt, MinimalAt, e
  <1>7. k = "minimal" => enc["standard"].doc.at # "end"
    <2>. SUFFICES ASSUME k = "minimal" PROVE enc["standard"].doc.at # "end"
      OBVIOUS
    <2>1. <<"report">> \in Known
      BY DEF Known, Tops
    <2>2. CASE phase = "opened"
      <3>1. PICK room \in Nat \cup {Unlimited} : enc["standard"] = BeginEncode(room)
        BY <2>2 DEF ReportInv, ReportStages
      <3>. QED BY <3>1, StageRoot
    <2>3. CASE phase \in {"images", "threads", "error", "handler", "crumbs", "callback"}
      BY <2>1, <2>3, Unended DEF ReportInv, ReportStages, StandardAt
    <2>. QED BY <2>2, <2>3 DEF StandardSteps
  <1>8. ReportEnds'
    BY <1>2, <1>3, <1>4, <1>7 DEF ReportEnds
  <1>. QED BY <1>5, <1>6, <1>8 DEF ReportInv

\* What is listed does not change while the report is written.
LEMMA ListsUnchanged ==
    ASSUME UNCHANGED <<imageVars, crumbVars>>
    PROVE  Len(Listed)' = Len(Listed) /\ Len(CrumbsInReport)' = Len(CrumbsInReport)
  <1>1. list' = list /\ first' = first /\ next' = next /\ files' = files
    BY DEF imageVars, crumbVars
  <1>2. Listed' = Listed
    BY <1>1 DEF Listed
  <1>3. CrumbFiles' = CrumbFiles
    BY <1>1 DEF CrumbFiles
  <1>4. CrumbsInReport' = CrumbsInReport
    BY <1>3 DEF CrumbsInReport
  <1>. QED BY <1>2, <1>4

\* A section is written.
LEMMA WriteStep ==
    ASSUME ReportInv, ImagesInv, CrumbsInv, WriteSection
    PROVE  ReportInv'
  <1>. DEFINE e == enc[kind]
              p == IF kind = "standard" THEN StandardReport(phase) ELSE MinimalReport(phase)
              f == Run(e, p)
  <1>1. /\ CrashOK(crash) /\ SceneOK(scene) /\ kind \in DOMAIN enc /\ e \in Encoders /\ phase \in DOMAIN Steps(kind)
        /\ kind \in {"standard", "minimal"}
    BY DEF ReportInv, ReportTypes, WriteSection, Steps, StandardSteps, MinimalSteps
  <1>2. /\ phase' = Steps(kind)[phase] /\ kind' = kind /\ crash' = crash /\ scene' = scene
        /\ DOMAIN enc' = DOMAIN enc /\ enc'[kind] = f /\ \A k \in DOMAIN enc : k # kind => enc'[k] = enc[k]
        /\ UNCHANGED <<imageVars, crumbVars>>
    BY <1>1 DEF WriteSection
  <1>3. Len(Listed)' = Len(Listed) /\ Len(CrumbsInReport)' = Len(CrumbsInReport)
    BY <1>2, ListsUnchanged
  <1>4. Listed \in Seq(Record) /\ CrumbFiles \in Seq(Numbers \cup {Old, None})
    BY ListTypes
  <1>5. CASE kind = "standard"
    <2>1. /\ \A q \in Known :
               StandardAt(phase', f, q, Len(Listed), Len(CrumbsInReport), Polite(scene.callback))
          /\ phase' # "opened"
      <3>1. CASE phase = "opened"
        <4>1. PICK room \in Nat \cup {Unlimited} : e = BeginEncode(room)
          BY <1>5, <3>1 DEF ReportInv, ReportStages
        <4>2. phase' = "images" /\ f = Run(e, StandardReport("opened"))
          BY <1>2, <1>5, <3>1 DEF Steps, StandardSteps
        <4>. HIDE DEF f, e
        <4>3. \A q \in Known : Stage(f, <<>>, q, Opening(q))
          BY <1>1, <4>1, <4>2, OpenedStage, KnownClear
        <4>4. \A q, images, crumbs : StandardCount("images", q, images, crumbs) = Opening(q)
          BY DEF StandardCount
        <4>5. \A q \in Known : \A images, crumbs, polite : StandardAt("images", f, q, images, crumbs, polite)
          BY <4>3, <4>4 DEF StandardAt
        <4>. QED BY <4>2, <4>5
      <3>2. CASE phase # "opened"
        <4>1. phase \in {"images", "threads", "error", "handler", "crumbs", "callback"}
          BY <1>1, <1>5, <3>2 DEF Steps, StandardSteps
        <4>2. \A q \in Known : StandardAt(phase, e, q, Len(Listed), Len(CrumbsInReport), Polite(scene.callback))
          BY <1>5 DEF ReportInv, ReportStages
        <4>3. phase' = StandardSteps[phase] /\ f = Run(e, StandardReport(phase))
          BY <1>2, <1>5 DEF Steps
        <4>4. phase' # "opened"
          BY <4>1, <4>3 DEF StandardSteps
        <4>. HIDE DEF f, e
        <4>5. \A q \in Known :
                StandardAt(StandardSteps[phase], Run(e, StandardReport(phase)), q, Len(Listed), Len(CrumbsInReport),
                           Polite(scene.callback))
          BY <1>1, <1>4, <4>1, <4>2, StandardAdvance, KnownClear
        <4>. QED BY <4>3, <4>4, <4>5
      <3>. QED BY <3>1, <3>2
    <2>2. phase' \in {"images", "threads", "error", "handler", "crumbs", "callback", "end"}
      BY <1>1, <1>2, <1>5 DEF Steps, StandardSteps
    <2>3. <<"report">> \in Known
      BY DEF Known, Tops
    <2>4. f \in Encoders /\ (Polite(scene.callback) => f.doc.at # "end")
      <3>1. CASE phase' # "end"
        <4>. HIDE DEF f
        <4>. QED BY <2>1, <2>2, <2>3, <3>1, Unended DEF StandardAt
      <3>2. CASE phase' = "end"
        <4>1. phase = "callback"
          BY <1>1, <1>2, <1>5, <3>2 DEF Steps, StandardSteps
        <4>2. p = scene.callback \o <<EndC>>
          BY <1>5, <4>1 DEF StandardReport
        <4>3. scene.callback \in Seq(Calls) /\ EndC \in Calls
          BY <1>1, NamelessCalls DEF SceneOK
        <4>. HIDE DEF p, e
        <4>4. p \in Seq(Calls)
          BY <4>2, <4>3
        <4>5. f \in Encoders
          BY <1>1, <4>4, RunFrozen DEF Frozen
        <4>. HIDE DEF f
        <4>6. Polite(scene.callback) => f.doc.at # "end"
          BY <2>1, <2>3, <3>2, Unended DEF StandardAt
        <4>. QED BY <4>5, <4>6
      <3>. QED BY <3>1, <3>2
    <2>. HIDE DEF f, e, p
    <2>5. ReportTypes'
      BY <1>1, <1>2, <1>5, <2>2, <2>4 DEF ReportInv, ReportTypes, StandardSteps
    <2>6. ReportStages'
      BY <1>2, <1>3, <1>5, <2>1 DEF ReportStages
    <2>7. ReportEnds'
      BY <1>2, <1>5, <2>4 DEF ReportEnds
    <2>. QED BY <2>5, <2>6, <2>7 DEF ReportInv
  <1>6. CASE kind = "minimal"
    <2>1. (\A q \in Known : MinimalAt(phase', f, q)) /\ phase' # "opened"
      <3>1. CASE phase = "opened"
        <4>1. PICK room \in Nat \cup {Unlimited} : e = BeginEncode(room)
          BY <1>6, <3>1 DEF ReportInv, ReportStages
        <4>2. phase' = "threads" /\ f = Run(e, MinimalReport("opened"))
          BY <1>2, <1>6, <3>1 DEF Steps, MinimalSteps
        <4>. HIDE DEF f, e
        <4>3. \A q \in Known : Stage(f, <<>>, q, At(<<>>, "report", q))
          BY <1>1, <4>1, <4>2, MinimalOpened, KnownClear
        <4>4. \A q : MinimalCount("threads", q) = At(<<>>, "report", q)
          BY DEF MinimalCount
        <4>5. \A q \in Known : MinimalAt("threads", f, q)
          BY <4>3, <4>4 DEF MinimalAt
        <4>. QED BY <4>2, <4>5
      <3>2. CASE phase # "opened"
        <4>1. phase \in {"threads", "error"}
          BY <1>1, <1>6, <3>2 DEF Steps, MinimalSteps
        <4>2. \A q \in Known : MinimalAt(phase, e, q)
          BY <1>6 DEF ReportInv, ReportStages
        <4>3. phase' = MinimalSteps[phase] /\ f = Run(e, MinimalReport(phase))
          BY <1>2, <1>6 DEF Steps
        <4>4. phase' # "opened"
          BY <4>1, <4>3 DEF MinimalSteps
        <4>. HIDE DEF f, e
        <4>5. \A q \in Known : MinimalAt(MinimalSteps[phase], Run(e, MinimalReport(phase)), q)
          BY <1>1, <4>1, <4>2, MinimalAdvance, KnownClear
        <4>. QED BY <4>3, <4>4, <4>5
      <3>. QED BY <3>1, <3>2
    <2>2. phase' \in {"threads", "error", "end"}
      BY <1>1, <1>2, <1>6 DEF Steps, MinimalSteps
    <2>3. <<"report">> \in Known
      BY DEF Known, Tops
    <2>. HIDE DEF f, e, p
    <2>4. f \in Encoders /\ f.doc.at # "end"
      BY <2>1, <2>2, <2>3, Unended DEF MinimalAt
    <2>5. ReportTypes'
      BY <1>1, <1>2, <1>6, <2>2, <2>4 DEF ReportInv, ReportTypes, StandardSteps
    <2>6. ReportStages'
      BY <1>2, <1>6, <2>1 DEF ReportStages
    <2>7. ReportEnds'
      BY <1>1, <1>2, <1>6, <2>2, <2>4 DEF ReportInv, ReportTypes, Steps, MinimalSteps, ReportEnds
    <2>. QED BY <2>5, <2>6, <2>7 DEF ReportInv
  <1>. QED BY <1>1, <1>5, <1>6

\* The report is ended, whatever is still open.
LEMMA EndStep ==
    ASSUME ReportInv, EndReport
    PROVE  ReportInv'
  <1>. DEFINE e == enc[kind]
              f == EndEncode(Run(e, <<EndC>>))
  <1>1. CrashOK(crash) /\ SceneOK(scene) /\ kind \in DOMAIN enc /\ e \in Encoders /\ kind \in {"standard", "minimal"}
    BY DEF ReportInv, ReportTypes, EndReport
  <1>2. /\ phase = "end" /\ phase' = "closed" /\ kind' = kind /\ crash' = crash /\ scene' = scene
        /\ DOMAIN enc' = DOMAIN enc /\ enc'[kind] = f /\ \A k \in DOMAIN enc : k # kind => enc'[k] = enc[k]
        /\ UNCHANGED <<imageVars, crumbVars>>
    BY <1>1 DEF EndReport
  <1>3. Len(Listed)' = Len(Listed) /\ Len(CrumbsInReport)' = Len(CrumbsInReport)
    BY <1>2, ListsUnchanged
  <1>4. f \in Encoders
    <2>1. <<EndC>> \in Seq(Calls)
      BY NamelessCalls
    <2>. HIDE DEF e
    <2>2. Run(e, <<EndC>>) \in Encoders
      BY <1>1, <2>1, RunFrozen DEF Frozen
    <2>. QED BY <2>2, EndEncodeFrozen DEF Frozen
  <1>5. \A q, n : Loose(e, q, n) => Whole(f, q, n)
    BY LooseEnd
  <1>. HIDE DEF f, e
  <1>6. kind = "standard" =>
          \A q \in Known : StandardAt("closed", f, q, Len(Listed), Len(CrumbsInReport), Polite(scene.callback))
    BY <1>2, <1>5 DEF StandardCount, StandardAt, ReportInv, ReportStages, e
  <1>7. kind = "minimal" => \A q \in Known : MinimalAt("closed", f, q)
    BY <1>2, <1>5 DEF MinimalCount, MinimalAt, ReportInv, ReportStages, e
  <1>8. ReportTypes'
    BY <1>1, <1>2, <1>4 DEF ReportInv, ReportTypes
  <1>9. ReportStages'
    BY <1>1, <1>2, <1>3, <1>6, <1>7 DEF ReportStages
  <1>10. ReportEnds'
    BY <1>2 DEF ReportInv, ReportTypes, ReportEnds
  <1>. QED BY <1>8, <1>9, <1>10 DEF ReportInv

\* Every step keeps the invariant of the report.
LEMMA ReportStep ==
    ASSUME ReportInv, ImagesInv, CrumbsInv, [Next]_vars
    PROVE  ReportInv'
  <1>1. CASE AppStep
    BY <1>1 DEF AppStep, ReportInv, ReportTypes, ReportStages, ReportEnds, StandardAt, MinimalAt
  <1>2. CASE Crash
    BY <1>2, OpenStep DEF Crash
  <1>3. CASE WriteSection
    BY <1>3, WriteStep
  <1>4. CASE EndReport
    BY <1>4, EndStep
  <1>5. CASE CrashInHandler
    BY <1>5, OpenStep DEF CrashInHandler
  <1>6. CASE Killed
    BY <1>6 DEF Killed, ReportInv, ReportTypes, ReportStages, ReportEnds, StandardAt, MinimalAt
  <1>7. CASE UNCHANGED vars
    BY <1>7, ListsUnchanged DEF vars, reportVars, ReportInv, ReportTypes, ReportStages, ReportEnds
  <1>8. CASE Done
    BY <1>7, <1>8 DEF Done
  <1>. QED BY <1>1, <1>2, <1>3, <1>4, <1>5, <1>6, <1>7, <1>8 DEF Next

\* It holds always; the lists of images and breadcrumbs are those of the
\* process at the crash.
LEMMA ReportInvariant == Spec => []ReportInv
  <1>1. Init => ReportInv
    BY ReportStart
  <1>2. ReportInv /\ ImagesInv /\ CrumbsInv /\ [Next]_vars => ReportInv'
    BY ReportStep
  <1>. QED BY <1>1, <1>2, ImagesInvariant, CrumbsInvariant, PTL DEF Spec

\* A report that parses was closed, so all its sections are there.
LEMMA ReportWhole == ReportInv /\ ImagesInv /\ CrumbsInv => ParsesWhole
  <1>. SUFFICES ASSUME ReportInv, ImagesInv, CrumbsInv, NEW k \in DOMAIN enc, k = "standard" => Polite(scene.callback)
                PROVE  /\ Parses(enc[k].doc) =>
                            \A c \in IF k = "standard" THEN StandardContents ELSE MinimalContents :
                              Occurrences(enc[k].doc, c[1]) = c[2]
                       /\ phase = "closed" /\ k = kind /\ enc[k].room = Unlimited => Parses(enc[k].doc)
    BY DEF ParsesWhole
  <1>1. /\ k \in {"standard", "minimal"} /\ kind \in {"standard", "minimal"} /\ (k # kind => k = "standard")
        /\ phase # "running"
    BY DEF ReportInv, ReportTypes
  <1>2. Parses(enc[k].doc) => phase = "closed" /\ k = kind
    BY <1>1 DEF ReportInv, ReportEnds, Parses
  <1>3. Len(Listed) \in Nat /\ Len(CrumbsInReport) \in Nat
    BY ListTypes, NumberTypes
  <1>4. ASSUME phase = "closed", k = kind, NEW q, NEW n, Whole(enc[k], q, n)
        PROVE  /\ Parses(enc[k].doc) => Occurrences(enc[k].doc, q) = n
               /\ enc[k].room = Unlimited => Parses(enc[k].doc)
    BY <1>4 DEF Whole, Halted, Parses, Occ, Unlimited
  <1>5. CASE phase = "closed" /\ k = kind /\ kind = "standard"
    <2>1. \A q \in Known : Whole(enc[k], q, StandardCount("closed", q, Len(Listed), Len(CrumbsInReport)))
      BY <1>5 DEF ReportInv, ReportStages, StandardAt
    <2>2. \A c \in StandardContents : Whole(enc[k], c[1], c[2])
      BY <1>3, <2>1, Completed
    <2>3. <<"report">> \in Known
      BY DEF Known, Tops
    <2>. QED BY <1>4, <1>5, <2>1, <2>2, <2>3
  <1>6. CASE phase = "closed" /\ k = kind /\ kind = "minimal"
    BY <1>3, <1>6, Completed, <1>4 DEF ReportInv, ReportStages, MinimalAt, Known, Tops
  <1>. QED BY <1>1, <1>2, <1>5, <1>6

\* A file that parses is a whole report: each of its sections once and in its
\* place, an element for every image that is listed and every breadcrumb that
\* is read, whatever the crash, wherever the process is killed or crashes
\* again, however full the disk, and whatever a well-behaved callback adds or
\* leaves open; and a report that was closed, on a disk with room, parses.
THEOREM ReportsWhole == Spec => []ParsesWhole
  BY ReportInvariant, ImagesInvariant, CrumbsInvariant, ReportWhole, PTL

\* The crash and the scene are those of something that happened.
SituationInv ==
  /\ crash \in {s.crash : s \in Situations \cup Recrashes} \cup {Absent}
  /\ scene \in {s.scene : s \in Situations \cup Recrashes} \cup {Absent}
  /\ appSteps \in 0 .. MaxAppSteps

\* Crashes come from the situations.
LEMMA SituationStep == SituationInv /\ [Next]_vars => SituationInv'
  <1>. SUFFICES ASSUME SituationInv, [Next]_vars PROVE SituationInv'
    OBVIOUS
  <1>. USE ReportAssumption DEF SituationInv
  <1>1. CASE AppStep
    BY <1>1 DEF AppStep
  <1>2. ASSUME NEW s \in Situations \cup Recrashes, NEW k, OpenReport(k, s) PROVE SituationInv'
    BY <1>2 DEF OpenReport
  <1>3. CASE Crash
    BY <1>2, <1>3 DEF Crash
  <1>4. CASE CrashInHandler
    BY <1>2, <1>4 DEF CrashInHandler
  <1>5. CASE UNCHANGED <<crash, scene, appSteps>>
    BY <1>5
  <1>. QED BY <1>1, <1>3, <1>4, <1>5 DEF Next, WriteSection, EndReport, Killed, Done, vars, reportVars

\* The variables have their types: in particular every encoder stays one, its
\* levels Booleans and its file a document the acceptor knows, after any call
\* of the report writer.
THEOREM ReportTypeCorrect == Spec => []TypeOK
  <1>1. Init => SituationInv
    BY ReportAssumption DEF Init, SituationInv
  <1>2. SituationInv /\ ReportInv /\ ImagesInv /\ CrumbsInv => TypeOK
    <2>. SUFFICES ASSUME SituationInv, ReportInv, ImagesInv, CrumbsInv PROVE TypeOK
      OBVIOUS
    <2>1. DOMAIN enc \subseteq {"standard", "minimal"}
      BY DEF ReportInv, ReportTypes
    <2>. QED BY <2>1 DEF SituationInv, ReportInv, ReportTypes, ImagesInv, CrumbsInv, TypeOK
  <1>. QED BY <1>1, <1>2, SituationStep, ReportInvariant, ImagesInvariant, CrumbsInvariant, PTL DEF Spec

-----------------------------------------------------------------------------
(* Stacks.                                                                 *)
(* The loops of the code end, so each recursive function is one of the     *)
(* functions that can be built up step by step.                            *)

\* The frames as the loops find them.
LEMMA FramesSteps ==
    ASSUME NEW m
    PROVE  /\ Frames(m)[1] = Copied(m, m.fp)
           /\ \A k \in 2 .. GiveUpPoint + 1 : Frames(m)[k] = Above(m, Frames(m)[k - 1])
  <1>. DEFINE L == GiveUpPoint + 1
              b == Copied(m, m.fp)
              Works(g) == g = [k \in 1 .. L |-> IF k = 1 THEN b ELSE Above(m, g[k - 1])]
              f == CHOOSE g : Works(g)
  <1>1. Frames(m) = f
    BY DEF Frames, Above, Copied
  <1>2. L \in Nat \ {0} /\ 1 \in {0, 1} /\ 1 \in Nat /\ 1 <= 1
    BY ToolsAssumption
  <1>3. \A u, k : Step("frames", m, u, k) = Above(m, u)
    BY DEF Step
  <1>. HIDE DEF L, b
  <1>4. PICK g : Recursive(g, "frames", m, b, 1, 1, L)
    BY <1>2, Recursion, Zenon
  <1>5. Works(g)
    <2>1. ASSUME NEW k \in 1 .. L PROVE g[k] = IF k = 1 THEN b ELSE Above(m, g[k - 1])
      <3>1. g[k] = IF k <= 1 THEN b ELSE Step("frames", m, g[k - 1], k)
        BY <1>4 DEF Recursive
      <3>. QED BY <1>3, <3>1
    <2>. QED BY <1>4, <2>1 DEF Recursive
  <1>6. Works(f)
    <2>. HIDE DEF Works
    <2>. QED BY <1>5
  <1>. HIDE DEF f
  <1>7. f[1] = b /\ \A k \in 2 .. L : f[k] = Above(m, f[k - 1])
    BY <1>2, <1>6
  <1>. QED BY <1>1, <1>7 DEF L, b

\* Behind a frame that cannot be read there is none; so the frames that can
\* be read are the first ones, as many as the length says.
LEMMA FramesLength ==
    ASSUME NEW m, m.ip # NULL, Frames(m)[1] # NULL
    PROVE  /\ BacktraceLength(m) \in 1 .. GiveUpPoint
           /\ \A k \in 1 .. GiveUpPoint : Frames(m)[k] # NULL <=> k <= BacktraceLength(m)
  <1>. DEFINE f == Frames(m)
              S == {k \in 1 .. GiveUpPoint : f[k] # NULL}
              L == BacktraceLength(m)
  <1>1. GiveUpPoint \in Nat \ {0}
    BY ToolsAssumption
  <1>2. \A k \in 2 .. GiveUpPoint + 1 : f[k - 1] = NULL => f[k] = NULL
    BY FramesSteps, Zenon DEF Above
  <1>3. f[1] # NULL /\ L = Max(S)
    BY DEF BacktraceLength
  <1>. HIDE DEF f, L
  <1>4. 1 \in S /\ S \subseteq 0 .. GiveUpPoint
    BY <1>1, <1>3
  <1>5. L \in S /\ \A k \in S : k <= L
    <2>. HIDE DEF S
    <2>. QED BY <1>1, <1>3, <1>4, GreatestNumber
  <1>6. ASSUME NEW k \in 1 .. GiveUpPoint, f[k] = NULL PROVE ~(k <= L)
    <2>. DEFINE B == {j \in 0 .. GiveUpPoint - k : f[k + j] = NULL}
    <2>0. L \in 1 .. GiveUpPoint /\ f[L] # NULL
      BY <1>5
    <2>1. 0 \in 0 .. GiveUpPoint - k /\ k + 0 = k
      BY <1>1
    <2>. HIDE DEF S
    <2>1a. 0 \in B
      BY <1>6, <2>1
    <2>2. ASSUME NEW j \in 0 .. GiveUpPoint - k - 1, j \in B PROVE j + 1 \in B
      BY <1>1, <1>2, <2>2
    <2>3. GiveUpPoint - k \in Nat
      BY <1>1
    <2>4. 0 .. GiveUpPoint - k \subseteq B
      <3>. HIDE DEF B
      <3>. QED BY <2>1a, <2>2, <2>3, UpToInduction
    <2>5. SUFFICES ASSUME k <= L PROVE FALSE
      OBVIOUS
    <2>6. L - k \in 0 .. GiveUpPoint - k /\ k + (L - k) = L
      BY <1>1, <2>0, <2>5
    <2>7. f[k + (L - k)] = NULL
      <3>1. L - k \in B
        BY <2>4, <2>6, Zenon
      <3>. QED BY <3>1
    <2>. QED BY <2>0, <2>6, <2>7, Zenon
  <1>7. \A k \in 1 .. GiveUpPoint : f[k] # NULL <=> k <= L
    BY <1>5, <1>6
  <1>. QED BY <1>5, <1>7 DEF f, L

\* What the return addresses of the first frames lead to.
Returns(m, start, n) == [j \in 1 .. n |-> m.ret[Frames(m)[start + j - 1]]]

\* A set that has all addresses a stack leads to.
Addressed(m, S) == m.ip \in S /\ m.lr \in S /\ \A k \in 1 .. GiveUpPoint : m.ret[Frames(m)[k]] \in S

Unbroken(m) == \A k \in 1 .. BacktraceLength(m) - 1 : m.ret[Frames(m)[k]] # NULL

\* Some of the return addresses.
LEMMA ReturnsType ==
    ASSUME NEW m, NEW S, Addressed(m, S), NEW a \in Nat \ {0}, NEW n \in Nat, a + n <= GiveUpPoint + 1
    PROVE  /\ Returns(m, a, n) \in Seq(S) /\ Len(Returns(m, a, n)) = n
           /\ \A j \in 1 .. n : Returns(m, a, n)[j] = m.ret[Frames(m)[a + j - 1]]
  <1>1. \A j \in 1 .. n : a + j - 1 \in 1 .. GiveUpPoint
    BY ToolsAssumption
  <1>2. \A j \in 1 .. n : m.ret[Frames(m)[a + j - 1]] \in S
    BY <1>1 DEF Addressed
  <1>. QED BY <1>2 DEF Returns

\* The whole stack, entry by entry.
LEMMA WalkIs ==
    ASSUME NEW m, NEW S, Addressed(m, S), m.ip # NULL, Frames(m)[1] # NULL
    PROVE  /\ Walk(m) \in Seq(S) /\ Len(Walk(m)) = BacktraceLength(m) /\ Walk(m)[1] = m.ip
           /\ \A k \in 2 .. BacktraceLength(m) : Walk(m)[k] = m.ret[Frames(m)[k - 1]]
  <1>. DEFINE L == BacktraceLength(m)
              t == Returns(m, 1, L - 1)
  <1>1. L \in 1 .. GiveUpPoint
    BY FramesLength
  <1>2. Walk(m) = <<m.ip>> \o t
    BY <1>1 DEF Returns, Walk
  <1>3. L - 1 \in Nat /\ 1 + (L - 1) <= GiveUpPoint + 1
    BY <1>1, ToolsAssumption
  <1>4. t \in Seq(S) /\ Len(t) = L - 1 /\ \A j \in 1 .. L - 1 : t[j] = m.ret[Frames(m)[1 + j - 1]]
    <2>. HIDE DEF L
    <2>. QED BY <1>3, ReturnsType
  <1>. HIDE DEF L, t
  <1>5. <<m.ip>> \in Seq(S) /\ Len(<<m.ip>>) = 1 /\ <<m.ip>>[1] = m.ip
    BY DEF Addressed
  <1>6. /\ <<m.ip>> \o t \in Seq(S) /\ Len(<<m.ip>> \o t) = L
        /\ \A i \in 1 .. L : (<<m.ip>> \o t)[i] = IF i <= 1 THEN <<m.ip>>[i] ELSE t[i - 1]
    BY <1>1, <1>4, <1>5, ConcatProperties
  <1>7. ASSUME NEW k \in 2 .. L PROVE (<<m.ip>> \o t)[k] = m.ret[Frames(m)[k - 1]]
    BY <1>1, <1>4, <1>6
  <1>8. 1 \in 1 .. L
    BY <1>1
  <1>. QED BY <1>2, <1>5, <1>6, <1>7, <1>8 DEF L

\* The local names of the function that stores the entries.
Put(m, skip) == (IF skip = 0 THEN <<m.ip>> ELSE <<>>) \o (IF skip <= 1 /\ m.lr # NULL THEN <<m.lr>> ELSE <<>>)
Counted(m, start, room_) ==
  {n \in 0 .. room_ : \A j \in 0 .. n - 1 : /\ m.ret[Frames(m)[start + j]] # NULL
                                            /\ Frames(m)[start + j + 1] # NULL}

\* How many entries are counted: not beyond the room nor the stack, and, if no
\* return address is missing, up to one of the two.
LEMMA CountedIs ==
    ASSUME NEW m, m.ip # NULL, Frames(m)[1] # NULL,
           NEW a \in 1 .. BacktraceLength(m), NEW room \in Nat, a + room <= GiveUpPoint,
           NEW C, C = Counted(m, a, room)
    PROVE  /\ Max(C) \in 0 .. room /\ a + Max(C) <= BacktraceLength(m)
           /\ Unbroken(m) => Max(C) >= room \/ Max(C) >= BacktraceLength(m) - a
  <1>. DEFINE L == BacktraceLength(m)
              f == Frames(m)
              c == Max(C)
  <1>1. L \in 1 .. GiveUpPoint /\ \A k \in 1 .. GiveUpPoint : f[k] # NULL <=> k <= L
    BY FramesLength
  <1>2. a \in 1 .. L
    OBVIOUS
  <1>3. GiveUpPoint \in Nat
    BY ToolsAssumption
  <1>4. \A n : n \in C <=> n \in 0 .. room /\ \A j \in 0 .. n - 1 : m.ret[f[a + j]] # NULL /\ f[a + j + 1] # NULL
    BY DEF Counted
  <1>5. Unbroken(m) => \A k \in 1 .. L - 1 : m.ret[f[k]] # NULL
    BY DEF Unbroken
  <1>. HIDE DEF L, f, c
  <1>6. 0 \in C /\ C \subseteq 0 .. room
    BY <1>4
  <1>7. c \in C /\ \A n \in C : n <= c
    BY <1>6, GreatestNumber DEF c
  <1>8. c \in 0 .. room
    BY <1>6, <1>7
  <1>9. a + c <= L
    <2>1. CASE c = 0
      BY <1>1, <1>2, <2>1
    <2>2. CASE c # 0
      BY <1>1, <1>2, <1>3, <1>4, <1>7, <1>8, <2>2
    <2>. QED BY <2>1, <2>2
  <1>10. ASSUME Unbroken(m) PROVE c >= room \/ c >= L - a
    <2>. SUFFICES ASSUME c < room, c < L - a PROVE FALSE
      BY <1>1, <1>2, <1>8
    <2>1. c + 1 \in 0 .. room
      BY <1>8
    <2>2. ASSUME NEW j \in 0 .. (c + 1) - 1 PROVE m.ret[f[a + j]] # NULL /\ f[a + j + 1] # NULL
      BY <1>1, <1>2, <1>3, <1>5, <1>8, <1>10
    <2>3. c + 1 \in C
      BY <1>4, <2>1, <2>2
    <2>. QED BY <1>7, <1>8, <2>3
  <1>. QED BY <1>8, <1>9, <1>10 DEF L, c

\* The entries, with the local names spelled out.
LEMMA ThreadStateIs ==
    ASSUME NEW m, NEW skip, NEW n
    PROVE  BacktraceThreadState(m, skip, n)
             = IF n - Len(Put(m, skip)) <= 0 THEN SubSeq(Put(m, skip), 1, n)
               ELSE IF Frames(m)[Max({1, skip})] = NULL THEN <<>>
               ELSE Put(m, skip) \o Returns(m, Max({1, skip}), Max(Counted(m, Max({1, skip}), n - Len(Put(m, skip)))))
  BY Zenon DEF BacktraceThreadState, Put, Counted, Returns

\* The entries of a stack that is cut.
LEMMA EntriesCut ==
    ASSUME NEW m, NEW S, Addressed(m, S), m.ip # NULL, Frames(m)[1] # NULL,
           NEW skip \in Nat, skip >= 2, skip + MaxBacktraceDepth <= BacktraceLength(m)
    PROVE  \E c \in 0 .. MaxBacktraceDepth :
             /\ skip + c <= BacktraceLength(m)
             /\ BacktraceThreadState(m, skip, MaxBacktraceDepth) = Returns(m, skip, c)
             /\ Unbroken(m) => c = MaxBacktraceDepth
  <1>. DEFINE L == BacktraceLength(m)
              room == MaxBacktraceDepth
              c == Max(Counted(m, skip, room))
  <1>1. L \in 1 .. GiveUpPoint /\ room \in Nat \ {0} /\ GiveUpPoint \in Nat
    BY FramesLength, ToolsAssumption
  <1>2. skip \in 1 .. L /\ skip + room <= GiveUpPoint
    BY <1>1
  <1>3. /\ c \in 0 .. room /\ skip + c <= L
        /\ Unbroken(m) => c >= room \/ c >= L - skip
    BY <1>1, <1>2, CountedIs
  <1>4. Max({1, skip}) = skip
    BY GreatestNumber
  <1>5. Frames(m)[skip] # NULL
    BY <1>1, <1>2, FramesLength
  <1>. HIDE DEF c
  <1>6. Returns(m, skip, c) \in Seq(S)
    BY <1>1, <1>2, <1>3, ReturnsType
  <1>7. Put(m, skip) = <<>>
    <2>1. Put(m, skip) = <<>> \o <<>>
      BY DEF Put
    <2>. QED BY <2>1, ConcatEmptySeq, EmptySeq
  <1>8. room = room - Len(Put(m, skip)) /\ ~(room <= 0)
    BY <1>1, <1>7
  <1>9. BacktraceThreadState(m, skip, room) = Put(m, skip) \o Returns(m, skip, c)
    BY <1>4, <1>5, <1>8, ThreadStateIs DEF c
  <1>10. BacktraceThreadState(m, skip, room) = Returns(m, skip, c)
    BY <1>6, <1>7, <1>9, ConcatEmptySeq
  <1>11. Unbroken(m) => c = room
    BY <1>1, <1>2, <1>3
  <1>. QED BY <1>3, <1>10, <1>11

\* The registers that are stored before the return addresses.
LEMMA PutIs ==
    ASSUME NEW m, NEW S, Addressed(m, S), NEW skip
    PROVE  /\ Put(m, skip) \in Seq(S) /\ Len(Put(m, skip)) \in 0 .. 2
           /\ skip = 0 => /\ Len(Put(m, skip)) \in 1 .. 2 /\ (Len(Put(m, skip)) = 2 <=> m.lr # NULL)
                          /\ Put(m, skip)[1] = m.ip
  <1>. DEFINE a == IF skip = 0 THEN <<m.ip>> ELSE <<>>
              b == IF skip <= 1 /\ m.lr # NULL THEN <<m.lr>> ELSE <<>>
  <1>1. Put(m, skip) = a \o b
    BY DEF Put
  <1>2. a \in Seq(S) /\ Len(a) \in 0 .. 1 /\ (skip = 0 => Len(a) = 1 /\ a[1] = m.ip)
    BY DEF Addressed
  <1>3. b \in Seq(S) /\ Len(b) \in 0 .. 1 /\ (skip = 0 => (Len(b) = 1 <=> m.lr # NULL))
    BY DEF Addressed
  <1>. HIDE DEF a, b
  <1>4. /\ a \o b \in Seq(S) /\ Len(a \o b) = Len(a) + Len(b)
        /\ \A i \in 1 .. Len(a) + Len(b) : (a \o b)[i] = IF i <= Len(a) THEN a[i] ELSE b[i - Len(a)]
    BY <1>2, <1>3, ConcatProperties
  <1>5. ASSUME skip = 0 PROVE (a \o b)[1] = m.ip
    BY <1>2, <1>3, <1>4, <1>5
  <1>. QED BY <1>1, <1>2, <1>3, <1>4, <1>5

\* Whatever the stack, what is stored fits the buffer.
LEMMA EntriesFit ==
    ASSUME NEW m, NEW skip, NEW n \in Nat \ {0}
    PROVE  Len(BacktraceThreadState(m, skip, n)) \in 0 .. n
  <1>. DEFINE p == Put(m, skip)
              a == Max({1, skip})
              c == Max(Counted(m, a, n - Len(p)))
              r == Returns(m, a, c)
              S == {m.ip, m.lr} \cup {m.ret[Frames(m)[k]] : k \in 1 .. GiveUpPoint} \cup {m.ret[Frames(m)[a + j - 1]] : j \in 1 .. c}
  <1>1. BacktraceThreadState(m, skip, n)
          = IF n - Len(p) <= 0 THEN SubSeq(p, 1, n)
            ELSE IF Frames(m)[a] = NULL THEN <<>> ELSE p \o r
    BY ThreadStateIs
  <1>2. p \in Seq(S) /\ Len(p) \in 0 .. 2
    <2>1. Addressed(m, S)
      BY DEF Addressed
    <2>. HIDE DEF S
    <2>. QED BY <2>1, PutIs
  <1>3. CASE n - Len(p) <= 0
    <2>. HIDE DEF p, S
    <2>1. \A i \in 1 .. n : p[i] \in S
      BY <1>2, <1>3, ElementOfSeq
    <2>2. Len(SubSeq(p, 1, n)) = n
      BY <2>1, SubSeqProperties
    <2>. QED BY <1>1, <1>3, <2>2
  <1>4. CASE ~(n - Len(p) <= 0) /\ Frames(m)[a] = NULL
    BY <1>1, <1>4, EmptySeq
  <1>5. CASE ~(n - Len(p) <= 0) /\ Frames(m)[a] # NULL
    <2>1. n - Len(p) \in Nat
      BY <1>2, <1>5
    <2>2. c \in 0 .. n - Len(p)
      <3>1. 0 \in Counted(m, a, n - Len(p)) /\ Counted(m, a, n - Len(p)) \subseteq 0 .. n - Len(p)
        BY <2>1 DEF Counted
      <3>. HIDE DEF p, a
      <3>2. c \in Counted(m, a, n - Len(p))
        BY <2>1, <3>1, GreatestNumber
      <3>. QED BY <3>1, <3>2
    <2>3. r \in Seq(S) /\ Len(r) = c
      <3>1. \A j \in 1 .. c : m.ret[Frames(m)[a + j - 1]] \in S
        OBVIOUS
      <3>. HIDE DEF S, a, c
      <3>2. c \in Nat
        BY <2>1, <2>2
      <3>. QED BY <3>1, <3>2 DEF Returns
    <2>. HIDE DEF p, r, S, a, c
    <2>4. Len(p \o r) = Len(p) + c
      BY <1>2, <2>3, ConcatProperties
    <2>. QED BY <1>1, <1>2, <1>5, <2>2, <2>4
  <1>. QED BY <1>3, <1>4, <1>5

\* The entries of a stack that is not cut: behind the instruction address (and
\* the link register) return addresses, in order.
LEMMA EntriesShort ==
    ASSUME NEW m, NEW S, Addressed(m, S), m.ip # NULL, Frames(m)[1] # NULL,
           NEW e, e = BacktraceThreadState(m, 0, MaxBacktraceDepth),
           NEW q \in {0, 1}, q = 1 <=> m.lr # NULL /\ Len(e) >= 2
    PROVE  /\ e \in Seq(S) /\ Len(e) >= 1 + q /\ Len(e) - q <= BacktraceLength(m) /\ e[1] = m.ip
           /\ \A k \in 2 .. Len(e) - q : e[k + q] = m.ret[Frames(m)[k - 1]]
           /\ Unbroken(m) => Len(e) >= MaxBacktraceDepth \/ Len(e) - q >= BacktraceLength(m)
  <1>. DEFINE L == BacktraceLength(m)
              n == MaxBacktraceDepth
              p == Put(m, 0)
              c == Max(Counted(m, 1, n - Len(p)))
              r == Returns(m, 1, c)
  <1>0. q \in {0, 1} /\ (q = 1 <=> m.lr # NULL /\ Len(e) >= 2)
    OBVIOUS
  <1>1. L \in 1 .. GiveUpPoint /\ n \in Nat \ {0} /\ GiveUpPoint \in Nat /\ n < GiveUpPoint
    BY FramesLength, ToolsAssumption
  <1>2. Max({1, 0}) = 1
    BY GreatestNumber
  <1>3. e = IF n - Len(p) <= 0 THEN SubSeq(p, 1, n) ELSE p \o r
    BY <1>2, ThreadStateIs
  <1>4. p \in Seq(S) /\ Len(p) \in 1 .. 2 /\ (Len(p) = 2 <=> m.lr # NULL) /\ p[1] = m.ip
    BY PutIs
  <1>5. CASE n - Len(p) <= 0
    <2>. HIDE DEF p, L
    <2>1. \A i \in 1 .. n : p[i] \in S
      BY <1>1, <1>4, <1>5, ElementOfSeq
    <2>2. SubSeq(p, 1, n) \in Seq(S) /\ Len(SubSeq(p, 1, n)) = n /\ SubSeq(p, 1, n)[1] = p[1 + 1 - 1]
      BY <1>1, <2>1, SubSeqProperties
    <2>3. e \in Seq(S) /\ Len(e) = n /\ e[1] = m.ip
      <3>1. e = SubSeq(p, 1, n)
        BY <1>3, <1>5, Zenon
      <3>2. 1 + 1 - 1 = 1
        OBVIOUS
      <3>. QED BY <1>4, <2>2, <3>1, <3>2, Zenon
    <2>. DEFINE l == Len(e)
    <2>4. l = 1 + q
      <3>. HIDE DEF n
      <3>. DEFINE w == Len(p)
      <3>0. n \in Nat \ {0} /\ w \in 1 .. 2 /\ n - w <= 0
        BY <1>1, <1>4, <1>5
      <3>1. n = 1 \/ (n = 2 /\ m.lr # NULL)
        <4>. HIDE DEF w
        <4>1. n = 1 \/ (n = 2 /\ w = 2)
          BY <3>0
        <4>. QED BY <1>4, <4>1, Zenon DEF w
      <3>2. l = n
        BY <2>3
      <3>. HIDE DEF l
      <3>3. q = 1 <=> m.lr # NULL /\ l >= 2
        BY <1>0 DEF l
      <3>. QED BY <1>0, <3>1, <3>2, <3>3
    <2>. HIDE DEF l
    <2>5. ASSUME NEW k \in 2 .. l - q PROVE FALSE
      BY <1>0, <2>4
    <2>6. L \in Nat /\ l - q <= L /\ l >= 1 + q
      BY <1>0, <1>1, <2>4
    <2>7. Len(e) >= n
      BY <1>1, <2>3
    <2>. QED BY <2>3, <2>5, <2>6, <2>7, Zenon DEF L, l, n
  <1>6. CASE ~(n - Len(p) <= 0)
    <2>. DEFINE room == n - Len(p)
                d == Len(p) - 1
    <2>1. room \in Nat /\ 1 + room <= GiveUpPoint /\ 1 \in 1 .. L /\ d \in 0 .. 1
      BY <1>1, <1>4, <1>6
    <2>2. /\ c \in 0 .. room /\ 1 + c <= L
          /\ Unbroken(m) => c >= room \/ c >= L - 1
      <3>. HIDE DEF p
      <3>. QED BY <2>1, CountedIs
    <2>. HIDE DEF c
    <2>2a. c \in Nat /\ 1 \in Nat \ {0} /\ 1 + c <= GiveUpPoint + 1
      BY <1>1, <2>1, <2>2
    <2>3. r \in Seq(S) /\ Len(r) = c /\ \A j \in 1 .. c : r[j] = m.ret[Frames(m)[1 + j - 1]]
      BY <2>2a, ReturnsType
    <2>. HIDE DEF p, r, L
    <2>4. /\ p \o r \in Seq(S) /\ Len(p \o r) = Len(p) + c
          /\ \A i \in 1 .. Len(p) + c : (p \o r)[i] = IF i <= Len(p) THEN p[i] ELSE r[i - Len(p)]
      <3>1. p \in Seq(S) /\ r \in Seq(S) /\ Len(r) = c
        BY <1>4, <2>3
      <3>2. /\ p \o r \in Seq(S) /\ Len(p \o r) = Len(p) + Len(r)
            /\ \A i \in 1 .. Len(p) + Len(r) : (p \o r)[i] = IF i <= Len(p) THEN p[i] ELSE r[i - Len(p)]
        BY <3>1, ConcatProperties, Zenon
      <3>. QED BY <3>1, <3>2, Zenon
    <2>5. e = p \o r
      BY <1>3, <1>6
    <2>6. c \in Nat /\ Len(p) = 1 + d
      BY <1>4, <2>1, <2>2
    <2>. HIDE DEF d
    <2>7. e \in Seq(S) /\ Len(e) = (1 + d) + c
      BY <2>4, <2>5, <2>6
    <2>8. e[1] = m.ip
      <3>1. 1 \in 1 .. Len(p) + c /\ 1 <= Len(p)
        BY <2>1, <2>6
      <3>. QED BY <1>4, <2>4, <2>5, <3>1
    <2>9. d = q
      <3>. DEFINE l == Len(e)
      <3>1. l = (1 + d) + c
        BY <2>7
      <3>2. q = 1 <=> m.lr # NULL /\ l >= 2
        BY <1>0
      <3>. HIDE DEF l
      <3>3. d = 1 <=> m.lr # NULL
        BY <1>4, <2>6, <2>1
      <3>. QED BY <1>0, <2>1, <2>6, <3>1, <3>2, <3>3
    <2>10. Len(e) - q = 1 + c
      BY <2>1, <2>6, <2>7, <2>9
    <2>11. ASSUME NEW k \in 2 .. 1 + c PROVE e[k + q] = m.ret[Frames(m)[k - 1]]
      <3>1. k + d \in 1 .. Len(p) + c /\ ~(k + d <= Len(p)) /\ (k + d) - Len(p) = k - 1 /\ k - 1 \in 1 .. c /\ 1 + (k - 1) - 1 = k - 1
        BY <2>1, <2>6
      <3>2. (p \o r)[k + d] = r[k - 1]
        BY <2>4, <3>1
      <3>3. r[k - 1] = m.ret[Frames(m)[1 + (k - 1) - 1]]
        BY <2>3, <3>1
      <3>. QED BY <2>5, <2>9, <3>1, <3>2, <3>3
    <2>12. Unbroken(m) => Len(e) >= n \/ Len(e) - q >= L
      BY <1>1, <2>1, <2>2, <2>6, <2>7, <2>10
    <2>13. Len(e) >= 1 + q /\ Len(e) - q <= L
      BY <2>1, <2>2, <2>6, <2>7, <2>9, <2>10
    <2>. QED BY <2>7, <2>8, <2>10, <2>11, <2>12, <2>13, Zenon DEF L
  <1>. QED BY <1>5, <1>6

\* The length of a stack.
LEMMA LengthIs ==
    ASSUME NEW m
    PROVE  /\ BacktraceLength(m) \in 0 .. GiveUpPoint
           /\ m.ip # NULL /\ Frames(m)[1] = NULL => BacktraceLength(m) = 1
           /\ m.ip = NULL => BacktraceLength(m) = 0
  <1>1. GiveUpPoint \in Nat \ {0}
    BY ToolsAssumption
  <1>2. CASE m.ip = NULL
    <2>1. BacktraceLength(m) = 0
      BY <1>2 DEF BacktraceLength
    <2>. QED BY <1>1, <1>2, <2>1
  <1>3. CASE m.ip # NULL /\ Frames(m)[1] = NULL
    <2>1. BacktraceLength(m) = 1
      BY <1>3 DEF BacktraceLength
    <2>. QED BY <1>1, <1>3, <2>1
  <1>4. CASE m.ip # NULL /\ Frames(m)[1] # NULL
    BY <1>4, FramesLength, <1>1
  <1>. QED BY <1>2, <1>3, <1>4

\* A sequence that is a piece of another one.
LEMMA PieceIs ==
    ASSUME NEW S, NEW w \in Seq(S), NEW t \in Seq(S), NEW skip \in Nat,
           skip + Len(w) <= Len(t), \A k \in 1 .. Len(w) : w[k] = t[skip + k]
    PROVE  w = SubSeq(t, skip + 1, skip + Len(w))
  <1>. DEFINE l == Len(w)
              u == SubSeq(t, skip + 1, skip + l)
  <1>1. l \in Nat /\ Len(t) \in Nat
    BY LenProperties
  <1>2. \A i \in skip + 1 .. skip + l : t[i] \in S
    <2>1. skip + l <= Len(t)
      OBVIOUS
    <2>. HIDE DEF l
    <2>2. \A i \in skip + 1 .. skip + l : i \in 1 .. Len(t)
      BY <1>1, <2>1
    <2>. QED BY <2>2, ElementOfSeq
  <1>3. skip + 1 \in Int /\ skip + l \in Int
    BY <1>1
  <1>4. /\ u \in Seq(S) /\ Len(u) = IF skip + 1 <= skip + l THEN (skip + l) - (skip + 1) + 1 ELSE 0
        /\ \A i \in 1 .. (skip + l) - (skip + 1) + 1 : u[i] = t[(skip + 1) + i - 1]
    <2>. HIDE DEF l
    <2>. QED BY <1>2, <1>3, SubSeqProperties
  <1>5. \A k \in 1 .. l : w[k] = t[skip + k]
    OBVIOUS
  <1>. HIDE DEF u
  <1>6. Len(u) = l
    <2>. HIDE DEF l
    <2>. QED BY <1>1, <1>4
  <1>7. ASSUME NEW k \in 1 .. l PROVE w[k] = u[k]
    <2>. HIDE DEF l
    <2>1. k \in 1 .. (skip + l) - (skip + 1) + 1 /\ (skip + 1) + k - 1 = skip + k
      BY <1>1
    <2>. QED BY <1>4, <1>5, <2>1
  <1>8. w = u
    BY <1>4, <1>6, <1>7, SeqEqual
  <1>. QED BY <1>8 DEF u

\* The addresses of one stack.
AddressesOf(m) == {m.ip, m.lr} \cup {m.ret[Frames(m)[k]] : k \in 1 .. GiveUpPoint}

\* If the stack is whole, no return address is missing.
LEMMA WholeUnbroken ==
    ASSUME NEW m, m.ip # NULL, Frames(m)[1] # NULL, \A k \in DOMAIN Walk(m) : Walk(m)[k] # NULL
    PROVE  Unbroken(m)
  <1>. DEFINE L == BacktraceLength(m)
  <1>1. L \in 1 .. GiveUpPoint
    BY FramesLength
  <1>2. Addressed(m, AddressesOf(m))
    BY DEF Addressed, AddressesOf
  <1>3. /\ Walk(m) \in Seq(AddressesOf(m)) /\ Len(Walk(m)) = L
        /\ \A k \in 2 .. L : Walk(m)[k] = m.ret[Frames(m)[k - 1]]
    BY <1>2, WalkIs
  <1>4. DOMAIN Walk(m) = 1 .. L
    BY <1>3, LenProperties
  <1>. HIDE DEF L
  <1>5. ASSUME NEW k \in 1 .. L - 1 PROVE m.ret[Frames(m)[k]] # NULL
    <2>1. k + 1 \in 2 .. L /\ k + 1 \in 1 .. L /\ (k + 1) - 1 = k
      BY <1>1
    <2>2. Walk(m)[k + 1] = m.ret[Frames(m)[k]]
      BY <1>3, <2>1
    <2>3. Walk(m)[k + 1] # NULL
      BY <1>4, <2>1, Zenon
    <2>. QED BY <2>2, <2>3
  <1>. QED BY <1>5 DEF Unbroken, L

\* A stack that is not cut is shown from its first entry on.
LEMMA ShortHonest ==
    ASSUME NEW m, m.ip # NULL, Frames(m)[1] # NULL,
           NEW e, e = BacktraceThreadState(m, 0, MaxBacktraceDepth),
           NEW w, w = IF m.lr # NULL /\ Len(e) >= 2 THEN <<e[1]>> \o SubSeq(e, 3, Len(e)) ELSE e
    PROVE  /\ w = SubSeq(Walk(m), 0 + 1, 0 + Len(w))
           /\ Unbroken(m) => Len(e) >= Min({Len(Walk(m)), MaxBacktraceDepth})
  <1>. DEFINE L == BacktraceLength(m)
              S == AddressesOf(m)
              q == IF m.lr # NULL /\ Len(e) >= 2 THEN 1 ELSE 0
              l == Len(e)
              t == Walk(m)
  <1>1. Addressed(m, S)
    BY DEF Addressed, AddressesOf
  <1>2. L \in 1 .. GiveUpPoint
    BY FramesLength
  <1>. HIDE DEF S
  <1>3. /\ e \in Seq(S) /\ l >= 1 + q /\ l - q <= L /\ e[1] = m.ip
        /\ \A k \in 2 .. l - q : e[k + q] = m.ret[Frames(m)[k - 1]]
        /\ Unbroken(m) => l >= MaxBacktraceDepth \/ l - q >= L
    <2>1. q \in {0, 1} /\ (q = 1 <=> m.lr # NULL /\ Len(e) >= 2)
      <3>1. CASE m.lr # NULL /\ Len(e) >= 2
        <4>1. q = 1
          BY <3>1, Zenon
        <4>. QED BY <3>1, <4>1
      <3>2. CASE ~(m.lr # NULL /\ Len(e) >= 2)
        <4>1. q = 0
          BY <3>2, Zenon
        <4>. QED BY <3>2, <4>1
      <3>. QED BY <3>1, <3>2
    <2>. HIDE DEF q
    <2>. QED BY <1>1, <2>1, EntriesShort
  <1>4. /\ t \in Seq(S) /\ Len(t) = L /\ t[1] = m.ip
        /\ \A k \in 2 .. L : t[k] = m.ret[Frames(m)[k - 1]]
    BY <1>1, WalkIs
  <1>5. l \in Nat
    BY <1>3, LenProperties
  <1>6. w \in Seq(S) /\ Len(w) = l - q /\ w[1] = m.ip /\ \A k \in 2 .. l - q : w[k] = e[k + q]
    <2>1. CASE m.lr # NULL /\ l >= 2
      <3>. DEFINE s == SubSeq(e, 3, l)
      <3>1. w = <<e[1]>> \o s /\ q = 1
        BY <2>1, Zenon
      <3>. HIDE DEF q, L, t
      <3>2. \A i \in 3 .. l : e[i] \in S
        <4>. HIDE DEF l
        <4>1. \A i \in 3 .. l : i \in 1 .. l
          BY <1>5
        <4>. QED BY <1>3, <4>1, ElementOfSeq DEF l
      <3>3. s \in Seq(S) /\ Len(s) = (IF 3 <= l THEN l - 3 + 1 ELSE 0) /\ \A i \in 1 .. l - 3 + 1 : s[i] = e[3 + i - 1]
        <4>. HIDE DEF l
        <4>. QED BY <1>5, <3>2, SubSeqProperties
      <3>4. <<e[1]>> \in Seq(S) /\ Len(<<e[1]>>) = 1 /\ <<e[1]>>[1] = e[1]
        BY <1>1, <1>3 DEF Addressed
      <3>. HIDE DEF s, l
      <3>5. Len(s) = l - 2
        BY <1>5, <2>1, <3>3
      <3>6. /\ <<e[1]>> \o s \in Seq(S) /\ Len(<<e[1]>> \o s) = 1 + Len(s)
            /\ \A i \in 1 .. 1 + Len(s) : (<<e[1]>> \o s)[i] = IF i <= 1 THEN <<e[1]>>[i] ELSE s[i - 1]
        BY <3>3, <3>4, ConcatProperties
      <3>7. Len(w) = l - q /\ w \in Seq(S)
        <4>1. Len(w) = 1 + (l - 2) /\ w \in Seq(S)
          BY <3>1, <3>5, <3>6, Zenon
        <4>2. 1 + (l - 2) = l - q
          BY <1>5, <3>1
        <4>. QED BY <4>1, <4>2, Zenon
      <3>8. w[1] = m.ip
        <4>1. 1 \in 1 .. 1 + Len(s) /\ 1 <= 1
          BY <1>5, <2>1, <3>5
        <4>. QED BY <1>3, <3>1, <3>4, <3>6, <4>1
      <3>9. ASSUME NEW k \in 2 .. l - q PROVE w[k] = e[k + q]
        <4>1. /\ k \in 1 .. 1 + Len(s) /\ ~(k <= 1) /\ k - 1 \in 1 .. l - 3 + 1 /\ 3 + (k - 1) - 1 = k + q
          BY <1>5, <2>1, <3>1, <3>5
        <4>2. w[k] = s[k - 1]
          BY <3>1, <3>6, <4>1
        <4>3. s[k - 1] = e[3 + (k - 1) - 1]
          BY <3>3, <4>1
        <4>. QED BY <4>1, <4>2, <4>3, Zenon
      <3>. QED BY <3>7, <3>8, <3>9
    <2>2. CASE ~(m.lr # NULL /\ l >= 2)
      <3>1. w = e /\ q = 0
        BY <2>2, Zenon
      <3>. HIDE DEF q, L, t
      <3>2. \A k \in 2 .. l - q : k + q = k
        BY <1>5, <3>1
      <3>3. l - q = l
        BY <1>5, <3>1
      <3>. QED BY <1>3, <3>1, <3>2, <3>3, Zenon
    <2>. QED BY <2>1, <2>2
  <1>. DEFINE n == l - q
  <1>7. q \in 0 .. 1 /\ (n \in Nat /\ n <= L)
    <2>1. q \in 0 .. 1
      <3>1. CASE m.lr # NULL /\ l >= 2
        <4>1. q = 1
          BY <3>1, Zenon
        <4>. QED BY <4>1
      <3>2. CASE ~(m.lr # NULL /\ l >= 2)
        <4>1. q = 0
          BY <3>2, Zenon
        <4>. QED BY <4>1
      <3>. QED BY <3>1, <3>2
    <2>. HIDE DEF q, L, l
    <2>. QED BY <1>3, <1>5, <2>1
  <1>8. \A k \in 2 .. n : w[k] = m.ret[Frames(m)[k - 1]]
    <2>. HIDE DEF q, l, L, t
    <2>. QED BY <1>3, <1>6, Zenon
  <1>9. Len(w) = n /\ w \in Seq(S) /\ w[1] = m.ip
    BY <1>6, Zenon
  <1>10. Unbroken(m) => l >= MaxBacktraceDepth \/ n >= L
    BY <1>3, Zenon
  <1>. HIDE DEF n, l, q, t
  <1>11. w = SubSeq(t, 0 + 1, 0 + Len(w))
    <2>. HIDE DEF L
    <2>1. ASSUME NEW k \in 1 .. Len(w) PROVE w[k] = t[0 + k]
      <3>1. k \in 1 .. n /\ 0 + k = k
        BY <1>9
      <3>2. CASE k = 1
        BY <1>4, <1>9, <3>1, <3>2
      <3>3. CASE k # 1
        BY <1>2, <1>4, <1>7, <1>8, <3>1, <3>3
      <3>. QED BY <3>2, <3>3
    <2>2. 0 + Len(w) <= Len(t)
      BY <1>2, <1>4, <1>7, <1>9
    <2>. QED BY <1>4, <1>9, <2>1, <2>2, PieceIs
  <1>12. ASSUME Unbroken(m) PROVE l >= Min({Len(t), MaxBacktraceDepth})
    <2>. HIDE DEF L
    <2>. DEFINE d == MaxBacktraceDepth
    <2>0. d \in Nat
      BY ToolsAssumption
    <2>. HIDE DEF d
    <2>1. Min({L, d}) \in {L, d} /\ Min({L, d}) <= L /\ Min({L, d}) <= d
      <3>1. CASE L <= d
        <4>1. Min({L, d}) = L
          BY <1>2, <2>0, <3>1 DEF Min
        <4>. QED BY <1>2, <2>0, <3>1, <4>1
      <3>2. CASE ~(L <= d)
        <4>1. Min({L, d}) = d
          BY <1>2, <2>0, <3>2 DEF Min
        <4>. QED BY <1>2, <2>0, <3>2, <4>1
      <3>. QED BY <3>1, <3>2
    <2>2. l >= d \/ n >= L
      BY <1>10, <1>12 DEF d
    <2>3. l >= n
      BY <1>5, <1>7 DEF n
    <2>4. l >= Min({L, d})
      BY <1>2, <1>5, <1>7, <2>0, <2>1, <2>2, <2>3
    <2>. QED BY <1>4, <2>4 DEF d
  <1>. QED BY <1>11, <1>12 DEF t, l

\* A stack that is cut is shown to its outermost frame.
LEMMA LongHonest ==
    ASSUME NEW m, m.ip # NULL, Frames(m)[1] # NULL,
           NEW skip \in Nat, skip >= 2, skip + MaxBacktraceDepth = BacktraceLength(m),
           NEW e, e = BacktraceThreadState(m, skip, MaxBacktraceDepth)
    PROVE  /\ e = SubSeq(Walk(m), skip + 1, skip + Len(e))
           /\ Unbroken(m) => skip + Len(e) = Len(Walk(m))
  <1>. DEFINE L == BacktraceLength(m)
              S == AddressesOf(m)
              t == Walk(m)
              n == MaxBacktraceDepth
  <1>1. Addressed(m, S)
    BY DEF Addressed, AddressesOf
  <1>2. L \in 1 .. GiveUpPoint /\ n \in Nat /\ GiveUpPoint \in Nat
    BY FramesLength, ToolsAssumption
  <1>. HIDE DEF S
  <1>3. skip + n <= L
    BY <1>2
  <1>4. PICK c \in 0 .. n : skip + c <= L /\ e = Returns(m, skip, c) /\ (Unbroken(m) => c = n)
    BY <1>1, <1>3, EntriesCut
  <1>5. c \in Nat /\ skip \in Nat \ {0} /\ skip + c <= GiveUpPoint + 1
    BY <1>2, <1>4
  <1>6. e \in Seq(S) /\ Len(e) = c /\ \A j \in 1 .. c : e[j] = m.ret[Frames(m)[skip + j - 1]]
    BY <1>1, <1>4, <1>5, ReturnsType
  <1>7. t \in Seq(S) /\ Len(t) = L /\ \A k \in 2 .. L : t[k] = m.ret[Frames(m)[k - 1]]
    BY <1>1, WalkIs
  <1>. HIDE DEF t, L, n
  <1>8. ASSUME NEW k \in 1 .. Len(e) PROVE e[k] = t[skip + k]
    <2>1. k \in 1 .. c /\ skip + k \in 2 .. L /\ (skip + k) - 1 = skip + k - 1
      BY <1>2, <1>4, <1>5, <1>6
    <2>. QED BY <1>6, <1>7, <2>1
  <1>9. skip + Len(e) <= Len(t)
    BY <1>4, <1>6, <1>7
  <1>10. e = SubSeq(t, skip + 1, skip + Len(e))
    BY <1>6, <1>7, <1>8, <1>9, PieceIs
  <1>11. Unbroken(m) => skip + Len(e) = Len(t)
    BY <1>4, <1>6, <1>7 DEF L, n
  <1>. QED BY <1>10, <1>11 DEF t

\* What is written of any stack is an honest piece of it.
LEMMA BacktracesHonest == \A m : BacktraceHonest(m)
  <1>. SUFFICES ASSUME NEW m PROVE BacktraceHonest(m)
    OBVIOUS
  <1>. DEFINE L == BacktraceLength(m)
              n == MaxBacktraceDepth
              k == IF L >= StackOverflowThreshold THEN L - n ELSE 0
              e == BacktraceThreadState(m, k, n)
              w == IF m.lr # NULL /\ k = 0 /\ Len(e) >= 2 THEN <<e[1]>> \o SubSeq(e, 3, Len(e)) ELSE e
              walk == Walk(m)
  <1>1. L \in Nat /\ n \in Nat \ {0} /\ StackOverflowThreshold \in Nat /\ StackOverflowThreshold > n + 1
    BY LengthIs, ToolsAssumption
  <1>2. GetBacktrace(m).entries = e /\ GetBacktrace(m).skipped = k
    BY DEF GetBacktrace
  <1>3. Len(e) \in 0 .. n
    <2>. HIDE DEF k
    <2>. QED BY <1>1, EntriesFit
  <1>4. k \in Nat /\ (L >= StackOverflowThreshold => k >= 2 /\ k + n = L) /\ (~(L >= StackOverflowThreshold) => k = 0)
    <2>. HIDE DEF L
    <2>. QED BY <1>1
  <1>5. k > 0 <=> L >= StackOverflowThreshold
    <2>. HIDE DEF k, L
    <2>. QED BY <1>4
  <1>6. ASSUME m.ip # NULL, Frames(m)[1] # NULL
        PROVE  /\ w = SubSeq(walk, k + 1, k + Len(w))
               /\ Unbroken(m) /\ k > 0 => k + Len(e) = Len(walk)
               /\ Unbroken(m) /\ k = 0 => Len(e) >= Min({Len(walk), n})
    <2>1. CASE L >= StackOverflowThreshold
      <3>1. k \in Nat /\ k >= 2 /\ k + n = L /\ k # 0
        BY <1>4, <2>1
      <3>. HIDE DEF k
      <3>2. e = SubSeq(walk, k + 1, k + Len(e)) /\ (Unbroken(m) => k + Len(e) = Len(walk))
        BY <1>6, <3>1, LongHonest
      <3>3. w = e
        BY <3>1, Zenon
      <3>. QED BY <3>1, <3>2, <3>3, Zenon
    <2>2. CASE ~(L >= StackOverflowThreshold)
      <3>1. k = 0
        BY <1>4, <2>2
      <3>. HIDE DEF k
      <3>2. e = BacktraceThreadState(m, 0, n)
        BY <3>1, Zenon
      <3>3. w = IF m.lr # NULL /\ Len(e) >= 2 THEN <<e[1]>> \o SubSeq(e, 3, Len(e)) ELSE e
        BY <3>1, Zenon
      <3>. HIDE DEF e, w
      <3>4. /\ w = SubSeq(walk, 0 + 1, 0 + Len(w))
            /\ Unbroken(m) => Len(e) >= Min({Len(walk), n})
        BY <1>6, <3>2, <3>3, ShortHonest, Zenon
      <3>5. ~(0 > 0)
        OBVIOUS
      <3>. QED BY <3>1, <3>4, <3>5, Zenon
    <2>. QED BY <2>1, <2>2
  <1>7. m.ip # NULL /\ Frames(m)[1] # NULL /\ (\A i \in DOMAIN walk : walk[i] # NULL) => Unbroken(m)
    BY WholeUnbroken
  <1>8. Len(e) <= n
    BY <1>1, <1>3
  <1>. HIDE DEF L, n, e, walk
  <1>9. /\ m.ip # NULL /\ Frames(m)[1] # NULL =>
            /\ w = SubSeq(walk, k + 1, k + Len(w))
            /\ (\A i \in DOMAIN walk : walk[i] # NULL) /\ k > 0 => k + Len(e) = Len(walk)
            /\ (\A i \in DOMAIN walk : walk[i] # NULL) /\ k = 0 => Len(e) >= Min({Len(walk), n})
    <2>. HIDE DEF k, w
    <2>. QED BY <1>6, <1>7, Zenon
  <1>. HIDE DEF k
  <1>. QED BY <1>2, <1>5, <1>8, <1>9, Zenon DEF BacktraceHonest, L, n, walk

\* The two tests for an overflow agree on any stack.
LEMMA OverflowsAgree == \A m : OverflowAgrees(m)
  <1>. SUFFICES ASSUME NEW m PROVE OverflowAgrees(m)
    OBVIOUS
  <1>. DEFINE L == BacktraceLength(m)
              t == StackOverflowThreshold
              k == GetBacktrace(m).skipped
  <1>1. L \in Nat /\ MaxBacktraceDepth \in Nat /\ t \in 1 .. GiveUpPoint /\ t > MaxBacktraceDepth + 1 /\ t > 1
    BY LengthIs, ToolsAssumption
  <1>2. k = IF L >= t THEN L - MaxBacktraceDepth ELSE 0
    BY DEF GetBacktrace
  <1>. HIDE DEF L, k
  <1>3. k > 0 <=> L >= t
    BY <1>1, <1>2
  <1>4. CASE m.ip = NULL
    BY <1>4, LengthIs, <1>1, <1>3 DEF L, OverflowAgrees, IsBacktraceTooLong, k
  <1>5. CASE m.ip # NULL /\ Frames(m)[1] = NULL
    BY <1>5, Zenon DEF OverflowAgrees, IsBacktraceTooLong
  <1>6. CASE m.ip # NULL /\ Frames(m)[1] # NULL
    BY <1>1, <1>6, FramesLength, <1>3 DEF L, OverflowAgrees, IsBacktraceTooLong, k
  <1>. QED BY <1>4, <1>5, <1>6

-----------------------------------------------------------------------------
(* Symbols *)

\* A symbol of the table that lies at or below the address.
Below(t, a, j) == t[j] # 0 /\ t[j] <= a

\* The search, symbol by symbol.
LEMMA SearchSteps ==
    ASSUME NEW t \in Seq(Nat), NEW a
    PROVE  \E f : /\ NearestSymbol(t, a) = f[Len(t)] /\ f[0] = 0
                  /\ \A i \in 1 .. Len(t) : f[i] = Nearer(t, a, f[i - 1], i)
  <1>. DEFINE L == Len(t)
              x == [table |-> t, address |-> a]
              Works(g) == g = [i \in 0 .. L |-> IF i = 0 THEN 0 ELSE Nearer(t, a, g[i - 1], i)]
              f == CHOOSE g : Works(g)
  <1>1. NearestSymbol(t, a) = f[L]
    BY DEF NearestSymbol, Nearer
  <1>2. L \in Nat /\ 0 \in {0, 1} /\ 0 \in Nat /\ 0 <= 0
    BY LenProperties
  <1>3. \A u, i : Step("symbols", x, u, i) = Nearer(t, a, u, i)
    BY DEF Step
  <1>. HIDE DEF L, x
  <1>4. PICK g : Recursive(g, "symbols", x, 0, 0, 0, L)
    BY <1>2, Recursion, Zenon
  <1>5. Works(g)
    <2>1. ASSUME NEW i \in 0 .. L PROVE g[i] = IF i = 0 THEN 0 ELSE Nearer(t, a, g[i - 1], i)
      <3>1. g[i] = IF i <= 0 THEN 0 ELSE Step("symbols", x, g[i - 1], i)
        BY <1>4 DEF Recursive
      <3>. QED BY <1>3, <3>1
    <2>. QED BY <1>4, <2>1 DEF Recursive
  <1>6. Works(f)
    <2>. HIDE DEF Works
    <2>. QED BY <1>5
  <1>. HIDE DEF f
  <1>7. f[0] = 0 /\ \A i \in 1 .. L : f[i] = Nearer(t, a, f[i - 1], i)
    BY <1>2, <1>6
  <1>. QED BY <1>1, <1>7 DEF L

\* An address gets the name of the symbol it lies in, in any table.
LEMMA SymbolsNearest ==
    ASSUME NEW t \in Seq(Nat), NEW a \in Nat
    PROVE  SymbolNearest(t, a)
  <1>. DEFINE l == Len(t)
  <1>1. PICK f : /\ NearestSymbol(t, a) = f[l] /\ f[0] = 0
                 /\ \A i \in 1 .. l : f[i] = Nearer(t, a, f[i - 1], i)
    BY SearchSteps
  <1>2. l \in Nat /\ \A i \in 1 .. l : t[i] \in Nat
    BY LenProperties, ElementOfSeq
  <1>3. DOMAIN t = 1 .. l
    BY LenProperties
  <1>. HIDE DEF l
  <1>. DEFINE Found(i) == IF f[i] = 0 THEN \A j \in 1 .. i : ~Below(t, a, j)
                          ELSE f[i] \in 1 .. i /\ Below(t, a, f[i]) /\ \A j \in 1 .. i : Below(t, a, j) => t[j] <= t[f[i]]
              B == {i \in 0 .. l : Found(i)}
  <1>4. 0 \in B
    BY <1>1, <1>2
  <1>5. ASSUME NEW i \in 0 .. l - 1, i \in B PROVE i + 1 \in B
    <2>1. i \in Nat /\ i + 1 \in 1 .. l /\ (i + 1) - 1 = i /\ i + 1 \in 0 .. l /\ i + 1 # 0
      BY <1>2
    <2>. DEFINE r == f[i]
                v == t[i + 1]
    <2>2. f[i + 1] = Nearer(t, a, r, i + 1)
      BY <1>1, <2>1
    <2>3. Found(i)
      BY <1>5
    <2>4. v \in Nat
      BY <1>2, <2>1
    <2>5. \A j \in 1 .. i + 1 : j \in 1 .. i \/ j = i + 1
      BY <2>1
    <2>6. \A j \in 1 .. i : j \in 1 .. l
      BY <1>2, <2>1
    <2>7. CASE r = 0
      <3>1. \A j \in 1 .. i : ~Below(t, a, j)
        BY <2>3, <2>7
      <3>2. CASE Below(t, a, i + 1)
        BY <2>1, <2>2, <2>4, <2>5, <2>7, <3>1, <3>2 DEF Nearer, Below
      <3>3. CASE ~Below(t, a, i + 1)
        <4>1. f[i + 1] = 0
          BY <2>2, <2>4, <2>7, <3>3 DEF Nearer, Below
        <4>2. \A j \in 1 .. i + 1 : ~Below(t, a, j)
          BY <2>5, <3>1, <3>3, Zenon
        <4>. QED BY <2>1, <4>1, <4>2, Zenon
      <3>. QED BY <3>2, <3>3
    <2>8. CASE r # 0
      <3>1. r \in 1 .. i /\ Below(t, a, r) /\ \A j \in 1 .. i : Below(t, a, j) => t[j] <= t[r]
        BY <2>3, <2>8
      <3>2. t[r] \in Nat /\ r \in 1 .. i + 1
        BY <1>2, <2>1, <2>6, <3>1
      <3>. DEFINE u == t[r]
      <3>. HIDE DEF r, u, v
      <3>3. CASE Below(t, a, i + 1) /\ v >= u
        <4>0. v # 0 /\ v <= a
          BY <3>3 DEF Below, v
        <4>1. f[i + 1] = i + 1
          <5>1. v # 0 /\ a >= v /\ a - v <= a - u
            BY <2>4, <3>2, <3>3, <4>0 DEF u
          <5>. QED BY <2>2, <5>1, Zenon DEF Nearer, u, v
        <4>2. i + 1 \in 1 .. i + 1
          BY <2>1
        <4>3. ASSUME NEW j \in 1 .. i + 1, Below(t, a, j) PROVE t[j] <= t[i + 1]
          <5>1. CASE j = i + 1
            BY <2>4, <5>1 DEF v
          <5>2. CASE j \in 1 .. i
            <6>1. t[j] <= u /\ t[j] \in Nat
              BY <1>2, <2>6, <3>1, <4>3, <5>2 DEF u
            <6>. QED BY <2>4, <3>2, <3>3, <6>1 DEF u, v
          <5>. QED BY <2>5, <5>1, <5>2
        <4>. QED BY <2>1, <3>3, <4>1, <4>2, <4>3, Zenon
      <3>4. CASE ~(Below(t, a, i + 1) /\ v >= u)
        <4>1. f[i + 1] = r
          <5>1. ~(v # 0 /\ a >= v /\ (r = 0 \/ a - v <= a - u))
            <6>1. r # 0
              BY <2>8 DEF r
            <6>2. v # 0 /\ v <= a => ~(v >= u)
              BY <3>4 DEF Below, v
            <6>. QED BY <2>4, <3>2, <6>1, <6>2 DEF u
          <5>. QED BY <2>2, <5>1, Zenon DEF Nearer, u, v
        <4>2. ASSUME NEW j \in 1 .. i + 1, Below(t, a, j) PROVE t[j] <= t[r]
          <5>1. CASE j = i + 1
            <6>1. ~(v >= u)
              BY <3>4, <4>2, <5>1
            <6>. QED BY <2>4, <3>2, <5>1, <6>1 DEF u, v
          <5>2. CASE j \in 1 .. i
            BY <3>1, <4>2, <5>2
          <5>. QED BY <2>5, <5>1, <5>2
        <4>3. r # 0
          BY <2>8 DEF r
        <4>. QED BY <2>1, <3>1, <3>2, <4>1, <4>2, <4>3, Zenon
      <3>. QED BY <3>3, <3>4
    <2>. QED BY <2>7, <2>8
  <1>6. 0 .. l \subseteq B
    <2>. HIDE DEF B
    <2>. QED BY <1>2, <1>4, <1>5, UpToInduction
  <1>7. Found(l)
    BY <1>2, <1>6
  <1>. DEFINE candidates == {t[i] : i \in DOMAIN t} \ {0}
              below == {v \in candidates : v <= a}
              found == NearestSymbol(t, a)
  <1>8. \A v : v \in below <=> \E j \in 1 .. l : Below(t, a, j) /\ v = t[j]
    BY <1>3 DEF Below
  <1>9. (\E v \in candidates : v <= a) <=> below # {}
    OBVIOUS
  <1>10. found = f[l]
    BY <1>1
  <1>11. CASE f[l] = 0
    <2>1. \A j \in 1 .. l : ~Below(t, a, j)
      BY <1>7, <1>11
    <2>2. below = {}
      <3>. HIDE DEF below
      <3>. QED BY <1>8, <2>1
    <2>3. ~(\E v \in candidates : v <= a)
      BY <1>9, <2>2
    <2>. QED BY <1>10, <1>11, <2>3, Zenon DEF SymbolNearest
  <1>12. CASE f[l] # 0
    <2>. DEFINE x == t[f[l]]
    <2>1. f[l] \in 1 .. l /\ Below(t, a, f[l]) /\ \A j \in 1 .. l : Below(t, a, j) => t[j] <= t[f[l]]
      BY <1>7, <1>12
    <2>2. x \in below
      <3>. HIDE DEF below
      <3>. QED BY <1>8, <2>1
    <2>3. below \subseteq 0 .. a
      <3>. HIDE DEF below
      <3>. QED BY <1>2, <1>8 DEF Below
    <2>4. \A v \in below : v <= x
      <3>. HIDE DEF below
      <3>. QED BY <1>8, <2>1
    <2>5. \E v \in candidates : v <= a
      BY <1>9, <2>2
    <2>6. Max(below) \in below /\ \A v \in below : v <= Max(below)
      <3>. HIDE DEF below
      <3>. QED BY <2>2, <2>3, GreatestNumber
    <2>. HIDE DEF below, x
    <2>7. x = Max(below)
      <3>1. x \in 0 .. a /\ Max(below) \in 0 .. a /\ x <= Max(below) /\ Max(below) <= x
        BY <2>2, <2>3, <2>4, <2>6
      <3>. QED BY <3>1
    <2>. HIDE DEF found, candidates
    <2>8. found # 0 /\ t[found] = Max(below)
      BY <1>10, <1>12, <2>7 DEF x
    <2>. QED BY <2>5, <2>8, Zenon DEF SymbolNearest, below, found, candidates
  <1>. QED BY <1>11, <1>12

\* What a report says of any stack is a piece of it, the outermost one if it is
\* too long, within the buffer, whether the stack ends, loops or leads to memory
\* that is gone; the two tests for an overflow agree; and an address in any
\* table of symbols gets the name of the symbol it lies in.
THEOREM StacksAlwaysHonest == Spec => []StacksHonest
  <1>1. StacksHonest
    BY BacktracesHonest, OverflowsAgree, ReportAssumption, SymbolsNearest DEF StacksHonest
  <1>. QED BY <1>1, PTL

-----------------------------------------------------------------------------
(* Text in memory.                                                         *)
(* The scan goes forwards; that it is right is proved backwards, from the  *)
(* end of the buffer.                                                      *)

\* A set of numbers has a least one.
LEMMA LeastNumber ==
    ASSUME NEW S, S \subseteq Nat, S # {}
    PROVE  Min(S) \in S /\ \A k \in S : Min(S) <= k
  <1>. DEFINE A == {n \in Nat : \A T : T \subseteq Nat /\ n \in T => \E x \in T : \A y \in T : x <= y}
              B == {n \in Nat : \A k \in 0 .. n : k \in A}
  <1>1. 0 \in B
    <2>1. ASSUME NEW T, T \subseteq Nat, 0 \in T PROVE \E x \in T : \A y \in T : x <= y
      BY <2>1
    <2>2. 0 \in A
      BY <2>1
    <2>. HIDE DEF A
    <2>. QED BY <2>2
  <1>2. ASSUME NEW n \in Nat, n \in B PROVE n + 1 \in B
    <2>1. ASSUME NEW T, T \subseteq Nat, n + 1 \in T PROVE \E x \in T : \A y \in T : x <= y
      <3>1. CASE \E k \in T : k <= n
        <4>1. PICK k \in T : k <= n
          BY <3>1
        <4>2. k \in 0 .. n
          BY <2>1, <4>1
        <4>3. k \in A
          BY <1>2, <4>2
        <4>. QED BY <2>1, <4>1, <4>3
      <3>2. CASE ~(\E k \in T : k <= n)
        <4>1. \A y \in T : n + 1 <= y
          BY <2>1, <3>2
        <4>. QED BY <2>1, <4>1
      <3>. QED BY <3>1, <3>2
    <2>2. n + 1 \in A
      BY <2>1
    <2>3. \A k \in 0 .. n : k \in A
      BY <1>2
    <2>. HIDE DEF A
    <2>4. \A k \in 0 .. n + 1 : k \in 0 .. n \/ k = n + 1
      OBVIOUS
    <2>5. n + 1 \in Nat
      OBVIOUS
    <2>. QED BY <2>2, <2>3, <2>4, <2>5, Zenon
  <1>3. Nat \subseteq B
    <2>. HIDE DEF B
    <2>. QED BY <1>1, <1>2, NatSetInduction
  <1>4. PICK n \in S : TRUE
    OBVIOUS
  <1>5. n \in A
    <2>1. n \in B /\ n \in 0 .. n
      BY <1>3
    <2>. HIDE DEF A
    <2>. QED BY <2>1
  <1>6. \E x \in S : \A y \in S : x <= y
    BY <1>5
  <1>. HIDE DEF A, B
  <1>. QED BY <1>6 DEF Min

\* How a byte is looked at: g says it of those behind it.
Leads == {"lead1", "lead2", "lead3"}
Look(mem, least, g, i) ==
  IF i >= Len(mem) THEN FALSE
  ELSE CASE mem[i + 1] = "nul" -> i >= least
         [] mem[i + 1] \in {"cont", "bad", "control"} -> FALSE
         [] mem[i + 1] = "print" -> g[i + 1]
         [] OTHER -> /\ i + ContinuationByteCount(mem[i + 1]) < Len(mem)
                     /\ \A j \in 1 .. ContinuationByteCount(mem[i + 1]) : mem[i + 1 + j] = "cont"
                     /\ g[i + 1 + ContinuationByteCount(mem[i + 1])]

\* What follows a byte is looked at only where the byte allows it.
LEMMA LookAhead ==
    ASSUME NEW mem \in Seq(Bytes), NEW least, NEW g, NEW h, NEW i \in Nat,
           \A k \in i + 1 .. i + 4 : g[k] = h[k]
    PROVE  Look(mem, least, g, i) = Look(mem, least, h, i)
  <1>1. CASE i >= Len(mem)
    BY <1>1 DEF Look
  <1>2. CASE ~(i >= Len(mem))
    <2>. DEFINE b == mem[i + 1]
                n == ContinuationByteCount(b)
    <2>1. n \in 0 .. 3
      BY DEF ContinuationByteCount
    <2>. HIDE DEF n
    <2>2. g[i + 1] = h[i + 1] /\ g[i + 1 + n] = h[i + 1 + n]
      BY <2>1
    <2>. QED BY <1>2, <2>2, Zenon DEF Look, n
  <1>. QED BY <1>1, <1>2

\* The scan, byte by byte.
LEMMA ScanSteps ==
    ASSUME NEW mem \in Seq(Bytes), NEW least
    PROVE  \E f : /\ IsNullTerminatedUTF8String(mem, least) = f[0]
                  /\ \A i \in Nat : f[i] = Look(mem, least, f, i)
  <1>. DEFINE N == Len(mem)
              Works(d, g) == g = [i \in Nat |-> IF i + d >= N THEN Look(mem, least, g, i) ELSE FALSE]
              A == {d \in Nat : \E g : Works(d, g)}
              Unrolled(g) == g = [i \in Nat |-> Look(mem, least, g, i)]
              f == CHOOSE f : Unrolled(f)
  <1>1. IsNullTerminatedUTF8String(mem, least) = f[0]
    BY Zenon DEF IsNullTerminatedUTF8String, Look
  <1>2. N \in Nat
    BY LenProperties
  <1>3. 0 \in A
    <2>. DEFINE g == [i \in Nat |-> FALSE]
    <2>1. ASSUME NEW i \in Nat PROVE (IF i + 0 >= N THEN Look(mem, least, g, i) ELSE FALSE) = FALSE
      <3>1. CASE i + 0 >= N
        BY <3>1 DEF Look
      <3>. QED BY <3>1
    <2>. HIDE DEF N
    <2>2. g = [i \in Nat |-> IF i + 0 >= N THEN Look(mem, least, g, i) ELSE FALSE]
      BY <2>1
    <2>. QED BY <2>2
  <1>. HIDE DEF N
  <1>4. ASSUME NEW d \in Nat, d \in A
        PROVE  d + 1 \in A
    <2>1. PICK g : Works(d, g)
      BY <1>4
    <2>2. \A i \in Nat : g[i] = IF i + d >= N THEN Look(mem, least, g, i) ELSE FALSE
      BY <2>1
    <2>. DEFINE h == [i \in Nat |-> IF i + (d + 1) >= N THEN Look(mem, least, g, i) ELSE FALSE]
    <2>3. ASSUME NEW k \in Nat, k + d >= N PROVE h[k] = g[k]
      <3>1. k + (d + 1) >= N
        BY <1>2, <2>3
      <3>. QED BY <2>2, <2>3, <3>1
    <2>4. ASSUME NEW i \in Nat
          PROVE  h[i] = IF i + (d + 1) >= N THEN Look(mem, least, h, i) ELSE FALSE
      <3>1. CASE i + (d + 1) >= N
        <4>1. \A k \in i + 1 .. i + 4 : k \in Nat /\ k + d >= N
          BY <1>2, <3>1
        <4>. HIDE DEF h
        <4>2. \A k \in i + 1 .. i + 4 : g[k] = h[k]
          BY <2>3, <4>1
        <4>3. Look(mem, least, g, i) = Look(mem, least, h, i)
          BY <4>2, LookAhead
        <4>4. h[i] = Look(mem, least, g, i)
          BY <3>1 DEF h
        <4>. QED BY <3>1, <4>3, <4>4
      <3>. QED BY <3>1
    <2>. HIDE DEF h
    <2>5. h = [i \in Nat |-> h[i]]
      BY DEF h
    <2>6. Works(d + 1, h)
      BY <2>4, <2>5, Zenon
    <2>7. d + 1 \in Nat
      OBVIOUS
    <2>. HIDE DEF Works
    <2>. QED BY <2>6, <2>7
  <1>5. Nat \subseteq A
    <2>. HIDE DEF A
    <2>. QED BY <1>3, <1>4, NatSetInduction
  <1>6. PICK g : Works(N, g)
    BY <1>2, <1>5
  <1>7. \A i \in Nat : i + N >= N
    BY <1>2
  <1>8. Unrolled(g)
    BY <1>6, <1>7
  <1>9. Unrolled(f)
    BY <1>8
  <1>. HIDE DEF f
  <1>10. \A i \in Nat : f[i] = Look(mem, least, f, i)
    BY <1>9
  <1>. QED BY <1>1, <1>10

\* Byte k belongs to the character that begins at j; the text from i on ends at z.
In(mem, k, j) == mem[j] \in Leads /\ k - j <= ContinuationByteCount(mem[j])
Fits(mem, i, k) == /\ mem[k] \notin {"control", "bad"}
                   /\ mem[k] = "cont" <=> \E j \in i + 1 .. k - 1 : In(mem, k, j)
EndsAt(mem, least, i, z) ==
  /\ mem[z] = "nul" /\ z - 1 >= least
  /\ \A k \in i + 1 .. z - 1 : mem[k] # "nul"
  /\ \A k \in i + 1 .. z : Fits(mem, i, k)

\* A character is passed: the text goes on behind it.
LEMMA CharacterPassed ==
    ASSUME NEW mem \in Seq(Bytes), NEW least \in Nat, NEW i \in Nat, NEW n \in 0 .. 3,
           i + n < Len(mem),
           n = 0 => mem[i + 1] = "print",
           n # 0 => mem[i + 1] \in Leads /\ ContinuationByteCount(mem[i + 1]) = n,
           \A j \in 1 .. n : mem[i + 1 + j] = "cont",
           NEW z \in i + 2 + n .. Len(mem)
    PROVE  EndsAt(mem, least, i, z) <=> EndsAt(mem, least, i + 1 + n, z)
  <1>. DEFINE e == i + 1 + n
  <1>1. z \in Nat /\ e \in Nat /\ Len(mem) \in Nat /\ e + 1 <= z
    BY LenProperties
  <1>2. \A j \in i + 2 .. e : mem[j] = "cont"
    <2>1. ASSUME NEW j \in i + 2 .. e PROVE mem[j] = "cont"
      <3>1. j - (i + 1) \in 1 .. n /\ i + 1 + (j - (i + 1)) = j
        OBVIOUS
      <3>. QED BY <3>1
    <2>. QED BY <2>1
  <1>3. mem[i + 1] \notin {"nul", "control", "bad", "cont"}
    BY DEF Leads
  <1>4. ASSUME NEW k \in i + 1 .. e PROVE mem[k] # "nul" /\ Fits(mem, i, k)
    <2>1. CASE k = i + 1
      <3>1. \A j \in i + 1 .. k - 1 : FALSE
        BY <2>1
      <3>. QED BY <1>3, <2>1, <3>1 DEF Fits
    <2>2. CASE k \in i + 2 .. e
      BY <1>2, <2>2 DEF In, Fits
    <2>3. k = i + 1 \/ k \in i + 2 .. e
      OBVIOUS
    <2>. QED BY <2>1, <2>2, <2>3
  <1>5. ASSUME NEW k \in e + 1 .. z PROVE Fits(mem, i, k) <=> Fits(mem, e, k)
    <2>1. ASSUME NEW j \in i + 1 .. k - 1, In(mem, k, j) PROVE j \in e + 1 .. k - 1
      <3>1. CASE j = i + 1
        BY <2>1, <3>1 DEF In, Leads
      <3>2. CASE j \in i + 2 .. e
        BY <1>2, <2>1, <3>2 DEF In, Leads
      <3>3. CASE j \in e + 1 .. k - 1
        BY <3>3
      <3>4. j = i + 1 \/ j \in i + 2 .. e \/ j \in e + 1 .. k - 1
        OBVIOUS
      <3>. QED BY <3>1, <3>2, <3>3, <3>4
    <2>2. \A j \in e + 1 .. k - 1 : j \in i + 1 .. k - 1
      OBVIOUS
    <2>3. (\E j \in i + 1 .. k - 1 : In(mem, k, j)) <=> (\E j \in e + 1 .. k - 1 : In(mem, k, j))
      <3>. HIDE DEF e
      <3>. QED BY <2>1, <2>2, Zenon
    <2>. HIDE DEF e
    <2>. QED BY <2>3, Zenon DEF Fits
  <1>6. \A k : k \in i + 1 .. z <=> k \in i + 1 .. e \/ k \in e + 1 .. z
    BY <1>1
  <1>7. \A k : k \in i + 1 .. z - 1 <=> k \in i + 1 .. e \/ k \in e + 1 .. z - 1
    BY <1>1
  <1>. HIDE DEF e
  <1>8. (\A k \in i + 1 .. z - 1 : mem[k] # "nul") <=> (\A k \in e + 1 .. z - 1 : mem[k] # "nul")
    BY <1>4, <1>7, Zenon
  <1>9. (\A k \in i + 1 .. z : Fits(mem, i, k)) <=> (\A k \in e + 1 .. z : Fits(mem, e, k))
    BY <1>4, <1>5, <1>6, Zenon
  <1>. QED BY <1>8, <1>9, Zenon DEF EndsAt, e

\* A text that begins with a character ends behind it.
LEMMA CharacterInside ==
    ASSUME NEW mem \in Seq(Bytes), NEW least \in Nat, NEW i \in Nat, i < Len(mem), mem[i + 1] # "nul",
           NEW z \in i + 1 .. Len(mem), EndsAt(mem, least, i, z)
    PROVE  /\ mem[i + 1] \in {"print"} \cup Leads
           /\ i + ContinuationByteCount(mem[i + 1]) < Len(mem)
           /\ \A j \in 1 .. ContinuationByteCount(mem[i + 1]) : mem[i + 1 + j] = "cont"
           /\ z \in i + 2 + ContinuationByteCount(mem[i + 1]) .. Len(mem)
  <1>. DEFINE n == ContinuationByteCount(mem[i + 1])
              N == Len(mem)
  <1>1. N \in Nat /\ z \in Nat /\ mem[i + 1] \in Bytes
    <2>1. N \in Nat
      BY LenProperties
    <2>. HIDE DEF N
    <2>2. i + 1 \in 1 .. N
      BY <2>1 DEF N
    <2>. QED BY <2>1, <2>2, ElementOfSeq DEF N
  <1>2. mem[i + 1] \in {"print"} \cup Leads
    BY <1>1 DEF EndsAt, Fits, Bytes, Leads
  <1>3. n \in 0 .. 3 /\ (n # 0 => mem[i + 1] \in Leads)
    BY <1>2 DEF ContinuationByteCount, Leads
  <1>4. mem[z] = "nul" /\ z # i + 1
    BY DEF EndsAt
  <1>. HIDE DEF n, N
  <1>5. ASSUME NEW k \in i + 2 .. i + 1 + n, k <= z PROVE mem[k] = "cont"
    BY <1>1, <1>3, <1>5 DEF In, n, EndsAt, Fits
  <1>6. z > i + 1 + n
    <2>. SUFFICES ASSUME z <= i + 1 + n PROVE FALSE
      BY <1>1, <1>3
    <2>1. z \in i + 2 .. i + 1 + n /\ z <= z
      BY <1>1, <1>3, <1>4
    <2>. QED BY <1>4, <1>5, <2>1
  <1>7. i + n < N /\ z \in i + 2 + n .. N
    BY <1>1, <1>3, <1>6 DEF N
  <1>8. ASSUME NEW j \in 1 .. n PROVE mem[i + 1 + j] = "cont"
    BY <1>1, <1>3, <1>5, <1>6
  <1>. QED BY <1>2, <1>7, <1>8 DEF n, N

TextFrom(mem, least, i) == \E z \in i + 1 .. Len(mem) : EndsAt(mem, least, i, z)

\* One byte is looked at rightly if what is behind it is.
LEMMA LookRight ==
    ASSUME NEW mem \in Seq(Bytes), NEW least \in Nat, NEW f, NEW i \in Nat, i < Len(mem),
           \A k \in i + 1 .. Len(mem) : f[k] = TextFrom(mem, least, k)
    PROVE  Look(mem, least, f, i) = TextFrom(mem, least, i)
  <1>. DEFINE b == mem[i + 1]
              n == ContinuationByteCount(b)
              N == Len(mem)
  <1>1. N \in Nat /\ b \in Bytes
    <2>1. N \in Nat
      BY LenProperties
    <2>. HIDE DEF N
    <2>2. i + 1 \in 1 .. N
      BY <2>1 DEF N
    <2>. QED BY <2>1, <2>2, ElementOfSeq DEF N
  <1>2. ~(i >= N) /\ i + 1 \in i + 1 .. N
    BY <1>1
  <1>3. CASE b = "nul"
    <2>1. Look(mem, least, f, i) = (i >= least)
      BY <1>2, <1>3 DEF Look
    <2>2. ASSUME NEW z \in i + 1 .. N, EndsAt(mem, least, i, z) PROVE z = i + 1
      <3>1. ~(i + 1 \in i + 1 .. z - 1)
        BY <1>3, <2>2 DEF EndsAt
      <3>. QED BY <1>1, <3>1
    <2>3. EndsAt(mem, least, i, i + 1) <=> i >= least
      BY <1>3 DEF Fits, EndsAt
    <2>. HIDE DEF N
    <2>4. TextFrom(mem, least, i) <=> i >= least
      BY <1>2, <2>2, <2>3, Zenon DEF TextFrom, N
    <2>5. TextFrom(mem, least, i) \in BOOLEAN
      BY DEF TextFrom
    <2>6. TextFrom(mem, least, i) = (i >= least)
      BY <2>4, <2>5
    <2>. QED BY <2>1, <2>6
  <1>4. CASE b \in {"cont", "bad", "control"}
    <2>1. Look(mem, least, f, i) = FALSE
      BY <1>2, <1>4, Zenon DEF Look
    <2>2. ~TextFrom(mem, least, i)
      <3>. SUFFICES ASSUME NEW z \in i + 1 .. N, EndsAt(mem, least, i, z) PROVE FALSE
        BY DEF TextFrom
      <3>1. b \in {"print"} \cup Leads
        BY <1>4, CharacterInside
      <3>. QED BY <1>4, <3>1 DEF Leads
    <2>. QED BY <2>1, <2>2 DEF TextFrom
  <1>5. CASE b \in {"print"} \cup Leads
    <2>1. n \in 0 .. 3 /\ (n = 0 => b = "print") /\ (n # 0 => b \in Leads) /\ b # "nul"
      BY <1>5 DEF ContinuationByteCount, Leads
    <2>2. Look(mem, least, f, i) <=> /\ i + n < N
                                     /\ \A j \in 1 .. n : mem[i + 1 + j] = "cont"
                                     /\ f[i + 1 + n]
      <3>1. CASE b = "print"
        <4>1. n = 0
          BY <3>1 DEF ContinuationByteCount
        <4>2. Look(mem, least, f, i) = f[i + 1]
          BY <1>2, <3>1 DEF Look
        <4>3. i + 1 + n = i + 1 /\ i + n < N /\ (\A j \in 1 .. n : FALSE)
          BY <1>2, <4>1
        <4>. HIDE DEF n
        <4>. QED BY <4>2, <4>3, Zenon
      <3>2. CASE b \in Leads
        BY <1>2, <3>2 DEF Leads, Look
      <3>. QED BY <1>5, <3>1, <3>2
    <2>. HIDE DEF n
    <2>3. ASSUME TextFrom(mem, least, i) PROVE Look(mem, least, f, i)
      <3>1. PICK z \in i + 1 .. N : EndsAt(mem, least, i, z)
        BY <2>3 DEF TextFrom
      <3>2. /\ i + n < N /\ \A j \in 1 .. n : mem[i + 1 + j] = "cont"
            /\ z \in i + 2 + n .. N
        BY <2>1, <3>1, CharacterInside DEF n
      <3>3. EndsAt(mem, least, i + 1 + n, z)
        BY <2>1, <3>1, <3>2, CharacterPassed DEF n
      <3>4. i + 1 + n \in i + 1 .. N /\ z \in (i + 1 + n) + 1 .. N
        BY <1>1, <2>1, <3>2
      <3>5. f[i + 1 + n]
        BY <3>3, <3>4 DEF TextFrom
      <3>. QED BY <2>2, <3>2, <3>5
    <2>4. ASSUME Look(mem, least, f, i) PROVE TextFrom(mem, least, i)
      <3>1. i + n < N /\ (\A j \in 1 .. n : mem[i + 1 + j] = "cont") /\ f[i + 1 + n]
        BY <2>2, <2>4
      <3>2. i + 1 + n \in i + 1 .. N
        BY <1>1, <2>1, <3>1
      <3>3. PICK z \in (i + 1 + n) + 1 .. N : EndsAt(mem, least, i + 1 + n, z)
        BY <3>1, <3>2 DEF TextFrom
      <3>4. z \in i + 2 + n .. N /\ z \in i + 1 .. N
        BY <1>1, <2>1
      <3>5. EndsAt(mem, least, i, z)
        BY <2>1, <3>1, <3>3, <3>4, CharacterPassed DEF n
      <3>. QED BY <3>4, <3>5 DEF TextFrom
    <2>5. Look(mem, least, f, i) \in BOOLEAN
      <3>1. CASE b = "print"
        BY <1>2, <3>1 DEF Look, TextFrom
      <3>2. CASE b \in Leads
        <4>1. b \notin {"nul", "cont", "bad", "control", "print"}
          BY <3>2 DEF Leads
        <4>2. Look(mem, least, f, i) = (/\ i + n < N
                                        /\ \A j \in 1 .. n : mem[i + 1 + j] = "cont"
                                        /\ f[i + 1 + n])
          BY <1>2, <4>1, Zenon DEF Look, n
        <4>. HIDE DEF N
        <4>. QED BY <4>2
      <3>. QED BY <1>5, <3>1, <3>2
    <2>. QED BY <2>3, <2>4, <2>5 DEF TextFrom
  <1>. QED BY <1>1, <1>3, <1>4, <1>5 DEF Bytes, Leads

\* Memory is taken for text exactly if it is well-formed text with an end.
LEMMA TextsExact ==
    ASSUME NEW mem \in Seq(Bytes), NEW least \in Nat
    PROVE  TextExact(mem, least)
  <1>. DEFINE N == Len(mem)
  <1>1. PICK f : /\ IsNullTerminatedUTF8String(mem, least) = f[0]
                 /\ \A i \in Nat : f[i] = Look(mem, least, f, i)
    BY ScanSteps
  <1>2. N \in Nat /\ DOMAIN mem = 1 .. N
    BY LenProperties
  <1>. HIDE DEF N
  <1>. DEFINE Right(i) == f[i] = TextFrom(mem, least, i)
              B == {d \in 0 .. N : \A i \in N - d .. N : Right(i)}
  <1>3. 0 \in B
    <2>1. Right(N)
      <3>1. f[N] = FALSE
        <4>1. N >= Len(mem) /\ f[N] = Look(mem, least, f, N)
          BY <1>1, <1>2 DEF N
        <4>. HIDE DEF N
        <4>2. Look(mem, least, f, N) = FALSE
          BY <4>1, Zenon DEF Look
        <4>. QED BY <4>1, <4>2
      <3>2. ~TextFrom(mem, least, N)
        <4>1. \A z \in N + 1 .. N : FALSE
          BY <1>2
        <4>. QED BY <4>1 DEF TextFrom, N
      <3>. QED BY <3>1, <3>2 DEF TextFrom
    <2>2. \A i \in N - 0 .. N : i = N
      BY <1>2
    <2>3. 0 \in 0 .. N
      BY <1>2
    <2>. HIDE DEF Right
    <2>. QED BY <2>1, <2>2, <2>3, Zenon
  <1>4. ASSUME NEW d \in 0 .. N - 1, d \in B PROVE d + 1 \in B
    <2>. DEFINE i == N - (d + 1)
    <2>1. i \in Nat /\ i < N /\ \A k \in i + 1 .. N : k \in N - d .. N
      BY <1>2
    <2>2. \A k \in i + 1 .. N : f[k] = TextFrom(mem, least, k)
      BY <1>4, <2>1
    <2>3. Right(i)
      <3>. HIDE DEF i
      <3>1. Look(mem, least, f, i) = TextFrom(mem, least, i)
        BY <2>1, <2>2, LookRight DEF N
      <3>. QED BY <1>1, <2>1, <3>1
    <2>. HIDE DEF Right
    <2>4. \A k \in i .. N : k = i \/ k \in N - d .. N
      BY <1>2
    <2>5. d + 1 \in 0 .. N
      BY <1>2
    <2>6. \A k \in N - d .. N : Right(k)
      BY <1>4
    <2>. QED BY <2>3, <2>4, <2>5, <2>6, Zenon
  <1>5. 0 .. N \subseteq B
    <2>. HIDE DEF B
    <2>. QED BY <1>2, <1>3, <1>4, UpToInduction
  <1>6. IsNullTerminatedUTF8String(mem, least) = TextFrom(mem, least, 0)
    <2>1. N \in B /\ 0 \in N - N .. N
      BY <1>2, <1>5
    <2>2. Right(0)
      <3>. HIDE DEF Right
      <3>. QED BY <2>1
    <2>. QED BY <1>1, <2>2
  <1>. DEFINE nul == {i \in DOMAIN mem : mem[i] = "nul"}
              m == Min(nul)
              Covers(i, j) == mem[j] \in {"lead1", "lead2", "lead3"} /\ i - j <= ContinuationByteCount(mem[j])
              wellFormed == \A i \in 1 .. m :
                              /\ mem[i] \notin {"control", "bad"}
                              /\ mem[i] = "cont" <=> \E j \in 1 .. i - 1 : Covers(i, j)
  <1>7. wellFormed <=> \A k \in 0 + 1 .. m : Fits(mem, 0, k)
    <2>1. 0 + 1 = 1
      OBVIOUS
    <2>. HIDE DEF m
    <2>. QED BY <2>1, Zenon DEF Fits, In, Leads
  <1>8. nul # {} => m \in 1 .. N /\ mem[m] = "nul" /\ \A k \in 1 .. m - 1 : mem[k] # "nul"
    <2>. SUFFICES ASSUME nul # {} PROVE m \in 1 .. N /\ mem[m] = "nul" /\ \A k \in 1 .. m - 1 : mem[k] # "nul"
      OBVIOUS
    <2>1. nul \subseteq Nat
      BY <1>2
    <2>2. m \in nul /\ \A k \in nul : m <= k
      <3>. HIDE DEF nul
      <3>. QED BY <2>1, LeastNumber
    <2>3. \A k : k \in nul <=> k \in 1 .. N /\ mem[k] = "nul"
      BY <1>2
    <2>. HIDE DEF m, nul
    <2>4. ASSUME NEW k \in 1 .. m - 1 PROVE mem[k] # "nul"
      <3>1. k \in 1 .. N /\ ~(m <= k)
        BY <1>2, <2>2, <2>3
      <3>. QED BY <2>2, <2>3, <3>1
    <2>. QED BY <2>2, <2>3, <2>4
  <1>9. \A z : z \in 1 .. N /\ mem[z] = "nul" => z \in nul
    BY <1>2
  <1>10. TextFrom(mem, least, 0) <=> nul # {} /\ wellFormed /\ m - 1 >= least
    <2>. HIDE DEF nul, m, wellFormed
    <2>1. ASSUME TextFrom(mem, least, 0) PROVE nul # {} /\ wellFormed /\ m - 1 >= least
      <3>1. PICK z \in 0 + 1 .. N : EndsAt(mem, least, 0, z)
        BY <2>1 DEF TextFrom, N
      <3>2. z \in 1 .. N /\ mem[z] = "nul" /\ z - 1 >= least
        BY <3>1 DEF EndsAt
      <3>3. nul # {}
        BY <1>9, <3>2
      <3>4. m \in 1 .. N /\ mem[m] = "nul" /\ \A k \in 1 .. m - 1 : mem[k] # "nul"
        BY <1>8, <3>3
      <3>5. \A k \in 1 .. z - 1 : mem[k] # "nul"
        <4>1. 0 + 1 = 1
          OBVIOUS
        <4>. QED BY <3>1, <4>1, Zenon DEF EndsAt
      <3>6. m = z
        <4>1. CASE m < z
          <5>1. m \in 1 .. z - 1
            BY <3>2, <3>4, <4>1
          <5>. QED BY <3>4, <3>5, <5>1
        <4>2. CASE z < m
          <5>1. z \in 1 .. m - 1
            BY <3>2, <3>4, <4>2
          <5>. QED BY <3>2, <3>4, <5>1
        <4>. QED BY <3>2, <3>4, <4>1, <4>2
      <3>7. wellFormed
        BY <1>7, <3>1, <3>6, Zenon DEF EndsAt
      <3>. QED BY <3>2, <3>3, <3>6, <3>7
    <2>2. ASSUME nul # {}, wellFormed, m - 1 >= least PROVE TextFrom(mem, least, 0)
      BY <1>7, <1>8, <2>2 DEF EndsAt, TextFrom, N
    <2>. QED BY <2>1, <2>2
  <1>11. IsNullTerminatedUTF8String(mem, least) <=> nul # {} /\ wellFormed /\ m - 1 >= least
    <2>. HIDE DEF nul, m, wellFormed
    <2>. QED BY <1>6, <1>10, Zenon
  <1>. QED BY <1>11, Zenon DEF TextExact

-----------------------------------------------------------------------------
(* Escaping *)

\* One more piece.
LEMMA FlatAppend ==
    ASSUME NEW P, NEW q \in Seq(Seq(P)), NEW y \in Seq(P), FlattenSeq(q) \in Seq(P)
    PROVE  FlattenSeq(Append(q, y)) = FlattenSeq(q) \o y
  <1>. DEFINE a == Append(q, y)
              l == Len(q)
  <1>1. a \in Seq(Seq(P)) /\ Len(a) = l + 1 /\ a[l + 1] = y /\ \A i \in 1 .. l : a[i] = q[i]
    BY AppendProperties
  <1>2. l \in Nat
    BY LenProperties
  <1>. HIDE DEF a
  <1>3. PICK g : /\ FlattenSeq(a) = g[Len(a)] /\ g[1] = a[1]
                 /\ \A i \in 2 .. Len(a) : g[i] = g[i - 1] \o a[i]
    <2>1. Len(a) \in Nat \ {0}
      BY <1>1, <1>2
    <2>. QED BY <2>1, FlattenSteps, Zenon
  <1>4. CASE l = 0
    <2>1. q = <<>>
      BY <1>4, EmptySeq
    <2>2. FlattenSeq(q) = <<>>
      BY <2>1, EmptySeq DEF FlattenSeq
    <2>3. FlattenSeq(a) = y
      BY <1>1, <1>3, <1>4
    <2>4. <<>> \o y = y
      BY ConcatEmptySeq
    <2>. QED BY <2>2, <2>3, <2>4 DEF a
  <1>5. CASE l # 0
    <2>1. PICK f : /\ FlattenSeq(q) = f[l] /\ f[1] = q[1]
                   /\ \A i \in 2 .. l : f[i] = f[i - 1] \o q[i]
      BY <1>2, <1>5, FlattenSteps
    <2>. HIDE DEF l
    <2>. DEFINE A == {n \in 0 .. l - 1 : g[n + 1] = f[n + 1]}
    <2>2. 0 \in A
      BY <1>1, <1>2, <1>3, <1>5, <2>1
    <2>3. ASSUME NEW n \in 0 .. (l - 1) - 1, n \in A PROVE n + 1 \in A
      <3>. DEFINE i == (n + 1) + 1
      <3>1. i \in 2 .. l /\ i \in 2 .. l + 1 /\ i - 1 = n + 1 /\ i \in 1 .. l /\ n + 1 \in 0 .. l - 1
        BY <1>2
      <3>2. g[n + 1] = f[n + 1]
        BY <2>3
      <3>. HIDE DEF i
      <3>3. g[i] = g[i - 1] \o a[i] /\ f[i] = f[i - 1] \o q[i] /\ a[i] = q[i]
        BY <1>1, <1>3, <2>1, <3>1
      <3>4. g[i] = f[i]
        BY <3>1, <3>2, <3>3, Zenon
      <3>. QED BY <3>1, <3>4 DEF i
    <2>4. l - 1 \in Nat
      BY <1>2, <1>5
    <2>5. 0 .. l - 1 \subseteq A
      <3>. HIDE DEF A
      <3>. QED BY <2>2, <2>3, <2>4, UpToInduction
    <2>6. g[l] = f[l]
      BY <1>2, <2>4, <2>5
    <2>7. l + 1 \in 2 .. Len(a) /\ (l + 1) - 1 = l
      BY <1>1, <1>2, <1>5
    <2>8. g[l + 1] = g[l] \o y
      BY <1>1, <1>3, <2>7
    <2>. QED BY <1>1, <1>3, <2>1, <2>6, <2>8, Zenon DEF a
  <1>. QED BY <1>4, <1>5

\* What is put together of pieces is a sequence of what they are made of, and
\* two sequences of pieces can be put together one after the other.
LEMMA FlatConcat ==
    ASSUME NEW P
    PROVE  /\ FlattenSeq(<<>>) = <<>>
           /\ \A q \in Seq(Seq(P)) : FlattenSeq(q) \in Seq(P)
           /\ \A q, r \in Seq(Seq(P)) : FlattenSeq(q \o r) = FlattenSeq(q) \o FlattenSeq(r)
  <1>. DEFINE A == {n \in Nat : \A q \in Seq(Seq(P)) : Len(q) = n => FlattenSeq(q) \in Seq(P)}
              B == {n \in Nat : \A q, r \in Seq(Seq(P)) : Len(r) = n => FlattenSeq(q \o r) = FlattenSeq(q) \o FlattenSeq(r)}
  <1>1. FlattenSeq(<<>>) = <<>>
    BY EmptySeq DEF FlattenSeq
  <1>2. \A q \in Seq(Seq(P)) : Len(q) \in Nat /\ (Len(q) = 0 => q = <<>>)
    BY LenProperties, EmptySeq
  <1>3. ASSUME NEW n \in Nat, NEW q \in Seq(Seq(P)), Len(q) = n + 1
        PROVE  \E s \in Seq(Seq(P)), e \in Seq(P) : q = Append(s, e) /\ Len(s) = n
    <2>1. q # <<>>
      BY <1>3, EmptySeq
    <2>2. PICK s \in Seq(Seq(P)), e \in Seq(P) : q = Append(s, e)
      BY <2>1, SequenceEmptyOrAppend
    <2>3. Len(q) = Len(s) + 1
      BY <2>2, AppendProperties
    <2>4. Len(s) = n
      BY <1>2, <1>3, <2>3
    <2>. QED BY <2>2, <2>4
  <1>4. 0 \in A
    <2>1. <<>> \in Seq(P)
      BY EmptySeq
    <2>. QED BY <1>1, <1>2, <2>1
  <1>5. ASSUME NEW n \in Nat, n \in A PROVE n + 1 \in A
    <2>1. ASSUME NEW q \in Seq(Seq(P)), Len(q) = n + 1 PROVE FlattenSeq(q) \in Seq(P)
      <3>1. PICK s \in Seq(Seq(P)), e \in Seq(P) : q = Append(s, e) /\ Len(s) = n
        BY <1>3, <2>1
      <3>2. FlattenSeq(s) \in Seq(P)
        BY <1>5, <3>1
      <3>3. FlattenSeq(q) = FlattenSeq(s) \o e
        BY <3>1, <3>2, FlatAppend
      <3>. QED BY <3>2, <3>3, ConcatProperties
    <2>. QED BY <2>1
  <1>6. Nat \subseteq A
    <2>. HIDE DEF A
    <2>. QED BY <1>4, <1>5, NatSetInduction
  <1>7. \A q \in Seq(Seq(P)) : FlattenSeq(q) \in Seq(P)
    BY <1>2, <1>6
  <1>8. 0 \in B
    <2>1. ASSUME NEW q \in Seq(Seq(P)), NEW r \in Seq(Seq(P)), Len(r) = 0
          PROVE  FlattenSeq(q \o r) = FlattenSeq(q) \o FlattenSeq(r)
      BY <1>2, <2>1, ConcatEmptySeq, <1>7, <1>1
    <2>. QED BY <2>1
  <1>9. ASSUME NEW n \in Nat, n \in B PROVE n + 1 \in B
    <2>1. \A x, y, z \in Seq(P) : (x \o y) \o z = x \o (y \o z)
      BY ConcatAssociative
    <2>2. ASSUME NEW q \in Seq(Seq(P)), NEW r \in Seq(Seq(P)), Len(r) = n + 1
          PROVE  FlattenSeq(q \o r) = FlattenSeq(q) \o FlattenSeq(r)
      <3>1. PICK s \in Seq(Seq(P)), e \in Seq(P) : r = Append(s, e) /\ Len(s) = n
        BY <1>3, <2>2
      <3>2. FlattenSeq(q \o s) = FlattenSeq(q) \o FlattenSeq(s)
        BY <1>9, <3>1
      <3>3. q \o r = Append(q \o s, e)
        <4>1. r = s \o <<e>> /\ <<e>> \in Seq(Seq(P)) /\ q \o s \in Seq(Seq(P))
          BY <3>1, AppendIsConcat, ConcatProperties
        <4>2. q \o (s \o <<e>>) = (q \o s) \o <<e>>
          BY <4>1, ConcatAssociative
        <4>3. Append(q \o s, e) = (q \o s) \o <<e>>
          BY <4>1, AppendIsConcat
        <4>. QED BY <4>1, <4>2, <4>3, Zenon
      <3>4. q \o s \in Seq(Seq(P))
        BY ConcatProperties
      <3>5. FlattenSeq(q) \in Seq(P) /\ FlattenSeq(s) \in Seq(P) /\ FlattenSeq(q \o s) \in Seq(P)
        BY <1>7, <3>4
      <3>6. FlattenSeq(q \o r) = FlattenSeq(q \o s) \o e
        BY <3>3, <3>4, <3>5, FlatAppend
      <3>7. FlattenSeq(r) = FlattenSeq(s) \o e
        BY <3>1, <3>5, FlatAppend
      <3>8. (FlattenSeq(q) \o FlattenSeq(s)) \o e = FlattenSeq(q) \o (FlattenSeq(s) \o e)
        BY <2>1, <3>5, Zenon
      <3>. QED BY <3>2, <3>6, <3>7, <3>8, Zenon
    <2>. QED BY <2>2
  <1>10. Nat \subseteq B
    <2>. HIDE DEF B
    <2>. QED BY <1>8, <1>9, NatSetInduction
  <1>11. \A q, r \in Seq(Seq(P)) : FlattenSeq(q \o r) = FlattenSeq(q) \o FlattenSeq(r)
    BY <1>2, <1>10
  <1>. QED BY <1>1, <1>7, <1>11

\* What is written of units of text.
Pieces == Units \X Nat
UnitTexts == Seq(Units)
Escapes(s, o, n) == [i \in 1 .. n |-> Escaped(s[o + i])]
Out(s, o, n) == FlattenSeq(Escapes(s, o, n))

\* The characters of an escape, numbered.
Characters(u, n) == [i \in 1 .. n |-> <<u, i>>]
LEMMA CharactersType ==
    ASSUME NEW u \in Units, NEW n \in Nat
    PROVE  Characters(u, n) \in Seq(Pieces) /\ Len(Characters(u, n)) = n
  <1>. DEFINE e == Characters(u, n)
  <1>1. \A i \in 1 .. n : <<u, i>> \in Pieces
    BY DEF Pieces
  <1>2. e \in [1 .. n -> Pieces]
    BY <1>1 DEF Characters
  <1>. HIDE DEF e
  <1>3. e \in Seq(Pieces)
    BY <1>2, SeqDef
  <1>4. DOMAIN e = 1 .. n
    BY <1>2
  <1>5. Len(e) \in Nat /\ DOMAIN e = 1 .. Len(e)
    BY <1>3, LenProperties
  <1>. DEFINE l == Len(e)
  <1>. HIDE DEF l
  <1>6. l \in Nat /\ 1 .. l = 1 .. n
    BY <1>4, <1>5 DEF l
  <1>7. l = n
    BY <1>6
  <1>. QED BY <1>3, <1>7 DEF l, e

\* The escape of a unit.
LEMMA EscapedType ==
    ASSUME NEW u \in Units
    PROVE  /\ Escaped(u) \in Seq(Pieces) /\ Len(Escaped(u)) \in 1 .. 6
           /\ u = "plain" => Escaped(u) = << <<"plain", 1>> >>
  <1>. DEFINE e == Escaped(u)
  <1>1. CASE u = "plain"
    <2>1. e = Characters(u, 1)
      BY <1>1 DEF Escaped, Characters
    <2>2. e = << <<"plain", 1>> >>
      BY <1>1, <2>1 DEF Characters
    <2>. HIDE DEF e
    <2>3. e \in Seq(Pieces) /\ Len(e) = 1
      BY <2>1, CharactersType
    <2>. QED BY <2>2, <2>3 DEF e
  <1>2. CASE u \in {"quote", "letter"}
    <2>1. e = Characters(u, 2)
      BY <1>2 DEF Escaped, Characters
    <2>. HIDE DEF e
    <2>2. e \in Seq(Pieces) /\ Len(e) = 2
      BY <2>1, CharactersType
    <2>. QED BY <1>2, <2>2 DEF e
  <1>3. CASE u = "control"
    <2>1. e = Characters(u, 6)
      BY <1>3 DEF Escaped, Characters
    <2>. HIDE DEF e
    <2>2. e \in Seq(Pieces) /\ Len(e) = 6
      BY <2>1, CharactersType
    <2>. QED BY <1>3, <2>2 DEF e
  <1>. QED BY <1>1, <1>2, <1>3 DEF Units

\* The escapes of part of a text, one more, and of two parts.
LEMMA OutSteps ==
    ASSUME NEW s \in UnitTexts
    PROVE  /\ \A o \in Nat : Out(s, o, 0) = <<>>
           /\ \A o, n \in Nat : o + n <= Len(s) =>
                /\ Escapes(s, o, n) \in Seq(Seq(Pieces)) /\ Len(Escapes(s, o, n)) = n
                /\ Out(s, o, n) \in Seq(Pieces)
           /\ \A o, n \in Nat : o + (n + 1) <= Len(s) =>
                Out(s, o, n + 1) = Out(s, o, n) \o Escaped(s[o + (n + 1)])
           /\ \A o, n, k \in Nat : o + (n + k) <= Len(s) =>
                Out(s, o, n + k) = Out(s, o, n) \o Out(s, o + n, k)
  <1>1. Len(s) \in Nat
    BY LenProperties DEF UnitTexts
  <1>2. \A i \in 1 .. Len(s) : Escaped(s[i]) \in Seq(Pieces)
    <2>1. \A i \in 1 .. Len(s) : s[i] \in Units
      BY ElementOfSeq DEF UnitTexts
    <2>. QED BY <2>1, EscapedType
  <1>3. ASSUME NEW o \in Nat PROVE Out(s, o, 0) = <<>>
    <2>1. Escapes(s, o, 0) = <<>>
      BY DEF Escapes
    <2>. QED BY <2>1, FlatConcat DEF Out
  <1>4. ASSUME NEW o \in Nat, NEW n \in Nat, o + n <= Len(s)
        PROVE  /\ Escapes(s, o, n) \in Seq(Seq(Pieces)) /\ Len(Escapes(s, o, n)) = n
               /\ Out(s, o, n) \in Seq(Pieces)
    <2>1. \A i \in 1 .. n : o + i \in 1 .. Len(s)
      BY <1>1, <1>4
    <2>2. \A i \in 1 .. n : Escaped(s[o + i]) \in Seq(Pieces)
      BY <1>2, <2>1
    <2>3. Escapes(s, o, n) \in Seq(Seq(Pieces)) /\ Len(Escapes(s, o, n)) = n
      BY <2>2 DEF Escapes
    <2>. QED BY <2>3, FlatConcat DEF Out
  <1>5. ASSUME NEW o \in Nat, NEW n \in Nat, NEW k \in Nat, o + (n + k) <= Len(s)
        PROVE  Out(s, o, n + k) = Out(s, o, n) \o Out(s, o + n, k)
    <2>. DEFINE a == Escapes(s, o, n)
                b == Escapes(s, o + n, k)
                c == Escapes(s, o, n + k)
    <2>1. a \in Seq(Seq(Pieces)) /\ Len(a) = n /\ \A i \in 1 .. n : a[i] = Escaped(s[o + i])
      <3>1. o + n <= Len(s)
        BY <1>1, <1>5
      <3>2. \A i \in 1 .. n : a[i] = Escaped(s[o + i])
        BY DEF Escapes
      <3>. QED BY <1>4, <3>1, <3>2
    <2>2. b \in Seq(Seq(Pieces)) /\ Len(b) = k /\ \A i \in 1 .. k : b[i] = Escaped(s[o + n + i])
      <3>1. o + n \in Nat /\ o + n + k <= Len(s)
        BY <1>1, <1>5
      <3>2. \A i \in 1 .. k : b[i] = Escaped(s[o + n + i])
        BY DEF Escapes
      <3>. QED BY <1>4, <3>1, <3>2
    <2>3. c \in Seq(Seq(Pieces)) /\ Len(c) = n + k /\ \A i \in 1 .. n + k : c[i] = Escaped(s[o + i])
      <3>1. n + k \in Nat
        OBVIOUS
      <3>2. \A i \in 1 .. n + k : c[i] = Escaped(s[o + i])
        BY DEF Escapes
      <3>. QED BY <1>4, <1>5, <3>1, <3>2
    <2>. HIDE DEF a, b, c
    <2>4. /\ a \o b \in Seq(Seq(Pieces)) /\ Len(a \o b) = n + k
          /\ \A i \in 1 .. n + k : (a \o b)[i] = IF i <= n THEN a[i] ELSE b[i - n]
      BY <2>1, <2>2, ConcatProperties
    <2>5. ASSUME NEW i \in 1 .. n + k PROVE (a \o b)[i] = c[i]
      <3>1. CASE i <= n
        <4>1. i \in 1 .. n
          BY <3>1
        <4>. QED BY <2>1, <2>3, <2>4, <3>1, <4>1
      <3>2. CASE ~(i <= n)
        <4>1. i - n \in 1 .. k /\ o + n + (i - n) = o + i
          BY <3>2
        <4>2. (a \o b)[i] = b[i - n]
          BY <2>4, <3>2
        <4>3. b[i - n] = Escaped(s[o + n + (i - n)])
          BY <2>2, <4>1
        <4>. QED BY <2>3, <4>1, <4>2, <4>3
      <3>. QED BY <3>1, <3>2
    <2>6. a \o b = c
      BY <2>3, <2>4, <2>5, SeqEqual
    <2>7. FlattenSeq(a \o b) = FlattenSeq(a) \o FlattenSeq(b)
      BY <2>1, <2>2, FlatConcat
    <2>. QED BY <2>6, <2>7, Zenon DEF Out, a, b, c
  <1>6. ASSUME NEW o \in Nat, NEW n \in Nat, o + (n + 1) <= Len(s)
        PROVE  Out(s, o, n + 1) = Out(s, o, n) \o Escaped(s[o + (n + 1)])
    <2>. DEFINE e == Escaped(s[o + (n + 1)])
    <2>1. o + (n + 1) \in 1 .. Len(s)
      BY <1>1, <1>6
    <2>2. e \in Seq(Pieces)
      BY <1>2, <2>1
    <2>3. Out(s, o, n + 1) = Out(s, o, n) \o Out(s, o + n, 1)
      BY <1>5, <1>6
    <2>4. Out(s, o + n, 1) = e
      <3>1. Escapes(s, o + n, 1) = Append(<<>>, e)
        <4>1. (o + n) + 1 = o + (n + 1)
          OBVIOUS
        <4>2. Escapes(s, o + n, 1) = [i \in 1 .. 1 |-> e]
          <5>1. \A i \in 1 .. 1 : o + n + i = o + (n + 1)
            OBVIOUS
          <5>2. \A i \in 1 .. 1 : Escaped(s[o + n + i]) = e
            BY <5>1, Zenon
          <5>. HIDE DEF e
          <5>. QED BY <5>2 DEF Escapes
        <4>. HIDE DEF e
        <4>. QED BY <2>2, <4>2
      <3>2. FlattenSeq(<<>>) = <<>> /\ <<>> \in Seq(Pieces) /\ <<>> \in Seq(Seq(Pieces))
        BY FlatConcat, EmptySeq
      <3>. HIDE DEF e
      <3>3. FlattenSeq(Append(<<>>, e)) = FlattenSeq(<<>>) \o e
        BY <2>2, <3>2, FlatAppend
      <3>4. <<>> \o e = e
        BY <2>2, ConcatEmptySeq
      <3>. QED BY <3>1, <3>2, <3>3, <3>4, Zenon DEF Out
    <2>. QED BY <2>3, <2>4, Zenon
  <1>. QED BY <1>3, <1>4, <1>5, <1>6

\* Chunks of which none is too long.
Chunks(q) == /\ q \in Seq(Seq(Pieces)) /\ Len(q) # 0
             /\ \A c \in 1 .. Len(q) : Len(q[c]) <= WorkBufferSize

\* One more unit makes no chunk too long, and follows what was written.
LEMMA LongerFits ==
    ASSUME NEW q, Chunks(q), NEW e \in Seq(Pieces), Len(e) \in 1 .. 6
    PROVE  Chunks(Longer(q, e)) /\ FlattenSeq(Longer(q, e)) = FlattenSeq(q) \o e
  <1>. DEFINE l == Len(q)
              f == Front(q)
              d == q[l]
  <1>1. q \in Seq(Seq(Pieces)) /\ l \in Nat \ {0} /\ \A c \in 1 .. l : Len(q[c]) <= WorkBufferSize
    BY LenProperties DEF Chunks
  <1>2. d \in Seq(Pieces) /\ Len(d) \in Nat /\ Len(d) <= WorkBufferSize
    BY <1>1, ElementOfSeq, LenProperties
  <1>3. /\ f \in Seq(Seq(Pieces)) /\ Len(f) = l - 1
        /\ \A c \in 1 .. l - 1 : f[c] = q[c]
    <2>. DEFINE k == l - 1
    <2>1. k \in Int /\ 1 \in Int /\ k - 1 + 1 = k /\ (1 <= k => k = l - 1) /\ (~(1 <= k) => 0 = l - 1)
      <3>1. l \in Nat /\ l # 0
        BY <1>1
      <3>. HIDE DEF l
      <3>. QED BY <3>1
    <2>2. \A i \in 1 .. k : q[i] \in Seq(Pieces)
      BY <1>1, ElementOfSeq
    <2>3. f = SubSeq(q, 1, k)
      BY DEF Front
    <2>4. \A i \in 1 .. k : 1 + i - 1 = i
      OBVIOUS
    <2>. HIDE DEF f, k, l
    <2>5. /\ f \in Seq(Seq(Pieces)) /\ Len(f) = IF 1 <= k THEN k - 1 + 1 ELSE 0
          /\ \A i \in 1 .. k - 1 + 1 : f[i] = q[1 + i - 1]
      BY <2>1, <2>2, <2>3, SubSeqProperties
    <2>6. \A i \in 1 .. k : f[i] = q[i]
      BY <2>1, <2>4, <2>5
    <2>7. Len(f) = l - 1
      BY <2>1, <2>5
    <2>. QED BY <2>5, <2>6, <2>7 DEF k
  <1>4. WorkBufferSize \in Nat /\ WorkBufferSize >= 6 /\ Len(e) \in Nat /\ Len(e) <= 6
    <2>. DEFINE y == Len(e)
    <2>1. y \in 1 .. 6
      OBVIOUS
    <2>. HIDE DEF y
    <2>2. WorkBufferSize \in Nat /\ WorkBufferSize >= 6 /\ y \in Nat /\ y <= 6
      BY <2>1, ToolsAssumption
    <2>. QED BY <2>2 DEF y
  <1>5. CASE Len(d) + 6 > WorkBufferSize
    <2>. DEFINE r == Append(q, e)
    <2>1. Longer(q, e) = r
      BY <1>5 DEF Longer
    <2>2. r \in Seq(Seq(Pieces)) /\ Len(r) = l + 1 /\ r[l + 1] = e /\ \A c \in 1 .. l : r[c] = q[c]
      <3>. HIDE DEF l
      <3>. QED BY <1>1, AppendProperties DEF l
    <2>3. FlattenSeq(q) \in Seq(Pieces)
      BY <1>1, FlatConcat
    <2>4. FlattenSeq(r) = FlattenSeq(q) \o e
      BY <1>1, <2>3, FlatAppend
    <2>. HIDE DEF r
    <2>5. ASSUME NEW c \in 1 .. l + 1 PROVE Len(r[c]) <= WorkBufferSize
      <3>1. c = l + 1 \/ c \in 1 .. l
        BY <1>1
      <3>2. Len(e) <= WorkBufferSize
        <4>. DEFINE y == Len(e)
        <4>1. y \in Nat /\ y <= 6
          BY <1>4
        <4>. HIDE DEF y
        <4>2. y <= WorkBufferSize
          BY <1>4, <4>1
        <4>. QED BY <4>2 DEF y
      <3>. HIDE DEF l
      <3>. QED BY <1>1, <2>2, <3>1, <3>2, Zenon
    <2>6. Chunks(r)
      <3>. HIDE DEF l
      <3>1. Len(r) # 0
        BY <1>1, <2>2
      <3>. QED BY <2>2, <2>5, <3>1 DEF Chunks
    <2>. QED BY <2>1, <2>4, <2>6
  <1>6. CASE ~(Len(d) + 6 > WorkBufferSize)
    <2>. DEFINE g == d \o e
                r == Append(f, g)
    <2>1. Longer(q, e) = r
      BY <1>6 DEF Longer
    <2>2. g \in Seq(Pieces) /\ Len(g) = Len(d) + Len(e)
      BY <1>2, ConcatProperties
    <2>3. Len(g) <= WorkBufferSize
      <3>. DEFINE x == Len(d)
                  y == Len(e)
                  z == Len(g)
      <3>1. z = x + y /\ x \in Nat /\ y \in Nat /\ y <= 6 /\ ~(x + 6 > WorkBufferSize)
        BY <1>2, <1>4, <1>6, <2>2
      <3>. HIDE DEF x, y, z
      <3>2. z <= WorkBufferSize
        BY <1>4, <3>1
      <3>. QED BY <3>2 DEF z
    <2>. HIDE DEF d, f, g, l
    <2>4. r \in Seq(Seq(Pieces)) /\ Len(r) = l /\ r[l] = g /\ \A c \in 1 .. l - 1 : r[c] = f[c]
      BY <1>3, <2>2, AppendProperties, <1>1
    <2>5. FlattenSeq(f) \in Seq(Pieces) /\ FlattenSeq(q) = FlattenSeq(f) \o d
      <3>1. FlattenSeq(f) \in Seq(Pieces)
        BY <1>3, FlatConcat
      <3>2. q = Append(f, d)
        <4>. DEFINE a == Append(f, d)
        <4>1. a \in Seq(Seq(Pieces)) /\ Len(a) = Len(f) + 1 /\ a[Len(f) + 1] = d
              /\ \A c \in 1 .. Len(f) : a[c] = f[c]
          BY <1>2, <1>3, AppendProperties
        <4>. HIDE DEF a
        <4>2. Len(a) = l /\ a[l] = d /\ \A c \in 1 .. l - 1 : a[c] = q[c]
          <5>1. Len(f) + 1 = l
            BY <1>1, <1>3
          <5>. QED BY <1>3, <4>1, <5>1
        <4>3. \A c \in 1 .. l : q[c] = a[c]
          <5>1. \A c \in 1 .. l : c = l \/ c \in 1 .. l - 1
            BY <1>1
          <5>. QED BY <4>2, <5>1 DEF d
        <4>4. Len(q) = Len(a) /\ \A c \in 1 .. Len(q) : q[c] = a[c]
          BY <4>2, <4>3 DEF l
        <4>5. q = a
          BY <1>1, <4>1, <4>4, SeqEqual
        <4>. QED BY <4>5 DEF a
      <3>3. FlattenSeq(Append(f, d)) = FlattenSeq(f) \o d
        BY <1>2, <1>3, <3>1, FlatAppend
      <3>. QED BY <3>1, <3>2, <3>3, Zenon
    <2>6. FlattenSeq(r) = FlattenSeq(q) \o e
      <3>1. FlattenSeq(r) = FlattenSeq(f) \o g
        BY <1>3, <2>2, <2>5, FlatAppend
      <3>2. FlattenSeq(f) \o (d \o e) = (FlattenSeq(f) \o d) \o e
        BY <1>2, <2>5, ConcatAssociative
      <3>. QED BY <2>5, <3>1, <3>2, Zenon DEF g
    <2>7. Chunks(r)
      <3>. HIDE DEF r
      <3>1. ASSUME NEW c \in 1 .. l PROVE Len(r[c]) <= WorkBufferSize
        <4>1. c = l \/ c \in 1 .. l - 1
          BY <1>1
        <4>2. CASE c = l
          BY <2>3, <2>4, <4>2
        <4>3. CASE c \in 1 .. l - 1
          BY <1>1, <1>3, <2>4, <4>3
        <4>. QED BY <4>1, <4>2, <4>3
      <3>2. Len(r) # 0
        BY <1>1, <2>4
      <3>. QED BY <2>4, <3>1, <3>2 DEF Chunks
    <2>. QED BY <2>1, <2>6, <2>7
  <1>. QED BY <1>5, <1>6

\* The units that need no escape at the start of a text, copied as they are.
Start(t) == Max({n \in 0 .. Len(t) : \A i \in 1 .. n : t[i] = "plain"})
Copy(n) == << [j \in 1 .. n |-> <<"plain", 1>>] >>

\* The units at the start need no escape.
LEMMA StartPlain ==
    ASSUME NEW t \in UnitTexts
    PROVE  Start(t) \in 0 .. Len(t) /\ \A i \in 1 .. Start(t) : t[i] = "plain"
  <1>. DEFINE S == {n \in 0 .. Len(t) : \A i \in 1 .. n : t[i] = "plain"}
  <1>1. Len(t) \in Nat
    BY LenProperties DEF UnitTexts
  <1>2. 0 \in S
    BY <1>1
  <1>3. S \subseteq 0 .. Len(t) /\ S # {}
    BY <1>2
  <1>. HIDE DEF S
  <1>4. Max(S) \in S
    BY <1>1, <1>3, GreatestNumber
  <1>. QED BY <1>3, <1>4 DEF S, Start

\* A text is taken into chunks unit by unit.
LEMMA ChunkSteps ==
    ASSUME NEW t \in UnitTexts
    PROVE  \E f : /\ AppendEscapedString(t) = f[Len(t) + 1]
                  /\ \A i \in 1 .. Len(t) + 1 :
                       f[i] = IF i <= Start(t) + 1 THEN Copy(Start(t)) ELSE Longer(f[i - 1], Escaped(t[i - 1]))
  <1>. DEFINE L == Len(t) + 1
              p == Start(t)
              Works(g) == g = [i \in 1 .. L |-> IF i <= p + 1 THEN Copy(p) ELSE Longer(g[i - 1], Escaped(t[i - 1]))]
              f == CHOOSE g : Works(g)
  <1>1. AppendEscapedString(t) = f[L]
    BY DEF AppendEscapedString, Longer, Copy, Start
  <1>2. p \in Nat /\ L \in Nat /\ 1 \in {0, 1} /\ p + 1 \in Nat /\ 1 <= p + 1
    BY StartPlain, LenProperties DEF UnitTexts
  <1>3. \A u, i : Step("escape", t, u, i) = Longer(u, Escaped(t[i - 1]))
    BY DEF Step
  <1>. HIDE DEF L, p
  <1>4. PICK g : Recursive(g, "escape", t, Copy(p), 1, p + 1, L)
    BY <1>2, Recursion, Zenon
  <1>5. Works(g)
    <2>1. \A i \in 1 .. L : g[i] = IF i <= p + 1 THEN Copy(p) ELSE Longer(g[i - 1], Escaped(t[i - 1]))
      BY <1>2, <1>3, <1>4 DEF Recursive
    <2>. QED BY <1>4, <2>1 DEF Recursive
  <1>6. Works(f)
    <2>. HIDE DEF Works
    <2>. QED BY <1>5
  <1>. HIDE DEF f
  <1>7. \A i \in 1 .. L : f[i] = IF i <= p + 1 THEN Copy(p) ELSE Longer(f[i - 1], Escaped(t[i - 1]))
    BY <1>6
  <1>. QED BY <1>1, <1>7, Zenon DEF L, p

\* They are copied as one chunk.
LEMMA CopyRight ==
    ASSUME NEW t \in UnitTexts, Len(t) <= WorkBufferSize
    PROVE  Chunks(Copy(Start(t))) /\ FlattenSeq(Copy(Start(t))) = Out(t, 0, Start(t))
  <1>. DEFINE p == Start(t)
              c == [j \in 1 .. p |-> <<"plain", 1>>]
              N == Len(t)
  <1>1. p \in 0 .. N /\ \A i \in 1 .. p : t[i] = "plain"
    BY StartPlain
  <1>2. N \in Nat /\ N <= WorkBufferSize /\ WorkBufferSize \in Nat
    BY LenProperties, ToolsAssumption DEF UnitTexts
  <1>. HIDE DEF p, N
  <1>3. <<"plain", 1>> \in Pieces
    BY DEF Pieces, Units
  <1>4. c \in Seq(Pieces) /\ Len(c) = p
    <2>. DEFINE x == <<"plain", 1>>
    <2>1. x \in Pieces
      BY <1>3
    <2>. HIDE DEF x
    <2>2. c = [j \in 1 .. p |-> x]
      BY DEF x
    <2>. HIDE DEF c
    <2>. QED BY <1>1, <1>2, <2>1, <2>2
  <1>5. Len(c) <= WorkBufferSize
    <2>1. p <= WorkBufferSize
      BY <1>1, <1>2
    <2>. QED BY <1>4, <2>1
  <1>6. Copy(p) = <<c>>
    BY DEF Copy
  <1>. HIDE DEF c
  <1>7. Chunks(<<c>>)
    BY <1>4, <1>5 DEF Chunks
  <1>8. FlattenSeq(<<c>>) = c
    <2>1. FlattenSeq(<<>>) = <<>> /\ <<>> \in Seq(Pieces) /\ <<>> \in Seq(Seq(Pieces))
      BY FlatConcat, EmptySeq
    <2>2. FlattenSeq(Append(<<>>, c)) = FlattenSeq(<<>>) \o c
      BY <1>4, <2>1, FlatAppend
    <2>3. <<>> \o c = c
      BY <1>4, ConcatEmptySeq
    <2>4. Append(<<>>, c) = <<c>>
      BY <1>4
    <2>. QED BY <2>1, <2>2, <2>3, <2>4, Zenon
  <1>9. \A n \in 0 .. p : Out(t, 0, n) = SubSeq(c, 1, n)
    <2>. DEFINE A == {n \in 0 .. p : Out(t, 0, n) = SubSeq(c, 1, n)}
    <2>1. 0 \in A
      BY OutSteps, SubSeqEmpty, <1>1, <1>2
    <2>2. ASSUME NEW n \in 0 .. p - 1, n \in A PROVE n + 1 \in A
      <3>. DEFINE e == Escaped(t[0 + (n + 1)])
                  x == <<"plain", 1>>
      <3>1. n \in Nat /\ 0 \in Nat /\ 0 + (n + 1) = n + 1 /\ n + 1 \in 1 .. p /\ n + 1 <= N /\ n + 1 \in 0 .. p
        BY <1>1, <1>2
      <3>2. Out(t, 0, n + 1) = Out(t, 0, n) \o e
        <4>1. 0 + (n + 1) <= Len(t)
          BY <3>1 DEF N
        <4>. QED BY <3>1, <4>1, OutSteps
      <3>3. e = <<x>>
        BY <1>1, <3>1, EscapedType DEF Units
      <3>4. c[n + 1] = x
        BY <3>1 DEF c
      <3>5. x \in Pieces
        BY <1>3
      <3>6. Out(t, 0, n) = SubSeq(c, 1, n)
        BY <2>2
      <3>. HIDE DEF e, x
      <3>7. SubSeq(c, 1, n + 1) = SubSeq(c, 1, n) \o <<x>>
        BY <1>1, <1>2, <1>4, <3>1, <3>4, <3>5
      <3>. QED BY <3>1, <3>2, <3>3, <3>6, <3>7
    <2>. HIDE DEF A
    <2>3. p \in Nat
      BY <1>1, <1>2
    <2>4. 0 .. p \subseteq A
      BY <2>1, <2>2, <2>3, UpToInduction
    <2>. QED BY <2>4 DEF A
  <1>10. Out(t, 0, p) = c
    BY <1>1, <1>2, <1>4, <1>9
  <1>. QED BY <1>6, <1>7, <1>8, <1>10, Zenon DEF p

\* A text that fits the buffer is written in chunks that do, escape by escape.
LEMMA TextTaken ==
    ASSUME NEW t \in UnitTexts, Len(t) <= WorkBufferSize
    PROVE  Chunks(AppendEscapedString(t)) /\ FlattenSeq(AppendEscapedString(t)) = Out(t, 0, Len(t))
  <1>. DEFINE p == Start(t)
              N == Len(t)
  <1>1. PICK f : /\ AppendEscapedString(t) = f[N + 1]
                 /\ \A i \in 1 .. N + 1 :
                      f[i] = IF i <= p + 1 THEN Copy(p) ELSE Longer(f[i - 1], Escaped(t[i - 1]))
    BY ChunkSteps
  <1>2. p \in 0 .. N
    BY StartPlain
  <1>3. N \in Nat
    BY LenProperties DEF UnitTexts
  <1>. DEFINE Right(k) == Chunks(f[k + 1]) /\ FlattenSeq(f[k + 1]) = Out(t, 0, k)
              A == {d \in 0 .. N - p : Right(p + d)}
  <1>4. Right(p)
    <2>1. f[p + 1] = Copy(p)
      <3>. HIDE DEF p, N
      <3>1. p + 1 \in 1 .. N + 1 /\ p + 1 <= p + 1
        BY <1>2, <1>3
      <3>. QED BY <1>1, <3>1
    <2>. QED BY <2>1, CopyRight
  <1>. HIDE DEF p, N
  <1>5. ASSUME NEW k \in p .. N - 1, Right(k) PROVE Right(k + 1)
    <2>. DEFINE e == Escaped(t[k + 1])
    <2>1. /\ (k + 1) + 1 \in 1 .. N + 1 /\ ~((k + 1) + 1 <= p + 1) /\ (k + 1) + 1 - 1 = k + 1
          /\ k \in Nat /\ k + 1 \in 1 .. N /\ 0 + (k + 1) = k + 1 /\ k + 1 <= N /\ 0 \in Nat
      BY <1>2, <1>3
    <2>2. f[(k + 1) + 1] = Longer(f[k + 1], e)
      <3>. DEFINE i == (k + 1) + 1
      <3>1. i \in 1 .. N + 1 /\ ~(i <= p + 1) /\ i - 1 = k + 1
        BY <2>1
      <3>. HIDE DEF i
      <3>2. f[i] = Longer(f[i - 1], Escaped(t[i - 1]))
        BY <1>1, <3>1
      <3>. QED BY <3>1, <3>2, Zenon DEF i
    <2>3. e \in Seq(Pieces) /\ Len(e) \in 1 .. 6
      <3>1. t[k + 1] \in Units
        <4>1. k + 1 \in 1 .. Len(t)
          BY <2>1 DEF N
        <4>. QED BY <4>1, ElementOfSeq DEF UnitTexts
      <3>. QED BY <3>1, EscapedType
    <2>4. Out(t, 0, k + 1) = Out(t, 0, k) \o e
      <3>1. 0 + (k + 1) <= Len(t)
        BY <2>1 DEF N
      <3>2. Out(t, 0, k + 1) = Out(t, 0, k) \o Escaped(t[0 + (k + 1)])
        BY <2>1, <3>1, OutSteps
      <3>. QED BY <2>1, <3>2, Zenon
    <2>. HIDE DEF e
    <2>5. Chunks(Longer(f[k + 1], e)) /\ FlattenSeq(Longer(f[k + 1], e)) = FlattenSeq(f[k + 1]) \o e
      BY <1>5, <2>3, LongerFits
    <2>. QED BY <1>5, <2>2, <2>4, <2>5, Zenon
  <1>6. 0 .. N - p \subseteq A
    <2>1. N - p \in Nat
      BY <1>2, <1>3
    <2>2. 0 \in A
      <3>1. 0 \in 0 .. N - p /\ p + 0 = p
        BY <1>2, <1>3
      <3>. HIDE DEF Right
      <3>. QED BY <1>4, <3>1, Zenon
    <2>3. ASSUME NEW d \in 0 .. (N - p) - 1, d \in A PROVE d + 1 \in A
      <3>1. p + d \in p .. N - 1 /\ p + (d + 1) = (p + d) + 1 /\ d + 1 \in 0 .. N - p
        BY <1>2, <1>3
      <3>. HIDE DEF Right
      <3>2. Right(p + d)
        BY <2>3
      <3>3. Right((p + d) + 1)
        BY <1>5, <3>1, <3>2
      <3>. QED BY <3>1, <3>3, Zenon
    <2>. HIDE DEF A
    <2>. QED BY <2>1, <2>2, <2>3, UpToInduction
  <1>7. N - p \in 0 .. N - p /\ p + (N - p) = N
    BY <1>2, <1>3
  <1>8. Right(N)
    <2>. HIDE DEF Right
    <2>. QED BY <1>6, <1>7, Zenon
  <1>. QED BY <1>1, <1>8, Zenon DEF N

\* What is written from an offset on: g says it of what is behind a piece.
Piece(s, o) == LET toAdd == Min({Len(s) - o, WorkBufferSize})
               IN  AppendEscapedString(SubSeq(s, o + 1, o + toAdd))
Behind(s, o) == o + Min({Len(s) - o, WorkBufferSize})
Added(s, g, o) == IF o >= Len(s) THEN <<>> ELSE Piece(s, o) \o g[Behind(s, o)]

\* The piece is as long as the text or the buffer allows.
LEMMA PieceFits ==
    ASSUME NEW s \in UnitTexts, NEW o \in Nat, o < Len(s)
    PROVE  \E k \in Nat \ {0} : /\ Min({Len(s) - o, WorkBufferSize}) = k /\ Behind(s, o) = o + k
                                /\ k <= WorkBufferSize /\ o + k <= Len(s)
  <1>. DEFINE N == Len(s)
              k == Min({N - o, WorkBufferSize})
  <1>1. N \in Nat /\ o < N
    BY LenProperties DEF UnitTexts
  <1>. HIDE DEF N
  <1>2. WorkBufferSize \in Nat /\ WorkBufferSize >= 6
    BY ToolsAssumption
  <1>3. {N - o, WorkBufferSize} \subseteq Nat /\ {N - o, WorkBufferSize} # {}
    BY <1>1, <1>2
  <1>4. k \in {N - o, WorkBufferSize} /\ \A x \in {N - o, WorkBufferSize} : k <= x
    BY <1>3, LeastNumber
  <1>. HIDE DEF k
  <1>5. k \in Nat \ {0} /\ k <= WorkBufferSize /\ o + k <= N
    BY <1>1, <1>2, <1>4
  <1>6. Min({Len(s) - o, WorkBufferSize}) = k /\ Behind(s, o) = o + k
    BY DEF Behind, k, N
  <1>. QED BY <1>5, <1>6 DEF N

\* A text is written piece by piece.
LEMMA PieceSteps ==
    ASSUME NEW s \in UnitTexts
    PROVE  \E f : /\ AddEscapedString(s) = f[0]
                  /\ \A o \in Nat : f[o] = Added(s, f, o)
  <1>. DEFINE N == Len(s)
              Works(d, g) == g = [o \in Nat |-> IF o + d >= N THEN Added(s, g, o) ELSE <<>>]
              A == {d \in Nat : \E g : Works(d, g)}
              Unrolled(g) == g = [o \in Nat |-> Added(s, g, o)]
              f == CHOOSE f : Unrolled(f)
  <1>1. AddEscapedString(s) = f[0]
    BY Zenon DEF AddEscapedString, Added, Piece, Behind
  <1>2. N \in Nat
    BY LenProperties DEF UnitTexts
  <1>3. 0 \in A
    <2>. DEFINE g == [o \in Nat |-> <<>>]
    <2>1. ASSUME NEW o \in Nat PROVE (IF o + 0 >= N THEN Added(s, g, o) ELSE <<>>) = <<>>
      <3>1. CASE o + 0 >= N
        BY <3>1 DEF Added
      <3>. QED BY <3>1
    <2>. HIDE DEF N
    <2>2. g = [o \in Nat |-> IF o + 0 >= N THEN Added(s, g, o) ELSE <<>>]
      BY <2>1
    <2>. QED BY <2>2
  <1>. HIDE DEF N
  <1>4. ASSUME NEW d \in Nat, d \in A
        PROVE  d + 1 \in A
    <2>1. PICK g : Works(d, g)
      BY <1>4
    <2>2. \A o \in Nat : g[o] = IF o + d >= N THEN Added(s, g, o) ELSE <<>>
      BY <2>1
    <2>. DEFINE h == [o \in Nat |-> IF o + (d + 1) >= N THEN Added(s, g, o) ELSE <<>>]
    <2>3. ASSUME NEW k \in Nat, k + d >= N PROVE h[k] = g[k]
      <3>1. k + (d + 1) >= N
        BY <1>2, <2>3
      <3>. QED BY <2>2, <2>3, <3>1
    <2>4. ASSUME NEW o \in Nat
          PROVE  h[o] = IF o + (d + 1) >= N THEN Added(s, h, o) ELSE <<>>
      <3>1. CASE o + (d + 1) >= N
        <4>1. h[o] = Added(s, g, o)
          BY <3>1
        <4>. HIDE DEF h
        <4>2. Added(s, g, o) = Added(s, h, o)
          <5>1. CASE o >= Len(s)
            BY <5>1 DEF Added
          <5>2. CASE ~(o >= Len(s))
            <6>1. o < Len(s)
              BY <1>2, <5>2 DEF N
            <6>2. PICK k \in Nat \ {0} : Behind(s, o) = o + k
              BY <6>1, PieceFits
            <6>3. Behind(s, o) \in Nat /\ Behind(s, o) + d >= N
              BY <1>2, <3>1, <6>2
            <6>4. h[Behind(s, o)] = g[Behind(s, o)]
              BY <2>3, <6>3
            <6>. QED BY <5>2, <6>4, Zenon DEF Added
          <5>. QED BY <5>1, <5>2
        <4>. QED BY <3>1, <4>1, <4>2
      <3>. QED BY <3>1
    <2>. HIDE DEF h
    <2>5. h = [o \in Nat |-> h[o]]
      BY DEF h
    <2>6. Works(d + 1, h)
      BY <2>4, <2>5, Zenon
    <2>7. d + 1 \in Nat
      OBVIOUS
    <2>. HIDE DEF Works
    <2>. QED BY <2>6, <2>7
  <1>5. Nat \subseteq A
    <2>. HIDE DEF A
    <2>. QED BY <1>3, <1>4, NatSetInduction
  <1>6. PICK g : Works(N, g)
    BY <1>2, <1>5
  <1>7. \A o \in Nat : o + N >= N
    BY <1>2
  <1>8. Unrolled(g)
    BY <1>6, <1>7
  <1>9. Unrolled(f)
    BY <1>8
  <1>. HIDE DEF f
  <1>10. \A o \in Nat : f[o] = Added(s, f, o)
    BY <1>9
  <1>. QED BY <1>1, <1>10

\* A piece of a text is written as the part of the text it is.
LEMMA PieceTaken ==
    ASSUME NEW s \in UnitTexts, NEW o \in Nat, NEW k \in Nat \ {0}, k <= WorkBufferSize, o + k <= Len(s)
    PROVE  LET r == AppendEscapedString(SubSeq(s, o + 1, o + k))
           IN  Chunks(r) /\ FlattenSeq(r) = Out(s, o, k)
  <1>. DEFINE t == SubSeq(s, o + 1, o + k)
              r == AppendEscapedString(t)
  <1>1. t \in UnitTexts /\ Len(t) = k /\ \A i \in 1 .. k : t[i] = s[o + i]
    <2>1. Len(s) \in Nat /\ s \in Seq(Units)
      BY LenProperties DEF UnitTexts
    <2>2. \A i \in o + 1 .. o + k : i \in 1 .. Len(s)
      <3>. DEFINE N == Len(s)
      <3>1. N \in Nat /\ o + k <= N
        BY <2>1
      <3>. HIDE DEF N
      <3>2. \A i \in o + 1 .. o + k : i \in 1 .. N
        BY <3>1
      <3>. QED BY <3>2 DEF N
    <2>3. \A i \in o + 1 .. o + k : s[i] \in Units
      BY <2>1, <2>2, ElementOfSeq
    <2>4. /\ o + 1 \in Int /\ o + k \in Int /\ o + 1 <= o + k /\ (o + k) - (o + 1) + 1 = k
          /\ \A i \in 1 .. k : (o + 1) + i - 1 = o + i
      OBVIOUS
    <2>. DEFINE m == o + 1
                n == o + k
    <2>. HIDE DEF m, n, t
    <2>5. t = SubSeq(s, m, n)
      BY DEF t, m, n
    <2>6. \A i \in m .. n : s[i] \in Units
      BY <2>3 DEF m, n
    <2>7. m \in Int /\ n \in Int /\ m <= n /\ n - m + 1 = k /\ \A i \in 1 .. k : m + i - 1 = o + i
      BY <2>4 DEF m, n
    <2>8. /\ t \in Seq(Units) /\ Len(t) = IF m <= n THEN n - m + 1 ELSE 0
          /\ \A i \in 1 .. n - m + 1 : t[i] = s[m + i - 1]
      BY <2>5, <2>6, <2>7, SubSeqProperties
    <2>9. Len(t) = k
      BY <2>7, <2>8
    <2>10. \A i \in 1 .. k : t[i] = s[o + i]
      BY <2>7, <2>8
    <2>. QED BY <2>8, <2>9, <2>10 DEF UnitTexts
  <1>. HIDE DEF t
  <1>2. Chunks(r) /\ FlattenSeq(r) = Out(t, 0, k)
    BY <1>1, TextTaken
  <1>3. Out(t, 0, k) = Out(s, o, k)
    <2>1. \A i \in 1 .. k : t[0 + i] = s[o + i]
      BY <1>1
    <2>2. Escapes(t, 0, k) = Escapes(s, o, k)
      BY <2>1 DEF Escapes
    <2>. QED BY <2>2, Zenon DEF Out
  <1>. QED BY <1>2, <1>3, Zenon DEF t

\* Chunks of which none is too long, or none at all.
Fit(q) == q \in Seq(Seq(Pieces)) /\ \A c \in 1 .. Len(q) : Len(q[c]) <= WorkBufferSize

\* Chunks behind chunks.
LEMMA FitConcat ==
    ASSUME NEW q, NEW r, Fit(q), Fit(r)
    PROVE  Fit(q \o r)
  <1>. DEFINE l == Len(q)
              n == Len(r)
              a == q \o r
  <1>1. /\ q \in Seq(Seq(Pieces)) /\ r \in Seq(Seq(Pieces))
        /\ \A c \in 1 .. l : Len(q[c]) <= WorkBufferSize
        /\ \A c \in 1 .. n : Len(r[c]) <= WorkBufferSize
    BY DEF Fit
  <1>2. l \in Nat /\ n \in Nat
    BY <1>1, LenProperties
  <1>3. a \in Seq(Seq(Pieces)) /\ Len(a) = l + n /\ \A c \in 1 .. l + n : a[c] = IF c <= l THEN q[c] ELSE r[c - l]
    BY <1>1, ConcatProperties
  <1>. HIDE DEF a, l, n
  <1>4. ASSUME NEW c \in 1 .. l + n PROVE Len(a[c]) <= WorkBufferSize
    <2>1. CASE c <= l
      <3>1. c \in 1 .. l
        BY <2>1
      <3>2. a[c] = q[c]
        BY <1>3, <2>1
      <3>. QED BY <1>1, <3>1, <3>2
    <2>2. CASE ~(c <= l)
      <3>1. c - l \in 1 .. n
        BY <1>2, <2>2
      <3>2. a[c] = r[c - l]
        BY <1>3, <2>2
      <3>. QED BY <1>1, <3>1, <3>2
    <2>. QED BY <2>1, <2>2
  <1>5. Fit(a)
    BY <1>3, <1>4 DEF Fit
  <1>. QED BY <1>5 DEF a

\* A text is written whole, each unit by its escape, and no chunk is too long.
LEMMA EscapesFaithful ==
    ASSUME NEW s \in UnitTexts
    PROVE  EscapeFaithful(s)
  <1>. DEFINE N == Len(s)
  <1>1. PICK f : AddEscapedString(s) = f[0] /\ \A o \in Nat : f[o] = Added(s, f, o)
    BY PieceSteps
  <1>2. N \in Nat /\ DOMAIN s = 1 .. N
    BY LenProperties DEF UnitTexts
  <1>. HIDE DEF N
  <1>. DEFINE Right(o) == Fit(f[o]) /\ FlattenSeq(f[o]) = Out(s, o, N - o)
              B == {d \in 0 .. N : \A o \in N - d .. N : Right(o)}
  <1>3. Right(N)
    <2>1. f[N] = <<>>
      BY <1>1, <1>2 DEF N, Added
    <2>2. Fit(<<>>) /\ FlattenSeq(<<>>) = <<>>
      BY EmptySeq, FlatConcat DEF Fit
    <2>3. N - N = 0 /\ Out(s, N, 0) = <<>>
      BY <1>2, OutSteps
    <2>. QED BY <2>1, <2>2, <2>3, Zenon
  <1>4. ASSUME NEW o \in Nat, o < N, \A i \in o + 1 .. N : Right(i)
        PROVE  Right(o)
    <2>1. o < Len(s)
      BY <1>4 DEF N
    <2>2. PICK k \in Nat \ {0} : /\ Min({Len(s) - o, WorkBufferSize}) = k /\ Behind(s, o) = o + k
                                 /\ k <= WorkBufferSize /\ o + k <= Len(s)
      BY <2>1, PieceFits
    <2>. DEFINE r == AppendEscapedString(SubSeq(s, o + 1, o + k))
    <2>3. Chunks(r) /\ FlattenSeq(r) = Out(s, o, k)
      BY <2>2, PieceTaken
    <2>4. f[o] = r \o f[o + k]
      <3>1. ~(o >= Len(s))
        BY <1>2, <1>4 DEF N
      <3>2. Piece(s, o) = r
        BY <2>2, Zenon DEF Piece
      <3>3. Added(s, f, o) = Piece(s, o) \o f[Behind(s, o)]
        BY <3>1, Zenon DEF Added
      <3>. QED BY <1>1, <2>2, <3>2, <3>3, Zenon
    <2>. HIDE DEF r
    <2>5. o + k \in o + 1 .. N
      BY <1>2, <2>2 DEF N
    <2>6. Right(o + k)
      <3>. HIDE DEF Right
      <3>. QED BY <1>4, <2>5
    <2>7. Fit(f[o])
      <3>1. Fit(r) /\ Fit(f[o + k])
        BY <2>3, <2>6 DEF Chunks, Fit
      <3>. QED BY <2>4, <3>1, FitConcat
    <2>8. FlattenSeq(f[o]) = Out(s, o, k) \o Out(s, o + k, N - (o + k))
      <3>1. r \in Seq(Seq(Pieces)) /\ f[o + k] \in Seq(Seq(Pieces))
        BY <2>3, <2>6 DEF Chunks, Fit
      <3>2. FlattenSeq(r \o f[o + k]) = FlattenSeq(r) \o FlattenSeq(f[o + k])
        BY <3>1, FlatConcat
      <3>. QED BY <2>3, <2>4, <2>6, <3>2, Zenon
    <2>9. Out(s, o, k) \o Out(s, o + k, N - (o + k)) = Out(s, o, N - o)
      <3>. DEFINE j == N - (o + k)
      <3>1. j \in Nat /\ k \in Nat /\ k + j = N - o /\ o + (k + j) = N
        BY <1>2, <2>5
      <3>. HIDE DEF j
      <3>2. o + (k + j) <= Len(s)
        BY <1>2, <3>1 DEF N
      <3>3. Out(s, o, k + j) = Out(s, o, k) \o Out(s, o + k, j)
        <4>1. \A u, n, m \in Nat : u + (n + m) <= Len(s) => Out(s, u, n + m) = Out(s, u, n) \o Out(s, u + n, m)
          BY OutSteps
        <4>. QED BY <3>1, <3>2, <4>1
      <3>. QED BY <3>1, <3>3, Zenon DEF j
    <2>. QED BY <2>7, <2>8, <2>9, Zenon
  <1>5. 0 .. N \subseteq B
    <2>1. 0 \in B
      <3>1. 0 \in 0 .. N /\ \A o \in N - 0 .. N : o = N
        BY <1>2
      <3>. HIDE DEF Right
      <3>. QED BY <1>3, <3>1, Zenon
    <2>2. ASSUME NEW d \in 0 .. N - 1, d \in B PROVE d + 1 \in B
      <3>. DEFINE o == N - (d + 1)
      <3>1. /\ o \in Nat /\ o < N /\ d + 1 \in 0 .. N
            /\ \A i \in o + 1 .. N : i \in N - d .. N
            /\ \A i \in o .. N : i = o \/ i \in N - d .. N
        BY <1>2
      <3>. HIDE DEF Right
      <3>2. \A i \in N - d .. N : Right(i)
        BY <2>2
      <3>. HIDE DEF o
      <3>3. Right(o)
        BY <1>4, <3>1, <3>2
      <3>4. \A i \in o .. N : Right(i)
        BY <3>1, <3>2, <3>3, Zenon
      <3>. QED BY <3>1, <3>4 DEF o
    <2>. HIDE DEF B
    <2>. QED BY <1>2, <2>1, <2>2, UpToInduction
  <1>6. Right(0)
    <2>1. N \in 0 .. N /\ 0 \in N - N .. N
      BY <1>2
    <2>. HIDE DEF Right
    <2>2. N \in B
      BY <1>5, <2>1, Zenon
    <2>. QED BY <2>1, <2>2, Zenon
  <1>7. FlattenSeq([i \in DOMAIN s |-> Escaped(s[i])]) = Out(s, 0, N - 0)
    <2>1. [i \in DOMAIN s |-> Escaped(s[i])] = Escapes(s, 0, N - 0)
      BY <1>2 DEF Escapes
    <2>. QED BY <2>1, Zenon DEF Out
  <1>. DEFINE chunks == AddEscapedString(s)
  <1>8. \A c \in DOMAIN chunks : Len(chunks[c]) <= WorkBufferSize
    <2>1. Fit(chunks)
      BY <1>1, <1>6, Zenon
    <2>2. DOMAIN chunks = 1 .. Len(chunks)
      BY <2>1, LenProperties DEF Fit
    <2>. HIDE DEF chunks
    <2>. QED BY <2>1, <2>2, Zenon DEF Fit
  <1>9. FlattenSeq(chunks) = FlattenSeq([i \in DOMAIN s |-> Escaped(s[i])])
    BY <1>1, <1>6, <1>7, Zenon
  <1>. QED BY <1>8, <1>9, Zenon DEF EscapeFaithful

\* Any memory is taken for text exactly if it is well-formed text with an end,
\* however long it must be; and any text is written whole, each unit by its
\* escape and in order, in chunks that fit a work buffer of any size.
THEOREM TextsAlwaysFaithful == Spec => []TextsFaithful
  <1>1. TextsFaithful
    <2>1. \A mem \in Memories : TextExact(mem, MinStringLength)
      BY ReportAssumption, TextsExact
    <2>2. \A s \in Strings : EscapeFaithful(s)
      <3>1. \A s \in Strings : s \in UnitTexts
        BY ReportAssumption DEF UnitTexts
      <3>. QED BY <3>1, EscapesFaithful
    <2>. QED BY <2>1, <2>2, Zenon DEF TextsFaithful
  <1>. QED BY <1>1, PTL

\* Both: whatever memory a process leaves, what the report says of it is so.
THEOREM ToolsAlwaysFaithful == Spec => []ToolsFaithful
  BY StacksAlwaysHonest, TextsAlwaysFaithful, PTL DEF ToolsFaithful
=============================================================================
