---------------------------- MODULE Breadcrumbs ----------------------------
(***************************************************************************)
(* Breadcrumbs (BugsnagBreadcrumbs.m): each is a file with a number of its *)
(* own; the crash handler finds the files by two numbers in a global       *)
(* context, which it reads without a lock.  Files of the previous launch   *)
(* are deleted when the client starts, before anyone can add.              *)
(***************************************************************************)
EXTENDS Integers, Sequences, FiniteSets, SequencesExt

CONSTANTS
  maxBreadcrumbs,
  Writer,          \* threads that add breadcrumbs
  MaxNumber        \* the file numbers a behaviour may use (a bound)

ASSUME CrumbsAssumption == maxBreadcrumbs \in Nat /\ MaxNumber \in Nat /\ "free" \notin Writer

Old == -1          \* the content of a file of the previous launch
None == -2         \* there is no such file

VARIABLES
  nextFileNumber,        \* self.nextFileNumber
  first, next,           \* g_context
  files,                 \* of each number, the breadcrumb in its file
  writer,                \* what each thread is at
  lock,                  \* the thread in @synchronized(self), or "free"
  started,               \* removeAllBreadcrumbs: "resetting", "deleting", then "done",
                         \* or "undeleted" if files could not be deleted
  added                  \* history: the breadcrumbs whose add has written its file

crumbVars == <<nextFileNumber, first, next, files, writer, lock, started, added>>

Numbers == 0 .. MaxNumber
Resting == [at |-> "idle", n |-> 0]

CrumbsTypeOK ==
  /\ nextFileNumber \in 0 .. MaxNumber + 1
  /\ first \in Numbers /\ next \in 0 .. MaxNumber + 1 /\ first <= next
  /\ files \in [Numbers -> Numbers \cup {Old, None}]
  /\ writer \in [Writer -> [at : {"idle", "numbering", "writing", "deleting"}, n : Numbers]]
  /\ lock \in Writer \cup {"free"}
  /\ started \in {"resetting", "deleting", "done", "undeleted"}
  /\ added \subseteq Numbers

CrumbsInit ==
  /\ nextFileNumber = 0 /\ first = 0 /\ next = 0
  /\ \E old \in SUBSET (Numbers \cap 0 .. maxBreadcrumbs - 1) :
       files = [n \in Numbers |-> IF n \in old THEN Old ELSE None]
  /\ writer = [t \in Writer |-> Resting]
  /\ lock = "free"
  /\ started = "resetting"
  /\ added = {}

-----------------------------------------------------------------------------
(* -[BugsnagClient start].  What cannot be deleted stays. *)
RemoveAllBreadcrumbs ==
  /\ \/ /\ started = "resetting"
        /\ nextFileNumber' = 0 /\ first' = 0 /\ next' = 0
        /\ started' = "deleting"
        /\ UNCHANGED files
     \/ /\ started = "deleting"
        /\ \E left \in SUBSET {n \in Numbers : files[n] = Old} :
             /\ files' = [n \in Numbers |-> IF n \in left THEN Old ELSE None]
             /\ started' = IF left = {} THEN "done" ELSE "undeleted"
        /\ UNCHANGED <<nextFileNumber, first, next>>
  /\ UNCHANGED <<writer, lock, added>>

(* Mutant: the range is empty until the number is published. *)
MutTakeNumber(t) ==
  /\ started \in {"done", "undeleted"} /\ maxBreadcrumbs # 0
  /\ writer[t] = Resting /\ lock = "free"
  /\ nextFileNumber <= MaxNumber
  /\ lock' = t
  /\ nextFileNumber' = nextFileNumber + 1
  /\ first' = IF nextFileNumber + 1 > maxBreadcrumbs THEN nextFileNumber + 1 ELSE first
  /\ writer' = [writer EXCEPT ![t] = [at |-> "numbering", n |-> nextFileNumber]]
  /\ UNCHANGED <<next, files, started, added>>

(* In the lock the number is taken and the first number moved on ...       *)
TakeNumber(t) ==
  /\ started \in {"done", "undeleted"} /\ maxBreadcrumbs # 0
  /\ writer[t] = Resting /\ lock = "free"
  /\ nextFileNumber <= MaxNumber
  /\ lock' = t
  /\ nextFileNumber' = nextFileNumber + 1
  /\ first' = IF nextFileNumber + 1 > maxBreadcrumbs THEN nextFileNumber + 1 - maxBreadcrumbs ELSE first
  /\ writer' = [writer EXCEPT ![t] = [at |-> "numbering", n |-> nextFileNumber]]
  /\ UNCHANGED <<next, files, started, added>>

(* ... and then the next one. *)
PublishNumber(t) ==
  /\ writer[t].at = "numbering"
  /\ next' = writer[t].n + 1
  /\ lock' = "free"
  /\ writer' = [writer EXCEPT ![t].at = "writing"]
  /\ UNCHANGED <<nextFileNumber, first, files, started, added>>

(* An atomic write; the next step, if there is one, deletes the file that  *)
(* has left the range.  A write that fails is logged.                      *)
WriteCrumb(t) ==
  /\ writer[t].at = "writing"
  /\ \/ /\ files' = [files EXCEPT ![writer[t].n] = writer[t].n]
        /\ added' = added \cup {writer[t].n}
        /\ writer' = [writer EXCEPT ![t] = IF @.n >= maxBreadcrumbs THEN [at |-> "deleting", n |-> @.n]
                                            ELSE Resting]
     \/ /\ writer' = [writer EXCEPT ![t] = Resting]
        /\ UNCHANGED <<files, added>>
  /\ UNCHANGED <<nextFileNumber, first, next, lock, started>>

(* Mutant: one number too far. *)
MutDeleteOldCrumb(t) ==
  /\ writer[t].at = "deleting"
  /\ files' = [files EXCEPT ![writer[t].n - maxBreadcrumbs + 1] = None]
  /\ writer' = [writer EXCEPT ![t] = Resting]
  /\ UNCHANGED <<nextFileNumber, first, next, lock, started, added>>

DeleteOldCrumb(t) ==
  /\ writer[t].at = "deleting"
  /\ files' \in {files, [files EXCEPT ![writer[t].n - maxBreadcrumbs] = None]}
  /\ writer' = [writer EXCEPT ![t] = Resting]
  /\ UNCHANGED <<nextFileNumber, first, next, lock, started, added>>

CrumbsNext ==
  \/ RemoveAllBreadcrumbs
  \/ \E t \in Writer : TakeNumber(t) \/ PublishNumber(t) \/ WriteCrumb(t) \/ DeleteOldCrumb(t)

-----------------------------------------------------------------------------
(* The files BugsnagBreadcrumbsWriteCrashReport tries, in order; what it   *)
(* finds is copied into the report.                                        *)
CrumbFiles == [i \in 1 .. next - first |-> files[first + i - 1]]
CrumbsInReport ==
  LET read[i \in 0 .. Len(CrumbFiles)] ==
        IF i = 0 THEN <<>>
        ELSE IF CrumbFiles[i] # None THEN Append(read[i - 1], CrumbFiles[i]) ELSE read[i - 1]
  IN  read[Len(CrumbFiles)]

(* A crash at any moment finds every breadcrumb that has been written and  *)
(* is one of the last maxBreadcrumbs numbers, in the order of the numbers, *)
(* and no other than those, unless one of the previous launch could not be *)
(* deleted.                                                                *)
CrumbsKept ==
  LET recent == {n \in Numbers : n >= nextFileNumber - maxBreadcrumbs}
      found == {i \in DOMAIN CrumbFiles : CrumbFiles[i] \notin {Old, None}}
  IN  /\ {CrumbFiles[i] : i \in found} = added \cap recent
      /\ \A i, j \in found : i < j => CrumbFiles[i] < CrumbFiles[j]
      /\ started # "undeleted" => \A i \in DOMAIN CrumbFiles : CrumbFiles[i] # Old
=============================================================================
